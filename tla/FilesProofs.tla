--------------------------- MODULE FilesProofs --------------------------------
(* Proofs about what is kept in files.  The file tools and their ledger        *)
(* (FileTools), for any texts, operations and bounds: a tool decides on what   *)
(* its caller was told, and refuses nothing as stale that is not.  The files   *)
(* of a conversation (MessageStore), for any numbers of turns, calls, crashes, *)
(* compactions and undos: numbers are fresh, what was sent is archived, and    *)
(* what is read back is answered.  The updates (UpdateApply), for any payloads *)
(* and releases: no file is lost, what is committed is installed, the two      *)
(* sides speak one protocol, and what is undone is as it was.                  *)
EXTENDS FileTools, MessageStore, UpdateApply, FiniteSetTheorems, SequenceTheorems,
        WellFoundedInduction, TLAPS

-----------------------------------------------------------------------------
(* The engine reports nothing about the ledger.                               *)

EngineCodes == {"ok", "NO_MATCH", "AMBIGUOUS_MATCH", "OP_ERROR", "LINE_MISMATCH", "CROSS_CHECK"}

Located(at) == at.code \in EngineCodes

LEMMA FailOrFound ==
    /\ \A code \in EngineCodes : Located(Fail(code))
    /\ \A start, win, fuzzy : Located(Found(start, win, fuzzy))
BY DEF Located, Fail, Found, EngineCodes

LEMMA DisambiguateOpCodes ==
    ASSUME NEW file, NEW op, NEW found, NEW pattern
    PROVE  Located(DisambiguateOp(file, op, found, pattern))
BY FailOrFound DEF DisambiguateOp, Chosen, EngineCodes

LEMMA LocateLineWindowCodes ==
    ASSUME NEW file, NEW op
    PROVE  Located(LocateLineWindow(file, op))
<1> DEFINE pattern == IF op.oldLines # <<>> THEN op.oldLines ELSE MultilineStringLines(op.old)
<1>1. Located(DisambiguateOp(file, op, FindWindows(file, pattern, op.fuzzy), pattern))
  BY DisambiguateOpCodes
<1>2. LocateLineWindow(file, op) \in
         {Fail("OP_ERROR"), Fail("NO_MATCH"),
          DisambiguateOp(file, op, FindWindows(file, pattern, op.fuzzy), pattern)}
  BY DEF LocateLineWindow
<1> QED BY <1>1, <1>2, FailOrFound DEF EngineCodes

LEMMA LocateRegexCodes ==
    ASSUME NEW file, NEW op
    PROVE  Located(LocateRegex(file, op))
BY FailOrFound DEF LocateRegex, EngineCodes

LEMMA LocateLinesCodes ==
    ASSUME NEW file, NEW op
    PROVE  Located(LocateLines(file, op))
BY FailOrFound DEF LocateLines, EngineCodes

LEMMA CrossCheckCodes ==
    ASSUME NEW file, NEW s, NEW lines, Located(lines)
    PROVE  Located(CrossCheck(file, s, lines))
BY FailOrFound DEF CrossCheck, EngineCodes

LEMMA LocateSubstringCodes ==
    ASSUME NEW file, NEW op
    PROVE  Located(LocateSubstring(file, op))
<1> DEFINE s == op.old[1]
           hit == DisambiguateMatch(file, op, Hits(file, s), 1)
<1>1. Located(CrossCheck(file, s, LocateLineWindow(file, op)))
  BY LocateLineWindowCodes, CrossCheckCodes
<1>2. Located(DisambiguateOp(file, op, FindWindows(file, <<s>>, op.fuzzy), <<s>>))
  BY DisambiguateOpCodes
<1>3. Located(ChosenHit(file, s, hit))
  BY FailOrFound DEF ChosenHit, EngineCodes
<1>4. LocateSubstring(file, op) \in
         {CrossCheck(file, s, LocateLineWindow(file, op)), Found(Min(Hits(file, s)), 1, FALSE),
          Fail("AMBIGUOUS_MATCH"), ChosenHit(file, s, hit),
          DisambiguateOp(file, op, FindWindows(file, <<s>>, op.fuzzy), <<s>>)}
  BY DEF LocateSubstring
<1> QED BY <1>1, <1>2, <1>3, <1>4, FailOrFound DEF EngineCodes

\* What an operation reports.
LEMMA ApplyOpCodes ==
    ASSUME NEW file, NEW op
    PROVE  ApplyOp(file, op).code \in EngineCodes
<1>1. Located(LocateOp(file, op))
  <2>1. LocateOp(file, op) \in
           {Fail("OP_ERROR"), LocateRegex(file, op), LocateLines(file, op),
            LocateSubstring(file, op), LocateLineWindow(file, op)}
    BY DEF LocateOp
  <2> QED BY <2>1, FailOrFound, LocateRegexCodes, LocateLinesCodes, LocateSubstringCodes,
             LocateLineWindowCodes DEF EngineCodes
<1>2. AppliedAt(file, op, LocateOp(file, op)).code \in EngineCodes
  BY <1>1 DEF AppliedAt, Located
<1>3. AppliedToAll(file, op).code \in EngineCodes
  BY DEF AppliedToAll, EngineCodes
<1> QED BY <1>2, <1>3 DEF ApplyOp

\* An operation that is stale says so because the ledger does.
LEMMA OpResultCodes ==
    ASSUME NEW op
    PROVE  /\ OpResult(op).code \in Codes
           /\ OpResult(op).code = "STALE_FILE" => BlindGuard(op) = "STALE_FILE"
           /\ OpResult(op).code = "ok" => BlindGuard(op) = "ok"
<1>1. ApplyOp(call.view, op).code \in EngineCodes
  BY ApplyOpCodes
<1>2. BlindGuard(op) \in {"ok", "UNVERIFIED_LINE_EDIT", "STALE_FILE"}
  BY DEF BlindGuard
<1>3. CASE BlindGuard(op) = "ok"
  BY <1>1, <1>3 DEF OpResult, EngineCodes, Codes
<1>4. CASE BlindGuard(op) # "ok"
  BY <1>2, <1>4 DEF OpResult, Codes
<1> QED BY <1>3, <1>4

-----------------------------------------------------------------------------
(* The invariant.                                                             *)

Mutators == {"write", "append", "delete"}
Running == call.tool \in {"edit"} \cup Mutators

CallTyped ==
  /\ call = [tool |-> call.tool, base |-> call.base, known |-> call.known, hash |-> call.hash,
             edit |-> call.edit, view |-> call.view, codes |-> call.codes]
  /\ call.tool \in {"idle", "edit", "done"} \cup Mutators
  /\ call.hash \in HashArgs
  /\ call.codes \in Seq(Codes)
  /\ call.tool = "edit" => call.edit \in Edits /\ Len(call.codes) <= Len(call.edit.ops)
  /\ call.tool \in Mutators => call.codes = <<>>
  /\ call.tool = "idle" => call = Idle

TextsTyped ==
  /\ \A x \in {disk, ledger, told} : x.is \/ x.text = <<>>
  /\ told = [is |-> told.is, text |-> told.text, hash |-> told.hash, apart |-> told.apart]

(* The ledger has what the caller was told last, unless it was moved apart.   *)
LedgerIsTold == ledger.is /\ ~told.apart => told.is /\ ledger.text = told.text

(* So has what a call has read of it: the caller is told nothing while it runs. *)
KnownIsTold == Running /\ call.known.is /\ ~told.apart => told.is /\ call.known.text = told.text

(* A call with a hash runs on the text the hash is of.                        *)
HashIsTold == Running /\ call.hash = "told" => told.is /\ call.base = told.text

(* Without one it has looked at the ledger: an edit at each operation by line *)
(* numbers, the others once.                                                  *)
KnownAgrees == call.known.text = call.base

BlindIsChecked ==
  call.tool = "edit" =>
    \A k \in DOMAIN call.codes :
      call.codes[k] = "ok" /\ Blind(call.edit.ops[k])
        => call.hash # "none" \/ (call.known.is /\ KnownAgrees)

MutatorsAreChecked ==
  call.tool \in Mutators => call.hash = "told" \/ (call.known.is => KnownAgrees)

IInv == CallTyped /\ TextsTyped /\ LedgerIsTold /\ KnownIsTold /\ HashIsTold /\ BlindIsChecked
          /\ MutatorsAreChecked

-----------------------------------------------------------------------------
(* Calls.                                                                     *)

LEMMA RefusedTyped ==
    ASSUME NEW code \in Codes
    PROVE  /\ Refused(code).tool = "done" /\ Refused(code).codes = <<code>>
           /\ <<code>> \in Seq(Codes) /\ <<code>> # <<>>
           /\ Refused(code).hash \in HashArgs
           /\ Refused(code) = [tool |-> Refused(code).tool, base |-> Refused(code).base,
                               known |-> Refused(code).known, hash |-> Refused(code).hash,
                               edit |-> Refused(code).edit, view |-> Refused(code).view,
                               codes |-> Refused(code).codes]
<1> PICK edit, codes : /\ codes = <<code>>
                       /\ Idle = [tool |-> "idle", base |-> <<>>, known |-> NoText, hash |-> "none",
                                  edit |-> edit, view |-> <<>>, codes |-> <<>>]
  BY DEF Idle
<1>1. Refused(code) = [tool |-> "done", base |-> <<>>, known |-> NoText, hash |-> "none",
                       edit |-> edit, view |-> <<>>, codes |-> codes]
  <2>1. Refused(code) = [Idle EXCEPT !.tool = "done", !.codes = codes]
    BY DEF Refused
  <2> QED BY <2>1
<1>2. <<code>> \in Seq(Codes) /\ <<code>> # <<>>
  OBVIOUS
<1> QED BY <1>1, <1>2 DEF HashArgs

(* A call that does not run has nothing to keep but its type.                 *)
LEMMA NotRunning ==
    ASSUME ~Running'
    PROVE  KnownIsTold' /\ HashIsTold' /\ BlindIsChecked' /\ MutatorsAreChecked'
BY DEF Running, KnownIsTold, HashIsTold, BlindIsChecked, MutatorsAreChecked

LEMMA IdleOrRefused ==
    ASSUME call' = Idle \/ \E code \in Codes : call' = Refused(code)
    PROVE  CallTyped' /\ ~Running'
<1>1. CASE call' = Idle
  <2>1. Idle.codes \in Seq(Codes)
    BY EmptySeq DEF Idle
  <2> QED BY <1>1, <2>1 DEF Idle, CallTyped, Running, Mutators, HashArgs
<1>2. ASSUME NEW code \in Codes, call' = Refused(code) PROVE CallTyped' /\ ~Running'
  BY <1>2, RefusedTyped DEF CallTyped, Running, Mutators
<1> QED BY <1>1, <1>2

-----------------------------------------------------------------------------
(* The steps.                                                                 *)

(* The steps that leave no call running and the caller told of what the       *)
(* ledger has, or the two apart.                                              *)
LEMMA Quiet ==
    ASSUME TextsTyped, call' = Idle, disk'.is \/ disk'.text = <<>>,
           \/ \E t, h : ledger' = Text(t) /\ told' = [is |-> TRUE, text |-> t, hash |-> h, apart |-> FALSE]
           \/ (ledger' = disk' \/ \E t : ledger' = Text(t)) /\ told' = [told EXCEPT !.apart = TRUE]
    PROVE  IInv'
<1>1. CallTyped' /\ KnownIsTold' /\ HashIsTold' /\ BlindIsChecked' /\ MutatorsAreChecked'
  BY IdleOrRefused, NotRunning
<1>2. CASE \E t, h : ledger' = Text(t) /\ told' = [is |-> TRUE, text |-> t, hash |-> h, apart |-> FALSE]
  <2>1. TextsTyped' /\ LedgerIsTold'
    BY <1>2 DEF TextsTyped, LedgerIsTold, Text
  <2> QED BY <1>1, <2>1 DEF IInv
<1>3. CASE (ledger' = disk' \/ \E t : ledger' = Text(t)) /\ told' = [told EXCEPT !.apart = TRUE]
  <2>1. told' = [is |-> told.is, text |-> told.text, hash |-> told.hash, apart |-> TRUE]
    BY <1>3 DEF TextsTyped
  <2>2. ledger'.is \/ ledger'.text = <<>>
    BY <1>3 DEF Text
  <2>3. TextsTyped' /\ LedgerIsTold'
    BY <2>1, <2>2 DEF TextsTyped, LedgerIsTold
  <2> QED BY <1>1, <2>3 DEF IInv
<1> QED BY <1>2, <1>3

LEMMA ForeignStep ==
    ASSUME IInv, Foreign
    PROVE  IInv'
<1> USE DEF IInv
<1>1. UNCHANGED <<ledger, call, told>>
  BY DEF Foreign
<1>2. disk' = NoText \/ \E t \in Texts : disk' = Text(t)
  BY DEF Foreign
<1>3. disk'.is \/ disk'.text = <<>>
  BY <1>2 DEF NoText, Text
<1>4. TextsTyped' /\ LedgerIsTold'
  BY <1>1, <1>3 DEF TextsTyped, LedgerIsTold
<1>5. CallTyped'
  BY <1>1 DEF CallTyped
<1>6. KnownIsTold' /\ HashIsTold'
  BY <1>1 DEF KnownIsTold, HashIsTold, Running
<1>7. BlindIsChecked' /\ MutatorsAreChecked'
  BY <1>1 DEF BlindIsChecked, MutatorsAreChecked, KnownAgrees
<1> QED BY <1>4, <1>5, <1>6, <1>7

\* Another agent of the service runs its tools between two calls of this one.
LEMMA FellowStep ==
    ASSUME IInv, FellowWrites
    PROVE  IInv'
<1> USE DEF IInv
<1>1. /\ Free /\ UNCHANGED call /\ ledger' = disk' /\ told' = [told EXCEPT !.apart = TRUE]
      /\ disk' = NoText \/ \E t \in Texts : disk' = Text(t)
  BY DEF FellowWrites
<1>2. disk'.is \/ disk'.text = <<>>
  BY <1>1 DEF NoText, Text
<1>3. told' = [is |-> told.is, text |-> told.text, hash |-> told.hash, apart |-> TRUE]
  BY <1>1 DEF TextsTyped
<1>4. TextsTyped' /\ LedgerIsTold'
  BY <1>1, <1>2, <1>3 DEF TextsTyped, LedgerIsTold
<1>5. CallTyped' /\ ~Running'
  BY <1>1 DEF CallTyped, Free, Running, Mutators
<1> QED BY <1>4, <1>5, NotRunning

\* A read tells the caller what it records, or moves the ledger apart from it.
LEMMA ReadStep ==
    ASSUME IInv, Read \/ ReadUntold \/ ReadNotModified
    PROVE  IInv'
<1>1. CASE Read
  <2> DEFINE t == ReadView(disk.text)
  <2>1. call' = Idle /\ ledger' = Text(t) /\ told' = [Told(t) EXCEPT !.hash = TRUE] /\ UNCHANGED disk
    BY <1>1 DEF Read, RecordRead
  <2> HIDE DEF t
  <2>2. told' = [is |-> TRUE, text |-> t, hash |-> TRUE, apart |-> FALSE]
    BY <2>1 DEF Told
  <2>3. TextsTyped /\ (disk'.is \/ disk'.text = <<>>)
    BY <2>1 DEF IInv, TextsTyped
  <2> QED BY <2>1, <2>2, <2>3, Quiet
<1>2. CASE ReadUntold
  <2> DEFINE t == ReadView(disk.text)
  <2>1. call' = Idle /\ ledger' = Text(t) /\ told' = [told EXCEPT !.apart = TRUE] /\ UNCHANGED disk
    BY <1>2 DEF ReadUntold, RecordRead
  <2> HIDE DEF t
  <2>2. TextsTyped /\ (disk'.is \/ disk'.text = <<>>)
    BY <2>1 DEF IInv, TextsTyped
  <2> QED BY <2>1, <2>2, Quiet
<1>3. CASE ReadNotModified
  <2>1. call' = Idle /\ UNCHANGED <<disk, ledger, told>>
    BY <1>3 DEF ReadNotModified
  <2> QED BY <2>1, IdleOrRefused, NotRunning DEF IInv, TextsTyped, LedgerIsTold
<1> QED BY <1>1, <1>2, <1>3

LEMMA OthersStep ==
    ASSUME IInv, Restart \/ \E t \in Writes : Patch(t)
    PROVE  IInv'
<1> USE DEF IInv
<1>1. CASE Restart
  <2>1. call' = Idle /\ ledger' = NoText /\ UNCHANGED <<disk, told>>
    BY <1>1 DEF Restart
  <2> QED BY <2>1, NotRunning, IdleOrRefused DEF TextsTyped, LedgerIsTold, NoText
<1>2. ASSUME NEW t \in Writes, Patch(t) PROVE IInv'
  <2>1. call' = Idle /\ disk' = Text(t) /\ told' = [Told(t) EXCEPT !.apart = TRUE] /\ UNCHANGED ledger
    BY <1>2 DEF Patch
  <2>2. told' = [is |-> TRUE, text |-> t, hash |-> FALSE, apart |-> TRUE]
    BY <2>1 DEF Told
  <2>3. disk'.is /\ told'.is /\ told'.apart
    BY <2>1, <2>2 DEF Text
  <2>4. TextsTyped' /\ LedgerIsTold'
    BY <2>1, <2>2, <2>3 DEF TextsTyped, LedgerIsTold
  <2> QED BY <2>1, <2>4, NotRunning, IdleOrRefused
<1> QED BY <1>1, <1>2

LEMMA EditBeginStep ==
    ASSUME IInv, NEW edit \in Edits, NEW hash \in HashArgs, EditBegin(edit, hash)
    PROVE  IInv'
<1> USE DEF IInv
<1>1. UNCHANGED <<disk, ledger, told>>
  BY DEF EditBegin
<1>2. TextsTyped' /\ LedgerIsTold'
  BY <1>1 DEF TextsTyped, LedgerIsTold
<1>3. CASE \E code \in Codes : call' = Refused(code)
  BY <1>2, <1>3, NotRunning, IdleOrRefused
<1>4. CASE /\ VerifyExpectedHash(hash, disk.text)
           /\ call' = [Idle EXCEPT !.tool = "edit", !.base = disk.text, !.known = ledger,
                                   !.hash = hash, !.edit = edit, !.view = disk.text]
  <2>1. call' = [tool |-> "edit", base |-> disk.text, known |-> ledger, hash |-> hash, edit |-> edit,
                 view |-> disk.text, codes |-> <<>>]
    BY <1>4 DEF Idle
  <2>2. Len(edit.ops) \in Nat
    BY EditsAssumption
  <2>3. CallTyped'
    BY <2>1, <2>2, EmptySeq DEF CallTyped, Mutators
  <2>4. hash = "told" => told.is /\ disk.text = told.text
    BY <1>4 DEF EditBegin, HashGiven, VerifyExpectedHash
  <2>5. KnownIsTold' /\ HashIsTold'
    BY <1>1, <2>1, <2>4 DEF KnownIsTold, HashIsTold, LedgerIsTold
  <2>6. BlindIsChecked' /\ MutatorsAreChecked'
    BY <2>1 DEF BlindIsChecked, MutatorsAreChecked, Mutators
  <2> QED BY <1>2, <2>3, <2>5, <2>6
<1>5. \/ \E code \in Codes : call' = Refused(code)
      \/ /\ VerifyExpectedHash(hash, disk.text)
         /\ call' = [Idle EXCEPT !.tool = "edit", !.base = disk.text, !.known = ledger,
                                 !.hash = hash, !.edit = edit, !.view = disk.text]
  BY DEF EditBegin, Codes
<1> QED BY <1>3, <1>4, <1>5

LEMMA EditOpStep ==
    ASSUME IInv, EditOp
    PROVE  IInv'
<1> USE DEF IInv
<1> DEFINE op == call.edit.ops[Len(call.codes) + 1]
           done == OpResult(op)
<1>1. /\ call.tool = "edit" /\ Len(call.codes) < Len(call.edit.ops)
      /\ call' = After(done) /\ UNCHANGED <<disk, ledger, told>>
  BY DEF EditOp
<1>2. TextsTyped' /\ LedgerIsTold'
  BY <1>1 DEF TextsTyped, LedgerIsTold
<1>3. /\ done.code \in Codes
      /\ done.code = "ok" => BlindGuard(op) = "ok"
  BY OpResultCodes
<1>4. BlindGuard(op) = "ok" => ~Blind(op) \/ call.hash # "none" \/ (call.known.is /\ KnownAgrees)
  BY DEF BlindGuard, KnownAgrees
<1> HIDE DEF done
<1>5. /\ call.codes \in Seq(Codes) /\ Len(call.codes) \in Nat /\ call.edit \in Edits
      /\ Len(call.edit.ops) \in Nat
  BY <1>1, EditsAssumption DEF CallTyped
<1>6. call' = [tool |-> "edit", base |-> call.base, known |-> call.known, hash |-> call.hash,
               edit |-> call.edit, view |-> done.file, codes |-> Append(call.codes, done.code)]
  BY <1>1 DEF CallTyped, After
<1>7. /\ call'.codes \in Seq(Codes) /\ Len(call'.codes) = Len(call.codes) + 1
      /\ \A k \in DOMAIN call.codes : call'.codes[k] = call.codes[k]
      /\ call'.codes[Len(call.codes) + 1] = done.code
      /\ DOMAIN call'.codes = DOMAIN call.codes \cup {Len(call.codes) + 1}
  BY <1>3, <1>5, <1>6
<1>8. CallTyped'
  BY <1>1, <1>5, <1>6, <1>7 DEF CallTyped, Mutators
<1>9. KnownIsTold' /\ HashIsTold' /\ MutatorsAreChecked'
  BY <1>1, <1>6 DEF KnownIsTold, HashIsTold, MutatorsAreChecked, Running, Mutators
<1>10. BlindIsChecked'
  <2> SUFFICES ASSUME NEW k \in DOMAIN call'.codes, call'.codes[k] = "ok", Blind(call.edit.ops[k])
               PROVE  call.hash # "none" \/ (call.known.is /\ KnownAgrees)
    BY <1>6 DEF BlindIsChecked, KnownAgrees
  <2>1. CASE k \in DOMAIN call.codes
    BY <1>1, <1>7, <2>1 DEF BlindIsChecked
  <2>2. CASE k = Len(call.codes) + 1
    BY <1>3, <1>4, <1>7, <2>2
  <2> QED BY <1>7, <2>1, <2>2
<1> QED BY <1>2, <1>8, <1>9, <1>10

LEMMA EndStep ==
    ASSUME IInv, EditWrites \/ EditEndsUnwritten \/ Overwrite \/ AppendText \/ Delete \/ ToolFails
    PROVE  IInv'
<1>1. TextsTyped
  BY DEF IInv
<1>2. CASE EditEndsUnwritten \/ ToolFails
  <2>1. call' = Idle /\ UNCHANGED <<disk, ledger, told>>
    BY <1>2 DEF EditEndsUnwritten, ToolFails
  <2> QED BY <2>1, IdleOrRefused, NotRunning DEF IInv, TextsTyped, LedgerIsTold
<1>3. CASE Delete
  <2>1. call' = Idle /\ disk' = NoText /\ ledger' = NoText /\ told' = Untold
    BY <1>3 DEF Delete
  <2> QED BY <2>1, IdleOrRefused, NotRunning DEF IInv, TextsTyped, LedgerIsTold, NoText, Untold
<1>4. CASE EditWrites
  <2> DEFINE t == ReadView(call.view)
  <2>1. call' = Idle /\ disk' = Text(call.view) /\ ledger' = Text(t) /\ told' = Told(t)
    BY <1>4 DEF EditWrites, RecordEdit
  <2> HIDE DEF t
  <2>2. disk'.is /\ told' = [is |-> TRUE, text |-> t, hash |-> FALSE, apart |-> FALSE]
    BY <2>1 DEF Text, Told
  <2> QED BY <1>1, <2>1, <2>2, Quiet
<1>5. CASE Overwrite \/ AppendText
  <2>1. PICK t : Written(t)
    BY <1>5 DEF Overwrite, AppendText
  <2>2. PICK x : disk' = Text(x)
    BY <1>5 DEF Overwrite, AppendText
  <2>3. disk'.is /\ told' = [is |-> TRUE, text |-> t, hash |-> FALSE, apart |-> FALSE]
    BY <2>1, <2>2 DEF Text, Written, Told
  <2>4. call' = Idle /\ ledger' = Text(t)
    BY <2>1 DEF Written
  <2> QED BY <1>1, <2>3, <2>4, Quiet
<1> QED BY <1>2, <1>3, <1>4, <1>5

(* write, append and delete look at the ledger when they begin.               *)
LEMMA MutatorBegins ==
    ASSUME IInv, NEW tool \in Mutators, NEW hash \in HashArgs, NEW view,
           UNCHANGED <<disk, ledger, told>>,
           call' = [tool |-> tool, base |-> disk.text, known |-> ledger, hash |-> hash,
                    edit |-> Idle.edit, view |-> view, codes |-> <<>>],
           hash = "told" => told.is /\ disk.text = told.text,
           hash # "told" => LedgerAgrees
    PROVE  IInv'
<1> USE DEF IInv
<1>1. TextsTyped' /\ LedgerIsTold'
  BY DEF TextsTyped, LedgerIsTold
<1>2. CallTyped'
  BY EmptySeq DEF CallTyped, Mutators
<1>3. KnownIsTold' /\ HashIsTold'
  BY DEF KnownIsTold, HashIsTold, LedgerIsTold
<1>4. BlindIsChecked' /\ MutatorsAreChecked'
  BY DEF BlindIsChecked, MutatorsAreChecked, Mutators, LedgerAgrees, KnownAgrees
<1> QED BY <1>1, <1>2, <1>3, <1>4

LEMMA MutatorStep ==
    ASSUME IInv,
           \/ DeleteBegin
           \/ \E tool \in {"write", "append"}, t \in Writes, hash \in HashArgs : WriteBegin(tool, t, hash)
    PROVE  IInv'
<1> USE DEF IInv
<1>1. ASSUME UNCHANGED <<disk, ledger, told>>, \E code \in Codes : call' = Refused(code)
      PROVE  IInv'
  BY <1>1, NotRunning, IdleOrRefused DEF TextsTyped, LedgerIsTold
<1>2. ASSUME NEW tool \in {"write", "append"}, NEW t \in Writes, NEW hash \in HashArgs,
             WriteBegin(tool, t, hash)
      PROVE  IInv'
  <2>1. UNCHANGED <<disk, ledger, told>> /\ tool \in Mutators
    BY <1>2 DEF WriteBegin, Mutators
  <2>2. CASE VerifyExpectedHash(hash, disk.text) /\ (hash # "told" => LedgerAgrees)
    <3>1. call' = [tool |-> tool, base |-> disk.text, known |-> ledger, hash |-> hash,
                   edit |-> Idle.edit, view |-> t, codes |-> <<>>]
      BY <1>2, <2>2 DEF WriteBegin, Idle
    <3>2. hash = "told" => told.is /\ disk.text = told.text
      BY <1>2, <2>2 DEF WriteBegin, HashGiven, VerifyExpectedHash
    <3> QED BY <2>1, <2>2, <3>1, <3>2, MutatorBegins
  <2>3. CASE ~(VerifyExpectedHash(hash, disk.text) /\ (hash # "told" => LedgerAgrees))
    <3>1. call' = Refused("STALE_FILE")
      BY <1>2, <2>3 DEF WriteBegin
    <3> QED BY <1>1, <2>1, <3>1 DEF Codes
  <2> QED BY <2>2, <2>3
<1>3. CASE DeleteBegin
  <2>1. UNCHANGED <<disk, ledger, told>> /\ "delete" \in Mutators
    BY <1>3 DEF DeleteBegin, Mutators
  <2>2. CASE disk.is /\ LedgerAgrees
    <3>1. call' = [tool |-> "delete", base |-> disk.text, known |-> ledger, hash |-> "none",
                   edit |-> Idle.edit, view |-> Idle.view, codes |-> <<>>]
      BY <1>3, <2>2 DEF DeleteBegin, Idle
    <3>2. "none" \in HashArgs
      BY DEF HashArgs
    <3> QED BY <2>1, <2>2, <3>1, <3>2, MutatorBegins
  <2>3. CASE ~(disk.is /\ LedgerAgrees)
    <3>1. \E code \in Codes : call' = Refused(code)
      BY <1>3, <2>3 DEF DeleteBegin, Codes
    <3> QED BY <1>1, <2>1, <3>1
  <2> QED BY <2>2, <2>3
<1> QED BY <1>2, <1>3

LEMMA InitInvariant == Init => IInv
<1> SUFFICES ASSUME Init PROVE IInv
  OBVIOUS
<1>1. call = Idle /\ ledger = NoText /\ told = Untold /\ disk.is
  BY DEF Init, Text
<1>2. CallTyped
  BY <1>1, EmptySeq DEF Idle, CallTyped, Mutators, HashArgs
<1>3. call.tool = "idle"
  BY <1>1 DEF Idle
<1> QED BY <1>1, <1>2, <1>3 DEF IInv, TextsTyped, LedgerIsTold, KnownIsTold, HashIsTold, BlindIsChecked,
                                MutatorsAreChecked, Running, Mutators, NoText, Untold

LEMMA NextInvariant == IInv /\ [Next]_vars => IInv'
<1> SUFFICES ASSUME IInv, [Next]_vars PROVE IInv'
  OBVIOUS
<1>1. CASE UNCHANGED vars
  BY <1>1 DEF vars, IInv, CallTyped, TextsTyped, LedgerIsTold, KnownIsTold, HashIsTold, BlindIsChecked,
              MutatorsAreChecked, Running, KnownAgrees
<1>2. CASE Next
  BY <1>2, ForeignStep, FellowStep, ReadStep, OthersStep, EditBeginStep, EditOpStep, EndStep, MutatorStep
     DEF Next
<1> QED BY <1>1, <1>2

LEMMA Invariant == Spec => []IInv
<1> QED BY InitInvariant, NextInvariant, PTL DEF Spec

-----------------------------------------------------------------------------
(* The theorems.                                                              *)

\* The state of the tools has its types: a call reports known codes, at most one for
\* each of its operations (file_edit.rs execute_file).
THEOREM TypeCorrect == Spec => []TypeOK
<1>1. IInv => TypeOK
  <2> SUFFICES ASSUME IInv PROVE TypeOK
    OBVIOUS
  <2>1. ToSet(call.codes) \subseteq Codes
    BY DEF IInv, CallTyped, ToSet
  <2> QED BY <2>1 DEF IInv, CallTyped, TextsTyped, TypeOK, Mutators
<1> QED BY <1>1, Invariant, PTL

\* Whatever others do to the file and whenever: a tool that overwrites, deletes or edits
\* by bare line numbers has decided on the text its caller was told last - always when it
\* was given the hash of that text, and otherwise for as long as the ledger is the
\* caller's, that is neither lost in a restart nor moved by a patch, by a read that told
\* an error or by the calls of another agent (file_edit.rs, file_mutate.rs).  Edits with
\* an empty hash, or with a text of white space, are exempt: they are not checked.
THEOREM NothingIsDecidedBlind == Spec => []DecidesOnWhatWasTold
<1>1. IInv => DecidesOnWhatWasTold
  <2> SUFFICES ASSUME IInv,
                      \/ call.tool = "edit" /\ call.hash # "empty" /\ AppliedBlind
                      \/ call.tool \in Mutators /\ (call.known.is \/ call.hash = "told")
               PROVE  (told.is /\ call.base = told.text) \/ (told.apart /\ call.hash # "told")
    BY DEF DecidesOnWhatWasTold, Mutators
  <2>1. call.hash = "told" \/ (call.known.is /\ KnownAgrees)
    BY DEF IInv, CallTyped, HashArgs, AppliedBlind, BlindIsChecked, MutatorsAreChecked
  <2>2. Running
    BY DEF Running
  <2> QED BY <2>1, <2>2 DEF IInv, KnownIsTold, HashIsTold, KnownAgrees
<1> QED BY <1>1, Invariant, PTL

\* The tools do not cry wolf: unless the ledger was moved apart from the caller, a call is
\* refused as stale only when the text it read is not the one its caller was told last, or
\* has CRLF and lone CR, which read and the other tools see differently; every tool that
\* changes the file brings the ledger along (file_state.rs record_read, record_edit,
\* record_write).
THEOREM StaleIsStale == Spec => NoFalseAlarm
<1> DEFINE Seen == IF call.tool = "edit" THEN call.base ELSE disk.text
           Before == IF call.tool = "edit" THEN StaleCodes(call) ELSE {}
           Alarm == ~(StaleCodes(call') \subseteq Before)
           Justified == Alarm /\ ~told.apart => told.is /\ (ReadView(Seen) # told.text \/ Mixed(Seen))
<1>1. ASSUME IInv, Next PROVE call' # call => Justified
  <2>0. Seen # told.text => ReadView(Seen) # told.text \/ Mixed(Seen)
    BY DEF ReadView
  <2> SUFFICES ASSUME call' # call, Alarm, ~told.apart PROVE told.is /\ Seen # told.text
    BY <2>0
  <2> USE DEF IInv
  <2>1. ASSUME call'.codes = <<>> PROVE FALSE
    BY <2>1 DEF StaleCodes
  <2>2. ASSUME call'.codes = call.codes, call.tool = "edit" PROVE FALSE
    BY <2>2 DEF StaleCodes
  <2>3. ASSUME Foreign \/ FellowWrites PROVE FALSE
    BY <2>3 DEF Foreign, FellowWrites
  <2>4. ASSUME \/ Restart \/ Read \/ ReadNotModified \/ ReadUntold \/ \E t \in Writes : Patch(t)
               \/ EditWrites \/ EditEndsUnwritten \/ Overwrite \/ AppendText \/ Delete \/ ToolFails
        PROVE  FALSE
    <3>1. call' = Idle
      BY <2>4 DEF Restart, Read, ReadNotModified, ReadUntold, Patch, EditWrites, EditEndsUnwritten,
                  Overwrite, AppendText, Delete, ToolFails, Written
    <3> QED BY <2>1, <3>1 DEF Idle
  <2>6. ASSUME NEW code, call' = Refused(code) PROVE code = "STALE_FILE"
    <3>1. call'.codes = <<code>>
      BY <2>6 DEF Refused, Idle
    <3> QED BY <3>1 DEF StaleCodes
  <2>7. CASE \E edit \in Edits, hash \in HashArgs : EditBegin(edit, hash)
    <3>1. PICK edit \in Edits, hash \in HashArgs : EditBegin(edit, hash)
      BY <2>7
    <3>2. call.tool # "edit" /\ Seen = disk.text
      BY <3>1 DEF EditBegin, MayCall, Free
    <3>3. CASE VerifyExpectedHash(hash, disk.text) \/ ~disk.is
      <4>1. call' = Refused("READ_FAILED")
              \/ call' = [Idle EXCEPT !.tool = "edit", !.base = disk.text, !.known = ledger,
                                      !.hash = hash, !.edit = edit, !.view = disk.text]
        BY <3>1, <3>3 DEF EditBegin
      <4> QED BY <2>1, <2>6, <4>1 DEF Idle
    <3>4. CASE ~VerifyExpectedHash(hash, disk.text)
      BY <3>1, <3>2, <3>4 DEF EditBegin, HashGiven, VerifyExpectedHash
    <3> QED BY <3>3, <3>4
  <2>8. CASE EditOp
    <3> DEFINE op == call.edit.ops[Len(call.codes) + 1]
               done == OpResult(op)
    <3>1. /\ call.tool = "edit" /\ Seen = call.base /\ call' = After(done)
          /\ call.codes \in Seq(Codes)
      BY <1>1, <2>8 DEF EditOp, CallTyped
    <3>2. done.code = "STALE_FILE" => BlindGuard(op) = "STALE_FILE"
      BY OpResultCodes
    <3>3. done.code \in Codes
      BY OpResultCodes
    <3> HIDE DEF done
    <3>4. call'.codes = Append(call.codes, done.code)
      BY <1>1, <3>1 DEF After, CallTyped
    <3>5. StaleCodes(call') # StaleCodes(call)
      BY <3>1
    <3>6. PICK k \in DOMAIN call'.codes : call'.codes[k] = "STALE_FILE" /\ k \notin StaleCodes(call)
      BY <3>1 DEF StaleCodes
    <3>7. done.code = "STALE_FILE"
      BY <3>1, <3>3, <3>4, <3>6 DEF StaleCodes
    <3>8. call.known.is /\ call.known.text # call.base
      BY <3>2, <3>7 DEF BlindGuard
    <3> QED BY <1>1, <3>1, <3>8 DEF KnownIsTold, Running
  <2>9. CASE \E tool \in {"write", "append"}, t \in Writes, hash \in HashArgs : WriteBegin(tool, t, hash)
    <3>1. PICK tool \in {"write", "append"}, t \in Writes, hash \in HashArgs : WriteBegin(tool, t, hash)
      BY <2>9
    <3>2. Seen = disk.text
      BY <3>1 DEF WriteBegin, MayCall, Free
    <3>3. CASE VerifyExpectedHash(hash, disk.text) /\ (hash # "told" => LedgerAgrees)
      BY <2>1, <3>1, <3>3 DEF WriteBegin, Idle
    <3>4. CASE ~VerifyExpectedHash(hash, disk.text)
      BY <3>1, <3>2, <3>4 DEF WriteBegin, HashGiven, VerifyExpectedHash
    <3>5. CASE ~LedgerAgrees
      BY <1>1, <3>2, <3>5 DEF LedgerAgrees, LedgerIsTold
    <3> QED BY <3>3, <3>4, <3>5
  <2>10. CASE DeleteBegin
    <3>1. Seen = disk.text
      BY <2>10 DEF DeleteBegin, MayCall, Free
    <3>2. CASE ~disk.is \/ LedgerAgrees
      <4>1. call' = Refused("NOT_FOUND")
              \/ call' = [Idle EXCEPT !.tool = "delete", !.base = disk.text, !.known = ledger]
        BY <2>10, <3>2 DEF DeleteBegin
      <4> QED BY <2>1, <2>6, <4>1 DEF Idle
    <3>3. CASE ~LedgerAgrees
      BY <1>1, <3>1, <3>3 DEF LedgerAgrees, LedgerIsTold
    <3> QED BY <3>2, <3>3
  <2> QED BY <1>1, <2>3, <2>4, <2>7, <2>8, <2>9, <2>10 DEF Next
<1>2. IInv /\ [Next]_vars => [Justified]_call
  BY <1>1 DEF vars
<1> QED BY <1>2, Invariant, PTL DEF Spec, NoFalseAlarm

-----------------------------------------------------------------------------
(* A conversation and its messages.  Calls are finite sets, or a step would   *)
(* have no list of messages.                                                  *)

CallSets == {C \in SUBSET Nat : IsFiniteSet(C)}
Given == Answers \cup {"not executed"}
AnswerMaps == UNION {[C -> Given] : C \in CallSets}

StepSet == [calls : CallSets, results : AnswerMaps]
TurnSet == [id : Nat, steps : Seq(StepSet)]
Conversation == Seq(TurnSet)

Users == [role : {"user"}, id : Nat]
Asking == [role : {"assistant"}, calls : CallSets]
ToolMessages == [role : {"tool"}, call : Nat, answer : Given]
Message == Users \cup Asking \cup ToolMessages

LEMMA StepFacts ==
    ASSUME NEW s \in StepSet
    PROVE  /\ s.calls \in CallSets /\ s.results \in AnswerMaps
           /\ s = [calls |-> s.calls, results |-> s.results]
  BY DEF StepSet

LEMMA MapFacts ==
    /\ \A r \in AnswerMaps : DOMAIN r \in CallSets /\ \A c \in DOMAIN r : r[c] \in Given
    /\ \A C \in CallSets : \A r \in [C -> Given] : r \in AnswerMaps
    /\ <<>> \in AnswerMaps
<1>1. \A r \in AnswerMaps : DOMAIN r \in CallSets /\ \A c \in DOMAIN r : r[c] \in Given
  BY DEF AnswerMaps
<1>2. \A C \in CallSets : \A r \in [C -> Given] : r \in AnswerMaps
  BY DEF AnswerMaps
<1>3. {} \in CallSets
  BY FS_EmptySet DEF CallSets
<1>4. <<>> \in [{} -> Given]
  OBVIOUS
<1> QED BY <1>1, <1>2, <1>3, <1>4

LEMMA TurnFacts ==
    ASSUME NEW t \in TurnSet
    PROVE  /\ t.id \in Nat /\ t.steps \in Seq(StepSet) /\ Len(t.steps) \in Nat
           /\ DOMAIN t.steps = 1 .. Len(t.steps)
           /\ \A k \in 1 .. Len(t.steps) : t.steps[k] \in StepSet
           /\ t = [id |-> t.id, steps |-> t.steps]
<1>1. t.id \in Nat /\ t.steps \in Seq(StepSet) /\ t = [id |-> t.id, steps |-> t.steps]
  BY DEF TurnSet
<1> QED BY <1>1

LEMMA ConversationFacts ==
    ASSUME NEW h \in Conversation
    PROVE  /\ Len(h) \in Nat /\ DOMAIN h = 1 .. Len(h) /\ h \in Seq(TurnSet)
           /\ \A i \in 1 .. Len(h) : h[i] \in TurnSet
           /\ h = <<>> <=> Len(h) = 0
  BY DEF Conversation

Has(history, id) == \E i \in 1 .. Len(history) : history[i].id = id

LEMMA IdsAreHad ==
    ASSUME NEW h \in Conversation, NEW id \in Nat, id # 0
    PROVE  id \in Ids(h) <=> Has(h, id)
<1>1. DOMAIN h = 1 .. Len(h)
  BY ConversationFacts
<1> QED BY <1>1 DEF Ids, Has, Summary

LEMMA MoreCalls ==
    ASSUME NEW C \in CallSets, NEW D \in CallSets
    PROVE  C \cup D \in CallSets
  BY FS_Union DEF CallSets

LEMMA AnswerTyped ==
    ASSUME NEW s \in StepSet, NEW new \in CallSets, NEW answer \in Given
    PROVE  Answer(s, new, answer) \in StepSet
<1> DEFINE D == DOMAIN s.results \cup new
           r == [c \in D |-> IF c \in DOMAIN s.results THEN s.results[c] ELSE answer]
<1>1. s.calls \in CallSets /\ s.results \in AnswerMaps
  BY StepFacts
<1>2. DOMAIN s.results \in CallSets /\ \A c \in DOMAIN s.results : s.results[c] \in Given
  BY <1>1, MapFacts
<1>3. D \in CallSets
  BY <1>2, MoreCalls
<1>4. r \in [D -> Given]
  BY <1>2
<1>5. r \in AnswerMaps
  <2> HIDE DEF r, D
  <2> QED BY <1>3, <1>4, MapFacts
<1>6. Answer(s, new, answer) = [calls |-> s.calls, results |-> r]
  BY DEF Answer
<1> HIDE DEF r
<1> QED BY <1>1, <1>5, <1>6 DEF StepSet

\* The steps of one turn are replaced.
WithSteps(history, i, new) == [history EXCEPT ![i] = [id |-> history[i].id, steps |-> new]]

\* The same turns, perhaps with other steps.
SameTurns(g, h) ==
    g \in Conversation /\ Len(g) = Len(h) /\ \A i \in 1 .. Len(h) : g[i].id = h[i].id

LEMMA SameHas ==
    ASSUME NEW g, NEW h, SameTurns(g, h)
    PROVE  \A id : Has(g, id) <=> Has(h, id)
  BY DEF SameTurns, Has

LEMMA WithStepsIsSame ==
    ASSUME NEW h \in Conversation, NEW i \in 1 .. Len(h), NEW new \in Seq(StepSet)
    PROVE  SameTurns(WithSteps(h, i, new), h)
<1> DEFINE turn == [id |-> h[i].id, steps |-> new]
           g == [h EXCEPT ![i] = turn]
<1>1. h \in Seq(TurnSet) /\ h[i] \in TurnSet /\ Len(h) \in Nat
  BY ConversationFacts
<1>2. turn \in TurnSet /\ turn.id = h[i].id
  BY <1>1, TurnFacts DEF TurnSet
<1> HIDE DEF turn
<1>3. g \in Seq(TurnSet) /\ Len(g) = Len(h) /\ g[i] = turn
      /\ \A j \in 1 .. Len(h) : j # i => g[j] = h[j]
  BY <1>1, <1>2
<1>4. WithSteps(h, i, new) = g
  BY DEF WithSteps, turn
<1> QED BY <1>2, <1>3, <1>4 DEF SameTurns, Conversation

LEMMA ExceptSteps ==
    ASSUME NEW h \in Conversation, NEW i \in 1 .. Len(h), NEW new \in Seq(StepSet),
           NEW g, g = [h EXCEPT ![i].steps = new]
    PROVE  SameTurns(g, h)
<1>1. h[i] \in TurnSet
  BY ConversationFacts
<1>2. h[i] = [id |-> h[i].id, steps |-> h[i].steps]
  BY <1>1, TurnFacts
<1>3. [h[i] EXCEPT !.steps = new] = [id |-> h[i].id, steps |-> new]
  BY <1>2
<1>4. [h EXCEPT ![i].steps = new] = [h EXCEPT ![i] = [h[i] EXCEPT !.steps = new]]
  OBVIOUS
<1> QED BY <1>3, <1>4, WithStepsIsSame DEF WithSteps

\* The last step is that of the last turn.
LEMMA LastStep ==
    ASSUME NEW h \in Conversation, HasStep(h)
    PROVE  /\ Len(h) \in 1 .. Len(h)
           /\ Len(Last(h).steps) \in 1 .. Len(h[Len(h)].steps)
           /\ Last(h) = h[Len(h)]
           /\ Last(Last(h).steps) \in StepSet
           /\ Last(Last(h).steps) = h[Len(h)].steps[Len(h[Len(h)].steps)]
<1>1. h # <<>> /\ h[Len(h)].steps # <<>> /\ Last(h) = h[Len(h)]
  BY DEF HasStep, Last
<1>2. Len(h) \in 1 .. Len(h) /\ h[Len(h)] \in TurnSet
  BY <1>1, ConversationFacts
<1>3. PICK s : s = h[Len(h)].steps
  OBVIOUS
<1>4. s \in Seq(StepSet) /\ s # <<>>
  BY <1>1, <1>2, <1>3, TurnFacts
<1>5. Len(s) \in 1 .. Len(s) /\ s[Len(s)] \in StepSet
  BY <1>4
<1> QED BY <1>1, <1>2, <1>3, <1>5 DEF Last

LEMMA SettleLastIsSame ==
    ASSUME NEW h \in Conversation
    PROVE  SameTurns(SettleLast(h), h)
<1>1. CASE ~HasStep(h)
  BY <1>1, ConversationFacts DEF SettleLast, SameTurns
<1>2. CASE HasStep(h)
  <2> DEFINE n == Len(h)
             m == Len(h[n].steps)
             s == h[n].steps[m]
             new == [h[n].steps EXCEPT ![m] = Settle(s)]
  <2>1. n \in 1 .. Len(h) /\ m \in 1 .. Len(h[n].steps) /\ s \in StepSet /\ Last(h) = h[n]
    BY <1>2, LastStep DEF Last
  <2>2. Settle(s) \in StepSet
    <3> HIDE DEF s
    <3>1. s.calls \in CallSets /\ "skipped" \in Given
      BY <2>1, StepFacts DEF Given, Answers
    <3> QED BY <2>1, <3>1, AnswerTyped DEF Settle
  <2>3. h[n].steps \in Seq(StepSet)
    BY <2>1, ConversationFacts, TurnFacts
  <2>4. new \in Seq(StepSet)
    <3> HIDE DEF s, n
    <3> QED BY <2>1, <2>2, <2>3
  <2>5. PICK g : g = [h EXCEPT ![n].steps = new]
    OBVIOUS
  <2>6. SettleLast(h) = g
    BY <1>2, <2>1, <2>5 DEF SettleLast
  <2> HIDE DEF new
  <2>7. SameTurns(g, h)
    BY <2>1, <2>4, <2>5, ExceptSteps
  <2> QED BY <2>6, <2>7
<1> QED BY <1>1, <1>2

LEMMA PushUserHas ==
    ASSUME NEW h \in Conversation, NEW id \in Nat
    PROVE  /\ PushUser(h, id) \in Conversation
           /\ \A k : Has(PushUser(h, id), k) <=> Has(h, k) \/ k = id
<1> DEFINE f == SettleLast(h)
<1>1. SameTurns(f, h)
  BY SettleLastIsSame
<1> HIDE DEF f
<1>2. f \in Seq(TurnSet) /\ Len(f) \in Nat /\ \A k : Has(f, k) <=> Has(h, k)
  BY <1>1, SameHas, ConversationFacts DEF SameTurns
<1>3. NewTurn(id) \in TurnSet /\ NewTurn(id).id = id
  BY DEF NewTurn, TurnSet
<1>4. PICK g : g = Append(f, NewTurn(id))
  OBVIOUS
<1>5. g \in Seq(TurnSet) /\ Len(g) = Len(f) + 1 /\ g[Len(f) + 1] = NewTurn(id)
      /\ \A i \in 1 .. Len(f) : g[i] = f[i]
  BY <1>2, <1>3, <1>4
<1>6. \A k : Has(g, k) <=> Has(f, k) \/ k = id
  BY <1>2, <1>3, <1>5 DEF Has
<1> QED BY <1>2, <1>4, <1>5, <1>6 DEF PushUser, f, Conversation

LEMMA PushAssistantIsSame ==
    ASSUME NEW h \in Conversation, NEW asked \in CallSets
    PROVE  SameTurns(PushAssistant(h, asked), h)
<1>1. CASE h = <<>>
  BY <1>1, ConversationFacts DEF PushAssistant, SameTurns
<1>2. CASE h # <<>>
  <2> DEFINE f == SettleLast(h)
             n == Len(h)
             new == Append(f[n].steps, Step(asked))
  <2>1. SameTurns(f, h)
    BY SettleLastIsSame
  <2>2. PICK g : g = [f EXCEPT ![n].steps = new]
    OBVIOUS
  <2>3. PushAssistant(h, asked) = g
    BY <1>2, <2>2 DEF PushAssistant
  <2> HIDE DEF f
  <2>4. f \in Conversation /\ n \in 1 .. Len(f)
    BY <1>2, <2>1, ConversationFacts DEF SameTurns
  <2>5. Step(asked) \in StepSet
    BY MapFacts DEF Step, StepSet
  <2>6. f[n].steps \in Seq(StepSet)
    BY <2>4, ConversationFacts, TurnFacts
  <2>7. new \in Seq(StepSet)
    <3> HIDE DEF n
    <3> QED BY <2>5, <2>6
  <2> HIDE DEF new, n
  <2>8. SameTurns(g, f)
    BY <2>4, <2>7, <2>2, ExceptSteps
  <2> QED BY <2>1, <2>3, <2>8 DEF SameTurns
<1> QED BY <1>1, <1>2

LEMMA PushResultIsSame ==
    ASSUME NEW h \in Conversation, NEW which \in Nat, NEW answer \in Given
    PROVE  SameTurns(PushResult(h, which, answer), h)
<1> DEFINE mine(i, k) == {c \in {which} : Owns(h, i, k, c)}
           steps(i) == [k \in DOMAIN h[i].steps |-> Answer(h[i].steps[k], mine(i, k), answer)]
           turn(i) == [id |-> h[i].id, steps |-> steps(i)]
<1>1. PushResult(h, which, answer) = [i \in DOMAIN h |-> turn(i)]
  BY DEF PushResult, PushResults
<1>2. \A i, k : mine(i, k) \in CallSets
  <2> SUFFICES ASSUME NEW i, NEW k PROVE mine(i, k) \in CallSets
    OBVIOUS
  <2>1. IsFiniteSet({which}) /\ mine(i, k) \subseteq {which}
    BY FS_Singleton
  <2>2. IsFiniteSet(mine(i, k))
    BY <2>1, FS_Subset
  <2> QED BY <2>1, <2>2 DEF CallSets
<1> HIDE DEF mine
<1>3. ASSUME NEW i \in 1 .. Len(h)
      PROVE  turn(i) \in TurnSet /\ turn(i).id = h[i].id
  <2>1. h[i] \in TurnSet
    BY <1>3, ConversationFacts
  <2>2. /\ h[i].id \in Nat /\ Len(h[i].steps) \in Nat
        /\ DOMAIN h[i].steps = 1 .. Len(h[i].steps)
        /\ \A k \in 1 .. Len(h[i].steps) : h[i].steps[k] \in StepSet
    BY <2>1, TurnFacts
  <2>3. \A k \in 1 .. Len(h[i].steps) : Answer(h[i].steps[k], mine(i, k), answer) \in StepSet
    <3> SUFFICES ASSUME NEW k \in 1 .. Len(h[i].steps)
                 PROVE  Answer(h[i].steps[k], mine(i, k), answer) \in StepSet
      OBVIOUS
    <3>1. PICK s : s = h[i].steps[k]
      OBVIOUS
    <3>2. s \in StepSet /\ mine(i, k) \in CallSets
      BY <1>2, <2>2, <3>1
    <3>3. Answer(s, mine(i, k), answer) \in StepSet
      BY <3>2, AnswerTyped
    <3> QED BY <3>1, <3>3
  <2>4. steps(i) \in Seq(StepSet)
    BY <2>2, <2>3
  <2> HIDE DEF steps
  <2> QED BY <2>2, <2>4 DEF TurnSet
<1> HIDE DEF turn
<1>4. DOMAIN h = 1 .. Len(h) /\ Len(h) \in Nat
  BY ConversationFacts
<1>5. PICK g : g = [i \in 1 .. Len(h) |-> turn(i)]
  OBVIOUS
<1>6. g \in Seq(TurnSet) /\ Len(g) = Len(h) /\ \A i \in 1 .. Len(h) : g[i].id = h[i].id
  BY <1>3, <1>4, <1>5
<1> QED BY <1>1, <1>4, <1>5, <1>6 DEF SameTurns, Conversation

LEMMA RemoveIncompleteIsSame ==
    ASSUME NEW h \in Conversation
    PROVE  SameTurns(RemoveIncomplete(h), h)
<1> DEFINE n == Len(h)
           new == Front(h[n].steps)
<1>1. CASE ~HasStep(h) \/ AllAnswered(Last(Last(h).steps))
  BY <1>1, ConversationFacts DEF RemoveIncomplete, SameTurns
<1>2. CASE HasStep(h) /\ ~AllAnswered(Last(Last(h).steps))
  <2>1. n \in 1 .. Len(h) /\ Len(h[n].steps) \in 1 .. Len(h[n].steps)
    BY <1>2, LastStep DEF Last
  <2>2. PICK s : s = h[n].steps
    OBVIOUS
  <2>3. s \in Seq(StepSet) /\ Len(s) \in 1 .. Len(s)
    BY <2>1, <2>2, ConversationFacts, TurnFacts
  <2>4. SubSeq(s, 1, Len(s) - 1) \in Seq(StepSet)
    BY <2>3
  <2>5. new \in Seq(StepSet)
    BY <2>2, <2>4 DEF Front
  <2>6. PICK g : g = [h EXCEPT ![n].steps = new]
    OBVIOUS
  <2>7. RemoveIncomplete(h) = g
    BY <1>2, <2>6 DEF RemoveIncomplete
  <2> HIDE DEF new
  <2>8. SameTurns(g, h)
    BY <2>1, <2>5, <2>6, ExceptSteps
  <2> QED BY <2>7, <2>8
<1> QED BY <1>1, <1>2

LEMMA TruncateTyped ==
    ASSUME NEW h \in Conversation, NEW id \in Nat, id # 0
    PROVE  Truncate(h, id) \in Conversation
<1>1. h \in Seq(TurnSet) /\ Len(h) \in Nat
  BY ConversationFacts
<1>2. CASE id > Len(h)
  BY <1>2 DEF Truncate
<1>3. CASE ~(id > Len(h))
  <2>1. id - 1 \in 0 .. Len(h)
    BY <1>1, <1>3
  <2>2. SubSeq(h, 1, id - 1) \in Seq(TurnSet)
    BY <1>1, <2>1
  <2> QED BY <1>3, <2>2 DEF Truncate, Conversation
<1> QED BY <1>2, <1>3

LEMMA CompactedTyped ==
    ASSUME NEW h \in Conversation, NEW keep \in 1 .. 2
    PROVE  Compacted(h, keep) \in Conversation
<1>1. h \in Seq(TurnSet) /\ Len(h) \in Nat
  BY ConversationFacts
<1>2. NewTurn(Summary) \in TurnSet
  BY DEF NewTurn, Summary, TurnSet
<1>3. CASE Len(h) - keep <= 0
  BY <1>3 DEF Compacted
<1>4. CASE ~(Len(h) - keep <= 0)
  <2>1. SubSeq(h, Len(h) - keep + 1, Len(h)) \in Seq(TurnSet)
    BY <1>1, <1>4
  <2>2. PICK s : s = SubSeq(h, Len(h) - keep + 1, Len(h))
    OBVIOUS
  <2>3. <<NewTurn(Summary)>> \in Seq(TurnSet)
    BY <1>2
  <2>4. <<NewTurn(Summary)>> \o s \in Seq(TurnSet)
    BY <2>1, <2>2, <2>3, ConcatProperties
  <2>5. Compacted(h, keep) = <<NewTurn(Summary)>> \o s
    BY <1>1, <1>4, <2>2 DEF Compacted
  <2> QED BY <2>4, <2>5 DEF Conversation
<1> QED BY <1>3, <1>4

-----------------------------------------------------------------------------
(* What is written of a conversation, and what is read back.                  *)

LEMMA Smallest ==
    ASSUME NEW S, S # {}, S \subseteq Nat
    PROVE  \E m \in S : \A k \in S : m <= k
<1> DEFINE R == OpToRel(<, Nat)
<1>1. IsWellFoundedOn(R, Nat)
  BY NatLessThanWellFounded
<1> HIDE DEF R
<1>2. PICK m \in S : \A k \in S : ~(<<k, m>> \in R)
  BY <1>1, WFMin
<1>3. \A k \in S : m <= k
  <2> SUFFICES ASSUME NEW k \in S PROVE m <= k
    OBVIOUS
  <2>1. m \in Nat /\ k \in Nat /\ ~(<<k, m>> \in R)
    BY <1>2
  <2>2. ~(k < m)
    BY <2>1 DEF R, OpToRel
  <2> QED BY <2>1, <2>2
<1> QED BY <1>3

Within(m, s) == \E i \in 1 .. Len(s) : s[i] = m

\* h[i] is the first i sequences, one behind the other.
Behind(s, t) == s \o t

FlatUpTo(h, m, seqs) ==
    h = [i \in 1 .. m |-> IF i = 1 THEN seqs[i] ELSE Behind(h[i - 1], seqs[i])]

LEMMA SomeFlat ==
    ASSUME NEW seqs, NEW n \in Nat
    PROVE  \E h : FlatUpTo(h, n, seqs)
<1> DEFINE Stuck == {m \in Nat : \A h : ~FlatUpTo(h, m, seqs)}
<1> SUFFICES ASSUME Stuck # {} PROVE FALSE
  OBVIOUS
<1>1. PICK m \in Stuck : \A k \in Stuck : m <= k
  <2>1. Stuck \subseteq Nat
    OBVIOUS
  <2> HIDE DEF Stuck
  <2> QED BY <2>1, Smallest
<1>2. m # 0
  <2>1. PICK h : h = [i \in 1 .. 0 |-> seqs[i]]
    OBVIOUS
  <2>2. FlatUpTo(h, 0, seqs)
    BY <2>1 DEF FlatUpTo
  <2> QED BY <1>1, <2>2
<1>3. m - 1 \in Nat /\ m - 1 < m /\ m \in Nat
  BY <1>1, <1>2
<1>4. PICK h : FlatUpTo(h, m - 1, seqs)
  BY <1>1, <1>3
<1>5. PICK g : g = [i \in 1 .. m |-> IF i = 1 THEN seqs[i] ELSE Behind(h[i - 1], seqs[i])]
  OBVIOUS
<1>6. \A i \in 1 .. m - 1 : g[i] = h[i]
  BY <1>3, <1>4, <1>5 DEF FlatUpTo
<1>7. \A i \in 1 .. m : i # 1 => g[i - 1] = h[i - 1]
  <2> SUFFICES ASSUME NEW i \in 1 .. m, i # 1 PROVE g[i - 1] = h[i - 1]
    OBVIOUS
  <2>1. i - 1 \in 1 .. m - 1
    BY <1>3
  <2> HIDE DEF Stuck
  <2> QED BY <1>6, <2>1
<1>8. FlatUpTo(g, m, seqs)
  BY <1>5, <1>7 DEF FlatUpTo
<1> QED BY <1>1, <1>8

LEMMA FlattenIsFlat ==
    ASSUME NEW seqs, Len(seqs) \in Nat, Len(seqs) # 0
    PROVE  \E h : FlatUpTo(h, Len(seqs), seqs) /\ FlattenSeq(seqs) = h[Len(seqs)]
<1> DEFINE P(h) == FlatUpTo(h, Len(seqs), seqs)
           r == CHOOSE h : P(h)
<1>1. PICK h : P(h)
  BY SomeFlat
<1>2. FlattenSeq(seqs) = r[Len(seqs)]
  BY DEF FlattenSeq, FlatUpTo, Behind
<1> HIDE DEF P
<1>3. P(r)
  BY <1>1
<1> QED BY <1>2, <1>3 DEF P

\* All that is in one of the sequences is in the flattened one, and it has no more.
LEMMA FlattenTyped ==
    ASSUME NEW S, NEW seqs \in Seq(Seq(S))
    PROVE  /\ FlattenSeq(seqs) \in Seq(S)
           /\ \A i \in 1 .. Len(seqs) : \A m : Within(m, seqs[i]) => Within(m, FlattenSeq(seqs))
<1>1. CASE Len(seqs) = 0
  <2>1. seqs = <<>>
    BY <1>1
  <2> QED BY <1>1, <2>1 DEF FlattenSeq
<1>2. CASE Len(seqs) # 0
  <2>1. PICK h : FlatUpTo(h, Len(seqs), seqs) /\ FlattenSeq(seqs) = h[Len(seqs)]
    BY <1>2, FlattenIsFlat
  <2>2. Len(seqs) \in Nat /\ \A i \in 1 .. Len(seqs) : seqs[i] \in Seq(S)
    OBVIOUS
  <2> DEFINE Right(n) == /\ h[n] \in Seq(S)
                         /\ \A i \in 1 .. n : \A m : Within(m, seqs[i]) => Within(m, h[n])
             Wrong == {n \in 1 .. Len(seqs) : ~Right(n)}
  <2>3. Wrong = {}
    <3> SUFFICES ASSUME Wrong # {} PROVE FALSE
      OBVIOUS
    <3> HIDE DEF Right
    <3>1. PICK n \in Wrong : \A k \in Wrong : n <= k
      <4>1. Wrong \subseteq Nat
        OBVIOUS
      <4> HIDE DEF Wrong
      <4> QED BY <4>1, Smallest
    <3>2. n \in 1 .. Len(seqs) /\ ~Right(n)
      BY <3>1
    <3>3. CASE n = 1
      <4>1. h[1] = seqs[1]
        BY <2>1, <3>2, <3>3 DEF FlatUpTo
      <4> QED BY <2>2, <3>2, <3>3, <4>1 DEF Right
    <3>4. CASE n # 1
      <4>1. n - 1 \in 1 .. Len(seqs) /\ n - 1 < n
        BY <2>2, <3>2, <3>4
      <4>2. Right(n - 1)
        BY <3>1, <4>1
      <4>3. h[n] = h[n - 1] \o seqs[n]
        BY <2>1, <3>2, <3>4 DEF FlatUpTo, Behind
      <4>4. PICK p, q, r : p = h[n - 1] /\ q = seqs[n] /\ r = h[n]
        OBVIOUS
      <4>5. p \in Seq(S) /\ q \in Seq(S) /\ r = p \o q
        BY <2>2, <3>2, <4>2, <4>3, <4>4 DEF Right
      <4>6. r \in Seq(S) /\ Len(r) = Len(p) + Len(q)
            /\ \A i \in 1 .. Len(p) + Len(q) : r[i] = IF i <= Len(p) THEN p[i] ELSE q[i - Len(p)]
        BY <4>5, ConcatProperties
      <4>7. \A m : Within(m, p) => Within(m, r)
        BY <4>5, <4>6 DEF Within
      <4>8. \A m : Within(m, q) => Within(m, r)
        <5> SUFFICES ASSUME NEW i \in 1 .. Len(q)
                     PROVE  Within(q[i], r)
          BY DEF Within
        <5>1. Len(p) + i \in 1 .. Len(r) /\ r[Len(p) + i] = q[i]
          BY <4>5, <4>6
        <5> QED BY <5>1 DEF Within
      <4>9. \A i \in 1 .. n : i = n \/ i \in 1 .. n - 1
        BY <4>1
      <4>10. Right(n)
        <5>1. \A i \in 1 .. n - 1 : \A m : Within(m, seqs[i]) => Within(m, p)
          BY <4>2, <4>4 DEF Right
        <5> QED BY <4>4, <4>6, <4>7, <4>8, <4>9, <5>1 DEF Right
      <4> QED BY <3>2, <4>10
    <3> QED BY <3>3, <3>4
  <2>4. Right(Len(seqs))
    <3>1. Len(seqs) \in 1 .. Len(seqs)
      BY <1>2, <2>2
    <3> HIDE DEF Right
    <3> QED BY <2>3, <3>1
  <2> QED BY <2>1, <2>4
<1> QED BY <1>1, <1>2

LEMMA ListTyped ==
    ASSUME NEW S, IsFiniteSet(S), NEW T, S \subseteq T
    PROVE  SetToSeq(S) \in Seq(T)
<1>1. Cardinality(S) \in Nat /\ ExistsBijection(1 .. Cardinality(S), S)
  BY FS_CardinalityType
<1>2. PICK f \in [1 .. Cardinality(S) -> S] : IsInjective(f)
  BY <1>1 DEF ExistsBijection, Bijection, Injection
<1>3. SetToSeq(S) \in [1 .. Cardinality(S) -> S]
  BY <1>2 DEF SetToSeq
<1>4. SetToSeq(S) \in [1 .. Cardinality(S) -> T]
  BY <1>3
<1> HIDE DEF SetToSeq
<1> QED BY <1>1, <1>4

LEMMA StepMessagesTyped ==
    ASSUME NEW s \in StepSet
    PROVE  StepMessages(s) \in Seq(Message)
<1> DEFINE C == DOMAIN s.results
           T == {ToolMessage(c, s.results[c]) : c \in C}
           f == [c \in C |-> ToolMessage(c, s.results[c])]
<1>1. C \in CallSets /\ s.calls \in CallSets /\ \A c \in C : s.results[c] \in Given
  BY StepFacts, MapFacts
<1>2. f \in Surjection(C, T)
  BY DEF Surjection
<1>3. IsFiniteSet(C) /\ C \subseteq Nat
  BY <1>1 DEF CallSets
<1>4. IsFiniteSet(T)
  <2> HIDE DEF f, T, C
  <2> QED BY <1>2, <1>3, FS_Surjection
<1>5. T \subseteq Message
  BY <1>1, <1>3 DEF ToolMessage, Message, ToolMessages
<1>6. StepMessages(s) = <<AssistantMessage(s.calls)>> \o SetToSeq(T)
  BY DEF StepMessages
<1> HIDE DEF T
<1>7. SetToSeq(T) \in Seq(Message)
  BY <1>4, <1>5, ListTyped
<1>8. <<AssistantMessage(s.calls)>> \in Seq(Message)
  BY <1>1 DEF AssistantMessage, Message, Asking
<1> QED BY <1>6, <1>7, <1>8, ConcatProperties

TurnMessages(turn) ==
    <<UserMessage(turn.id)>> \o
    FlattenSeq([j \in DOMAIN turn.steps |-> StepMessages(turn.steps[j])])

LEMMA TurnMessagesTyped ==
    ASSUME NEW t \in TurnSet
    PROVE  TurnMessages(t) \in Seq(Message) /\ Within(UserMessage(t.id), TurnMessages(t))
<1> DEFINE parts == [j \in DOMAIN t.steps |-> StepMessages(t.steps[j])]
<1>1. /\ t.id \in Nat /\ Len(t.steps) \in Nat /\ DOMAIN t.steps = 1 .. Len(t.steps)
      /\ \A j \in 1 .. Len(t.steps) : t.steps[j] \in StepSet
  BY TurnFacts
<1>2. ASSUME NEW j \in 1 .. Len(t.steps) PROVE StepMessages(t.steps[j]) \in Seq(Message)
  <2>1. PICK s : s = t.steps[j]
    OBVIOUS
  <2> QED BY <1>1, <2>1, StepMessagesTyped
<1>3. parts \in Seq(Seq(Message))
  BY <1>1, <1>2
<1> HIDE DEF parts
<1>4. PICK rest : rest = FlattenSeq(parts)
  OBVIOUS
<1>5. rest \in Seq(Message)
  BY <1>3, <1>4, FlattenTyped
<1>6. UserMessage(t.id) \in Message
  BY <1>1 DEF UserMessage, Users, Message
<1>7. TurnMessages(t) = <<UserMessage(t.id)>> \o rest
  BY <1>4 DEF TurnMessages, parts
<1>8. PICK first : first = <<UserMessage(t.id)>>
  OBVIOUS
<1>9. first \in Seq(Message) /\ Len(first) = 1 /\ first[1] = UserMessage(t.id)
  BY <1>6, <1>8
<1>10. PICK all : all = first \o rest
  OBVIOUS
<1>11. all \in Seq(Message) /\ Len(all) = 1 + Len(rest) /\ Len(rest) \in Nat
       /\ \A i \in 1 .. Len(first) + Len(rest) :
             all[i] = IF i <= Len(first) THEN first[i] ELSE rest[i - Len(first)]
  <2>1. /\ all \in Seq(Message) /\ Len(all) = Len(first) + Len(rest)
        /\ \A i \in 1 .. Len(first) + Len(rest) :
              all[i] = IF i <= Len(first) THEN first[i] ELSE rest[i - Len(first)]
    <3>1. first \in Seq(Message) /\ rest \in Seq(Message)
      BY <1>5, <1>9
    <3> QED BY <3>1, <1>10, ConcatProperties
  <2>2. Len(rest) \in Nat
    BY <1>5
  <2> QED BY <1>9, <2>1, <2>2
<1>12. 1 \in 1 .. Len(all) /\ all[1] = UserMessage(t.id)
  BY <1>9, <1>11
<1> QED BY <1>7, <1>8, <1>10, <1>11, <1>12 DEF Within

LEMMA MessagesTyped ==
    ASSUME NEW h \in Conversation
    PROVE  /\ Messages(h) \in Seq(Message)
           /\ \A id : Has(h, id) => Within(UserMessage(id), Messages(h))
<1> DEFINE parts == [i \in DOMAIN h |-> TurnMessages(h[i])]
<1>1. Len(h) \in Nat /\ DOMAIN h = 1 .. Len(h) /\ \A i \in 1 .. Len(h) : h[i] \in TurnSet
  BY ConversationFacts
<1>2. Messages(h) = FlattenSeq(parts)
  BY DEF Messages, TurnMessages
<1>3. ASSUME NEW i \in 1 .. Len(h)
      PROVE  TurnMessages(h[i]) \in Seq(Message) /\ Within(UserMessage(h[i].id), TurnMessages(h[i]))
  <2>1. PICK t : t = h[i]
    OBVIOUS
  <2> QED BY <1>1, <2>1, TurnMessagesTyped
<1>4. /\ parts \in Seq(Seq(Message)) /\ Len(parts) = Len(h)
      /\ \A i \in 1 .. Len(h) : parts[i] = TurnMessages(h[i])
  <2> HIDE DEF TurnMessages
  <2> QED BY <1>1, <1>3
<1> HIDE DEF parts
<1>5. /\ FlattenSeq(parts) \in Seq(Message)
      /\ \A i \in 1 .. Len(parts) : \A m : Within(m, parts[i]) => Within(m, FlattenSeq(parts))
  BY <1>4, FlattenTyped
<1>6. ASSUME NEW id, Has(h, id)
      PROVE  Within(UserMessage(id), FlattenSeq(parts))
  <2>1. PICK i \in 1 .. Len(h) : h[i].id = id
    BY <1>6 DEF Has
  <2>2. Within(UserMessage(id), parts[i]) /\ i \in 1 .. Len(parts)
    BY <1>3, <1>4, <2>1
  <2> QED BY <1>5, <2>2
<1> QED BY <1>2, <1>5, <1>6

\* h[n] is what is built of the first n messages.
ReadUpTo(h, m, messages) ==
    h = [n \in 0 .. m |-> IF n = 0 THEN <<>> ELSE PushAgain(h[n - 1], messages[n])]

LEMMA SomeRead ==
    ASSUME NEW messages, NEW n \in Nat
    PROVE  \E h : ReadUpTo(h, n, messages)
<1> DEFINE Stuck == {m \in Nat : \A h : ~ReadUpTo(h, m, messages)}
<1> SUFFICES ASSUME Stuck # {} PROVE FALSE
  OBVIOUS
<1>1. PICK m \in Stuck : \A k \in Stuck : m <= k
  <2>1. Stuck \subseteq Nat
    OBVIOUS
  <2> HIDE DEF Stuck
  <2> QED BY <2>1, Smallest
<1>2. m # 0
  <2>1. PICK h : h = [k \in 0 .. 0 |-> <<>>]
    OBVIOUS
  <2>2. ReadUpTo(h, 0, messages)
    BY <2>1 DEF ReadUpTo
  <2> QED BY <1>1, <2>2
<1>3. m - 1 \in Nat /\ m - 1 < m /\ m \in Nat
  BY <1>1, <1>2
<1>4. PICK h : ReadUpTo(h, m - 1, messages)
  BY <1>1, <1>3
<1>5. PICK g : g = [k \in 0 .. m |-> IF k = 0 THEN <<>> ELSE PushAgain(h[k - 1], messages[k])]
  OBVIOUS
<1>6. \A k \in 0 .. m - 1 : g[k] = h[k]
  BY <1>3, <1>4, <1>5 DEF ReadUpTo
<1>7. \A k \in 0 .. m : k # 0 => g[k - 1] = h[k - 1]
  BY <1>3, <1>6
<1>8. ReadUpTo(g, m, messages)
  BY <1>5, <1>7 DEF ReadUpTo
<1> QED BY <1>1, <1>8

LEMMA ReadBackReads ==
    ASSUME NEW messages, Len(messages) \in Nat
    PROVE  \E h : ReadUpTo(h, Len(messages), messages) /\ ReadBack(messages) = h[Len(messages)]
<1> DEFINE P(h) == ReadUpTo(h, Len(messages), messages)
           r == CHOOSE h : P(h)
<1>1. PICK h : P(h)
  BY SomeRead
<1>2. ReadBack(messages) = r[Len(messages)]
  BY DEF ReadBack, ReadUpTo
<1> HIDE DEF P
<1>3. P(r)
  BY <1>1
<1> QED BY <1>2, <1>3 DEF P

LEMMA PushAgainHas ==
    ASSUME NEW h \in Conversation, NEW m \in Message
    PROVE  /\ PushAgain(h, m) \in Conversation
           /\ \A id : Has(h, id) => Has(PushAgain(h, m), id)
           /\ m.role = "user" => Has(PushAgain(h, m), m.id)
<1>1. /\ h \in Seq(TurnSet) /\ Len(h) \in Nat /\ \A i \in 1 .. Len(h) : h[i] \in TurnSet
      /\ h = <<>> <=> Len(h) = 0
  BY ConversationFacts
<1>2. CASE m \in Users
  <2>1. m.role = "user" /\ m.id \in Nat
    BY <1>2 DEF Users
  <2>2. PICK t : t = NewTurn(m.id)
    OBVIOUS
  <2>3. t \in TurnSet /\ t.id = m.id
    BY <2>1, <2>2 DEF NewTurn, TurnSet
  <2>4. PushAgain(h, m) = Append(h, t)
    BY <2>1, <2>2 DEF PushAgain
  <2>5. PICK g : g = Append(h, t)
    OBVIOUS
  <2>6. g \in Seq(TurnSet) /\ Len(g) = Len(h) + 1 /\ g[Len(h) + 1] = t
        /\ \A i \in 1 .. Len(h) : g[i] = h[i]
    BY <1>1, <2>3, <2>5
  <2>7. \A id : Has(h, id) => Has(g, id)
    BY <1>1, <2>6 DEF Has
  <2>8. Len(g) \in 1 .. Len(g) /\ g[Len(g)].id = m.id
    BY <1>1, <2>3, <2>6
  <2>9. Has(g, m.id)
    BY <2>8 DEF Has
  <2> QED BY <2>4, <2>5, <2>6, <2>7, <2>9 DEF Conversation
<1>3. CASE m \in Asking
  <2>1. m.role = "assistant" /\ m.role # "user" /\ m.calls \in CallSets
    BY <1>3 DEF Asking
  <2>2. CASE h = <<>>
    <3>1. PushAgain(h, m) = h
      BY <2>1, <2>2 DEF PushAgain
    <3> QED BY <2>1, <3>1
  <2>3. CASE h # <<>>
    <3> DEFINE n == Len(h)
               new == Append(h[n].steps, Step(m.calls))
    <3>1. n \in 1 .. Len(h)
      BY <1>1, <2>3
    <3>2. h[n].steps \in Seq(StepSet)
      BY <1>1, <3>1, TurnFacts
    <3>3. Step(m.calls) \in StepSet
      BY <2>1, MapFacts DEF Step, StepSet
    <3>4. new \in Seq(StepSet)
      <4> HIDE DEF n
      <4> QED BY <3>2, <3>3
    <3>5. PICK g : g = [h EXCEPT ![n].steps = new]
      OBVIOUS
    <3>6. PushAgain(h, m) = g
      BY <2>1, <2>3, <3>5 DEF PushAgain
    <3> HIDE DEF new, n
    <3>7. SameTurns(g, h)
      BY <3>1, <3>4, <3>5, ExceptSteps
    <3> QED BY <2>1, <3>6, <3>7, SameHas DEF SameTurns
  <2> QED BY <2>2, <2>3
<1>4. CASE m \in ToolMessages
  <2>1. m.role = "tool" /\ m.role # "user" /\ m.role # "assistant" /\ m.call \in Nat /\ m.answer \in Given
    BY <1>4 DEF ToolMessages
  <2>2. PICK g : g = PushResult(h, m.call, m.answer)
    OBVIOUS
  <2>3. PushAgain(h, m) = g
    BY <2>1, <2>2 DEF PushAgain
  <2>4. SameTurns(g, h)
    BY <2>1, <2>2, PushResultIsSame
  <2> QED BY <2>1, <2>3, <2>4, SameHas DEF SameTurns
<1> QED BY <1>2, <1>3, <1>4 DEF Message

LEMMA ReadBackHas ==
    ASSUME NEW ms \in Seq(Message)
    PROVE  /\ ReadBack(ms) \in Conversation
           /\ \A id \in Nat : Within(UserMessage(id), ms) => Has(ReadBack(ms), id)
<1>1. Len(ms) \in Nat /\ \A i \in 1 .. Len(ms) : ms[i] \in Message
  OBVIOUS
<1>2. PICK h : ReadUpTo(h, Len(ms), ms) /\ ReadBack(ms) = h[Len(ms)]
  BY <1>1, ReadBackReads
<1> DEFINE Right(n) == /\ h[n] \in Conversation
                       /\ \A i \in 1 .. n : ms[i].role = "user" => Has(h[n], ms[i].id)
           Wrong == {n \in 0 .. Len(ms) : ~Right(n)}
<1>3. Wrong = {}
  <2> SUFFICES ASSUME Wrong # {} PROVE FALSE
    OBVIOUS
  <2> HIDE DEF Right
  <2>1. PICK n \in Wrong : \A k \in Wrong : n <= k
    <3>1. Wrong \subseteq Nat
      OBVIOUS
    <3> HIDE DEF Wrong
    <3> QED BY <3>1, Smallest
  <2>2. n \in 0 .. Len(ms) /\ ~Right(n)
    BY <2>1
  <2>3. CASE n = 0
    <3>1. h[0] = <<>>
      BY <1>1, <1>2 DEF ReadUpTo
    <3>2. h[0] \in Conversation
      BY <3>1 DEF Conversation
    <3> QED BY <2>2, <2>3, <3>2 DEF Right
  <2>4. CASE n # 0
    <3>1. n - 1 \in 0 .. Len(ms) /\ n - 1 < n /\ n \in 1 .. Len(ms)
      BY <1>1, <2>2, <2>4
    <3>2. Right(n - 1)
      BY <2>1, <3>1
    <3>3. h[n] = PushAgain(h[n - 1], ms[n])
      BY <1>2, <2>2, <2>4 DEF ReadUpTo
    <3>4. PICK p, m : p = h[n - 1] /\ m = ms[n]
      OBVIOUS
    <3>5. p \in Conversation /\ m \in Message
      BY <1>1, <3>1, <3>2, <3>4 DEF Right
    <3>6. /\ PushAgain(p, m) \in Conversation
          /\ \A id : Has(p, id) => Has(PushAgain(p, m), id)
          /\ m.role = "user" => Has(PushAgain(p, m), m.id)
      BY <3>5, PushAgainHas
    <3>7. \A i \in 1 .. n : i = n \/ i \in 1 .. n - 1
      BY <3>1
    <3>8. \A i \in 1 .. n - 1 : ms[i].role = "user" => Has(p, ms[i].id)
      BY <3>2, <3>4 DEF Right
    <3>9. \A i \in 1 .. n : ms[i].role = "user" => Has(PushAgain(p, m), ms[i].id)
      BY <3>4, <3>6, <3>7, <3>8
    <3>10. Right(n)
      BY <3>3, <3>4, <3>6, <3>9 DEF Right
    <3> QED BY <2>2, <3>10
  <2> QED BY <2>3, <2>4
<1>4. Right(Len(ms))
  <2>1. Len(ms) \in 0 .. Len(ms)
    BY <1>1
  <2> HIDE DEF Right
  <2> QED BY <1>3, <2>1
<1>5. ASSUME NEW id \in Nat, Within(UserMessage(id), ms)
      PROVE  Has(ReadBack(ms), id)
  <2>1. PICK i \in 1 .. Len(ms) : ms[i] = UserMessage(id)
    BY <1>5 DEF Within
  <2>2. ms[i].role = "user" /\ ms[i].id = id
    BY <2>1 DEF UserMessage
  <2> QED BY <1>2, <1>4, <2>2
<1> QED BY <1>2, <1>4, <1>5

LEMMA RepairedTyped ==
    ASSUME NEW s \in StepSet
    PROVE  Repaired(s) \in StepSet
<1> DEFINE r == [c \in s.calls |-> IF c \in DOMAIN s.results THEN s.results[c] ELSE "not executed"]
<1>1. s.calls \in CallSets /\ s.results \in AnswerMaps
  BY StepFacts
<1>2. \A c \in DOMAIN s.results : s.results[c] \in Given
  BY <1>1, MapFacts
<1>3. r \in [s.calls -> Given]
  BY <1>2 DEF Given
<1>4. Repaired(s) = [calls |-> s.calls, results |-> r]
  BY DEF Repaired
<1> HIDE DEF r
<1>5. r \in AnswerMaps
  BY <1>1, <1>3, MapFacts
<1> QED BY <1>1, <1>4, <1>5 DEF StepSet

LEMMA RepairCallsIsSame ==
    ASSUME NEW h \in Conversation
    PROVE  SameTurns(RepairCalls(h), h)
<1> DEFINE steps(i) == [j \in DOMAIN h[i].steps |-> Repaired(h[i].steps[j])]
           turn(i) == [id |-> h[i].id, steps |-> steps(i)]
<1>1. RepairCalls(h) = [i \in DOMAIN h |-> turn(i)]
  BY DEF RepairCalls
<1>2. ASSUME NEW i \in 1 .. Len(h)
      PROVE  turn(i) \in TurnSet /\ turn(i).id = h[i].id
  <2>1. h[i] \in TurnSet
    BY <1>2, ConversationFacts
  <2>2. /\ h[i].id \in Nat /\ Len(h[i].steps) \in Nat
        /\ DOMAIN h[i].steps = 1 .. Len(h[i].steps)
        /\ \A k \in 1 .. Len(h[i].steps) : h[i].steps[k] \in StepSet
    BY <2>1, TurnFacts
  <2>3. \A k \in 1 .. Len(h[i].steps) : Repaired(h[i].steps[k]) \in StepSet
    BY <2>2, RepairedTyped
  <2>4. steps(i) \in Seq(StepSet)
    BY <2>2, <2>3
  <2> HIDE DEF steps
  <2> QED BY <2>2, <2>4 DEF TurnSet
<1> HIDE DEF turn
<1>3. DOMAIN h = 1 .. Len(h) /\ Len(h) \in Nat
  BY ConversationFacts
<1>4. PICK g : g = [i \in 1 .. Len(h) |-> turn(i)]
  OBVIOUS
<1>5. g \in Seq(TurnSet) /\ Len(g) = Len(h) /\ \A i \in 1 .. Len(h) : g[i].id = h[i].id
  BY <1>2, <1>3, <1>4
<1> QED BY <1>1, <1>3, <1>4, <1>5 DEF SameTurns, Conversation

\* A turn is built again for each message of the user.
LEMMA FromMessagesHas ==
    ASSUME NEW ms \in Seq(Message)
    PROVE  /\ FromMessages(ms) \in Conversation
           /\ \A id \in Nat : Within(UserMessage(id), ms) => Has(FromMessages(ms), id)
<1>1. PICK h : h = ReadBack(ms)
  OBVIOUS
<1>2. h \in Conversation /\ \A id \in Nat : Within(UserMessage(id), ms) => Has(h, id)
  BY <1>1, ReadBackHas
<1>3. SameTurns(RepairCalls(h), h)
  BY <1>2, RepairCallsIsSame
<1> QED BY <1>1, <1>2, <1>3, SameHas DEF FromMessages, SameTurns

\* Whatever is read back, every call of it has an answer.
LEMMA RepairAnswersAll ==
    ASSUME NEW h
    PROVE  CallsAnswered(RepairCalls(h))
<1>1. SUFFICES ASSUME NEW i \in DOMAIN RepairCalls(h), NEW s \in Range(RepairCalls(h)[i].steps)
               PROVE  AllAnswered(s)
  BY DEF CallsAnswered
<1>2. PICK steps : steps = [j \in DOMAIN h[i].steps |-> Repaired(h[i].steps[j])]
  OBVIOUS
<1>3. RepairCalls(h)[i].steps = steps
  BY <1>1, <1>2 DEF RepairCalls
<1>4. PICK j \in DOMAIN steps : s = steps[j]
  BY <1>1, <1>3 DEF Range
<1>5. PICK t : s = Repaired(t)
  BY <1>2, <1>4
<1> QED BY <1>5 DEF Repaired, AllAnswered

-----------------------------------------------------------------------------
(* A turn whose model is asked exists, and has a step once its tools run.     *)

LEMMA AskedHasStep ==
    ASSUME NEW h \in Conversation, h # <<>>, NEW asked \in CallSets
    PROVE  HasStep(PushAssistant(h, asked))
<1> DEFINE f == SettleLast(h)
           n == Len(h)
           new == Append(f[n].steps, Step(asked))
<1>1. SameTurns(f, h)
  BY SettleLastIsSame
<1>2. PICK g : g = [f EXCEPT ![n].steps = new]
  OBVIOUS
<1>3. PushAssistant(h, asked) = g
  BY <1>2 DEF PushAssistant
<1> HIDE DEF f
<1>4. f \in Conversation /\ n \in 1 .. Len(f) /\ Len(f) = n
  BY <1>1, ConversationFacts DEF SameTurns
<1>5. f[n] \in TurnSet /\ DOMAIN f = 1 .. Len(f)
  BY <1>4, ConversationFacts
<1>6. f[n].steps \in Seq(StepSet) /\ f[n] = [id |-> f[n].id, steps |-> f[n].steps]
  BY <1>5, TurnFacts
<1>7. Step(asked) \in StepSet
  BY MapFacts DEF Step, StepSet
<1>8. new \in Seq(StepSet) /\ new # <<>>
  <2> HIDE DEF n
  <2> QED BY <1>6, <1>7
<1> HIDE DEF new
<1>9. g[n].steps = new
  <2> HIDE DEF n
  <2>1. [f[n] EXCEPT !.steps = new] = [id |-> f[n].id, steps |-> new]
    BY <1>6
  <2>2. g = [f EXCEPT ![n] = [f[n] EXCEPT !.steps = new]]
    BY <1>2
  <2>3. g[n] = [id |-> f[n].id, steps |-> new]
    BY <1>4, <1>5, <2>1, <2>2
  <2> QED BY <2>3
<1>10. SameTurns(g, f)
  BY <1>2, <1>4, <1>8, ExceptSteps
<1>11. Len(g) = n /\ g # <<>>
  BY <1>4, <1>10, ConversationFacts DEF SameTurns
<1> QED BY <1>3, <1>8, <1>9, <1>11 DEF HasStep, Last

LEMMA AnsweredHasStep ==
    ASSUME NEW h \in Conversation, HasStep(h), NEW which \in Nat, NEW answer \in Given
    PROVE  HasStep(PushResult(h, which, answer))
<1>1. PICK n : n = Len(h)
  OBVIOUS
<1>2. n \in 1 .. Len(h) /\ h[n].steps # <<>> /\ DOMAIN h = 1 .. Len(h)
  BY <1>1, LastStep, ConversationFacts DEF HasStep, Last
<1>3. PICK g : g = PushResult(h, which, answer)
  OBVIOUS
<1>4. SameTurns(g, h)
  BY <1>3, PushResultIsSame
<1>5. h[n].steps \in Seq(StepSet)
  BY <1>2, ConversationFacts, TurnFacts
<1>6. DOMAIN g[n].steps = DOMAIN h[n].steps
  BY <1>2, <1>3 DEF PushResult, PushResults
<1>7. 1 \in DOMAIN h[n].steps
  BY <1>2, <1>5
<1>8. g[n].steps # <<>>
  BY <1>6, <1>7
<1>9. Len(g) = n /\ g # <<>>
  BY <1>1, <1>2, <1>4, ConversationFacts DEF SameTurns
<1> QED BY <1>3, <1>8, <1>9 DEF HasStep, Last

LEMMA CompactedHasStep ==
    ASSUME NEW h \in Conversation, NEW keep \in 1 .. 2, Len(h) > keep
    PROVE  Compacted(h, keep) # <<>> /\ (HasStep(h) => HasStep(Compacted(h, keep)))
<1>1. h \in Seq(TurnSet) /\ Len(h) \in Nat
  BY ConversationFacts
<1>2. NewTurn(Summary) \in TurnSet
  BY DEF NewTurn, Summary, TurnSet
<1>3. PICK s : s = SubSeq(h, Len(h) - keep + 1, Len(h))
  OBVIOUS
<1>4. s \in Seq(TurnSet) /\ Len(s) = keep /\ s[keep] = h[Len(h)]
  BY <1>1, <1>3
<1>5. PICK t : t = <<NewTurn(Summary)>>
  OBVIOUS
<1>6. t \in Seq(TurnSet) /\ Len(t) = 1
  BY <1>2, <1>5
<1>7. PICK g : g = t \o s
  OBVIOUS
<1>8. /\ Len(g) = 1 + keep /\ g[1 + keep] = s[keep] /\ g \in Seq(TurnSet)
  <2>1. /\ t \o s \in Seq(TurnSet) /\ Len(t \o s) = Len(t) + Len(s)
        /\ \A i \in 1 .. Len(t) + Len(s) : (t \o s)[i] = IF i <= Len(t) THEN t[i] ELSE s[i - Len(t)]
    BY <1>4, <1>6, ConcatProperties
  <2> QED BY <1>4, <1>6, <1>7, <2>1
<1>9. Compacted(h, keep) = g
  BY <1>1, <1>3, <1>5, <1>7 DEF Compacted
<1>10. g # <<>> /\ g[Len(g)] = h[Len(h)]
  BY <1>4, <1>8
<1> QED BY <1>9, <1>10 DEF HasStep, Last

-----------------------------------------------------------------------------
(* What the agent has yet to write.                                           *)

PlainOps ==
    [op : {"line"}, message : Message] \cup [op : {"meta"}, messages : Nat, turns : Nat]
        \cup [op : {"context", "refresh", "lock", "unlock"}]
Rewrites == [op : {"rewrite"}]
Announces == [op : {"announce"}, id : Nat]
Ops == PlainOps \cup Rewrites \cup Announces

LEMMA OpFacts ==
    /\ \A op \in PlainOps : op.op # "rewrite" /\ op.op # "announce"
    /\ \A op \in Rewrites : op.op = "rewrite"
    /\ \A op \in Announces : op.op = "announce" /\ op.id \in Nat
    /\ \A op \in Ops : /\ op.op = "line" => op.message \in Message /\ op = Line(op.message)
                       /\ op.op = "meta" => op.messages \in Nat /\ op.turns \in Nat
    /\ \A m : Line(m).op = "line"
    /\ \A m \in Message : Line(m) \in PlainOps
    /\ \A m, n \in Nat : WriteMeta(m, n) \in PlainOps
    /\ {NewContext, RefreshContext, [op |-> "lock"], [op |-> "unlock"]} \subseteq PlainOps
    /\ Rewrite \in Rewrites
    /\ \A id \in Nat : Announce(id) \in Announces /\ Announce(id).id = id
<1>1. \A op \in PlainOps : op.op # "rewrite" /\ op.op # "announce"
  BY DEF PlainOps
<1>2. \A op \in Rewrites : op.op = "rewrite"
  BY DEF Rewrites
<1>3. \A op \in Announces : op.op = "announce" /\ op.id \in Nat
  BY DEF Announces
<1>4. \A op \in PlainOps : /\ op.op = "line" => op.message \in Message /\ op = Line(op.message)
                           /\ op.op = "meta" => op.messages \in Nat /\ op.turns \in Nat
  BY DEF PlainOps, Line
<1>5. /\ \A m : Line(m).op = "line"
      /\ \A m \in Message : Line(m) \in PlainOps
      /\ \A m, n \in Nat : WriteMeta(m, n) \in PlainOps
      /\ {NewContext, RefreshContext, [op |-> "lock"], [op |-> "unlock"]} \subseteq PlainOps
  BY DEF PlainOps, Line, WriteMeta, NewContext, RefreshContext
<1>6. Rewrite \in Rewrites /\ \A id \in Nat : Announce(id) \in Announces /\ Announce(id).id = id
  BY DEF Rewrites, Rewrite, Announces, Announce
<1> QED BY <1>1, <1>2, <1>3, <1>4, <1>5, <1>6 DEF Ops

LEMMA UpsertTyped == UpsertIndex \in Seq(PlainOps)
<1>1. [op |-> "lock"] \in PlainOps /\ [op |-> "unlock"] \in PlainOps
  BY OpFacts
<1> HIDE DEF PlainOps
<1> QED BY <1>1 DEF UpsertIndex

LEMMA WithinConcat ==
    ASSUME NEW S, NEW s \in Seq(S), NEW t \in Seq(S)
    PROVE  \A m : Within(m, s) => Within(m, s \o t)
<1>1. PICK r : r = s \o t
  OBVIOUS
<1>2. Len(r) = Len(s) + Len(t) /\ \A i \in 1 .. Len(s) + Len(t) : r[i] = IF i <= Len(s) THEN s[i] ELSE t[i - Len(s)]
  BY <1>1, ConcatProperties
<1>3. \A i \in 1 .. Len(s) : i \in 1 .. Len(r) /\ r[i] = s[i]
  BY <1>2
<1> QED BY <1>1, <1>3 DEF Within

\* Each unsaved message has its line, and the turns are not announced.
LEMMA FlushMetaTyped ==
    ASSUME NEW h \in Conversation, NEW unsaved \in Seq(Message), meta.messages \in Nat
    PROVE  /\ FlushMeta(h, unsaved) \in Seq(PlainOps)
           /\ \A m : Within(m, unsaved) => Within(Line(m), FlushMeta(h, unsaved))
<1>1. Len(h) \in Nat
  BY ConversationFacts
<1>2. CASE unsaved = <<>>
  <2>1. WriteMeta(meta.messages, Len(h)) \in PlainOps
    BY <1>1, OpFacts
  <2>2. <<WriteMeta(meta.messages, Len(h))>> \in Seq(PlainOps)
    BY <2>1
  <2>3. FlushMeta(h, unsaved) \in Seq(PlainOps)
    BY <1>2, <2>2, UpsertTyped, ConcatProperties DEF FlushMeta
  <2>4. \A m : ~Within(m, unsaved)
    BY <1>2 DEF Within
  <2> QED BY <2>3, <2>4
<1>3. CASE unsaved # <<>>
  <2>1. PICK lines : lines = [i \in DOMAIN unsaved |-> Line(unsaved[i])]
    OBVIOUS
  <2>2. DOMAIN unsaved = 1 .. Len(unsaved) /\ Len(unsaved) \in Nat
        /\ \A i \in 1 .. Len(unsaved) : unsaved[i] \in Message
    OBVIOUS
  <2>3. \A i \in 1 .. Len(unsaved) : Line(unsaved[i]) \in PlainOps
    BY <2>2, OpFacts
  <2>4. lines \in Seq(PlainOps) /\ Len(lines) = Len(unsaved)
        /\ \A i \in 1 .. Len(unsaved) : lines[i] = Line(unsaved[i])
    BY <2>1, <2>2, <2>3
  <2>5. \A m : Within(m, unsaved) => Within(Line(m), lines)
    BY <2>4 DEF Within
  <2>6. PICK rest : rest = <<WriteMeta(meta.messages + Len(unsaved), Len(h))>>
    OBVIOUS
  <2>7. WriteMeta(meta.messages + Len(unsaved), Len(h)) \in PlainOps
    BY <1>1, <2>2, OpFacts
  <2>8. rest \in Seq(PlainOps)
    BY <2>6, <2>7
  <2>9. PICK ops : ops = lines \o rest \o UpsertIndex
    OBVIOUS
  <2>10. lines \o rest \in Seq(PlainOps) /\ \A m : Within(m, lines) => Within(m, lines \o rest)
    BY <2>4, <2>8, ConcatProperties, WithinConcat
  <2>11. ops \in Seq(PlainOps) /\ \A m : Within(m, lines) => Within(m, ops)
    BY <2>9, <2>10, UpsertTyped, ConcatProperties, WithinConcat
  <2>12. AppendOps(unsaved, h) = ops
    BY <2>1, <2>6, <2>9 DEF AppendOps
  <2>13. PICK tail : tail = IF compacted THEN <<RefreshContext>> ELSE <<>>
    OBVIOUS
  <2>14. tail \in Seq(PlainOps)
    <3>1. RefreshContext \in PlainOps
      BY OpFacts
    <3> QED BY <2>13, <3>1
  <2>15. FlushMeta(h, unsaved) = ops \o tail
    BY <1>3, <2>12, <2>13 DEF FlushMeta
  <2>16. ops \o tail \in Seq(PlainOps) /\ \A m : Within(m, ops) => Within(m, ops \o tail)
    BY <2>11, <2>14, ConcatProperties, WithinConcat
  <2> QED BY <2>5, <2>11, <2>15, <2>16
<1> QED BY <1>2, <1>3

LEMMA SnapshotTyped ==
    ASSUME NEW h \in Conversation, NEW inContext
    PROVE  /\ SnapshotFull(h, inContext) \in Seq(PlainOps \cup Rewrites)
           /\ inContext => SnapshotFull(h, inContext) \in Seq(PlainOps)
<1>1. CASE inContext
  <2>1. NewContext \in PlainOps
    BY OpFacts
  <2> HIDE DEF PlainOps, Rewrites
  <2>2. <<NewContext>> \in Seq(PlainOps) /\ <<NewContext>> \in Seq(PlainOps \cup Rewrites)
    BY <2>1
  <2> QED BY <1>1, <2>2 DEF SnapshotFull
<1>2. CASE ~inContext
  <2>1. Len(h) \in Nat /\ Len(Messages(h)) \in Nat
    BY ConversationFacts, MessagesTyped
  <2>2. Rewrite \in Rewrites /\ WriteMeta(Len(Messages(h)), Len(h)) \in PlainOps
    BY <2>1, OpFacts
  <2>3. PICK r, w : r = Rewrite /\ w = WriteMeta(Len(Messages(h)), Len(h))
    OBVIOUS
  <2>4. PICK S : S = PlainOps \cup Rewrites
    OBVIOUS
  <2>5. <<r, w>> \in Seq(S)
    BY <2>2, <2>3, <2>4
  <2>6. UpsertIndex \in Seq(S)
    <3>1. PlainOps \subseteq S
      BY <2>4
    <3>2. [op |-> "lock"] \in S /\ [op |-> "unlock"] \in S
      BY <3>1, OpFacts
    <3> QED BY <3>2 DEF UpsertIndex
  <2>7. <<r, w>> \o UpsertIndex \in Seq(S)
    BY <2>5, <2>6, ConcatProperties
  <2> QED BY <1>2, <2>3, <2>4, <2>7 DEF SnapshotFull
<1> QED BY <1>1, <1>2

-----------------------------------------------------------------------------
(* The inductive invariant.                                                   *)

StoreShapes ==
    /\ turns \in Conversation
    /\ pending \in Seq(Message) /\ archive \in Seq(Message)
    /\ seq \in Nat \ {0} /\ calls \in Nat
    /\ up \in BOOLEAN /\ (~up => io = <<>> /\ phase = "idle")
    /\ io \in Seq(Ops)
    /\ meta \in [messages : Nat, turns : Nat]
    /\ \A c \in context : c.messages \in Seq(Message)
    /\ timeline \subseteq 1 .. MaxTurns

\* A turn whose model is asked exists; its tools are those of its last step.
TurnIsThere ==
    /\ phase \in {"asking", "tools"} => turns # <<>>
    /\ phase = "tools" => HasStep(turns)

\* The turns that are, or are about to be, announced have numbers below the next.
NumbersAreUsed ==
    up => /\ \A id \in timeline : id < seq
          /\ \A i \in 1 .. Len(io) :
                io[i].op = "announce" => io[i].id \in 1 .. MaxTurns /\ io[i].id < seq

\* A turn is announced after its message was written.
WrittenFirst ==
    \A i \in 1 .. Len(io) : io[i].op = "announce" =>
        \/ Within(UserMessage(io[i].id), archive)
        \/ \E j \in 1 .. i - 1 : io[j] = Line(UserMessage(io[i].id))

Archived == \A id \in timeline \ undone : Within(UserMessage(id), archive)

\* Until it is compacted, memory has each turn that was or will be announced, so an
\* archive that is written anew has their messages.
Remembered ==
    up /\ ~compacted =>
        /\ \A id \in timeline \ undone : Has(turns, id)
        /\ \A i \in 1 .. Len(io) : io[i].op = "announce" => Has(turns, io[i].id)

RewrittenFromAll ==
    (\E i \in 1 .. Len(io) : io[i].op = "rewrite") =>
        up /\ ~compacted /\ \A i \in 1 .. Len(io) : io[i].op # "announce"

StoreInv ==
    /\ StoreShapes /\ TurnIsThere /\ NumbersAreUsed
    /\ WrittenFirst /\ Archived /\ Remembered /\ RewrittenFromAll

LEMMA StoreInitHolds == StoreInit => StoreInv
<1> SUFFICES ASSUME StoreInit PROVE StoreInv
  OBVIOUS
<1>1. turns = <<>> /\ pending = <<>> /\ archive = <<>> /\ io = <<>> /\ Len(io) = 0
  BY DEF StoreInit
<1>2. <<>> \in Conversation
  BY DEF Conversation
<1>3. StoreShapes
  BY <1>1, <1>2 DEF StoreInit, StoreShapes
<1>4. TurnIsThere /\ Archived
  BY DEF StoreInit, TurnIsThere, Archived
<1>5. NumbersAreUsed /\ WrittenFirst /\ Remembered /\ RewrittenFromAll
  BY <1>1 DEF StoreInit, NumbersAreUsed, WrittenFirst, Remembered, RewrittenFromAll
<1> QED BY <1>3, <1>4, <1>5 DEF StoreInv

\* The agent does something that announces nothing.
LEMMA QuietKeeps ==
    ASSUME StoreInv, Ready, io' \in Seq(PlainOps \cup Rewrites),
           (\E i \in 1 .. Len(io') : io'[i].op = "rewrite") => ~compacted',
           turns' \in Conversation, pending' \in Seq(Message), calls' \in Nat,
           compacted' \/ (~compacted /\ \A id \in timeline \ undone' : Has(turns', id)),
           undone \subseteq undone', TurnIsThere',
           UNCHANGED <<seq, up, files, timeline>>
    PROVE  StoreInv'
<1>1. Len(io') \in Nat /\ \A i \in 1 .. Len(io') : io'[i].op # "announce"
  <2>1. PICK S, ops : S = PlainOps \cup Rewrites /\ ops = io'
    OBVIOUS
  <2>2. ops \in Seq(S)
    BY <2>1
  <2>3. Len(ops) \in Nat /\ \A i \in 1 .. Len(ops) : ops[i] \in S
    BY <2>2
  <2> HIDE DEF PlainOps, Rewrites
  <2>4. \A op \in S : op.op # "announce"
    BY <2>1, OpFacts
  <2> QED BY <2>1, <2>3, <2>4
<1>2. up
  BY DEF Ready
<1>3. StoreShapes'
  <2>1. PICK S : S = PlainOps \cup Rewrites
    OBVIOUS
  <2>2. S \subseteq Ops /\ io' \in Seq(S)
    BY <2>1 DEF Ops
  <2>3. io' \in Seq(Ops)
    <3> HIDE DEF Ops
    <3> QED BY <2>2
  <2> QED BY <1>2, <2>3 DEF StoreInv, StoreShapes, files
<1>4. NumbersAreUsed' /\ WrittenFirst' /\ RewrittenFromAll'
  BY <1>1, <1>2 DEF StoreInv, NumbersAreUsed, WrittenFirst, RewrittenFromAll
<1>5. Archived'
  BY DEF StoreInv, Archived, files
<1>6. Remembered'
  BY <1>1 DEF StoreInv, Remembered
<1> QED BY <1>3, <1>4, <1>5, <1>6 DEF StoreInv

LEMMA PlainKeeps ==
    ASSUME StoreInv, Ready, io' \in Seq(PlainOps),
           turns' \in Conversation, pending' \in Seq(Message), calls' \in Nat,
           compacted' \/ (~compacted /\ \A id \in timeline \ undone' : Has(turns', id)),
           undone \subseteq undone', TurnIsThere',
           UNCHANGED <<seq, up, files, timeline>>
    PROVE  StoreInv'
<1>1. \A i \in 1 .. Len(io') : io'[i].op # "rewrite"
  <2>1. \A i \in 1 .. Len(io') : io'[i] \in PlainOps
    OBVIOUS
  <2> HIDE DEF PlainOps
  <2> QED BY <2>1, OpFacts
<1>2. io' \in Seq(PlainOps \cup Rewrites)
  <2>1. PICK S : S = PlainOps \cup Rewrites
    OBVIOUS
  <2>2. PlainOps \subseteq S
    BY <2>1
  <2>3. io' \in Seq(S)
    BY <2>2
  <2> QED BY <2>1, <2>3
<1> QED BY <1>1, <1>2, QuietKeeps

LEMMA ReadyRemembers ==
    ASSUME StoreInv, Ready
    PROVE  compacted \/ \A id \in timeline \ undone : Has(turns, id)
  BY DEF StoreInv, Remembered, Ready

LEMMA SendKeeps == ASSUME StoreInv, SendMessage PROVE StoreInv'
<1> DEFINE unsaved == Append(pending, UserMessage(seq))
<1>1. /\ StoreShapes /\ Ready /\ seq \in Nat \ {0} /\ seq <= MaxTurns /\ MaxTurns \in Nat
      /\ up /\ io = <<>> /\ meta.messages \in Nat
  BY StoreBounds DEF StoreInv, StoreShapes, SendMessage, Ready
<1>2. /\ turns' = PushUser(turns, seq) /\ io' = TurnOps(turns', unsaved, seq)
      /\ pending' = <<>> /\ seq' = seq + 1 /\ phase' = "asking"
      /\ UNCHANGED <<compacted, up, archive, meta, context, timeline, undone, calls>>
  BY DEF SendMessage, files, counts
<1>3. turns' \in Conversation /\ \A k : Has(turns', k) <=> Has(turns, k) \/ k = seq
  BY <1>1, <1>2, PushUserHas DEF StoreShapes
<1>4. /\ unsaved \in Seq(Message) /\ Within(UserMessage(seq), unsaved)
  <2>1. UserMessage(seq) \in Message
    BY <1>1 DEF UserMessage, Users, Message
  <2>2. pending \in Seq(Message)
    BY <1>1 DEF StoreShapes
  <2>3. unsaved \in Seq(Message) /\ Len(unsaved) = Len(pending) + 1 /\ Len(pending) \in Nat
        /\ unsaved[Len(pending) + 1] = UserMessage(seq)
    BY <2>1, <2>2
  <2>4. Len(pending) + 1 \in 1 .. Len(unsaved)
    BY <2>3
  <2> QED BY <2>3, <2>4 DEF Within
<1>5. PICK h, w : h = turns' /\ w = unsaved
  OBVIOUS
<1>6. PICK save : save = FlushMeta(h, w)
  OBVIOUS
<1>7. save \in Seq(PlainOps) /\ Within(Line(UserMessage(seq)), save)
  BY <1>1, <1>3, <1>4, <1>5, <1>6, FlushMetaTyped
<1>8. PICK ops : ops = save \o <<Announce(seq)>>
  OBVIOUS
<1>9. io' = ops
  BY <1>2, <1>5, <1>6, <1>8 DEF TurnOps
<1>10. Announce(seq) \in Announces /\ Announce(seq).id = seq
  BY <1>1, OpFacts
<1>11. /\ ops \in Seq(Ops) /\ Len(ops) = Len(save) + 1 /\ Len(save) \in Nat
       /\ ops[Len(save) + 1] = Announce(seq)
       /\ \A i \in 1 .. Len(save) : ops[i] = save[i] /\ save[i] \in PlainOps
  <2>1. PICK S : S = Ops
    OBVIOUS
  <2>2. PlainOps \subseteq S /\ Announce(seq) \in S
    BY <1>10, <2>1 DEF Ops
  <2>3. save \in Seq(S)
    BY <1>7, <2>2
  <2>4. PICK t : t = <<Announce(seq)>>
    OBVIOUS
  <2>5. t \in Seq(S) /\ Len(t) = 1 /\ t[1] = Announce(seq)
    BY <2>2, <2>4
  <2>6. /\ save \o t \in Seq(S) /\ Len(save \o t) = Len(save) + Len(t)
        /\ \A i \in 1 .. Len(save) + Len(t) :
              (save \o t)[i] = IF i <= Len(save) THEN save[i] ELSE t[i - Len(save)]
    BY <2>3, <2>5, ConcatProperties
  <2>7. ops = save \o t
    BY <1>8, <2>4
  <2>8. Len(save) \in Nat /\ \A i \in 1 .. Len(save) : save[i] \in PlainOps
    BY <1>7
  <2>9. PICK n : n = Len(save)
    OBVIOUS
  <2>10. \A i \in 1 .. n + 1 : ops[i] = IF i <= n THEN save[i] ELSE t[i - n]
    BY <2>5, <2>6, <2>7, <2>9
  <2>11. n \in Nat /\ ops[n + 1] = t[1] /\ \A i \in 1 .. n : ops[i] = save[i]
    BY <2>8, <2>9, <2>10
  <2> QED BY <2>1, <2>5, <2>6, <2>7, <2>8, <2>9, <2>11
<1>12. \A i \in 1 .. Len(ops) : /\ ops[i].op # "rewrite"
                                /\ ops[i].op = "announce" => i = Len(save) + 1 /\ ops[i].id = seq
  <2> SUFFICES ASSUME NEW i \in 1 .. Len(ops)
               PROVE  /\ ops[i].op # "rewrite"
                      /\ ops[i].op = "announce" => i = Len(save) + 1 /\ ops[i].id = seq
    OBVIOUS
  <2>1. CASE i \in 1 .. Len(save)
    <3>1. ops[i] \in PlainOps
      BY <1>11, <2>1
    <3> QED BY <3>1, OpFacts
  <2>2. CASE i = Len(save) + 1
    <3>1. ops[i] = Announce(seq) /\ ops[i].op = "announce"
      BY <1>10, <1>11, <2>2, OpFacts
    <3> QED BY <1>10, <2>2, <3>1
  <2> QED BY <1>11, <2>1, <2>2
<1>13. StoreShapes'
  <2>1. <<>> \in Seq(Message)
    OBVIOUS
  <2> QED BY <1>1, <1>2, <1>3, <1>9, <1>11, <2>1 DEF StoreShapes
<1>14. TurnIsThere'
  <2>1. Has(turns', seq)
    BY <1>3
  <2>2. turns' # <<>>
    BY <2>1 DEF Has
  <2> QED BY <1>2, <2>2 DEF TurnIsThere
<1>15. NumbersAreUsed'
  <2>1. \A id \in timeline : id < seq /\ id \in Nat
    BY <1>1 DEF StoreInv, NumbersAreUsed, StoreShapes
  <2> QED BY <1>1, <1>2, <1>9, <1>12, <2>1 DEF NumbersAreUsed
<1>16. WrittenFirst'
  <2> SUFFICES ASSUME NEW i \in 1 .. Len(ops), ops[i].op = "announce"
               PROVE  \E j \in 1 .. i - 1 : ops[j] = Line(UserMessage(ops[i].id))
    BY <1>9 DEF WrittenFirst
  <2>1. i = Len(save) + 1 /\ ops[i].id = seq
    BY <1>12
  <2>2. PICK j \in 1 .. Len(save) : save[j] = Line(UserMessage(seq))
    BY <1>7 DEF Within
  <2> QED BY <1>11, <2>1, <2>2
<1>17. Archived'
  BY <1>2 DEF StoreInv, Archived
<1>18. Remembered'
  <2>1. up' /\ ~compacted' => \A id \in timeline \ undone : Has(turns, id)
    BY <1>2 DEF StoreInv, Remembered
  <2> QED BY <1>2, <1>3, <1>9, <1>12, <2>1 DEF Remembered
<1>19. RewrittenFromAll'
  BY <1>9, <1>12 DEF RewrittenFromAll
<1> QED BY <1>13, <1>14, <1>15, <1>16, <1>17, <1>18, <1>19 DEF StoreInv

LEMMA TakeAnswerKeeps == ASSUME StoreInv, TakeAnswer PROVE StoreInv'
<1>1. PICK n \in 0 .. (MaxToolCalls - calls) :
          /\ turns' = PushAssistant(turns, (calls + 1) .. (calls + n))
          /\ io' = FlushMeta(turns', Append(pending, AssistantMessage((calls + 1) .. (calls + n))))
          /\ phase' = IF n = 0 THEN "ending" ELSE "tools"
          /\ calls' = calls + n
  BY DEF TakeAnswer
<1>2. /\ pending' = <<>> /\ Ready /\ phase = "asking"
      /\ UNCHANGED <<seq, compacted, up, files, timeline, undone>>
  BY DEF TakeAnswer
<1>3. /\ turns \in Conversation /\ turns # <<>> /\ pending \in Seq(Message) /\ calls \in Nat
      /\ meta.messages \in Nat /\ MaxToolCalls \in Nat
  BY <1>2, StoreBounds DEF StoreInv, StoreShapes, TurnIsThere
<1>4. PICK asked : asked = (calls + 1) .. (calls + n)
  OBVIOUS
<1>5. asked \in CallSets /\ calls' \in Nat
  <2>1. n \in Nat
    BY <1>3
  <2>2. calls + 1 \in Int /\ calls + n \in Int /\ asked \subseteq Nat
    BY <1>3, <1>4, <2>1
  <2>3. IsFiniteSet(asked)
    BY <1>4, <2>2, FS_Interval
  <2> QED BY <1>1, <1>3, <2>1, <2>2, <2>3 DEF CallSets
<1>6. SameTurns(turns', turns) /\ HasStep(turns')
  BY <1>1, <1>3, <1>4, <1>5, PushAssistantIsSame, AskedHasStep
<1>7. turns' \in Conversation
  BY <1>6 DEF SameTurns
<1>8. PICK unsaved : unsaved = Append(pending, AssistantMessage(asked))
  OBVIOUS
<1>9. unsaved \in Seq(Message)
  <2>1. AssistantMessage(asked) \in Message
    BY <1>5 DEF AssistantMessage, Asking, Message
  <2> QED BY <1>3, <1>8, <2>1
<1>10. io' \in Seq(PlainOps)
  <2>1. PICK h : h = turns'
    OBVIOUS
  <2>2. FlushMeta(h, unsaved) \in Seq(PlainOps)
    BY <1>3, <1>7, <1>9, <2>1, FlushMetaTyped
  <2> QED BY <1>1, <1>4, <1>8, <2>1, <2>2
<1>11. TurnIsThere'
  <2>1. turns' # <<>>
    BY <1>6 DEF HasStep
  <2> QED BY <1>6, <2>1 DEF TurnIsThere
<1>12. compacted' \/ (~compacted /\ \A id \in timeline \ undone' : Has(turns', id))
  BY <1>2, <1>6, ReadyRemembers, SameHas
<1>13. pending' \in Seq(Message)
  BY <1>2
<1> QED BY <1>2, <1>5, <1>7, <1>10, <1>11, <1>12, <1>13, PlainKeeps

LEMMA FinishCallKeeps == ASSUME StoreInv, FinishCall PROVE StoreInv'
<1>1. PICK which \in Last(Last(turns).steps).calls, answer \in {"ran", "refused"} :
          /\ turns' = PushResult(turns, which, answer)
          /\ pending' = Append(pending, ToolMessage(which, answer))
  BY DEF FinishCall
<1>2. /\ Ready /\ phase = "tools" /\ io = <<>>
      /\ UNCHANGED <<seq, compacted, phase, up, io, files, timeline, undone, calls>>
  BY DEF FinishCall, Ready, counts
<1>3. turns \in Conversation /\ HasStep(turns) /\ pending \in Seq(Message) /\ calls \in Nat
  BY <1>2 DEF StoreInv, StoreShapes, TurnIsThere
<1>4. which \in Nat /\ answer \in Given
  <2>1. Last(Last(turns).steps) \in StepSet
    BY <1>3, LastStep
  <2>2. Last(Last(turns).steps).calls \in CallSets
    BY <2>1, StepFacts
  <2> QED BY <2>2 DEF CallSets, Given, Answers
<1>5. SameTurns(turns', turns) /\ HasStep(turns')
  BY <1>1, <1>3, <1>4, PushResultIsSame, AnsweredHasStep
<1>6. turns' \in Conversation
  BY <1>5 DEF SameTurns
<1>7. pending' \in Seq(Message)
  <2>1. ToolMessage(which, answer) \in Message
    BY <1>4 DEF ToolMessage, ToolMessages, Message
  <2> QED BY <1>1, <1>3, <2>1
<1>8. TurnIsThere'
  <2>1. turns' # <<>>
    BY <1>5 DEF HasStep
  <2> QED BY <1>5, <2>1 DEF TurnIsThere
<1>9. io' \in Seq(PlainOps)
  BY <1>2
<1>10. compacted' \/ (~compacted /\ \A id \in timeline \ undone' : Has(turns', id))
  BY <1>2, <1>5, ReadyRemembers, SameHas
<1> QED BY <1>2, <1>3, <1>6, <1>7, <1>8, <1>9, <1>10, PlainKeeps

\* The rounds and turns that end are saved.
LEMMA SaveKeeps ==
    ASSUME StoreInv, Ready, SameTurns(turns', turns), io' = FlushMeta(turns', pending),
           pending' = <<>>, TurnIsThere',
           UNCHANGED <<seq, compacted, up, files, timeline, undone, calls>>
    PROVE  StoreInv'
<1>1. pending \in Seq(Message) /\ meta.messages \in Nat /\ calls' \in Nat /\ turns' \in Conversation
  BY DEF StoreInv, StoreShapes, SameTurns
<1>2. io' \in Seq(PlainOps)
  <2>1. PICK h : h = turns'
    OBVIOUS
  <2>2. FlushMeta(h, pending) \in Seq(PlainOps)
    BY <1>1, <2>1, FlushMetaTyped
  <2> QED BY <2>1, <2>2
<1>3. compacted' \/ (~compacted /\ \A id \in timeline \ undone' : Has(turns', id))
  BY ReadyRemembers, SameHas
<1>4. pending' \in Seq(Message)
  OBVIOUS
<1> QED BY <1>1, <1>2, <1>3, <1>4, PlainKeeps

LEMMA FinishRoundKeeps == ASSUME StoreInv, FinishRound PROVE StoreInv'
<1>1. /\ Ready /\ phase = "tools" /\ io' = FlushMeta(turns', pending) /\ pending' = <<>>
      /\ phase' = "asking" /\ turns' = turns
      /\ UNCHANGED <<seq, compacted, up, files, timeline, undone, calls>>
  BY DEF FinishRound, counts, FlushMeta, AppendOps
<1>2. SameTurns(turns', turns) /\ TurnIsThere'
  BY <1>1 DEF StoreInv, StoreShapes, SameTurns, TurnIsThere
<1> QED BY <1>1, <1>2, SaveKeeps

LEMMA AbortKeeps == ASSUME StoreInv, AbortTurn PROVE StoreInv'
<1>1. /\ Ready /\ turns' = RemoveIncomplete(turns) /\ io' = FlushMeta(turns', pending)
      /\ pending' = <<>> /\ phase' = "ending"
      /\ UNCHANGED <<seq, compacted, up, files, timeline, undone, calls>>
  BY DEF AbortTurn, counts
<1>2. SameTurns(turns', turns)
  BY <1>1, RemoveIncompleteIsSame DEF StoreInv, StoreShapes
<1>3. TurnIsThere'
  BY <1>1 DEF TurnIsThere
<1> QED BY <1>1, <1>2, <1>3, SaveKeeps

LEMMA EndTurnKeeps == ASSUME StoreInv, EndTurn PROVE StoreInv'
<1>1. /\ Ready /\ io' = FlushMeta(turns', pending) /\ pending' = <<>>
      /\ phase' = "idle" /\ turns' = turns
      /\ UNCHANGED <<seq, compacted, up, files, timeline, undone, calls>>
  BY DEF EndTurn, counts
<1>2. SameTurns(turns', turns) /\ TurnIsThere'
  BY <1>1 DEF StoreInv, StoreShapes, SameTurns, TurnIsThere
<1> QED BY <1>1, <1>2, SaveKeeps

LEMMA CompactKeeps == ASSUME StoreInv, Compact PROVE StoreInv'
<1>1. PICK keep \in 1 .. 2 : Len(turns) > keep /\ turns' = Compacted(turns, keep)
  BY DEF Compact
<1>2. /\ Ready /\ compacted' = TRUE /\ io' = SnapshotFull(turns', TRUE) /\ pending' = <<>>
      /\ UNCHANGED <<seq, phase, up, files, timeline, undone, calls>>
  BY DEF Compact
<1>3. turns \in Conversation /\ calls' \in Nat
  BY <1>2 DEF StoreInv, StoreShapes
<1>4. /\ turns' \in Conversation /\ turns' # <<>> /\ (HasStep(turns) => HasStep(turns'))
  BY <1>1, <1>3, CompactedTyped, CompactedHasStep
<1>5. io' \in Seq(PlainOps)
  <2>1. PICK h : h = turns'
    OBVIOUS
  <2>2. SnapshotFull(h, TRUE) \in Seq(PlainOps)
    BY <1>4, <2>1, SnapshotTyped
  <2> QED BY <1>2, <2>1, <2>2
<1>6. TurnIsThere'
  BY <1>2, <1>4 DEF StoreInv, TurnIsThere
<1>7. pending' \in Seq(Message) /\ undone \subseteq undone'
  BY <1>2
<1> QED BY <1>2, <1>3, <1>4, <1>5, <1>6, <1>7, PlainKeeps

LEMMA UndoKeeps == ASSUME StoreInv, UndoTurn PROVE StoreInv'
<1>1. PICK id \in Ids(turns) : Undo(id)
  BY DEF UndoTurn
<1>2. /\ Ready /\ turns' = Truncate(turns, id) /\ phase' = "idle"
      /\ undone' = undone \cup (Ids(turns) \ Ids(turns'))
      /\ UNCHANGED <<seq, compacted, up, files, timeline, calls>>
      /\ IF turns' = turns THEN UNCHANGED <<pending, io>>
         ELSE pending' = <<>> /\ io' = SnapshotFull(turns', compacted)
  BY <1>1 DEF Undo
<1>3. /\ turns \in Conversation /\ calls' \in Nat /\ pending \in Seq(Message)
      /\ timeline \subseteq 1 .. MaxTurns
  BY <1>2 DEF StoreInv, StoreShapes
<1>4. id \in Nat /\ id # 0
  <2>1. PICK i \in 1 .. Len(turns) : id = turns[i].id /\ id # 0
    BY <1>1, <1>3, ConversationFacts DEF Ids, Summary
  <2> QED BY <1>3, <2>1, ConversationFacts, TurnFacts
<1>5. turns' \in Conversation /\ TurnIsThere'
  BY <1>2, <1>3, <1>4, TruncateTyped DEF TurnIsThere
<1>6. compacted' \/ (~compacted /\ \A k \in timeline \ undone' : Has(turns', k))
  <2> SUFFICES ASSUME ~compacted, NEW k \in timeline \ undone' PROVE Has(turns', k)
    BY <1>2
  <2>1. k \in Nat /\ k # 0 /\ Has(turns, k)
    BY <1>2, <1>3, ReadyRemembers, StoreBounds
  <2>2. k \in Ids(turns)
    BY <1>3, <2>1, IdsAreHad
  <2>3. k \in Ids(turns')
    BY <1>2, <2>2
  <2>4. PICK h : h = turns'
    OBVIOUS
  <2> QED BY <1>5, <2>1, <2>3, <2>4, IdsAreHad
<1>7. io' \in Seq(PlainOps \cup Rewrites) /\ (compacted' => io' \in Seq(PlainOps))
  <2>1. CASE turns' = turns
    BY <1>2, <2>1 DEF Ready
  <2>2. CASE turns' # turns
    <3>1. PICK h : h = turns'
      OBVIOUS
    <3>2. /\ SnapshotFull(h, compacted) \in Seq(PlainOps \cup Rewrites)
          /\ compacted => SnapshotFull(h, compacted) \in Seq(PlainOps)
      BY <1>5, <3>1, SnapshotTyped
    <3> HIDE DEF PlainOps, Rewrites
    <3> QED BY <1>2, <2>2, <3>1, <3>2
  <2> QED BY <2>1, <2>2
<1>8. (\E i \in 1 .. Len(io') : io'[i].op = "rewrite") => ~compacted'
  <2> SUFFICES ASSUME compacted', NEW i \in 1 .. Len(io') PROVE io'[i].op # "rewrite"
    OBVIOUS
  <2>1. io'[i] \in PlainOps
    <3> HIDE DEF PlainOps
    <3> QED BY <1>7
  <2> QED BY <2>1, OpFacts
<1>9. pending' \in Seq(Message) /\ undone \subseteq undone'
  <2>1. pending' = <<>> \/ pending' = pending
    BY <1>2
  <2>2. undone \subseteq undone'
    BY <1>2
  <2>3. <<>> \in Seq(Message)
    OBVIOUS
  <2>4. pending' \in Seq(Message)
    BY <1>3, <2>1, <2>3
  <2> QED BY <2>2, <2>4
<1>10. UNCHANGED <<seq, up, files, timeline>>
  BY <1>2
<1> QED BY <1>2, <1>3, <1>5, <1>6, <1>7, <1>8, <1>9, <1>10, QuietKeeps

-----------------------------------------------------------------------------
(* Writes.                                                                    *)

LEMMA TailFacts ==
    ASSUME NEW S, NEW s \in Seq(S), s # <<>>
    PROVE  /\ Tail(s) \in Seq(S) /\ Len(Tail(s)) = Len(s) - 1 /\ Len(Tail(s)) \in Nat
           /\ Head(s) = s[1] /\ s[1] \in S /\ Len(s) \in Nat /\ 1 \in 1 .. Len(s)
           /\ \A i \in 1 .. Len(Tail(s)) : Tail(s)[i] = s[i + 1] /\ i + 1 \in 1 .. Len(s)
<1>1. PICK t : t = Tail(s)
  OBVIOUS
<1>2. t \in Seq(S) /\ Len(t) = Len(s) - 1 /\ Len(s) \in Nat \ {0}
      /\ \A i \in 1 .. Len(s) - 1 : t[i] = s[i + 1]
  BY <1>1
<1>3. \A i \in 1 .. Len(t) : i + 1 \in 1 .. Len(s)
  BY <1>2
<1>4. Head(s) = s[1] /\ s[1] \in S /\ Len(t) \in Nat /\ 1 \in 1 .. Len(s)
  BY <1>2
<1> QED BY <1>1, <1>2, <1>3, <1>4

\* One thing less is to be written.
Taken ==
    /\ up /\ io # <<>> /\ io' = Tail(io)
    /\ UNCHANGED <<memory, up, undone, counts>>

\* What does not depend on which it was.
LEMMA TakenKeeps ==
    ASSUME StoreInv, Taken,
           archive' \in Seq(Message), meta' \in [messages : Nat, turns : Nat],
           \A c \in context' : c.messages \in Seq(Message),
           timeline' = timeline
              \/ (io[1].op = "announce" /\ timeline' = timeline \cup {io[1].id})
    PROVE  StoreShapes' /\ TurnIsThere' /\ NumbersAreUsed' /\ Remembered' /\ RewrittenFromAll'
<1>1. /\ io \in Seq(Ops) /\ io # <<>> /\ io' = Tail(io) /\ up
      /\ UNCHANGED <<turns, pending, seq, compacted, phase, up, undone, calls>>
  BY DEF StoreInv, StoreShapes, Taken, memory, counts
<1>2. /\ io' \in Seq(Ops) /\ Len(io') = Len(io) - 1 /\ Len(io') \in Nat /\ 1 \in 1 .. Len(io)
      /\ \A i \in 1 .. Len(io') : io'[i] = io[i + 1] /\ i + 1 \in 1 .. Len(io)
  BY <1>1, TailFacts
<1>3. /\ \A i \in 1 .. Len(io) :
            io[i].op = "announce" => io[i].id \in 1 .. MaxTurns /\ io[i].id < seq
      /\ \A id \in timeline : id < seq
  BY <1>1 DEF StoreInv, NumbersAreUsed
<1>4. io[1].op = "announce" => io[1].id \in 1 .. MaxTurns /\ io[1].id < seq
  BY <1>2, <1>3
<1>5. StoreShapes'
  BY <1>1, <1>2, <1>4 DEF StoreInv, StoreShapes
<1>6. TurnIsThere'
  BY <1>1 DEF StoreInv, TurnIsThere
<1>7. NumbersAreUsed'
  BY <1>1, <1>2, <1>3, <1>4 DEF NumbersAreUsed
<1>8. Remembered'
  <2> SUFFICES ASSUME ~compacted
               PROVE  /\ \A id \in timeline' \ undone : Has(turns, id)
                      /\ \A i \in 1 .. Len(io') : io'[i].op = "announce" => Has(turns, io'[i].id)
    BY <1>1 DEF Remembered
  <2>1. /\ \A id \in timeline \ undone : Has(turns, id)
        /\ \A i \in 1 .. Len(io) : io[i].op = "announce" => Has(turns, io[i].id)
    BY <1>1 DEF StoreInv, Remembered
  <2> QED BY <1>2, <2>1
<1>9. RewrittenFromAll'
  <2> SUFFICES ASSUME NEW i \in 1 .. Len(io'), io'[i].op = "rewrite"
               PROVE  up /\ ~compacted /\ \A k \in 1 .. Len(io') : io'[k].op # "announce"
    BY <1>1 DEF RewrittenFromAll
  <2>1. i + 1 \in 1 .. Len(io) /\ io[i + 1].op = "rewrite"
    BY <1>2
  <2>2. up /\ ~compacted /\ \A k \in 1 .. Len(io) : io[k].op # "announce"
    BY <2>1 DEF StoreInv, RewrittenFromAll
  <2> QED BY <1>2, <2>2
<1> QED BY <1>5, <1>6, <1>7, <1>8, <1>9

\* The archive keeps what it has, and a line that was to be written is in it.
LEMMA MoreIsWritten ==
    ASSUME StoreInv, Taken,
           \A m : Within(m, archive) => Within(m, archive'),
           io[1].op = "line" => Within(io[1].message, archive')
    PROVE  WrittenFirst'
<1>1. /\ io \in Seq(Ops) /\ io # <<>> /\ io' = Tail(io)
  BY DEF StoreInv, StoreShapes, Taken
<1>2. /\ Len(io') = Len(io) - 1 /\ Len(io') \in Nat /\ 1 \in 1 .. Len(io)
      /\ \A i \in 1 .. Len(io') : io'[i] = io[i + 1] /\ i + 1 \in 1 .. Len(io)
  BY <1>1, TailFacts
<1> SUFFICES ASSUME NEW i \in 1 .. Len(io'), io'[i].op = "announce"
             PROVE  \/ Within(UserMessage(io'[i].id), archive')
                    \/ \E j \in 1 .. i - 1 : io'[j] = Line(UserMessage(io'[i].id))
  BY DEF WrittenFirst
<1>3. PICK m : m = UserMessage(io'[i].id)
  OBVIOUS
<1>4. Within(m, archive) \/ \E j \in 1 .. (i + 1) - 1 : io[j] = Line(m)
  BY <1>2, <1>3 DEF StoreInv, WrittenFirst
<1>5. CASE Within(m, archive)
  BY <1>3, <1>5
<1>6. ASSUME NEW j \in 1 .. (i + 1) - 1, io[j] = Line(m)
      PROVE  Within(m, archive') \/ \E k \in 1 .. i - 1 : io'[k] = Line(m)
  <2>1. CASE j = 1
    <3>1. io[1].op = "line" /\ io[1].message = m
      BY <1>6, <2>1 DEF Line
    <3> QED BY <3>1
  <2>2. CASE j # 1
    <3>1. j - 1 \in 1 .. i - 1 /\ j - 1 \in 1 .. Len(io') /\ (j - 1) + 1 = j
      BY <1>2, <1>6, <2>2
    <3>2. io'[j - 1] = Line(m)
      BY <1>2, <1>6, <3>1
    <3> QED BY <3>1, <3>2
  <2> QED BY <2>1, <2>2
<1> QED BY <1>3, <1>4, <1>5, <1>6

LEMMA AppendLineKeeps == ASSUME StoreInv, AppendLine PROVE StoreInv'
<1>1. /\ Taken /\ io[1].op = "line" /\ archive' = Append(archive, io[1].message)
      /\ UNCHANGED <<meta, context, timeline, undone>>
  <2>1. /\ up /\ io # <<>> /\ Head(io).op = "line" /\ io' = Tail(io)
        /\ archive' = Append(archive, Head(io).message)
        /\ UNCHANGED <<memory, up, timeline, undone, counts, meta, context>>
    BY DEF AppendLine, Do, Untouched
  <2>2. Head(io) = io[1]
    BY <2>1, TailFacts DEF StoreInv, StoreShapes
  <2> QED BY <2>1, <2>2 DEF Taken
<1>2. archive \in Seq(Message) /\ io[1].message \in Message
  <2>1. io[1] \in Ops
    BY <1>1, TailFacts DEF StoreInv, StoreShapes, Taken
  <2>2. io[1].message \in Message
    BY <1>1, <2>1, OpFacts
  <2> QED BY <2>2 DEF StoreInv, StoreShapes
<1>3. PICK m : m = io[1].message
  OBVIOUS
<1>4. /\ archive' \in Seq(Message) /\ Len(archive') = Len(archive) + 1 /\ Len(archive) \in Nat
      /\ archive'[Len(archive) + 1] = m
      /\ \A i \in 1 .. Len(archive) : archive'[i] = archive[i]
  BY <1>1, <1>2, <1>3
<1>5. Len(archive) + 1 \in 1 .. Len(archive') /\ \A i \in 1 .. Len(archive) : i \in 1 .. Len(archive')
  BY <1>4
<1>6. Within(m, archive') /\ \A k : Within(k, archive) => Within(k, archive')
  BY <1>4, <1>5 DEF Within
<1>7. StoreShapes' /\ TurnIsThere' /\ NumbersAreUsed' /\ Remembered' /\ RewrittenFromAll'
  BY <1>1, <1>4, TakenKeeps DEF StoreInv, StoreShapes
<1>8. WrittenFirst'
  BY <1>1, <1>3, <1>6, MoreIsWritten
<1>9. Archived'
  BY <1>1, <1>6 DEF StoreInv, Archived
<1> QED BY <1>7, <1>8, <1>9 DEF StoreInv

LEMMA RewriteKeeps == ASSUME StoreInv, RewriteMessages PROVE StoreInv'
<1>1. /\ Taken /\ io[1].op = "rewrite" /\ archive' = Messages(turns)
      /\ UNCHANGED <<meta, context, timeline, undone>>
  <2>1. /\ up /\ io # <<>> /\ Head(io).op = "rewrite" /\ io' = Tail(io)
        /\ archive' = Messages(turns)
        /\ UNCHANGED <<memory, up, timeline, undone, counts, meta, context>>
    BY DEF RewriteMessages, Do, Untouched
  <2>2. Head(io) = io[1]
    BY <2>1, TailFacts DEF StoreInv, StoreShapes
  <2> QED BY <2>1, <2>2 DEF Taken
<1>2. archive' \in Seq(Message) /\ \A id : Has(turns, id) => Within(UserMessage(id), archive')
  BY <1>1, MessagesTyped DEF StoreInv, StoreShapes
<1>3. StoreShapes' /\ TurnIsThere' /\ NumbersAreUsed' /\ Remembered' /\ RewrittenFromAll'
  BY <1>1, <1>2, TakenKeeps DEF StoreInv, StoreShapes
<1>4. up /\ ~compacted /\ \A i \in 1 .. Len(io) : io[i].op # "announce"
  <2>1. 1 \in 1 .. Len(io)
    BY <1>1, TailFacts DEF StoreInv, StoreShapes, Taken
  <2> QED BY <1>1, <2>1 DEF StoreInv, RewrittenFromAll
<1>5. WrittenFirst'
  <2>1. \A i \in 1 .. Len(io') : io'[i].op # "announce"
    <3>1. io \in Seq(Ops) /\ io # <<>> /\ io' = Tail(io)
      BY <1>1 DEF StoreInv, StoreShapes, Taken
    <3>2. \A i \in 1 .. Len(io') : io'[i] = io[i + 1] /\ i + 1 \in 1 .. Len(io)
      BY <3>1, TailFacts
    <3> QED BY <1>4, <3>2
  <2> QED BY <2>1 DEF WrittenFirst
<1>6. Archived'
  <2>1. \A id \in timeline \ undone : Has(turns, id)
    BY <1>4 DEF StoreInv, Remembered
  <2> QED BY <1>1, <1>2, <2>1 DEF Archived
<1> QED BY <1>3, <1>5, <1>6 DEF StoreInv

\* Writes that leave the archive alone.
LEMMA OtherWritesKeep ==
    ASSUME StoreInv, ReplaceMeta \/ WriteContext \/ TakeIndexLock \/ WriteIndex
    PROVE  StoreInv'
<1>1. /\ up /\ io # <<>> /\ Head(io).op # "line" /\ io' = Tail(io)
      /\ UNCHANGED <<memory, up, timeline, undone, counts, archive>>
  BY DEF ReplaceMeta, WriteContext, TakeIndexLock, WriteIndex, Do, Untouched, files
<1>2. Head(io) = io[1] /\ io[1] \in Ops
  BY <1>1, TailFacts DEF StoreInv, StoreShapes
<1>3. Taken /\ io[1].op # "line"
  BY <1>1, <1>2 DEF Taken
<1>4. meta' \in [messages : Nat, turns : Nat]
  <2>1. CASE ReplaceMeta
    <3>1. Head(io).op = "meta" /\ meta' = [messages |-> Head(io).messages, turns |-> Head(io).turns]
      BY <2>1 DEF ReplaceMeta, Do
    <3>2. Head(io).messages \in Nat /\ Head(io).turns \in Nat
      BY <1>2, <3>1, OpFacts
    <3> QED BY <3>1, <3>2
  <2>2. CASE ~ReplaceMeta
    <3>1. meta' = meta
      BY <2>2 DEF WriteContext, TakeIndexLock, WriteIndex, files
    <3> QED BY <3>1 DEF StoreInv, StoreShapes
  <2> QED BY <2>1, <2>2
<1>5. \A c \in context' : c.messages \in Seq(Message)
  <2>1. CASE WriteContext
    <3>1. context' = {[at |-> meta.messages, messages |-> Messages(turns)]}
      BY <2>1 DEF WriteContext
    <3>2. Messages(turns) \in Seq(Message)
      BY MessagesTyped DEF StoreInv, StoreShapes
    <3> QED BY <3>1, <3>2
  <2>2. CASE ~WriteContext
    <3>1. context' = context
      BY <2>2 DEF ReplaceMeta, TakeIndexLock, WriteIndex, files
    <3> QED BY <3>1 DEF StoreInv, StoreShapes
  <2> QED BY <2>1, <2>2
<1>6. StoreShapes' /\ TurnIsThere' /\ NumbersAreUsed' /\ Remembered' /\ RewrittenFromAll'
  BY <1>1, <1>3, <1>4, <1>5, TakenKeeps DEF StoreInv, StoreShapes
<1>7. WrittenFirst'
  BY <1>1, <1>3, MoreIsWritten
<1>8. Archived'
  BY <1>1 DEF StoreInv, Archived
<1> QED BY <1>6, <1>7, <1>8 DEF StoreInv

LEMMA OpenedKeeps == ASSUME StoreInv, TurnOpened PROVE StoreInv'
<1>1. /\ up /\ io # <<>> /\ Head(io).op = "announce" /\ io' = Tail(io)
      /\ timeline' = timeline \cup {Head(io).id}
      /\ UNCHANGED <<memory, up, undone, counts, archive, meta, context>>
  BY DEF TurnOpened, Do, files
<1>2. Head(io) = io[1] /\ 1 \in 1 .. Len(io)
  BY <1>1, TailFacts DEF StoreInv, StoreShapes
<1>3. Taken /\ io[1].op = "announce" /\ timeline' = timeline \cup {io[1].id}
  BY <1>1, <1>2 DEF Taken
<1>4. StoreShapes' /\ TurnIsThere' /\ NumbersAreUsed' /\ Remembered' /\ RewrittenFromAll'
  BY <1>1, <1>3, TakenKeeps DEF StoreInv, StoreShapes
<1>5. WrittenFirst'
  BY <1>1, <1>3, MoreIsWritten
<1>6. Within(UserMessage(io[1].id), archive)
  BY <1>2, <1>3 DEF StoreInv, WrittenFirst
<1>7. Archived'
  BY <1>1, <1>3, <1>6 DEF StoreInv, Archived
<1> QED BY <1>4, <1>5, <1>7 DEF StoreInv

LEMMA LockKeeps ==
    ASSUME StoreInv, UNCHANGED <<memory, up, io, files, timeline, undone, counts>>
    PROVE  StoreInv'
<1>1. UNCHANGED <<turns, pending, seq, compacted, phase, up, io, archive, meta, context,
                  timeline, undone, calls>>
  BY DEF memory, files, counts
<1>2. StoreShapes' /\ TurnIsThere'
  BY <1>1 DEF StoreInv, StoreShapes, TurnIsThere
<1>3. NumbersAreUsed' /\ Archived'
  BY <1>1 DEF StoreInv, NumbersAreUsed, Archived
<1>4. WrittenFirst' /\ Remembered' /\ RewrittenFromAll'
  BY <1>1 DEF StoreInv, WrittenFirst, Remembered, RewrittenFromAll
<1> QED BY <1>2, <1>3, <1>4 DEF StoreInv

-----------------------------------------------------------------------------
(* A process dies and another takes over.                                     *)

LEMMA CrashKeeps == ASSUME StoreInv, Crash PROVE StoreInv'
<1>1. /\ up' = FALSE /\ turns' = <<>> /\ pending' = <<>> /\ seq' = 1 /\ phase' = "idle" /\ io' = <<>>
      /\ UNCHANGED <<archive, meta, context, timeline, undone, calls>>
  BY DEF Crash, files
<1>2. <<>> \in Conversation /\ <<>> \in Seq(Message) /\ <<>> \in Seq(Ops)
  BY DEF Conversation
<1>3. StoreShapes'
  <2>1. /\ archive' \in Seq(Message) /\ meta' \in [messages : Nat, turns : Nat] /\ calls' \in Nat
        /\ \A c \in context' : c.messages \in Seq(Message)
        /\ timeline' \subseteq 1 .. MaxTurns
    BY <1>1 DEF StoreInv, StoreShapes
  <2>2. turns' \in Conversation /\ pending' \in Seq(Message) /\ io' \in Seq(Ops)
    BY <1>1, <1>2
  <2>3. seq' \in Nat \ {0} /\ io' = <<>> /\ phase' = "idle"
    BY <1>1
  <2>4. up' \in BOOLEAN
    BY <1>1
  <2> QED BY <2>1, <2>2, <2>3, <2>4 DEF StoreShapes
<1>4. TurnIsThere' /\ NumbersAreUsed' /\ WrittenFirst' /\ Remembered' /\ RewrittenFromAll'
  BY <1>1 DEF TurnIsThere, NumbersAreUsed, WrittenFirst, Remembered, RewrittenFromAll
<1>5. Archived'
  BY <1>1 DEF StoreInv, Archived
<1> QED BY <1>3, <1>4, <1>5 DEF StoreInv

LEMMA MaxIsMax ==
    ASSUME NEW S \in SUBSET Nat, S # {}, NEW n \in Nat, \A s \in S : s <= n
    PROVE  Max(S) \in S /\ \A s \in S : s <= Max(S)
<1> DEFINE U == {u \in Nat : \A s \in S : s <= u}
<1>1. PICK m \in U : \A u \in U : m <= u
  <2>1. n \in U /\ U \subseteq Nat
    OBVIOUS
  <2> HIDE DEF U
  <2> QED BY <2>1, Smallest
<1>2. m \in S
  <2> SUFFICES ASSUME m \notin S PROVE FALSE
    OBVIOUS
  <2>1. \A s \in S : s \in Nat /\ s <= m /\ s # m
    BY <1>1
  <2>2. m \in Nat /\ m # 0
    <3>1. PICK s \in S : TRUE
      OBVIOUS
    <3>2. s \in Nat /\ s <= m /\ s # m /\ m \in Nat
      BY <1>1, <2>1, <3>1
    <3> QED BY <3>2
  <2>3. m - 1 \in Nat /\ \A s \in S : s <= m - 1
    BY <2>1, <2>2
  <2>4. m - 1 \in U
    BY <2>3
  <2> QED BY <1>1, <2>2, <2>4
<1>3. \A s \in S : m >= s
  BY <1>1
<1>4. Max(S) \in S /\ \A s \in S : Max(S) >= s
  BY <1>2, <1>3 DEF Max
<1> QED BY <1>4

LEMMA ResumeKeeps == ASSUME StoreInv, Resume PROVE StoreInv'
<1>1. /\ ~up /\ up' = TRUE /\ turns' = Restored /\ compacted' = (UsableContext # {})
      /\ seq' = TurnFloor(turns') + 1
      /\ UNCHANGED <<pending, phase, io, archive, meta, context, timeline, undone, calls>>
  BY DEF Resume, files, counts
<1>2. /\ io = <<>> /\ phase = "idle" /\ archive \in Seq(Message) /\ meta.turns \in Nat
      /\ timeline \subseteq 1 .. MaxTurns /\ MaxTurns \in Nat
      /\ \A c \in context : c.messages \in Seq(Message)
  BY <1>1, StoreBounds DEF StoreInv, StoreShapes
<1>3. PICK ms : ms = ActiveMessages
  OBVIOUS
<1>4. ms \in Seq(Message)
  <2>1. CASE UsableContext = {}
    BY <1>2, <1>3, <2>1 DEF ActiveMessages
  <2>2. CASE UsableContext # {}
    <3>1. (CHOOSE c \in UsableContext : TRUE) \in context
      BY <2>2 DEF UsableContext
    <3> QED BY <1>2, <1>3, <2>2, <3>1 DEF ActiveMessages
  <2> QED BY <2>1, <2>2
<1>5. turns' = FromMessages(ms)
  BY <1>1, <1>3 DEF Restored
<1>6. turns' \in Conversation /\ \A id \in Nat : Within(UserMessage(id), ms) => Has(turns', id)
  BY <1>4, <1>5, FromMessagesHas
<1>7. PICK h : h = turns'
  OBVIOUS
<1>8. PICK floor : floor = TurnFloor(h)
  OBVIOUS
<1>9. floor \in Nat /\ \A id \in timeline : id <= floor
  <2> DEFINE S == {Len(h), meta.turns} \cup timeline
             n == Len(h) + meta.turns + MaxTurns
  <2>1. Len(h) \in Nat
    BY <1>6, <1>7, ConversationFacts
  <2>2. S \in SUBSET Nat /\ S # {} /\ n \in Nat /\ \A s \in S : s <= n
    <3>1. /\ Len(h) \in Nat /\ meta.turns \in Nat /\ MaxTurns \in Nat
          /\ \A id \in timeline : id \in Nat /\ id <= MaxTurns
      BY <1>2, <2>1
    <3>2. PICK a, b : a = Len(h) /\ b = meta.turns
      OBVIOUS
    <3>3. \A s \in {a, b} \cup timeline : s \in Nat /\ s <= a + b + MaxTurns
      BY <3>1, <3>2
    <3> QED BY <3>1, <3>2, <3>3
  <2>3. floor = Max(S)
    BY <1>8 DEF TurnFloor
  <2>4. timeline \subseteq S
    OBVIOUS
  <2> HIDE DEF S, n
  <2>5. Max(S) \in S /\ \A s \in S : s <= Max(S)
    BY <2>2, MaxIsMax
  <2> QED BY <2>2, <2>3, <2>4, <2>5
<1>10. seq' = floor + 1
  BY <1>1, <1>7, <1>8
<1>11. StoreShapes'
  BY <1>1, <1>2, <1>6, <1>9, <1>10 DEF StoreInv, StoreShapes
<1>12. TurnIsThere'
  BY <1>1, <1>2 DEF TurnIsThere
<1>13. NumbersAreUsed'
  <2>1. \A id \in timeline : id \in Nat
    BY <1>2
  <2> QED BY <1>1, <1>2, <1>9, <1>10, <2>1 DEF NumbersAreUsed
<1>14. WrittenFirst' /\ RewrittenFromAll'
  BY <1>1, <1>2 DEF WrittenFirst, RewrittenFromAll
<1>15. Archived'
  BY <1>1 DEF StoreInv, Archived
<1>16. Remembered'
  <2>3. \A i \in 1 .. Len(io') : io'[i].op # "announce"
    <3>1. Len(io') = 0
      BY <1>1, <1>2
    <3> QED BY <3>1
  <2> SUFFICES ASSUME UsableContext = {}
               PROVE  \A id \in timeline \ undone : Has(turns', id)
    BY <1>1, <2>3 DEF Remembered
  <2>1. ms = archive
    BY <1>3 DEF ActiveMessages
  <2>2. \A id \in timeline \ undone : id \in Nat /\ Within(UserMessage(id), archive)
    BY <1>2 DEF StoreInv, Archived
  <2> QED BY <1>6, <2>1, <2>2
<1> QED BY <1>11, <1>12, <1>13, <1>14, <1>15, <1>16 DEF StoreInv

LEMMA StoreNextKeeps == StoreInv /\ [StoreNext]_storeVars => StoreInv'
<1> SUFFICES ASSUME StoreInv, [StoreNext]_storeVars PROVE StoreInv'
  OBVIOUS
<1>1. CASE Agent
  BY <1>1, SendKeeps, TakeAnswerKeeps, FinishCallKeeps, FinishRoundKeeps, AbortKeeps,
     EndTurnKeeps, CompactKeeps, UndoKeeps DEF Agent
<1>2. CASE Write
  BY <1>2, AppendLineKeeps, RewriteKeeps, OtherWritesKeep, OpenedKeeps DEF Write
<1>3. CASE OtherIndexes
  BY <1>3, LockKeeps DEF OtherIndexes
<1>4. CASE Crash
  BY <1>4, CrashKeeps
<1>5. CASE Resume
  BY <1>5, ResumeKeeps
<1>6. CASE UNCHANGED storeVars
  BY <1>6, LockKeeps DEF storeVars
<1> QED BY <1>1, <1>2, <1>3, <1>4, <1>5, <1>6 DEF StoreNext

LEMMA StoreInvariance == StoreSpec => []StoreInv
BY StoreInitHolds, StoreNextKeeps, PTL DEF StoreSpec

\* However often the agent's process dies, between whichever writes, it takes for a
\* new turn a number above those of all turns the daemon has recorded.
THEOREM NewTurnsHaveFreshNumbers == StoreSpec => []NumbersAreFresh
<1>1. StoreInv => NumbersAreFresh
  BY DEF StoreInv, NumbersAreUsed, NumbersAreFresh
<1> QED BY <1>1, StoreInvariance, PTL

\* What the user was shown as sent is in the archive until it is undone, through
\* compactions, rewrites and crashes.
THEOREM WhatWasSentIsKept == StoreSpec => []SentIsArchived
<1>1. StoreInv => SentIsArchived
  <2> SUFFICES ASSUME StoreInv, NEW id \in timeline \ undone
               PROVE  UserMessage(id) \in Range(archive)
    BY DEF SentIsArchived
  <2>1. Within(UserMessage(id), archive) /\ archive \in Seq(Message)
    BY DEF StoreInv, Archived, StoreShapes
  <2>2. DOMAIN archive = 1 .. Len(archive)
    BY <2>1
  <2> QED BY <2>1, <2>2 DEF Within, Range
<1> QED BY <1>1, StoreInvariance, PTL

\* A process that takes over has an answer for every call in the history it reads
\* back, whichever prefix of the writes it finds.
THEOREM ResumedHistoryIsAnswered == StoreSpec => RestoresAnswered
<1>1. ASSUME StoreNext, up', ~up PROVE CallsAnswered(turns')
  <2>1. Resume
    <3>1. ~Agent
      BY <1>1 DEF Agent, SendMessage, TakeAnswer, FinishCall, FinishRound, AbortTurn, EndTurn,
         Compact, UndoTurn, Undo, Ready
    <3>2. ~Write
      BY <1>1 DEF Write, AppendLine, RewriteMessages, ReplaceMeta, WriteContext, TakeIndexLock,
         WriteIndex, TurnOpened, Do
    <3>3. ~OtherIndexes /\ ~Crash
      BY <1>1 DEF OtherIndexes, Crash
    <3> QED BY <1>1, <3>1, <3>2, <3>3 DEF StoreNext
  <2>2. turns' = Restored
    BY <2>1 DEF Resume
  <2> QED BY <2>2, RepairAnswersAll DEF Restored, FromMessages
<1>2. [StoreNext]_storeVars => [up' /\ ~up => CallsAnswered(turns')]_storeVars
  BY <1>1
<1> QED BY <1>2, PTL DEF StoreSpec, RestoresAnswered

-----------------------------------------------------------------------------
(* Installing and updating: the queue of file operations.                     *)

Walks == {"clear", "return"}
FileDos == {"drop", "keep", "place"} \cup Walks
Applies == {"check", "open", "drop", "keep", "place", "commit", "remove", "rename",
            "finish", "conclude", "mark"}
Firsts == {"drop", "keep", "clear", "remove"}
Seconds == {"place", "return", "rename"}

States == [release : Nat, builds : [Components -> Nat]]
Steps == [do : Applies \cup Walks, art : Nat, file : Files, build : Nat,
          preserve : BOOLEAN, state : States]
Items == [file : Files, build : Builds]

\* In which order the operations on one file come.
Turn(do) == IF do \in {"drop", "clear"} THEN 1 ELSE IF do \in {"keep", "return"} THEN 2 ELSE 3

\* What holds of a step and any later one.
Precedes(s, t) ==
    /\ s.do \in FileDos /\ t.do \in FileDos /\ s.file = t.file => Turn(s.do) < Turn(t.do)
    /\ s.do \notin Walks /\ t.do \notin Walks => t.art = 0 \/ (s.art # 0 /\ s.art <= t.art)
    /\ s.do \in {"remove", "rename"} => t.do \notin Walks

\* What holds of a step and the one after it.
Linked(s, t) ==
    /\ s.do \in Firsts \/ t.do \in Seconds =>
          s.file = t.file /\ s.build = t.build /\ s.art = t.art /\ s.preserve = t.preserve
    /\ s.do = "drop" => t.do = "keep"
    /\ s.do = "keep" <=> t.do = "place"
    /\ s.do = "clear" <=> t.do = "return"
    /\ s.do = "remove" <=> t.do = "rename"

Ended(w) == w # <<>> => w[Len(w)].do \notin Firsts
Started(w) == w # <<>> => w[1].do \notin Seconds
InOrder(w) ==
    /\ \A i, j \in 1 .. Len(w) : i < j => Precedes(w[i], w[j])
    /\ \A i \in 1 .. Len(w) - 1 : Linked(w[i], w[i + 1])

\* A queue that no process has begun yet.
Whole(w) == w \in Seq(Steps) /\ InOrder(w) /\ Started(w) /\ Ended(w)

LEMMA Unlinked ==
    ASSUME NEW s, NEW t, s.do \notin Firsts, t.do \notin Seconds
    PROVE  Linked(s, t)
BY DEF Linked, Firsts, Seconds

LEMMA WithinFacts ==
    ASSUME NEW S, NEW a \in Seq(S), NEW b \in Seq(S)
    PROVE  \A s : Within(s, a \o b) <=> Within(s, a) \/ Within(s, b)
<1>1. PICK r : r = a \o b
  OBVIOUS
<1>2. Len(a) \in Nat /\ Len(b) \in Nat /\ Len(r) = Len(a) + Len(b)
      /\ \A i \in 1 .. Len(a) + Len(b) : r[i] = IF i <= Len(a) THEN a[i] ELSE b[i - Len(a)]
  BY <1>1, ConcatProperties
<1>3. ASSUME NEW s, Within(s, r) PROVE Within(s, a) \/ Within(s, b)
  <2>1. PICK i \in 1 .. Len(r) : r[i] = s
    BY <1>3 DEF Within
  <2>2. CASE i <= Len(a)
    BY <1>2, <2>1, <2>2 DEF Within
  <2>3. CASE ~(i <= Len(a))
    <3>1. i - Len(a) \in 1 .. Len(b) /\ b[i - Len(a)] = s
      BY <1>2, <2>1, <2>3
    <3> QED BY <3>1 DEF Within
  <2> QED BY <2>2, <2>3
<1>4. ASSUME NEW s, Within(s, a) PROVE Within(s, r)
  BY <1>2, <1>4 DEF Within
<1>5. ASSUME NEW s, Within(s, b) PROVE Within(s, r)
  <2>1. PICK i \in 1 .. Len(b) : b[i] = s
    BY <1>5 DEF Within
  <2>2. Len(a) + i \in 1 .. Len(r) /\ r[Len(a) + i] = s
    BY <1>2, <2>1
  <2> QED BY <2>2 DEF Within
<1> QED BY <1>1, <1>3, <1>4, <1>5

\* Two queues, one after the other.
LEMMA TwoAreWhole ==
    ASSUME NEW a, NEW b, Whole(a), Whole(b),
           \A s, t : Within(s, a) /\ Within(t, b) => Precedes(s, t)
    PROVE  Whole(a \o b)
<1>1. a \in Seq(Steps) /\ b \in Seq(Steps)
  BY DEF Whole
<1>2. PICK r : r = a \o b
  OBVIOUS
<1>3. r \in Seq(Steps) /\ Len(r) = Len(a) + Len(b) /\ Len(a) \in Nat /\ Len(b) \in Nat
      /\ \A i \in 1 .. Len(a) + Len(b) : r[i] = IF i <= Len(a) THEN a[i] ELSE b[i - Len(a)]
  BY <1>1, <1>2, ConcatProperties
<1>4. \A i \in 1 .. Len(a) : r[i] = a[i] /\ Within(a[i], a)
  BY <1>3 DEF Within
<1>5. \A i \in 1 .. Len(r) : i > Len(a) =>
         i - Len(a) \in 1 .. Len(b) /\ r[i] = b[i - Len(a)] /\ Within(b[i - Len(a)], b)
  BY <1>3 DEF Within
<1>6. ASSUME NEW i \in 1 .. Len(r), NEW j \in 1 .. Len(r), i < j
      PROVE  Precedes(r[i], r[j])
  <2>1. CASE j <= Len(a)
    <3>1. i \in 1 .. Len(a) /\ j \in 1 .. Len(a)
      BY <1>3, <1>6, <2>1
    <3> QED BY <1>4, <1>6, <3>1 DEF Whole, InOrder
  <2>2. CASE i <= Len(a) /\ j > Len(a)
    <3>1. i \in 1 .. Len(a)
      BY <1>3, <2>2
    <3> QED BY <1>4, <1>5, <2>2, <3>1
  <2>3. CASE i > Len(a)
    <3>1. j > Len(a) /\ i - Len(a) < j - Len(a)
      BY <1>3, <1>6, <2>3
    <3> QED BY <1>5, <2>3, <3>1 DEF Whole, InOrder
  <2> QED BY <1>3, <2>1, <2>2, <2>3
<1>7. ASSUME NEW i \in 1 .. Len(r) - 1
      PROVE  Linked(r[i], r[i + 1])
  <2>1. CASE i < Len(a)
    <3>1. i \in 1 .. Len(a) - 1 /\ i \in 1 .. Len(a) /\ i + 1 \in 1 .. Len(a)
      BY <1>3, <1>7, <2>1
    <3> QED BY <1>4, <3>1 DEF Whole, InOrder
  <2>2. CASE i = Len(a)
    <3>1. i \in 1 .. Len(a) /\ i + 1 \in 1 .. Len(r) /\ i + 1 > Len(a) /\ (i + 1) - Len(a) = 1
      BY <1>3, <1>7, <2>2
    <3>2. r[i] = a[Len(a)] /\ r[i + 1] = b[1] /\ a # <<>> /\ b # <<>>
      <4>1. r[i] = a[Len(a)]
        BY <1>4, <2>2, <3>1
      <4>2. r[i + 1] = b[1] /\ 1 \in 1 .. Len(b)
        BY <1>5, <3>1
      <4> QED BY <1>3, <3>1, <4>1, <4>2
    <3> QED BY <3>2, Unlinked DEF Whole, Ended, Started
  <2>3. CASE i > Len(a)
    <3>1. i \in 1 .. Len(r) /\ i + 1 \in 1 .. Len(r) /\ i + 1 > Len(a)
      BY <1>3, <1>7, <2>3
    <3>2. (i + 1) - Len(a) = (i - Len(a)) + 1 /\ i - Len(a) \in 1 .. Len(b) - 1
      BY <1>3, <1>7, <2>3
    <3> QED BY <1>5, <2>3, <3>1, <3>2 DEF Whole, InOrder
  <2> QED BY <1>3, <2>1, <2>2, <2>3
<1>8. Started(r) /\ Ended(r)
  <2>1. CASE a = <<>>
    <3>1. r = b
      BY <1>1, <1>2, <2>1, ConcatEmptySeq
    <3> QED BY <3>1 DEF Whole
  <2>2. CASE b = <<>>
    <3>1. r = a
      BY <1>1, <1>2, <2>2, ConcatEmptySeq
    <3> QED BY <3>1 DEF Whole
  <2>3. CASE a # <<>> /\ b # <<>>
    <3>1. Len(a) >= 1 /\ Len(b) >= 1
      BY <1>1, <1>3, <2>3
    <3>2. r[1] = a[1]
      BY <1>3, <3>1
    <3>3. r[Len(r)] = b[Len(b)]
      <4>1. Len(r) \in 1 .. Len(r) /\ Len(r) > Len(a) /\ Len(r) - Len(a) = Len(b)
        BY <1>3, <3>1
      <4> QED BY <1>5, <4>1
    <3> QED BY <2>3, <3>2, <3>3 DEF Whole, Started, Ended
  <2> QED BY <2>1, <2>2, <2>3
<1> QED BY <1>2, <1>3, <1>6, <1>7, <1>8 DEF Whole, InOrder

\* Any number of queues, one after the other.
LEMMA ManyAreWhole ==
    ASSUME NEW seqs \in Seq(Seq(Steps)),
           \A i \in 1 .. Len(seqs) : Whole(seqs[i]),
           \A i, j \in 1 .. Len(seqs) : i < j =>
              \A s, t : Within(s, seqs[i]) /\ Within(t, seqs[j]) => Precedes(s, t)
    PROVE  /\ Whole(FlattenSeq(seqs))
           /\ \A s : Within(s, FlattenSeq(seqs)) <=>
                       \E i \in 1 .. Len(seqs) : Within(s, seqs[i])
<1>1. CASE Len(seqs) = 0
  <2>1. seqs = <<>> /\ FlattenSeq(seqs) = <<>>
    BY <1>1 DEF FlattenSeq
  <2>2. <<>> \in Seq(Steps) /\ Len(<<>>) = 0
    OBVIOUS
  <2>3. Whole(<<>>)
    BY <2>2 DEF Whole, InOrder, Started, Ended
  <2> QED BY <2>1, <2>2, <2>3 DEF Within
<1>2. CASE Len(seqs) # 0
  <2>1. PICK h : FlatUpTo(h, Len(seqs), seqs) /\ FlattenSeq(seqs) = h[Len(seqs)]
    BY <1>2, FlattenIsFlat
  <2>2. Len(seqs) \in Nat /\ \A i \in 1 .. Len(seqs) : seqs[i] \in Seq(Steps)
    OBVIOUS
  <2> DEFINE Right(n) == /\ Whole(h[n])
                         /\ \A s : Within(s, h[n]) <=> \E i \in 1 .. n : Within(s, seqs[i])
             Wrong == {n \in 1 .. Len(seqs) : ~Right(n)}
  <2>3. Wrong = {}
    <3> SUFFICES ASSUME Wrong # {} PROVE FALSE
      OBVIOUS
    <3> HIDE DEF Right
    <3>1. PICK n \in Wrong : \A k \in Wrong : n <= k
      <4>1. Wrong \subseteq Nat
        OBVIOUS
      <4> HIDE DEF Wrong
      <4> QED BY <4>1, Smallest
    <3>2. n \in 1 .. Len(seqs) /\ ~Right(n)
      BY <3>1
    <3>3. CASE n = 1
      <4>1. h[1] = seqs[1]
        BY <2>1, <3>2, <3>3 DEF FlatUpTo
      <4> QED BY <2>2, <3>2, <3>3, <4>1 DEF Right
    <3>4. CASE n # 1
      <4>1. n - 1 \in 1 .. Len(seqs) /\ n - 1 < n
        BY <2>2, <3>2, <3>4
      <4>2. Right(n - 1)
        BY <3>1, <4>1
      <4>3. h[n] = h[n - 1] \o seqs[n]
        BY <2>1, <3>2, <3>4 DEF FlatUpTo, Behind
      <4>4. PICK p, q, r : p = h[n - 1] /\ q = seqs[n] /\ r = h[n]
        OBVIOUS
      <4>5. Whole(p) /\ Whole(q) /\ r = p \o q
        BY <3>2, <4>2, <4>3, <4>4 DEF Right
      <4>6. \A s : Within(s, p) <=> \E i \in 1 .. n - 1 : Within(s, seqs[i])
        BY <4>2, <4>4 DEF Right
      <4>7. \A s, t : Within(s, p) /\ Within(t, q) => Precedes(s, t)
        <5> SUFFICES ASSUME NEW s, NEW t, Within(s, p), Within(t, q) PROVE Precedes(s, t)
          OBVIOUS
        <5>1. PICK i \in 1 .. n - 1 : Within(s, seqs[i])
          BY <4>6
        <5>2. i \in 1 .. Len(seqs) /\ i < n /\ n \in 1 .. Len(seqs)
          BY <3>2, <4>1
        <5> QED BY <4>4, <5>1, <5>2
      <4>8. Whole(r)
        BY <4>5, <4>7, TwoAreWhole
      <4>9. \A s : Within(s, r) <=> Within(s, p) \/ Within(s, q)
        BY <4>5, WithinFacts DEF Whole
      <4>10. \A i \in 1 .. n : i = n \/ i \in 1 .. n - 1
        BY <4>1
      <4>11. n \in 1 .. n /\ \A i \in 1 .. n - 1 : i \in 1 .. n
        BY <4>1
      <4>12. \A s : Within(s, r) <=> \E i \in 1 .. n : Within(s, seqs[i])
        BY <4>4, <4>6, <4>9, <4>10, <4>11
      <4> QED BY <3>2, <4>4, <4>8, <4>12 DEF Right
    <3> QED BY <3>3, <3>4
  <2>4. Right(Len(seqs))
    <3>1. Len(seqs) \in 1 .. Len(seqs)
      BY <1>2, <2>2
    <3> HIDE DEF Right
    <3> QED BY <2>3, <3>1
  <2> QED BY <2>1, <2>4
<1> QED BY <1>1, <1>2

-----------------------------------------------------------------------------
(* Catalogs, manifests and the operations made of them.                       *)

\* The builds of the components in a bundle.
LEMMA BundleFacts ==
    ASSUME NEW cat \in Catalogs, NEW kind \in cat.artifacts
    PROVE  /\ kind \in Kinds
           /\ DOMAIN BundleComponents(cat, kind) \subseteq Components
           /\ kind # "full" => DOMAIN BundleComponents(cat, kind) = {kind}
           /\ kind = "full" => DOMAIN BundleComponents(cat, kind) = Components
           /\ \A c \in DOMAIN BundleComponents(cat, kind) :
                 /\ BundleComponents(cat, kind)[c] \in Builds
                 /\ BundleComponents(cat, kind)[c] = cat.full[c]
<1>1. CatalogOK(cat)
  BY CatalogsAssumption
<1> QED BY <1>1 DEF CatalogOK, BundleComponents, Kinds

\* What a component ships: its files, each once.
LEMMA ShippedFacts ==
    ASSUME NEW c \in Components, NEW b \in Builds
    PROVE  /\ Shipped(c, b) \in Seq(Items)
           /\ \A i, j \in 1 .. Len(Shipped(c, b)) :
                 Shipped(c, b)[i].file = Shipped(c, b)[j].file => i = j
           /\ \A item : Within(item, Shipped(c, b)) <=>
                 \E f \in ToSet(Payload[c][b]) : item = [file |-> f, build |-> b]
<1>1. Payload[c][b] \in Seq(Files)
      /\ \A i, j \in DOMAIN Payload[c][b] : Payload[c][b][i] = Payload[c][b][j] => i = j
  BY PayloadAssumption
<1>2. PICK p : p = Payload[c][b]
  OBVIOUS
<1>3. p \in Seq(Files) /\ DOMAIN p = 1 .. Len(p) /\ Len(p) \in Nat
      /\ \A i \in 1 .. Len(p) : p[i] \in Files
  BY <1>1, <1>2
<1>4. PICK s : s = Shipped(c, b)
  OBVIOUS
<1>5. s = [i \in 1 .. Len(p) |-> [file |-> p[i], build |-> b]]
  BY <1>2, <1>3, <1>4 DEF Shipped
<1>6. \A i \in 1 .. Len(p) : s[i] = [file |-> p[i], build |-> b] /\ s[i] \in Items
  BY <1>3, <1>5 DEF Items
<1>7. s \in Seq(Items) /\ Len(s) = Len(p)
  <2>1. s \in [1 .. Len(p) -> Items]
    BY <1>5, <1>6
  <2> QED BY <1>3, <2>1
<1>8. \A item : Within(item, s) <=> \E f \in ToSet(p) : item = [file |-> f, build |-> b]
  <2>1. ASSUME NEW item, Within(item, s) PROVE \E f \in ToSet(p) : item = [file |-> f, build |-> b]
    <3>1. PICK i \in 1 .. Len(p) : s[i] = item
      BY <1>7, <2>1 DEF Within
    <3>2. p[i] \in ToSet(p)
      BY <1>3 DEF ToSet
    <3> QED BY <1>6, <3>1, <3>2
  <2>2. ASSUME NEW f \in ToSet(p) PROVE Within([file |-> f, build |-> b], s)
    <3>1. PICK i \in 1 .. Len(p) : p[i] = f
      BY <1>3 DEF ToSet
    <3> QED BY <1>6, <1>7, <3>1 DEF Within
  <2> QED BY <2>1, <2>2
<1>9. \A i, j \in 1 .. Len(s) : s[i].file = s[j].file => i = j
  <2>1. \A i, j \in 1 .. Len(p) : p[i] = p[j] => i = j
    <3>1. \A i, j \in DOMAIN p : p[i] = p[j] => i = j
      BY <1>1, <1>2
    <3>2. DOMAIN p = 1 .. Len(p)
      BY <1>3
    <3> QED BY <3>1, <3>2
  <2>2. ASSUME NEW i \in 1 .. Len(p) PROVE s[i].file = p[i]
    <3>1. s[i] = [file |-> p[i], build |-> b]
      BY <1>6
    <3> QED BY <3>1
  <2> QED BY <1>7, <2>1, <2>2
<1>10. \A item : Within(item, Shipped(c, b)) <=>
           \E f \in ToSet(Payload[c][b]) : item = [file |-> f, build |-> b]
  <2>1. ToSet(Payload[c][b]) = ToSet(p)
    BY <1>2
  <2> QED BY <1>4, <1>8, <2>1
<1> QED BY <1>4, <1>7, <1>9, <1>10

Pay(c, b) == ToSet(Payload[c][b])

LEMMA FilesApart ==
    ASSUME NEW c \in Components, NEW other \in Components, c # other,
           NEW b \in Builds, NEW later \in Builds
    PROVE  Pay(c, b) \cap Pay(other, later) = {}
BY PayloadAssumption DEF Pay

\* What is in a bundle.
Ships(cat, kind, item) ==
    \E c \in DOMAIN BundleComponents(cat, kind) :
       \E f \in Pay(c, BundleComponents(cat, kind)[c]) :
          item = [file |-> f, build |-> BundleComponents(cat, kind)[c]]

LEMMA ManifestFacts ==
    ASSUME NEW cat \in Catalogs, NEW kind \in cat.artifacts
    PROVE  /\ Manifest(cat, kind) \in Seq(Items)
           /\ \A i, j \in 1 .. Len(Manifest(cat, kind)) :
                 Manifest(cat, kind)[i].file = Manifest(cat, kind)[j].file => i = j
           /\ \A item : Within(item, Manifest(cat, kind)) <=> Ships(cat, kind, item)
<1> DEFINE C == DOMAIN BundleComponents(cat, kind)
           B(c) == BundleComponents(cat, kind)[c]
           part(c) == IF c \in C THEN Shipped(c, B(c)) ELSE <<>>
           Apart(s, t) == \A x, y : Within(x, s) /\ Within(y, t) => x.file # y.file
           NamesOnce(s) == s \in Seq(Items) /\ \A i, j \in 1 .. Len(s) : s[i].file = s[j].file => i = j
<1>1. C \subseteq Components /\ \A c \in C : B(c) \in Builds
  BY BundleFacts
<1>2. Manifest(cat, kind) = (part("runtime") \o part("frontend")) \o part("backend")
  BY DEF Manifest
<1> HIDE DEF B, C
<1>3. \A c : /\ part(c) \in Seq(Items) /\ NamesOnce(part(c))
             /\ \A x : Within(x, part(c)) <=> c \in C /\ \E f \in Pay(c, B(c)) : x = [file |-> f, build |-> B(c)]
  <2> SUFFICES ASSUME NEW c
               PROVE  /\ part(c) \in Seq(Items) /\ NamesOnce(part(c))
                      /\ \A x : Within(x, part(c)) <=> c \in C /\ \E f \in Pay(c, B(c)) : x = [file |-> f, build |-> B(c)]
    OBVIOUS
  <2>1. CASE c \in C
    <3>1. part(c) = Shipped(c, B(c)) /\ c \in Components /\ B(c) \in Builds
      BY <1>1, <2>1
    <3>2. PICK b \in Builds : b = B(c)
      BY <3>1
    <3> QED BY <2>1, <3>1, <3>2, ShippedFacts DEF Pay
  <2>2. CASE c \notin C
    <3>1. part(c) = <<>> /\ Len(part(c)) = 0 /\ <<>> \in Seq(Items)
      BY <2>2
    <3> QED BY <2>2, <3>1 DEF Within
  <2> QED BY <2>1, <2>2
<1>4. \A c, other : c # other => Apart(part(c), part(other))
  <2> SUFFICES ASSUME NEW c, NEW other, c # other, NEW x, NEW y,
                      Within(x, part(c)), Within(y, part(other)), x.file = y.file
               PROVE  FALSE
    OBVIOUS
  <2> HIDE DEF part
  <2>1. c \in C /\ other \in C
    BY <1>3
  <2>2. PICK f \in Pay(c, B(c)) : x = [file |-> f, build |-> B(c)]
    BY <1>3
  <2>3. PICK g \in Pay(other, B(other)) : y = [file |-> g, build |-> B(other)]
    BY <1>3
  <2>4. f = g
    BY <2>2, <2>3
  <2>5. Pay(c, B(c)) \cap Pay(other, B(other)) = {}
    BY <1>1, <2>1, FilesApart
  <2> QED BY <2>4, <2>5
<1>5. ASSUME NEW s, NEW t, NamesOnce(s), NamesOnce(t), Apart(s, t)
      PROVE  NamesOnce(s \o t) /\ \A x : Within(x, s \o t) <=> Within(x, s) \/ Within(x, t)
  <2>1. PICK r : r = s \o t
    OBVIOUS
  <2>2. s \in Seq(Items) /\ t \in Seq(Items)
    BY <1>5
  <2>3. r \in Seq(Items) /\ Len(r) = Len(s) + Len(t) /\ Len(s) \in Nat /\ Len(t) \in Nat
        /\ \A i \in 1 .. Len(s) + Len(t) : r[i] = IF i <= Len(s) THEN s[i] ELSE t[i - Len(s)]
    BY <2>1, <2>2, ConcatProperties
  <2>4. \A i \in 1 .. Len(r) : \/ i <= Len(s) /\ i \in 1 .. Len(s) /\ r[i] = s[i] /\ Within(r[i], s)
                               \/ i > Len(s) /\ i - Len(s) \in 1 .. Len(t)
                                    /\ r[i] = t[i - Len(s)] /\ Within(r[i], t)
    BY <2>3 DEF Within
  <2>5. ASSUME NEW i \in 1 .. Len(r), NEW j \in 1 .. Len(r), r[i].file = r[j].file
        PROVE  i = j
    <3>1. CASE i <= Len(s) /\ j <= Len(s)
      <4>1. i \in 1 .. Len(s) /\ j \in 1 .. Len(s) /\ r[i] = s[i] /\ r[j] = s[j]
        BY <2>3, <2>4, <3>1
      <4> QED BY <1>5, <2>5, <4>1
    <3>2. CASE i > Len(s) /\ j > Len(s)
      <4>1. /\ i - Len(s) \in 1 .. Len(t) /\ j - Len(s) \in 1 .. Len(t)
            /\ r[i] = t[i - Len(s)] /\ r[j] = t[j - Len(s)]
        BY <2>3, <2>4, <3>2
      <4>2. i - Len(s) = j - Len(s)
        BY <1>5, <2>5, <4>1
      <4> QED BY <2>3, <4>2
    <3>3. CASE i <= Len(s) /\ j > Len(s)
      <4>1. Within(r[i], s) /\ Within(r[j], t)
        BY <2>3, <2>4, <3>3
      <4> QED BY <1>5, <2>5, <4>1
    <3>4. CASE i > Len(s) /\ j <= Len(s)
      <4>1. Within(r[j], s) /\ Within(r[i], t)
        BY <2>3, <2>4, <3>4
      <4> QED BY <1>5, <2>5, <4>1
    <3> QED BY <2>3, <3>1, <3>2, <3>3, <3>4
  <2>6. \A x : Within(x, r) <=> Within(x, s) \/ Within(x, t)
    BY <2>1, <2>2, WithinFacts
  <2> QED BY <2>1, <2>3, <2>5, <2>6
<1> HIDE DEF part, NamesOnce, Apart
<1>6. PICK rt, fr, ba, both, all :
         /\ rt = part("runtime") /\ fr = part("frontend") /\ ba = part("backend")
         /\ both = rt \o fr /\ all = both \o ba /\ Manifest(cat, kind) = all
  BY <1>2
<1>7. NamesOnce(both) /\ \A x : Within(x, both) <=> Within(x, rt) \/ Within(x, fr)
  <2>1. NamesOnce(rt) /\ NamesOnce(fr) /\ Apart(rt, fr)
    BY <1>3, <1>4, <1>6
  <2> QED BY <1>5, <1>6, <2>1
<1>8. Apart(rt, ba) /\ Apart(fr, ba) /\ NamesOnce(ba)
  BY <1>3, <1>4, <1>6
<1>9. Apart(both, ba)
  BY <1>7, <1>8 DEF Apart
<1>10. NamesOnce(all) /\ \A x : Within(x, all) <=> Within(x, both) \/ Within(x, ba)
  BY <1>5, <1>6, <1>7, <1>8, <1>9
<1>11. \A x : Within(x, all) <=> Ships(cat, kind, x)
  <2>1. \A c \in C : c = "runtime" \/ c = "frontend" \/ c = "backend"
    BY <1>1 DEF Components
  <2>2. \A x : Ships(cat, kind, x) <=>
           \E c \in C : \E f \in Pay(c, B(c)) : x = [file |-> f, build |-> B(c)]
    BY DEF Ships, B, C
  <2>3. \A x : Within(x, all) <=>
           Within(x, part("runtime")) \/ Within(x, part("frontend")) \/ Within(x, part("backend"))
    BY <1>6, <1>7, <1>10
  <2>4. \A c : \A x : Within(x, part(c)) <=>
           c \in C /\ \E f \in Pay(c, B(c)) : x = [file |-> f, build |-> B(c)]
    BY <1>3
  <2>5. ASSUME NEW x, Within(x, all) PROVE Ships(cat, kind, x)
    <3>1. PICK c : Within(x, part(c))
      BY <2>3, <2>5
    <3> QED BY <2>2, <2>4, <3>1
  <2>6. ASSUME NEW x, Ships(cat, kind, x) PROVE Within(x, all)
    <3>1. PICK c \in C : \E f \in Pay(c, B(c)) : x = [file |-> f, build |-> B(c)]
      BY <2>2, <2>6
    <3>2. Within(x, part(c))
      BY <2>4, <3>1
    <3> QED BY <2>1, <2>3, <3>2
  <2> QED BY <2>5, <2>6
<1>12. /\ all \in Seq(Items)
       /\ \A i, j \in 1 .. Len(all) : all[i].file = all[j].file => i = j
  BY <1>10 DEF NamesOnce
<1>13. Manifest(cat, kind) = all
  BY <1>6
<1> HIDE DEF Ships
<1> QED BY <1>11, <1>12, <1>13

\* What an operation that was staged or is being installed is made of.
Kinded(op, cat) ==
    \/ \E kind \in cat.artifacts : op.arts = <<kind>>
    \/ op.arts = <<"frontend", "backend">> /\ {"frontend", "backend"} \subseteq cat.artifacts

Operation(op) ==
    /\ op.previous \in States
    /\ \E cat \in Catalogs : op.release = cat.release /\ Kinded(op, cat)

ItemsOf(op, n) == ToSet(Manifest(CatalogOf(op), op.arts[n]))

LEMMA OperationFacts ==
    ASSUME NEW op, Operation(op)
    PROVE  /\ CatalogOf(op) \in Catalogs /\ op.release = CatalogOf(op).release
           /\ Kinded(op, CatalogOf(op))
           /\ op.arts \in Seq(Kinds) /\ DOMAIN op.arts = 1 .. Len(op.arts)
           /\ Len(op.arts) \in 1 .. 2
           /\ \A n \in 1 .. Len(op.arts) : op.arts[n] \in CatalogOf(op).artifacts
           /\ \A n \in 1 .. Len(op.arts) : op.arts[n] = "full" <=> op.arts = <<"full">>
           /\ op # NoOp
<1>1. PICK cat \in Catalogs : op.release = cat.release /\ Kinded(op, cat)
  BY DEF Operation
<1>2. CatalogOf(op) = cat
  BY <1>1, CatalogsAssumption DEF CatalogOf
<1>3. CatalogOK(cat)
  BY CatalogsAssumption
<1>4. cat.artifacts \subseteq Kinds /\ cat.release # 0
  BY <1>3 DEF CatalogOK
<1>5. op # NoOp
  BY <1>1, <1>4 DEF NoOp
<1>6. CASE \E kind \in cat.artifacts : op.arts = <<kind>>
  <2>1. PICK kind \in cat.artifacts : op.arts = <<kind>>
    BY <1>6
  <2>2. PICK arts : arts = op.arts
    OBVIOUS
  <2>3. arts = <<kind>> /\ kind \in Kinds
    BY <1>4, <2>1, <2>2
  <2>4. arts \in Seq(Kinds) /\ Len(arts) = 1 /\ DOMAIN arts = 1 .. 1 /\ arts[1] = kind
    BY <2>3
  <2>5. \A n \in 1 .. 1 : n = 1
    OBVIOUS
  <2>6. kind = "full" <=> arts = <<"full">>
    BY <2>3
  <2> QED BY <1>1, <1>2, <1>5, <2>2, <2>4, <2>5, <2>6
<1>7. CASE op.arts = <<"frontend", "backend">> /\ {"frontend", "backend"} \subseteq cat.artifacts
  <2>1. PICK arts : arts = op.arts
    OBVIOUS
  <2>2. arts = <<"frontend", "backend">> /\ "frontend" \in Kinds /\ "backend" \in Kinds
    BY <1>4, <1>7, <2>1
  <2>3. arts \in Seq(Kinds) /\ Len(arts) = 2 /\ DOMAIN arts = 1 .. 2
        /\ arts[1] = "frontend" /\ arts[2] = "backend"
    BY <2>2
  <2>4. \A n \in 1 .. 2 : n = 1 \/ n = 2
    OBVIOUS
  <2>5. arts # <<"full">>
    BY <2>2
  <2>6. \A n \in 1 .. 2 : arts[n] # "full" /\ arts[n] \in cat.artifacts
    BY <1>7, <2>3, <2>4
  <2> QED BY <1>1, <1>2, <1>5, <2>1, <2>3, <2>5, <2>6
<1> QED BY <1>1, <1>6, <1>7 DEF Kinded

LEMMA ItemsFacts ==
    ASSUME NEW op, Operation(op), NEW n \in 1 .. Len(op.arts)
    PROVE  /\ \A x : x \in ItemsOf(op, n) <=> Within(x, Manifest(CatalogOf(op), op.arts[n]))
           /\ \A x : x \in ItemsOf(op, n) <=> Ships(CatalogOf(op), op.arts[n], x)
           /\ ItemsOf(op, n) \subseteq Items
<1>1. CatalogOf(op) \in Catalogs /\ op.arts[n] \in CatalogOf(op).artifacts
  BY OperationFacts
<1>2. PICK m : m = Manifest(CatalogOf(op), op.arts[n])
  OBVIOUS
<1>3. m \in Seq(Items) /\ \A x : Within(x, m) <=> Ships(CatalogOf(op), op.arts[n], x)
  <2>1. PICK cat \in Catalogs, kind \in CatalogOf(op).artifacts : cat = CatalogOf(op) /\ kind = op.arts[n]
    BY <1>1
  <2> QED BY <1>2, <2>1, ManifestFacts
<1>4. ItemsOf(op, n) = ToSet(m)
  BY <1>2 DEF ItemsOf
<1>5. DOMAIN m = 1 .. Len(m) /\ \A i \in 1 .. Len(m) : m[i] \in Items
  BY <1>3
<1>6. \A x : x \in ToSet(m) <=> Within(x, m)
  BY <1>5 DEF ToSet, Within
<1>7. ToSet(m) \subseteq Items
  BY <1>5 DEF ToSet
<1> QED BY <1>2, <1>3, <1>4, <1>6, <1>7

\* An operation names a file once.
LEMMA ItemsAreUnique ==
    ASSUME NEW op, Operation(op), NEW n \in 1 .. Len(op.arts), NEW m \in 1 .. Len(op.arts),
           NEW x \in ItemsOf(op, n), NEW y \in ItemsOf(op, m), x.file = y.file
    PROVE  n = m /\ x = y
<1>1. CatalogOf(op) \in Catalogs /\ Kinded(op, CatalogOf(op))
      /\ \A k \in 1 .. Len(op.arts) : op.arts[k] \in CatalogOf(op).artifacts
  BY OperationFacts
<1>2. PICK cat \in Catalogs : cat = CatalogOf(op)
  BY <1>1
<1>3. PICK a \in cat.artifacts, b \in cat.artifacts : a = op.arts[n] /\ b = op.arts[m]
  BY <1>1, <1>2
<1>4. Ships(cat, a, x) /\ Ships(cat, b, y)
  BY <1>2, <1>3, ItemsFacts
<1>5. PICK c \in DOMAIN BundleComponents(cat, a) :
         \E f \in Pay(c, BundleComponents(cat, a)[c]) :
            x = [file |-> f, build |-> BundleComponents(cat, a)[c]]
  BY <1>4 DEF Ships
<1>6. PICK d \in DOMAIN BundleComponents(cat, b) :
         \E f \in Pay(d, BundleComponents(cat, b)[d]) :
            y = [file |-> f, build |-> BundleComponents(cat, b)[d]]
  BY <1>4 DEF Ships
<1>7. /\ c \in Components /\ d \in Components
      /\ BundleComponents(cat, a)[c] \in Builds /\ BundleComponents(cat, b)[d] \in Builds
      /\ BundleComponents(cat, a)[c] = cat.full[c] /\ BundleComponents(cat, b)[d] = cat.full[d]
  BY <1>5, <1>6, BundleFacts
<1>8. c = d
  <2> SUFFICES ASSUME c # d PROVE FALSE
    OBVIOUS
  <2>1. PICK f \in Pay(c, BundleComponents(cat, a)[c]) : x.file = f
    BY <1>5
  <2>2. PICK g \in Pay(d, BundleComponents(cat, b)[d]) : y.file = g
    BY <1>6
  <2>3. Pay(c, BundleComponents(cat, a)[c]) \cap Pay(d, BundleComponents(cat, b)[d]) = {}
    BY <1>7, FilesApart
  <2> QED BY <2>1, <2>2, <2>3
<1>9. x = y
  BY <1>5, <1>6, <1>7, <1>8
<1>10. n = m
  <2>1. CASE \E kind \in cat.artifacts : op.arts = <<kind>>
    <3>1. PICK arts : arts = op.arts
      OBVIOUS
    <3>2. Len(arts) = 1
      BY <2>1, <3>1
    <3>3. \A k \in 1 .. Len(arts) : k = 1
      BY <3>2
    <3> QED BY <3>1, <3>3
  <2>2. CASE op.arts = <<"frontend", "backend">>
    <3>1. PICK arts : arts = op.arts
      OBVIOUS
    <3>2. Len(arts) = 2 /\ arts[1] = "frontend" /\ arts[2] = "backend"
      BY <2>2, <3>1
    <3>3. \A k \in 1 .. Len(arts) : k = 1 \/ k = 2
      BY <3>2
    <3>4. a = arts[n] /\ b = arts[m] /\ n \in 1 .. Len(arts) /\ m \in 1 .. Len(arts)
      BY <1>3, <3>1
    <3>5. DOMAIN BundleComponents(cat, a) = {a} /\ DOMAIN BundleComponents(cat, b) = {b}
      <4>1. a # "full" /\ b # "full"
        BY <3>2, <3>3, <3>4
      <4> QED BY <4>1, BundleFacts
    <3>6. a = b
      BY <1>5, <1>6, <1>8, <3>5
    <3> QED BY <3>2, <3>3, <3>4, <3>6
  <2> QED BY <1>1, <1>2, <2>1, <2>2 DEF Kinded
<1> QED BY <1>9, <1>10

-----------------------------------------------------------------------------
(* The queues that the processes begin with.                                  *)

LEMMA NoStateTyped == NoState \in States
BY DEF NoState, States

LEMMA FileStepFacts ==
    ASSUME NEW do \in FileDos, NEW art \in Nat, NEW item \in Items, NEW preserve \in BOOLEAN
    PROVE  LET s == FileStep(do, art, item, preserve) IN
           /\ s \in Steps
           /\ s.do = do /\ s.art = art /\ s.file = item.file /\ s.build = item.build
           /\ s.preserve = preserve
<1>1. item.file \in Files /\ item.build \in Nat
  BY PayloadAssumption DEF Items
<1>2. do \in Applies \cup Walks
  BY DEF FileDos, Applies, Walks
<1> QED BY <1>1, <1>2, NoStateTyped DEF FileStep, Steps

LEMMA StateStepFacts ==
    ASSUME NEW do \in Applies, NEW art \in Nat, NEW st \in States
    PROVE  LET s == StateStep(do, art, st) IN
           /\ s \in Steps /\ s.do = do /\ s.art = art /\ s.state = st
           /\ s.file = AppFile /\ s.build = 0 /\ s.preserve = FALSE
BY PayloadAssumption DEF StateStep, Steps

LEMMA PlainStepFacts ==
    ASSUME NEW do \in Applies, NEW art \in Nat
    PROVE  LET s == PlainStep(do, art) IN
           s \in Steps /\ s.do = do /\ s.art = art /\ s.state = NoState
BY NoStateTyped, StateStepFacts DEF PlainStep

LEMMA SingleIsWhole ==
    ASSUME NEW s \in Steps, s.do \notin Firsts, s.do \notin Seconds
    PROVE  Whole(<<s>>) /\ \A t : Within(t, <<s>>) <=> t = s
<1>1. PICK w : w = <<s>>
  OBVIOUS
<1>2. w \in Seq(Steps) /\ Len(w) = 1 /\ w[1] = s
  BY <1>1
<1>3. \A i \in 1 .. 1 : i = 1
  OBVIOUS
<1>4. InOrder(w)
  BY <1>2, <1>3 DEF InOrder
<1>5. \A t : Within(t, w) <=> t = s
  BY <1>2, <1>3 DEF Within
<1> QED BY <1>1, <1>2, <1>4, <1>5 DEF Whole, Started, Ended

\* One file: what its steps are.
Installs(s, art, item, preserve) ==
    /\ s.do \in {"drop", "keep", "place"} /\ s.art = art
    /\ s.file = item.file /\ s.build = item.build /\ s.preserve = preserve

LEMMA StepsInTurn ==
    ASSUME NEW s, NEW t, s.file = t.file, s.art = t.art, s.art # 0, s.art \in Nat,
           \/ s.do = "drop" /\ t.do \in {"keep", "place"}
           \/ s.do = "keep" /\ t.do = "place"
           \/ s.do = "clear" /\ t.do = "return"
    PROVE  Precedes(s, t)
BY DEF Precedes, Turn, Walks

LEMMA StepsApart ==
    ASSUME NEW s, NEW t, s.file # t.file, s.art \in Nat, t.art \in Nat, s.art # 0,
           \/ s.do \in {"drop", "keep", "place"} /\ t.do \in {"drop", "keep", "place"}
                /\ s.art <= t.art
           \/ s.do \in Walks /\ t.do \in Walks
    PROVE  Precedes(s, t)
BY DEF Precedes, Walks

LEMMA InstallFileFacts ==
    ASSUME NEW art \in Nat, art # 0, NEW item \in Items, NEW preserve \in BOOLEAN
    PROVE  /\ Whole(InstallFile(art, item, preserve))
           /\ \A s : Within(s, InstallFile(art, item, preserve)) => Installs(s, art, item, preserve)
           /\ Within(FileStep("place", art, item, preserve), InstallFile(art, item, preserve))
<1>1. PICK d, k, p : /\ d = FileStep("drop", art, item, preserve)
                     /\ k = FileStep("keep", art, item, preserve)
                     /\ p = FileStep("place", art, item, preserve)
  OBVIOUS
<1>2. /\ d \in Steps /\ Installs(d, art, item, preserve) /\ d.do = "drop"
      /\ k \in Steps /\ Installs(k, art, item, preserve) /\ k.do = "keep"
      /\ p \in Steps /\ Installs(p, art, item, preserve) /\ p.do = "place"
  <2>1. "drop" \in FileDos /\ "keep" \in FileDos /\ "place" \in FileDos
    BY DEF FileDos
  <2>2. d \in Steps /\ Installs(d, art, item, preserve) /\ d.do = "drop"
    BY <1>1, <2>1, FileStepFacts DEF Installs
  <2>3. k \in Steps /\ Installs(k, art, item, preserve) /\ k.do = "keep"
    BY <1>1, <2>1, FileStepFacts DEF Installs
  <2>4. p \in Steps /\ Installs(p, art, item, preserve) /\ p.do = "place"
    BY <1>1, <2>1, FileStepFacts DEF Installs
  <2> QED BY <2>2, <2>3, <2>4
<1>3. Precedes(d, k) /\ Precedes(d, p) /\ Precedes(k, p)
  BY <1>2, StepsInTurn DEF Installs
<1>4. Linked(d, k) /\ Linked(k, p)
  BY <1>2 DEF Linked, Installs, Firsts, Seconds
<1>5. PICK w : w = InstallFile(art, item, preserve)
  OBVIOUS
<1>6. CASE preserve
  <2>1. w = <<d, k, p>>
    BY <1>1, <1>5, <1>6 DEF InstallFile
  <2>2. w \in Seq(Steps) /\ Len(w) = 3 /\ w[1] = d /\ w[2] = k /\ w[3] = p /\ w # <<>>
    BY <1>2, <2>1
  <2>3. \A i \in 1 .. 3 : i = 1 \/ i = 2 \/ i = 3
    OBVIOUS
  <2>4. InOrder(w)
    <3>1. \A i, j \in 1 .. 3 : i < j => Precedes(w[i], w[j])
      BY <1>3, <2>2, <2>3
    <3>2. \A i \in 1 .. 3 - 1 : Linked(w[i], w[i + 1])
      <4>1. \A i \in 1 .. 2 : (i = 1 /\ i + 1 = 2) \/ (i = 2 /\ i + 1 = 3)
        OBVIOUS
      <4>2. 3 - 1 = 2
        OBVIOUS
      <4>3. \A i \in 1 .. 2 : Linked(w[i], w[i + 1])
        BY <1>4, <2>2, <4>1
      <4> QED BY <4>2, <4>3
    <3> QED BY <2>2, <3>1, <3>2 DEF InOrder
  <2>5. Started(w) /\ Ended(w)
    BY <1>2, <2>2 DEF Started, Ended, Firsts, Seconds
  <2>6. \A s : Within(s, w) <=> s = d \/ s = k \/ s = p
    BY <2>2, <2>3 DEF Within
  <2> QED BY <1>1, <1>2, <1>5, <2>2, <2>4, <2>5, <2>6 DEF Whole
<1>7. CASE ~preserve
  <2>1. w = <<k, p>>
    BY <1>1, <1>5, <1>7 DEF InstallFile
  <2>2. w \in Seq(Steps) /\ Len(w) = 2 /\ w[1] = k /\ w[2] = p /\ w # <<>>
    BY <1>2, <2>1
  <2>3. \A i \in 1 .. 2 : i = 1 \/ i = 2
    OBVIOUS
  <2>4. InOrder(w)
    <3>1. \A i, j \in 1 .. 2 : i < j => Precedes(w[i], w[j])
      BY <1>3, <2>2, <2>3
    <3>2. \A i \in 1 .. 2 - 1 : Linked(w[i], w[i + 1])
      <4>1. \A i \in 1 .. 2 - 1 : i = 1 /\ i + 1 = 2
        OBVIOUS
      <4> QED BY <1>4, <2>2, <4>1
    <3> QED BY <2>2, <3>1, <3>2 DEF InOrder
  <2>5. Started(w) /\ Ended(w)
    BY <1>2, <2>2 DEF Started, Ended, Firsts, Seconds
  <2>6. \A s : Within(s, w) <=> s = k \/ s = p
    BY <2>2, <2>3 DEF Within
  <2> QED BY <1>1, <1>2, <1>5, <2>2, <2>4, <2>5, <2>6 DEF Whole
<1> QED BY <1>6, <1>7

\* What the steps of a bundle are.
Applied(s, cat, kind, art) ==
    /\ s.art = art
    /\ \/ s.do \in {"open", "commit"}
       \/ /\ s.do \in {"drop", "keep", "place"}
          /\ Ships(cat, kind, [file |-> s.file, build |-> s.build])
          /\ s.preserve <=> kind # "full"

LEMMA ApplyBundleFacts ==
    ASSUME NEW cat \in Catalogs, NEW kind \in cat.artifacts, NEW art \in Nat, art # 0
    PROVE  LET w == ApplyBundle(cat, kind, art) IN
           /\ Whole(w)
           /\ \A s : Within(s, w) => Applied(s, cat, kind, art)
           /\ \A item : Ships(cat, kind, item) =>
                 \E s : Within(s, w) /\ s.do = "place" /\ s.file = item.file
           /\ Within(PlainStep("open", art), w) /\ Within(PlainStep("commit", art), w)
<1> DEFINE listed == Manifest(cat, kind)
           keeps == kind # "full"
<1>1. PICK m : m = listed
  OBVIOUS
<1>2. /\ m \in Seq(Items) /\ \A x : Within(x, m) <=> Ships(cat, kind, x)
      /\ \A i, j \in 1 .. Len(m) : m[i].file = m[j].file => i = j
  BY <1>1, ManifestFacts
<1>3. Len(m) \in Nat /\ DOMAIN m = 1 .. Len(m) /\ \A i \in 1 .. Len(m) : m[i] \in Items /\ Within(m[i], m)
  BY <1>2 DEF Within
<1>4. PICK p : p \in BOOLEAN /\ (p <=> keeps)
  OBVIOUS
<1>5. PICK parts : parts = [i \in 1 .. Len(m) |-> InstallFile(art, m[i], p)]
  OBVIOUS
<1>6. \A i \in 1 .. Len(m) :
         /\ parts[i] = InstallFile(art, m[i], p) /\ Whole(parts[i])
         /\ \A s : Within(s, parts[i]) => Installs(s, art, m[i], p)
         /\ Within(FileStep("place", art, m[i], p), parts[i])
  BY <1>3, <1>4, <1>5, InstallFileFacts
<1>7. parts \in Seq(Seq(Steps)) /\ Len(parts) = Len(m)
  <2>1. \A i \in 1 .. Len(m) : parts[i] \in Seq(Steps)
    BY <1>6 DEF Whole
  <2>2. parts \in [1 .. Len(m) -> Seq(Steps)]
    BY <1>5, <2>1
  <2> QED BY <1>3, <2>2
<1>8. \A i, j \in 1 .. Len(parts) : i < j =>
         \A s, t : Within(s, parts[i]) /\ Within(t, parts[j]) => Precedes(s, t)
  <2> SUFFICES ASSUME NEW i \in 1 .. Len(m), NEW j \in 1 .. Len(m), i < j, NEW s, NEW t,
                      Within(s, parts[i]), Within(t, parts[j])
               PROVE  Precedes(s, t)
    BY <1>7
  <2>1. Installs(s, art, m[i], p) /\ Installs(t, art, m[j], p)
    BY <1>6
  <2>2. m[i].file # m[j].file
    BY <1>2, <1>3
  <2> QED BY <2>1, <2>2, StepsApart DEF Installs
<1>9. PICK flat : flat = FlattenSeq(parts)
  OBVIOUS
<1>10. Whole(flat) /\ \A s : Within(s, flat) <=> \E i \in 1 .. Len(m) : Within(s, parts[i])
  <2>1. \A i \in 1 .. Len(parts) : Whole(parts[i])
    BY <1>6, <1>7
  <2> QED BY <1>7, <1>8, <1>9, <2>1, ManyAreWhole
<1>11. \A s : Within(s, flat) => /\ Applied(s, cat, kind, art)
                                 /\ s.do \in {"drop", "keep", "place"}
  <2> SUFFICES ASSUME NEW s, Within(s, flat)
               PROVE  Applied(s, cat, kind, art) /\ s.do \in {"drop", "keep", "place"}
    OBVIOUS
  <2>1. PICK i \in 1 .. Len(m) : Within(s, parts[i])
    BY <1>10
  <2>2. Installs(s, art, m[i], p)
    BY <1>6, <2>1
  <2>3. m[i] = [file |-> s.file, build |-> s.build]
    BY <1>3, <2>2 DEF Installs, Items
  <2>4. Ships(cat, kind, m[i])
    BY <1>2, <1>3
  <2> HIDE DEF Ships
  <2> QED BY <1>4, <2>2, <2>3, <2>4 DEF Applied, Installs
<1>24. \A s : Within(s, flat) => s.art = art /\ s.do \in {"drop", "keep", "place"}
  BY <1>11 DEF Applied
<1>12. \A item : Ships(cat, kind, item) => \E s : Within(s, flat) /\ s.do = "place" /\ s.file = item.file
  <2> SUFFICES ASSUME NEW item, Ships(cat, kind, item)
               PROVE  \E s : Within(s, flat) /\ s.do = "place" /\ s.file = item.file
    OBVIOUS
  <2>1. PICK i \in 1 .. Len(m) : m[i] = item
    BY <1>2 DEF Within
  <2>2. PICK s : s = FileStep("place", art, m[i], p)
    OBVIOUS
  <2>3. Within(s, flat)
    BY <1>6, <1>10, <2>2
  <2>4. s.do = "place" /\ s.file = item.file
    <3>1. "place" \in FileDos
      BY DEF FileDos
    <3> QED BY <1>3, <1>4, <2>1, <2>2, <3>1, FileStepFacts
  <2> QED BY <2>3, <2>4
<1>13. PICK o, c : o = PlainStep("open", art) /\ c = PlainStep("commit", art)
  OBVIOUS
<1>14. o \in Steps /\ c \in Steps /\ o.do = "open" /\ c.do = "commit" /\ o.art = art /\ c.art = art
  <2>1. "open" \in Applies /\ "commit" \in Applies
    BY DEF Applies
  <2> QED BY <1>13, <2>1, PlainStepFacts
<1>15. /\ Whole(<<o>>) /\ \A t : Within(t, <<o>>) <=> t = o
       /\ Whole(<<c>>) /\ \A t : Within(t, <<c>>) <=> t = c
  BY <1>14, SingleIsWhole DEF Firsts, Seconds
<1>16. \A s : s.art = art /\ s.do \in {"drop", "keep", "place"} => Precedes(o, s) /\ Precedes(s, c)
  BY <1>14 DEF Precedes, FileDos, Walks
<1>17. Precedes(o, c)
  BY <1>14 DEF Precedes, FileDos, Walks
<1>18. PICK front : front = <<o>> \o flat
  OBVIOUS
<1>19. Whole(front) /\ \A s : Within(s, front) <=> s = o \/ Within(s, flat)
  <2>1. \A s, t : Within(s, <<o>>) /\ Within(t, flat) => Precedes(s, t)
    BY <1>15, <1>16, <1>24
  <2> QED BY <1>10, <1>15, <1>18, <2>1, TwoAreWhole, WithinFacts DEF Whole
<1>20. PICK all : all = front \o <<c>>
  OBVIOUS
<1>21. Whole(all) /\ \A s : Within(s, all) <=> s = o \/ Within(s, flat) \/ s = c
  <2>1. \A s, t : Within(s, front) /\ Within(t, <<c>>) => Precedes(s, t)
    BY <1>15, <1>16, <1>17, <1>19, <1>24
  <2> QED BY <1>15, <1>19, <1>20, <2>1, TwoAreWhole, WithinFacts DEF Whole
<1>22. ApplyBundle(cat, kind, art) = all
  <2>1. parts = [i \in DOMAIN listed |-> InstallFile(art, listed[i], kind # "full")]
    BY <1>1, <1>3, <1>4, <1>5
  <2> QED BY <1>9, <1>13, <1>18, <1>20, <2>1 DEF ApplyBundle
<1>23. \A s : s = o \/ s = c => Applied(s, cat, kind, art)
  BY <1>14 DEF Applied
<1> HIDE DEF Ships, Applied, Whole, Within
<1> QED BY <1>11, <1>12, <1>13, <1>21, <1>22, <1>23

\* A step of operation op: what it is about is in a manifest of op.
StepOf(op, s) ==
    /\ s.do \in FileDos =>
          /\ s.art \in 1 .. Len(op.arts)
          /\ [file |-> s.file, build |-> s.build] \in ItemsOf(op, s.art)
    /\ s.do \in Walks => op.arts[s.art] # "full"
    /\ s.do \in {"drop", "keep", "place"} => (s.preserve <=> op.arts[s.art] # "full")
    /\ s.do \in {"check", "open", "commit"} => s.art \in 1 .. Len(op.arts)
    /\ s.do \in {"remove", "rename"} => s.art \in 0 .. Len(op.arts)
    /\ s.do \in {"finish", "conclude", "mark"} => s.art = 0

LEMMA AppliedIsOf ==
    ASSUME NEW op, Operation(op), NEW n \in 1 .. Len(op.arts), NEW s,
           Applied(s, CatalogOf(op), op.arts[n], n)
    PROVE  StepOf(op, s) /\ s.art = n
<1>1. s.art = n
  BY DEF Applied
<1>2. CASE s.do \in {"open", "commit"}
  BY <1>1, <1>2 DEF StepOf, FileDos, Walks
<1>3. CASE s.do \in {"drop", "keep", "place"}
  <2>1. Ships(CatalogOf(op), op.arts[n], [file |-> s.file, build |-> s.build])
        /\ (s.preserve <=> op.arts[n] # "full")
    BY <1>3 DEF Applied
  <2>2. [file |-> s.file, build |-> s.build] \in ItemsOf(op, n)
    BY <2>1, ItemsFacts
  <2> HIDE DEF ItemsOf
  <2> QED BY <1>1, <1>3, <2>1, <2>2 DEF StepOf, FileDos, Walks
<1> QED BY <1>2, <1>3 DEF Applied

LEMMA ApplyArtifactsFacts ==
    ASSUME NEW op, Operation(op)
    PROVE  LET w == ApplyArtifacts(op) IN
           /\ Whole(w) /\ w # <<>>
           /\ \A s : Within(s, w) =>
                 /\ StepOf(op, s)
                 /\ s.do \in {"check", "open", "drop", "keep", "place", "commit", "finish"}
           /\ \A n \in 1 .. Len(op.arts) : \A x \in ItemsOf(op, n) :
                 \E s : Within(s, w) /\ s.do = "place" /\ s.file = x.file
           /\ \A n \in 1 .. Len(op.arts) : \E s : Within(s, w) /\ s.do = "commit" /\ s.art = n
           /\ \E s : Within(s, w) /\ s.do = "open" /\ s.art = 1
<1> DEFINE N == Len(op.arts)
<1>1. PICK cat \in Catalogs, arts \in Seq(Kinds) : cat = CatalogOf(op) /\ arts = op.arts
  BY OperationFacts
<1>2. N \in 1 .. 2 /\ DOMAIN op.arts = 1 .. N /\ Len(arts) = N
      /\ \A n \in 1 .. N : arts[n] \in cat.artifacts
  BY <1>1, OperationFacts
<1>3. PICK parts : parts = [i \in 1 .. N |-> <<PlainStep("check", i)>> \o ApplyBundle(cat, arts[i], i)]
  OBVIOUS
<1> DEFINE Piece(s, i) == Applied(s, cat, arts[i], i) \/ (s.do = "check" /\ s.art = i)
<1>4. ASSUME NEW i \in 1 .. N
      PROVE  /\ Whole(parts[i])
             /\ \A s : Within(s, parts[i]) => Piece(s, i)
             /\ \A x : Ships(cat, arts[i], x) =>
                   \E s : Within(s, parts[i]) /\ s.do = "place" /\ s.file = x.file
             /\ Within(PlainStep("open", i), parts[i]) /\ Within(PlainStep("commit", i), parts[i])
  <2>1. i \in Nat /\ i # 0
    BY <1>2
  <2>2. PICK k, w : k = PlainStep("check", i) /\ w = ApplyBundle(cat, arts[i], i)
    OBVIOUS
  <2>3. /\ Whole(w)
        /\ \A s : Within(s, w) => Applied(s, cat, arts[i], i)
        /\ \A x : Ships(cat, arts[i], x) => \E s : Within(s, w) /\ s.do = "place" /\ s.file = x.file
        /\ Within(PlainStep("open", i), w) /\ Within(PlainStep("commit", i), w)
    <3>1. PICK kind \in cat.artifacts : kind = arts[i]
      BY <1>2
    <3> HIDE DEF Whole, Within, Applied, Ships
    <3> QED BY <2>1, <2>2, <3>1, ApplyBundleFacts
  <2>4. k \in Steps /\ k.do = "check" /\ k.art = i
    <3>1. "check" \in Applies
      BY DEF Applies
    <3> QED BY <2>1, <2>2, <3>1, PlainStepFacts
  <2>5. Whole(<<k>>) /\ \A t : Within(t, <<k>>) <=> t = k
    BY <2>4, SingleIsWhole DEF Firsts, Seconds
  <2>6. \A s, t : Within(s, <<k>>) /\ Within(t, w) => Precedes(s, t)
    <3> SUFFICES ASSUME NEW t, Within(t, w) PROVE Precedes(k, t)
      BY <2>5
    <3>1. t.art = i
      BY <2>3 DEF Applied
    <3> QED BY <2>1, <2>4, <3>1 DEF Precedes, FileDos, Walks
  <2>7. parts[i] = <<k>> \o w
    <3>1. parts[i] = <<PlainStep("check", i)>> \o ApplyBundle(cat, arts[i], i)
      BY <1>3
    <3> QED BY <2>2, <3>1
  <2>8. Whole(parts[i]) /\ \A s : Within(s, parts[i]) <=> s = k \/ Within(s, w)
    <3>1. Whole(parts[i])
      BY <2>3, <2>5, <2>6, <2>7, TwoAreWhole
    <3>2. <<k>> \in Seq(Steps) /\ w \in Seq(Steps)
      BY <2>3, <2>5 DEF Whole
    <3>3. \A s : Within(s, parts[i]) <=> Within(s, <<k>>) \/ Within(s, w)
      BY <2>7, <3>2, WithinFacts
    <3> QED BY <2>5, <3>1, <3>3
  <2> HIDE DEF Whole, Within, Applied, Ships
  <2> QED BY <2>3, <2>4, <2>8
<1>5. parts \in Seq(Seq(Steps)) /\ Len(parts) = N
  <2>1. \A i \in 1 .. N : parts[i] \in Seq(Steps)
    BY <1>4 DEF Whole
  <2>2. parts \in [1 .. N -> Seq(Steps)]
    BY <1>3, <2>1
  <2> QED BY <1>2, <2>2
<1>6. \A i \in 1 .. N : \A s : Within(s, parts[i]) => StepOf(op, s) /\ s.art = i
         /\ s.do \in {"check", "open", "drop", "keep", "place", "commit"}
  <2> SUFFICES ASSUME NEW i \in 1 .. N, NEW s, Within(s, parts[i])
               PROVE  StepOf(op, s) /\ s.art = i
                      /\ s.do \in {"check", "open", "drop", "keep", "place", "commit"}
    OBVIOUS
  <2>1. Piece(s, i)
    BY <1>4
  <2>2. CASE s.do = "check" /\ s.art = i
    BY <2>2 DEF StepOf, FileDos, Walks
  <2>3. CASE Applied(s, cat, arts[i], i)
    BY <1>1, <2>3, AppliedIsOf DEF Applied
  <2> QED BY <2>1, <2>2, <2>3
<1>7. \A i, j \in 1 .. Len(parts) : i < j =>
         \A s, t : Within(s, parts[i]) /\ Within(t, parts[j]) => Precedes(s, t)
  <2> SUFFICES ASSUME NEW i \in 1 .. N, NEW j \in 1 .. N, i < j, NEW s, NEW t,
                      Within(s, parts[i]), Within(t, parts[j])
               PROVE  Precedes(s, t)
    BY <1>5
  <2>1. /\ StepOf(op, s) /\ s.art = i /\ StepOf(op, t) /\ t.art = j
        /\ s.do \in {"check", "open", "drop", "keep", "place", "commit"}
        /\ t.do \in {"check", "open", "drop", "keep", "place", "commit"}
    BY <1>6
  <2>2. s.do \in FileDos /\ t.do \in FileDos => s.file # t.file
    <3> SUFFICES ASSUME s.do \in FileDos, t.do \in FileDos, s.file = t.file PROVE FALSE
      OBVIOUS
    <3>1. PICK x, y : x = [file |-> s.file, build |-> s.build] /\ y = [file |-> t.file, build |-> t.build]
      OBVIOUS
    <3>2. x \in ItemsOf(op, i) /\ y \in ItemsOf(op, j) /\ x.file = y.file
      BY <2>1, <3>1 DEF StepOf
    <3> QED BY <3>2, ItemsAreUnique
  <2> QED BY <1>2, <2>1, <2>2 DEF Precedes, Walks
<1>8. PICK flat, f : flat = FlattenSeq(parts) /\ f = PlainStep("finish", 0)
  OBVIOUS
<1>9. Whole(flat) /\ \A s : Within(s, flat) <=> \E i \in 1 .. N : Within(s, parts[i])
  <2>1. \A i \in 1 .. Len(parts) : Whole(parts[i])
    BY <1>4, <1>5
  <2> QED BY <1>5, <1>7, <1>8, <2>1, ManyAreWhole
<1>10. f \in Steps /\ f.do = "finish" /\ f.art = 0
  <2>1. "finish" \in Applies
    BY DEF Applies
  <2>2. 0 \in Nat
    OBVIOUS
  <2> QED BY <1>8, <2>1, <2>2, PlainStepFacts
<1>11. Whole(<<f>>) /\ \A t : Within(t, <<f>>) <=> t = f
  BY <1>10, SingleIsWhole DEF Firsts, Seconds
<1>12. \A s, t : Within(s, flat) /\ Within(t, <<f>>) => Precedes(s, t)
  <2> SUFFICES ASSUME NEW s, Within(s, flat) PROVE Precedes(s, f)
    BY <1>11
  <2> QED BY <1>10 DEF Precedes, FileDos, Walks
<1>13. PICK w : w = flat \o <<f>>
  OBVIOUS
<1>14. Whole(w) /\ \A s : Within(s, w) <=> Within(s, flat) \/ s = f
  BY <1>9, <1>11, <1>12, <1>13, TwoAreWhole, WithinFacts DEF Whole
<1>15. w = ApplyArtifacts(op)
  BY <1>1, <1>2, <1>3, <1>8, <1>13 DEF ApplyArtifacts
<1>16. StepOf(op, f)
  BY <1>10 DEF StepOf, FileDos, Walks
<1>17. w # <<>>
  <2>1. Within(f, w)
    BY <1>14
  <2> QED BY <2>1 DEF Within
<1>18. \A i \in 1 .. N : \A s : Within(s, parts[i]) => Within(s, w)
  BY <1>9, <1>14
<1>19. \A n \in 1 .. N : \A x \in ItemsOf(op, n) : \E s : Within(s, w) /\ s.do = "place" /\ s.file = x.file
  <2> SUFFICES ASSUME NEW n \in 1 .. N, NEW x \in ItemsOf(op, n)
               PROVE  \E s : Within(s, w) /\ s.do = "place" /\ s.file = x.file
    OBVIOUS
  <2>1. Ships(cat, arts[n], x)
    BY <1>1, ItemsFacts
  <2> HIDE DEF Within, Ships
  <2> QED BY <1>4, <1>18, <2>1
<1>20. \A n \in 1 .. N : /\ \E s : Within(s, w) /\ s.do = "commit" /\ s.art = n
                         /\ \E s : Within(s, w) /\ s.do = "open" /\ s.art = n
  <2> SUFFICES ASSUME NEW n \in 1 .. N
               PROVE  /\ \E s : Within(s, w) /\ s.do = "commit" /\ s.art = n
                      /\ \E s : Within(s, w) /\ s.do = "open" /\ s.art = n
    OBVIOUS
  <2>1. PICK o, c : o = PlainStep("open", n) /\ c = PlainStep("commit", n)
    OBVIOUS
  <2>2. Within(o, w) /\ Within(c, w)
    BY <1>4, <1>18, <2>1
  <2>3. n \in Nat /\ "open" \in Applies /\ "commit" \in Applies
    BY <1>2 DEF Applies
  <2>4. o.do = "open" /\ c.do = "commit" /\ o.art = n /\ c.art = n
    BY <2>1, <2>3, PlainStepFacts
  <2> QED BY <2>2, <2>4
<1>21. 1 \in 1 .. N
  BY <1>2
<1>22. \A s : Within(s, w) => StepOf(op, s)
          /\ s.do \in {"check", "open", "drop", "keep", "place", "commit", "finish"}
  BY <1>6, <1>9, <1>10, <1>14, <1>16
<1> HIDE DEF Whole, Within, StepOf, ItemsOf
<1> QED BY <1>14, <1>15, <1>17, <1>19, <1>20, <1>21, <1>22

Undoes(s, art, item) ==
    /\ s.do \in Walks /\ s.art = art /\ s.file = item.file /\ s.build = item.build

LEMMA RollbackBundleFacts ==
    ASSUME NEW cat \in Catalogs, NEW kind \in cat.artifacts, NEW art \in Nat, art # 0
    PROVE  LET w == RollbackBundle(cat, kind, art) IN
           /\ Whole(w)
           /\ kind = "full" => w = <<>>
           /\ \A s : Within(s, w) =>
                 \E item : Ships(cat, kind, item) /\ Undoes(s, art, item)
           /\ kind # "full" => \A item : Ships(cat, kind, item) =>
                 \E s : Within(s, w) /\ s.do = "clear" /\ s.file = item.file
<1>1. CASE kind = "full"
  <2>1. RollbackBundle(cat, kind, art) = <<>>
    BY <1>1 DEF RollbackBundle
  <2>2. <<>> \in Seq(Steps) /\ Len(<<>>) = 0
    OBVIOUS
  <2>3. Whole(<<>>) /\ \A s : ~Within(s, <<>>)
    BY <2>2 DEF Whole, InOrder, Started, Ended, Within
  <2> HIDE DEF Ships, Undoes, Within, Whole
  <2> QED BY <1>1, <2>1, <2>3
<1>2. CASE kind # "full"
  <2>1. PICK m : m = Manifest(cat, kind)
    OBVIOUS
  <2>2. /\ m \in Seq(Items) /\ \A x : Within(x, m) <=> Ships(cat, kind, x)
        /\ \A i, j \in 1 .. Len(m) : m[i].file = m[j].file => i = j
    BY <2>1, ManifestFacts
  <2>3. Len(m) \in Nat /\ DOMAIN m = 1 .. Len(m)
        /\ \A i \in 1 .. Len(m) : m[i] \in Items /\ Within(m[i], m)
    BY <2>2 DEF Within
  <2>4. PICK r : r = Reverse(m)
    OBVIOUS
  <2>5. /\ r = Reverse(m) /\ DOMAIN r = 1 .. Len(m)
        /\ \A i \in 1 .. Len(m) : (Len(m) - i) + 1 \in 1 .. Len(m) /\ r[i] = m[(Len(m) - i) + 1]
    <3>1. r = [i \in 1 .. Len(m) |-> m[(Len(m) - i) + 1]]
      BY <2>4 DEF Reverse
    <3> QED BY <2>3, <2>4, <3>1
  <2>6. \A i \in 1 .. Len(m) : r[i] \in Items /\ Within(r[i], m)
    BY <2>3, <2>5
  <2>7. \A i, j \in 1 .. Len(m) : r[i].file = r[j].file => i = j
    <3> SUFFICES ASSUME NEW i \in 1 .. Len(m), NEW j \in 1 .. Len(m), r[i].file = r[j].file
                 PROVE  i = j
      OBVIOUS
    <3>1. PICK k \in 1 .. Len(m), l \in 1 .. Len(m) :
             k = (Len(m) - i) + 1 /\ l = (Len(m) - j) + 1 /\ r[i] = m[k] /\ r[j] = m[l]
      BY <2>5
    <3>2. k = l
      BY <2>2, <3>1
    <3> QED BY <2>3, <3>1, <3>2
  <2>8. \A x : Within(x, m) => \E i \in 1 .. Len(m) : r[i] = x
    <3> SUFFICES ASSUME NEW x, Within(x, m) PROVE \E i \in 1 .. Len(m) : r[i] = x
      OBVIOUS
    <3>1. PICK k \in 1 .. Len(m) : m[k] = x
      BY DEF Within
    <3>2. PICK i : i = (Len(m) - k) + 1
      OBVIOUS
    <3>3. i \in 1 .. Len(m) /\ (Len(m) - i) + 1 = k
      BY <2>3, <3>2
    <3> QED BY <2>5, <3>1, <3>3
  <2>9. PICK parts : parts = [i \in 1 .. Len(m) |->
           <<FileStep("clear", art, r[i], FALSE), FileStep("return", art, r[i], FALSE)>>]
    OBVIOUS
  <2>10. ASSUME NEW i \in 1 .. Len(m)
         PROVE  /\ Whole(parts[i])
                /\ \A s : Within(s, parts[i]) => Undoes(s, art, r[i])
                /\ \E s : Within(s, parts[i]) /\ s.do = "clear" /\ s.file = r[i].file
    <3>1. PICK c, b : c = FileStep("clear", art, r[i], FALSE) /\ b = FileStep("return", art, r[i], FALSE)
      OBVIOUS
    <3>2. "clear" \in FileDos /\ "return" \in FileDos /\ FALSE \in BOOLEAN /\ r[i] \in Items
      BY <2>6 DEF FileDos, Walks
    <3>3. /\ c \in Steps /\ c.do = "clear" /\ c.art = art /\ c.file = r[i].file
          /\ c.build = r[i].build /\ c.preserve = FALSE
          /\ b \in Steps /\ b.do = "return" /\ b.art = art /\ b.file = r[i].file
          /\ b.build = r[i].build /\ b.preserve = FALSE
      <4>1. PICK x \in Items : x = r[i]
        BY <3>2
      <4>2. /\ c \in Steps /\ c.do = "clear" /\ c.art = art /\ c.file = x.file
            /\ c.build = x.build /\ c.preserve = FALSE
        <5>1. \A no \in BOOLEAN : LET s == FileStep("clear", art, x, no) IN
                 /\ s \in Steps /\ s.do = "clear" /\ s.art = art /\ s.file = x.file
                 /\ s.build = x.build /\ s.preserve = no
          BY <3>2, FileStepFacts
        <5> QED BY <3>1, <4>1, <5>1
      <4>3. /\ b \in Steps /\ b.do = "return" /\ b.art = art /\ b.file = x.file
            /\ b.build = x.build /\ b.preserve = FALSE
        <5>1. \A no \in BOOLEAN : LET s == FileStep("return", art, x, no) IN
                 /\ s \in Steps /\ s.do = "return" /\ s.art = art /\ s.file = x.file
                 /\ s.build = x.build /\ s.preserve = no
          BY <3>2, FileStepFacts
        <5> QED BY <3>1, <4>1, <5>1
      <4> QED BY <4>1, <4>2, <4>3
    <3>4. PICK w : w = parts[i]
      OBVIOUS
    <3>5. w = <<c, b>>
      <4>1. parts[i] = <<FileStep("clear", art, r[i], FALSE), FileStep("return", art, r[i], FALSE)>>
        BY <2>9
      <4> QED BY <3>1, <3>4, <4>1
    <3>6. w \in Seq(Steps) /\ Len(w) = 2 /\ w[1] = c /\ w[2] = b /\ w # <<>>
      BY <3>3, <3>5
    <3>7. \A k \in 1 .. 2 : k = 1 \/ k = 2
      OBVIOUS
    <3>8. Precedes(c, b) /\ Linked(c, b)
      <4>1. Precedes(c, b)
        BY <3>3, StepsInTurn
      <4> QED BY <3>3, <4>1 DEF Linked
    <3>9. InOrder(w)
      <4>1. \A k, j \in 1 .. 2 : k < j => Precedes(w[k], w[j])
        BY <3>6, <3>7, <3>8
      <4>2. \A k \in 1 .. 2 - 1 : Linked(w[k], w[k + 1])
        <5>1. \A k \in 1 .. 2 - 1 : k = 1 /\ k + 1 = 2
          OBVIOUS
        <5> QED BY <3>6, <3>8, <5>1
      <4> QED BY <3>6, <4>1, <4>2 DEF InOrder
    <3>10. Started(w) /\ Ended(w)
      BY <3>3, <3>6 DEF Started, Ended, Firsts, Seconds
    <3>11. \A s : Within(s, w) <=> s = c \/ s = b
      BY <3>6, <3>7 DEF Within
    <3> QED BY <3>3, <3>4, <3>6, <3>9, <3>10, <3>11 DEF Whole, Undoes, Walks
  <2>11. parts \in Seq(Seq(Steps)) /\ Len(parts) = Len(m)
    <3>1. \A i \in 1 .. Len(m) : parts[i] \in Seq(Steps)
      BY <2>10 DEF Whole
    <3>2. parts \in [1 .. Len(m) -> Seq(Steps)]
      BY <2>9, <3>1
    <3> QED BY <2>3, <3>2
  <2>12. \A i, j \in 1 .. Len(parts) : i < j =>
           \A s, t : Within(s, parts[i]) /\ Within(t, parts[j]) => Precedes(s, t)
    <3> SUFFICES ASSUME NEW i \in 1 .. Len(m), NEW j \in 1 .. Len(m), i < j, NEW s, NEW t,
                        Within(s, parts[i]), Within(t, parts[j])
                 PROVE  Precedes(s, t)
      BY <2>11
    <3>1. Undoes(s, art, r[i]) /\ Undoes(t, art, r[j])
      BY <2>10
    <3>2. r[i].file # r[j].file
      BY <2>3, <2>7
    <3> QED BY <3>1, <3>2, StepsApart DEF Undoes
  <2>13. PICK flat : flat = FlattenSeq(parts)
    OBVIOUS
  <2>14. Whole(flat) /\ \A s : Within(s, flat) <=> \E i \in 1 .. Len(m) : Within(s, parts[i])
    <3>1. \A i \in 1 .. Len(parts) : Whole(parts[i])
      BY <2>10, <2>11
    <3> QED BY <2>11, <2>12, <2>13, <3>1, ManyAreWhole
  <2>15. flat = RollbackBundle(cat, kind, art)
    <3>1. Reverse(Manifest(cat, kind)) = r
      BY <2>1, <2>5
    <3>2. parts = [i \in DOMAIN r |->
             <<FileStep("clear", art, r[i], FALSE), FileStep("return", art, r[i], FALSE)>>]
      BY <2>5, <2>9
    <3> QED BY <1>2, <2>13, <3>1, <3>2 DEF RollbackBundle
  <2>16. \A s : Within(s, flat) => \E item : Ships(cat, kind, item) /\ Undoes(s, art, item)
    <3> HIDE DEF Ships, Undoes, Within
    <3> QED BY <2>2, <2>6, <2>10, <2>14
  <2>17. \A item : Ships(cat, kind, item) => \E s : Within(s, flat) /\ s.do = "clear" /\ s.file = item.file
    <3> SUFFICES ASSUME NEW item, Ships(cat, kind, item)
                 PROVE  \E s : Within(s, flat) /\ s.do = "clear" /\ s.file = item.file
      OBVIOUS
    <3>1. PICK i \in 1 .. Len(m) : r[i] = item
      BY <2>2, <2>8
    <3> HIDE DEF Ships, Within
    <3> QED BY <2>10, <2>14, <3>1
  <2> HIDE DEF Ships, Undoes, Within, Whole
  <2> QED BY <1>2, <2>14, <2>15, <2>16, <2>17
<1> QED BY <1>1, <1>2

LEMMA WriteStateFacts ==
    ASSUME NEW art \in Nat, NEW st \in States
    PROVE  LET w == WriteState(art, st) IN
           /\ Whole(w) /\ Len(w) = 2
           /\ w[1].do = "remove" /\ w[2].do = "rename"
           /\ w[1].state = NoState /\ w[2].state = st
           /\ \A s : Within(s, w) => s.do \in {"remove", "rename"} /\ s.art = art
<1>1. PICK a, b, w : a = PlainStep("remove", art) /\ b = StateStep("rename", art, st) /\ w = WriteState(art, st)
  OBVIOUS
<1>2. /\ a \in Steps /\ a.do = "remove" /\ a.art = art /\ a.state = NoState
      /\ b \in Steps /\ b.do = "rename" /\ b.art = art /\ b.state = st
  <2>1. "remove" \in Applies /\ "rename" \in Applies
    BY DEF Applies
  <2>2. a \in Steps /\ a.do = "remove" /\ a.art = art /\ a.state = NoState
    BY <1>1, <2>1, PlainStepFacts
  <2>3. b \in Steps /\ b.do = "rename" /\ b.art = art /\ b.state = st
    BY <1>1, <2>1, StateStepFacts
  <2> QED BY <2>2, <2>3
<1>3. a.file = b.file /\ a.build = b.build /\ a.preserve = b.preserve
  BY <1>1 DEF PlainStep, StateStep
<1>4. w = <<a, b>>
  BY <1>1 DEF WriteState
<1>5. w \in Seq(Steps) /\ Len(w) = 2 /\ w[1] = a /\ w[2] = b /\ w # <<>>
  BY <1>2, <1>4
<1>6. \A k \in 1 .. 2 : k = 1 \/ k = 2
  OBVIOUS
<1>7. Precedes(a, b) /\ Linked(a, b)
  BY <1>2, <1>3 DEF Precedes, Linked, Walks, FileDos
<1>8. InOrder(w)
  <2>1. \A k, j \in 1 .. 2 : k < j => Precedes(w[k], w[j])
    BY <1>5, <1>6, <1>7
  <2>2. \A k \in 1 .. 2 - 1 : Linked(w[k], w[k + 1])
    <3>1. \A k \in 1 .. 2 - 1 : k = 1 /\ k + 1 = 2
      OBVIOUS
    <3> QED BY <1>5, <1>7, <3>1
  <2> QED BY <1>5, <2>1, <2>2 DEF InOrder
<1>9. Started(w) /\ Ended(w)
  BY <1>2, <1>5 DEF Started, Ended, Firsts, Seconds
<1>10. \A s : Within(s, w) <=> s = a \/ s = b
  BY <1>5, <1>6 DEF Within
<1> QED BY <1>1, <1>2, <1>5, <1>8, <1>9, <1>10 DEF Whole

\* The rollback of the artifacts 1 .. n.
LEMMA RollbackArtifactsFacts ==
    ASSUME NEW op, Operation(op), NEW n \in 1 .. Len(op.arts)
    PROVE  LET w == RollbackArtifacts(op, n) IN
           /\ Whole(w)
           /\ \A s : Within(s, w) =>
                 /\ StepOf(op, s) /\ s.do \in Walks \cup {"remove", "rename"}
                 /\ s.do \in Walks => s.art <= n
                 /\ s.do \notin Walks => s.art = 0
           /\ op.arts # <<"full">> =>
                 \A m \in 1 .. n : \A x \in ItemsOf(op, m) :
                    \E s : Within(s, w) /\ s.do = "clear" /\ s.file = x.file
           /\ op.previous # NoState => w # <<>>
<1>1. PICK cat \in Catalogs, arts \in Seq(Kinds) : cat = CatalogOf(op) /\ arts = op.arts
  BY OperationFacts
<1>2. /\ Len(arts) \in 1 .. 2 /\ \A k \in 1 .. Len(arts) : arts[k] \in cat.artifacts
      /\ \A k \in 1 .. Len(arts) : arts[k] = "full" <=> op.arts = <<"full">>
  BY <1>1, OperationFacts
<1>3. n \in 1 .. Len(arts) /\ n \in Nat
  BY <1>1, <1>2
<1> DEFINE K(i) == n + 1 - i
<1>4. \A i \in 1 .. n : K(i) \in 1 .. n /\ K(i) \in 1 .. Len(arts) /\ K(i) \in Nat /\ K(i) # 0
  BY <1>2, <1>3
<1>5. \A m \in 1 .. n : K(m) \in 1 .. n /\ K(K(m)) = m
  BY <1>3
<1>6. \A i, j \in 1 .. n : i < j => K(i) # K(j)
  BY <1>3
<1> HIDE DEF K
<1>7. PICK parts : parts = [i \in 1 .. n |-> RollbackBundle(cat, arts[K(i)], K(i))]
  OBVIOUS
<1>8. ASSUME NEW i \in 1 .. n
      PROVE  /\ Whole(parts[i])
             /\ \A s : Within(s, parts[i]) =>
                   /\ s.do \in Walks /\ s.art = K(i) /\ arts[K(i)] # "full"
                   /\ [file |-> s.file, build |-> s.build] \in ItemsOf(op, K(i))
             /\ arts[K(i)] # "full" => \A x \in ItemsOf(op, K(i)) :
                   \E s : Within(s, parts[i]) /\ s.do = "clear" /\ s.file = x.file
  <2>1. PICK k \in 1 .. Len(arts), kind \in cat.artifacts : k = K(i) /\ kind = arts[k]
    BY <1>2, <1>4
  <2>2. k \in Nat /\ k # 0 /\ k \in 1 .. Len(op.arts)
    BY <1>1, <1>4, <2>1
  <2>3. parts[i] = RollbackBundle(cat, kind, k)
    <3>1. parts[i] = RollbackBundle(cat, arts[K(i)], K(i))
      BY <1>7
    <3> QED BY <2>1, <3>1
  <2>4. PICK w : w = parts[i]
    OBVIOUS
  <2>5. /\ Whole(w)
        /\ kind = "full" => w = <<>>
        /\ \A s : Within(s, w) => \E item : Ships(cat, kind, item) /\ Undoes(s, k, item)
        /\ kind # "full" => \A item : Ships(cat, kind, item) =>
                 \E s : Within(s, w) /\ s.do = "clear" /\ s.file = item.file
    <3> HIDE DEF Ships, Undoes, Within, Whole
    <3> QED BY <2>2, <2>3, <2>4, RollbackBundleFacts
  <2>6. \A x : x \in ItemsOf(op, k) <=> Ships(cat, kind, x)
    BY <1>1, <2>1, <2>2, ItemsFacts
  <2>7. ItemsOf(op, k) \subseteq Items
    BY <2>2, ItemsFacts
  <2>8. ASSUME NEW s, Within(s, w)
        PROVE  /\ s.do \in Walks /\ s.art = k /\ kind # "full"
               /\ [file |-> s.file, build |-> s.build] \in ItemsOf(op, k)
    <3>1. PICK x : Ships(cat, kind, x) /\ Undoes(s, k, x)
      BY <2>5, <2>8
    <3>2. x \in ItemsOf(op, k) /\ x \in Items
      BY <2>6, <2>7, <3>1
    <3>3. x = [file |-> x.file, build |-> x.build]
      BY <3>2 DEF Items
    <3>4. kind # "full"
      BY <2>5, <2>8 DEF Within
    <3> HIDE DEF ItemsOf
    <3> QED BY <3>1, <3>2, <3>3, <3>4 DEF Undoes
  <2> HIDE DEF Within, ItemsOf, Whole, Ships
  <2> QED BY <2>1, <2>4, <2>5, <2>6, <2>8
<1>9. parts \in Seq(Seq(Steps)) /\ Len(parts) = n
  <2>1. \A i \in 1 .. n : parts[i] \in Seq(Steps)
    BY <1>8 DEF Whole
  <2>2. parts \in [1 .. n -> Seq(Steps)]
    BY <1>7, <2>1
  <2> QED BY <1>3, <2>2
<1>10. \A i, j \in 1 .. Len(parts) : i < j =>
         \A s, t : Within(s, parts[i]) /\ Within(t, parts[j]) => Precedes(s, t)
  <2> SUFFICES ASSUME NEW i \in 1 .. n, NEW j \in 1 .. n, i < j, NEW s, NEW t,
                      Within(s, parts[i]), Within(t, parts[j])
               PROVE  Precedes(s, t)
    BY <1>9
  <2>1. PICK x, y : x = [file |-> s.file, build |-> s.build] /\ y = [file |-> t.file, build |-> t.build]
    OBVIOUS
  <2>2. /\ s.do \in Walks /\ t.do \in Walks /\ s.art = K(i) /\ t.art = K(j)
        /\ x \in ItemsOf(op, K(i)) /\ y \in ItemsOf(op, K(j))
    BY <1>8, <2>1
  <2>3. s.file # t.file
    <3>1. K(i) \in 1 .. Len(op.arts) /\ K(j) \in 1 .. Len(op.arts) /\ K(i) # K(j)
      BY <1>1, <1>4, <1>6
    <3>2. x.file # y.file
      BY <2>2, <3>1, ItemsAreUnique
    <3> QED BY <2>1, <3>2
  <2>4. s.art \in Nat /\ t.art \in Nat /\ s.art # 0
    BY <1>4, <2>2
  <2> QED BY <2>2, <2>3, <2>4, StepsApart
<1>11. PICK flat : flat = FlattenSeq(parts)
  OBVIOUS
<1>12. Whole(flat) /\ \A s : Within(s, flat) <=> \E i \in 1 .. n : Within(s, parts[i])
  <2>1. \A i \in 1 .. Len(parts) : Whole(parts[i])
    BY <1>8, <1>9
  <2> QED BY <1>9, <1>10, <1>11, <2>1, ManyAreWhole
<1>13. \A s : Within(s, flat) => /\ StepOf(op, s) /\ s.do \in Walks /\ s.art <= n
  <2> SUFFICES ASSUME NEW s, Within(s, flat)
               PROVE  StepOf(op, s) /\ s.do \in Walks /\ s.art <= n
    OBVIOUS
  <2>1. PICK i \in 1 .. n : Within(s, parts[i])
    BY <1>12
  <2>2. /\ s.do \in Walks /\ s.art = K(i) /\ op.arts[s.art] # "full"
        /\ [file |-> s.file, build |-> s.build] \in ItemsOf(op, s.art)
    BY <1>1, <1>8, <2>1
  <2>3. s.art \in 1 .. Len(op.arts) /\ s.art <= n
    BY <1>1, <1>3, <1>4, <2>2
  <2> HIDE DEF ItemsOf
  <2> QED BY <2>2, <2>3 DEF StepOf, Walks, FileDos
<1>14. op.arts # <<"full">> => \A m \in 1 .. n : \A x \in ItemsOf(op, m) :
          \E s : Within(s, flat) /\ s.do = "clear" /\ s.file = x.file
  <2> SUFFICES ASSUME op.arts # <<"full">>, NEW m \in 1 .. n, NEW x \in ItemsOf(op, m)
               PROVE  \E s : Within(s, flat) /\ s.do = "clear" /\ s.file = x.file
    OBVIOUS
  <2>1. PICK i \in 1 .. n : K(i) = m
    BY <1>5
  <2>2. arts[K(i)] # "full"
    BY <1>2, <1>4
  <2>3. \E s : Within(s, parts[i]) /\ s.do = "clear" /\ s.file = x.file
    BY <1>8, <2>1, <2>2
  <2> HIDE DEF Within
  <2> QED BY <1>12, <2>3
<1>15. PICK back : back = IF op.previous = NoState THEN <<>> ELSE WriteState(0, op.previous)
  OBVIOUS
<1>16. /\ Whole(back)
       /\ op.previous # NoState => back # <<>>
       /\ \A s : Within(s, back) => s.do \in {"remove", "rename"} /\ s.art = 0
  <2>1. CASE op.previous = NoState
    <3>1. back = <<>> /\ <<>> \in Seq(Steps) /\ Len(<<>>) = 0
      BY <1>15, <2>1
    <3> QED BY <2>1, <3>1 DEF Whole, InOrder, Started, Ended, Within
  <2>2. CASE op.previous # NoState
    <3>1. op.previous \in States /\ 0 \in Nat
      BY DEF Operation
    <3>2. back = WriteState(0, op.previous)
      BY <1>15, <2>2
    <3>3. PICK st \in States : st = op.previous
      BY <3>1
    <3>4. /\ Whole(back) /\ Len(back) = 2
          /\ \A s : Within(s, back) => s.do \in {"remove", "rename"} /\ s.art = 0
      <4>1. PICK zero \in Nat : zero = 0
        BY <3>1
      <4>2. back = WriteState(zero, st)
        BY <3>2, <3>3, <4>1
      <4>3. Whole(back) /\ Len(back) = 2
        BY <4>2, WriteStateFacts
      <4>4. \A s : Within(s, back) => s.do \in {"remove", "rename"} /\ s.art = zero
        BY <4>2, WriteStateFacts
      <4> QED BY <4>1, <4>3, <4>4
    <3>5. back # <<>>
      <4> SUFFICES ASSUME back = <<>> PROVE FALSE
        OBVIOUS
      <4>1. Len(back) = 0
        OBVIOUS
      <4>2. Len(back) = 2
        BY <3>4
      <4> QED BY <4>1, <4>2
    <3> QED BY <3>4, <3>5
  <2> QED BY <2>1, <2>2
<1>17. \A s, t : Within(s, flat) /\ Within(t, back) => Precedes(s, t)
  <2> SUFFICES ASSUME NEW s, NEW t, Within(s, flat), Within(t, back) PROVE Precedes(s, t)
    OBVIOUS
  <2>1. s.do \in Walks /\ t.do \in {"remove", "rename"}
    BY <1>13, <1>16
  <2> QED BY <2>1 DEF Precedes, Walks, FileDos
<1>18. PICK w : w = flat \o back
  OBVIOUS
<1>19. Whole(w) /\ \A s : Within(s, w) <=> Within(s, flat) \/ Within(s, back)
  <2>1. flat \in Seq(Steps) /\ back \in Seq(Steps)
    BY <1>12, <1>16 DEF Whole
  <2>2. Whole(w)
    BY <1>12, <1>16, <1>17, <1>18, TwoAreWhole
  <2> QED BY <1>18, <2>1, <2>2, WithinFacts
<1>20. \A s : Within(s, back) => StepOf(op, s) /\ s.do \notin Walks
  <2> SUFFICES ASSUME NEW s, Within(s, back) PROVE StepOf(op, s) /\ s.do \notin Walks
    OBVIOUS
  <2>1. s.do \in {"remove", "rename"} /\ s.art = 0
    BY <1>16
  <2>2. 0 \in 0 .. Len(op.arts)
    BY <1>1, <1>2
  <2> QED BY <2>1, <2>2 DEF StepOf, FileDos, Walks
<1>21. op.previous # NoState => w # <<>>
  <2> SUFFICES ASSUME op.previous # NoState, w = <<>> PROVE FALSE
    OBVIOUS
  <2>1. back \in Seq(Steps) /\ back # <<>>
    BY <1>16 DEF Whole
  <2>2. Within(back[1], back)
    BY <2>1 DEF Within
  <2>3. Within(back[1], w)
    BY <1>19, <2>2
  <2> QED BY <2>3 DEF Within
<1>22. RollbackArtifacts(op, n) = w
  BY <1>1, <1>7, <1>11, <1>15, <1>18 DEF RollbackArtifacts, K
<1>23. \A s : Within(s, w) =>
          /\ StepOf(op, s) /\ s.do \in Walks \cup {"remove", "rename"}
          /\ s.do \in Walks => s.art <= n
          /\ s.do \notin Walks => s.art = 0
  BY <1>13, <1>16, <1>19, <1>20
<1>24. op.arts # <<"full">> => \A m \in 1 .. n : \A x \in ItemsOf(op, m) :
          \E s : Within(s, w) /\ s.do = "clear" /\ s.file = x.file
  <2> HIDE DEF Within, ItemsOf
  <2> QED BY <1>14, <1>19
<1> HIDE DEF Within, ItemsOf, Whole, StepOf
<1> QED BY <1>19, <1>21, <1>22, <1>23, <1>24

-----------------------------------------------------------------------------
(* What a process does to its queue: it takes the first step off, puts the    *)
(* writing of the state in front, or gives up all steps of one artifact.      *)

DosOf(how) ==
    IF how = "installing" THEN Applies \ {"check", "finish", "conclude"}
    ELSE IF how = "applying" THEN Applies \ {"mark"}
    ELSE Walks \cup {"remove", "rename"}

\* The steps w still to do, for a process that works on op.
Queue(op, how, w) ==
    /\ w \in Seq(Steps) /\ InOrder(w) /\ Ended(w)
    /\ \A s : Within(s, w) => StepOf(op, s) /\ s.do \in DosOf(how)

LEMMA EmptyQueue ==
    ASSUME NEW op, NEW how
    PROVE  Queue(op, how, <<>>) /\ \A s : ~Within(s, <<>>)
<1>1. <<>> \in Seq(Steps) /\ Len(<<>>) = 0
  OBVIOUS
<1> QED BY <1>1 DEF Queue, InOrder, Ended, Within

LEMMA HeadFacts ==
    ASSUME NEW w \in Seq(Steps), w # <<>>
    PROVE  /\ Head(w) \in Steps /\ Head(w) = w[1] /\ Within(Head(w), w) /\ Len(w) \in Nat \ {0}
           /\ Tail(w) \in Seq(Steps) /\ Len(Tail(w)) = Len(w) - 1
           /\ \A i \in 1 .. Len(Tail(w)) : Tail(w)[i] = w[i + 1] /\ i + 1 \in 1 .. Len(w)
           /\ \A s : Within(s, w) <=> s = Head(w) \/ Within(s, Tail(w))
<1>1. PICK t, x : t = Tail(w) /\ x = Head(w)
  OBVIOUS
<1>2. Len(w) \in Nat \ {0} /\ x \in Steps /\ x = w[1] /\ Within(x, w)
  <2>1. Len(w) \in Nat \ {0} /\ x \in Steps /\ x = w[1]
    BY <1>1
  <2> QED BY <2>1 DEF Within
<1>3. /\ t \in Seq(Steps) /\ Len(t) = Len(w) - 1
      /\ \A i \in 1 .. Len(t) : t[i] = w[i + 1]
  BY <1>1, HeadTailProperties
<1>4. \A i \in 1 .. Len(t) : t[i] = w[i + 1] /\ i + 1 \in 1 .. Len(w)
  BY <1>2, <1>3
<1>5. ASSUME NEW s, Within(s, w) PROVE s = x \/ Within(s, t)
  <2>1. PICK i \in 1 .. Len(w) : w[i] = s
    BY <1>5 DEF Within
  <2>2. CASE i = 1
    BY <1>2, <2>1, <2>2
  <2>3. CASE i # 1
    <3>1. PICK k : k = i - 1
      OBVIOUS
    <3>2. k \in 1 .. Len(t) /\ k + 1 = i
      BY <1>2, <1>3, <2>3, <3>1
    <3> QED BY <1>4, <2>1, <3>2 DEF Within
  <2> QED BY <2>2, <2>3
<1>6. ASSUME NEW s, Within(s, t) PROVE Within(s, w)
  BY <1>4, <1>6 DEF Within
<1> QED BY <1>1, <1>2, <1>3, <1>4, <1>5, <1>6

LEMMA RestFacts ==
    ASSUME NEW op, NEW how, NEW w, Queue(op, how, w), w # <<>>
    PROVE  /\ Queue(op, how, Tail(w))
           /\ \A t : Within(t, Tail(w)) => Precedes(Head(w), t)
           /\ Tail(w) # <<>> => Linked(Head(w), Head(Tail(w)))
           /\ Head(w).do \in Firsts => Tail(w) # <<>>
<1>1. w \in Seq(Steps)
  BY DEF Queue
<1>2. PICK t, x : t = Tail(w) /\ x = Head(w)
  OBVIOUS
<1>3. /\ x \in Steps /\ x = w[1] /\ Within(x, w) /\ Len(w) \in Nat \ {0}
      /\ t \in Seq(Steps) /\ Len(t) = Len(w) - 1
      /\ \A i \in 1 .. Len(t) : t[i] = w[i + 1] /\ i + 1 \in 1 .. Len(w)
      /\ \A s : Within(s, w) <=> s = x \/ Within(s, t)
  BY <1>1, <1>2, HeadFacts
<1>4. InOrder(t)
  <2>1. ASSUME NEW i \in 1 .. Len(t), NEW j \in 1 .. Len(t), i < j PROVE Precedes(t[i], t[j])
    <3>1. i + 1 \in 1 .. Len(w) /\ j + 1 \in 1 .. Len(w) /\ i + 1 < j + 1
      BY <1>3, <2>1
    <3>2. Precedes(w[i + 1], w[j + 1])
      BY <3>1 DEF Queue, InOrder
    <3> QED BY <1>3, <3>2
  <2>2. ASSUME NEW i \in 1 .. Len(t) - 1 PROVE Linked(t[i], t[i + 1])
    <3>1. PICK k : k = i + 1
      OBVIOUS
    <3>2. k \in 1 .. Len(w) - 1 /\ i \in 1 .. Len(t) /\ k \in 1 .. Len(t)
      BY <1>3, <2>2, <3>1
    <3>3. Linked(w[k], w[k + 1])
      BY <3>2 DEF Queue, InOrder
    <3>4. t[i] = w[k] /\ t[k] = w[k + 1]
      BY <1>3, <3>1, <3>2
    <3> QED BY <3>1, <3>3, <3>4
  <2> QED BY <2>1, <2>2 DEF InOrder
<1>5. Ended(t)
  <2> SUFFICES ASSUME t # <<>> PROVE t[Len(t)].do \notin Firsts
    BY DEF Ended
  <2>1. Len(t) \in 1 .. Len(t)
    BY <1>3
  <2>2. Len(t) + 1 = Len(w)
    BY <1>3
  <2>3. t[Len(t)] = w[Len(w)]
    BY <1>3, <2>1, <2>2
  <2> QED BY <2>3 DEF Queue, Ended
<1>6. Queue(op, how, t)
  <2>1. \A s : Within(s, t) => StepOf(op, s) /\ s.do \in DosOf(how)
    BY <1>3 DEF Queue
  <2> QED BY <1>3, <1>4, <1>5, <2>1 DEF Queue
<1>7. \A s : Within(s, t) => Precedes(x, s)
  <2> SUFFICES ASSUME NEW s, Within(s, t) PROVE Precedes(x, s)
    OBVIOUS
  <2>1. PICK i \in 1 .. Len(t) : t[i] = s
    BY DEF Within
  <2>2. 1 \in 1 .. Len(w) /\ i + 1 \in 1 .. Len(w) /\ 1 < i + 1 /\ w[i + 1] = s
    BY <1>3, <2>1
  <2>3. Precedes(w[1], w[i + 1])
    BY <2>2 DEF Queue, InOrder
  <2> QED BY <1>3, <2>2, <2>3
<1>8. t # <<>> => Linked(x, Head(t))
  <2> SUFFICES ASSUME t # <<>> PROVE Linked(x, Head(t))
    OBVIOUS
  <2>1. PICK y : y = Head(t)
    OBVIOUS
  <2>2. y = t[1] /\ Len(t) \in Nat \ {0}
    BY <1>3, <2>1, HeadFacts
  <2>3. t[1] = w[1 + 1] /\ 1 \in 1 .. Len(w) - 1
    BY <1>3, <2>2
  <2>4. Linked(w[1], w[1 + 1])
    BY <2>3 DEF Queue, InOrder
  <2> QED BY <1>3, <2>1, <2>2, <2>3, <2>4
<1>9. x.do \in Firsts => t # <<>>
  <2> SUFFICES ASSUME x.do \in Firsts, t = <<>> PROVE FALSE
    OBVIOUS
  <2>1. Len(t) = 0
    OBVIOUS
  <2>2. Len(w) = 1
    BY <1>3, <2>1
  <2>3. w[Len(w)].do \notin Firsts
    BY DEF Queue, Ended
  <2> QED BY <1>3, <2>2, <2>3
<1> QED BY <1>2, <1>6, <1>7, <1>8, <1>9

LEMMA SuffixFacts ==
    ASSUME NEW op, NEW how, NEW w, Queue(op, how, w), NEW n \in 1 .. Len(w)
    PROVE  /\ Queue(op, how, SubSeq(w, n + 1, Len(w)))
           /\ \A s : Within(s, SubSeq(w, n + 1, Len(w))) => Within(s, w)
           /\ \A s : Within(s, w) =>
                 \/ Within(s, SubSeq(w, n + 1, Len(w)))
                 \/ \E i \in 1 .. n : s = w[i]
<1>1. w \in Seq(Steps) /\ Len(w) \in Nat /\ n \in Nat /\ n <= Len(w)
  BY DEF Queue
<1>2. PICK t : t = SubSeq(w, n + 1, Len(w))
  OBVIOUS
<1>3. t = [i \in 1 .. Len(w) - n |-> w[i + n]]
  <2>1. t = [i \in 1 .. (1 + Len(w)) - (n + 1) |-> w[(i + (n + 1)) - 1]]
    BY <1>1, <1>2
  <2>2. (1 + Len(w)) - (n + 1) = Len(w) - n /\ Len(w) - n \in Nat
    BY <1>1
  <2>3. \A i \in 1 .. Len(w) - n : (i + (n + 1)) - 1 = i + n
    BY <1>1
  <2> QED BY <2>1, <2>2, <2>3
<1>4. /\ t \in Seq(Steps) /\ Len(t) = Len(w) - n /\ Len(t) \in Nat
      /\ \A i \in 1 .. Len(t) : t[i] = w[i + n] /\ i + n \in 1 .. Len(w)
  <2>1. Len(w) - n \in Nat /\ \A i \in 1 .. Len(w) - n : i + n \in 1 .. Len(w)
    BY <1>1
  <2>2. \A i \in 1 .. Len(w) - n : w[i + n] \in Steps
    BY <1>1, <2>1
  <2>3. t \in [1 .. Len(w) - n -> Steps]
    BY <1>3, <2>2
  <2>4. t \in Seq(Steps) /\ Len(t) = Len(w) - n
    BY <2>1, <2>3
  <2> QED BY <1>3, <2>1, <2>4
<1>5. InOrder(t)
  <2>1. ASSUME NEW i \in 1 .. Len(t), NEW j \in 1 .. Len(t), i < j PROVE Precedes(t[i], t[j])
    <3>1. i + n \in 1 .. Len(w) /\ j + n \in 1 .. Len(w) /\ i + n < j + n
      BY <1>1, <1>4, <2>1
    <3>2. Precedes(w[i + n], w[j + n])
      BY <3>1 DEF Queue, InOrder
    <3> QED BY <1>4, <3>2
  <2>2. ASSUME NEW i \in 1 .. Len(t) - 1 PROVE Linked(t[i], t[i + 1])
    <3>1. PICK k : k = i + n
      OBVIOUS
    <3>2. k \in 1 .. Len(w) - 1 /\ i \in 1 .. Len(t) /\ i + 1 \in 1 .. Len(t) /\ (i + 1) + n = k + 1
      BY <1>1, <1>4, <2>2, <3>1
    <3>3. Linked(w[k], w[k + 1])
      BY <3>2 DEF Queue, InOrder
    <3>4. t[i] = w[k] /\ t[i + 1] = w[k + 1]
      BY <1>4, <3>1, <3>2
    <3> QED BY <3>3, <3>4
  <2> QED BY <2>1, <2>2 DEF InOrder
<1>6. Ended(t)
  <2> SUFFICES ASSUME t # <<>> PROVE t[Len(t)].do \notin Firsts
    BY DEF Ended
  <2>1. Len(t) \in 1 .. Len(t)
    BY <1>4
  <2>2. Len(t) + n = Len(w) /\ w # <<>>
    BY <1>1, <1>4, <2>1
  <2>3. t[Len(t)] = w[Len(w)]
    BY <1>4, <2>1, <2>2
  <2> QED BY <2>2, <2>3 DEF Queue, Ended
<1>7. \A s : Within(s, t) => Within(s, w)
  BY <1>4 DEF Within
<1>8. Queue(op, how, t)
  <2>1. \A s : Within(s, t) => StepOf(op, s) /\ s.do \in DosOf(how)
    BY <1>7 DEF Queue
  <2> QED BY <1>4, <1>5, <1>6, <2>1 DEF Queue
<1>9. ASSUME NEW s, Within(s, w) PROVE Within(s, t) \/ \E i \in 1 .. n : s = w[i]
  <2>1. PICK i \in 1 .. Len(w) : w[i] = s
    BY <1>9 DEF Within
  <2>2. CASE i <= n
    <3>1. i \in 1 .. n
      BY <1>1, <2>2
    <3> QED BY <2>1, <3>1
  <2>3. CASE ~(i <= n)
    <3>1. PICK k : k = i - n
      OBVIOUS
    <3>2. k \in 1 .. Len(t) /\ k + n = i
      BY <1>1, <1>4, <2>3, <3>1
    <3>3. t[k] = s
      BY <1>4, <2>1, <3>2
    <3> QED BY <3>2, <3>3 DEF Within
  <2> QED BY <2>2, <2>3
<1> QED BY <1>2, <1>7, <1>8, <1>9

\* A step t may come after those of artifact art.
From(art, t) == t.art = 0 \/ (art # 0 /\ art <= t.art)

\* A commit and the end of an apply write the state before anything else.
CanWrite(op, how, art, st, rest) ==
    /\ Operation(op) /\ how \in {"installing", "applying"}
    /\ art \in 0 .. Len(op.arts) /\ st \in States
    /\ Queue(op, how, rest) /\ Started(rest)
    /\ \A t : Within(t, rest) => From(art, t)

\* r writes the state st and goes on with rest.
WritesState(r, st, rest) ==
    /\ r # <<>> /\ Head(r).do = "remove"
    /\ Head(Tail(r)).do = "rename" /\ Head(Tail(r)).state = st
    /\ \A s : Within(s, r) => Within(s, rest) \/ s.do \in {"remove", "rename"}
    /\ \A s : Within(s, rest) => Within(s, r)

LEMMA WriteFirst ==
    ASSUME NEW op, NEW how, NEW art, NEW st, NEW rest, CanWrite(op, how, art, st, rest),
           NEW r, r = WriteState(art, st) \o rest
    PROVE  Queue(op, how, r) /\ WritesState(r, st, rest)
<1>0. /\ Operation(op) /\ how \in {"installing", "applying"}
      /\ art \in 0 .. Len(op.arts) /\ st \in States
      /\ Queue(op, how, rest) /\ Started(rest)
      /\ \A t : Within(t, rest) => From(art, t)
  BY DEF CanWrite
<1>1. art \in Nat /\ Len(op.arts) \in Nat
  BY <1>0, OperationFacts
<1>2. PICK w : w = WriteState(art, st) /\ r = w \o rest
  OBVIOUS
<1>3. /\ Whole(w) /\ Len(w) = 2
      /\ w[1].do = "remove" /\ w[2].do = "rename"
      /\ w[1].state = NoState /\ w[2].state = st
      /\ \A s : Within(s, w) => s.do \in {"remove", "rename"} /\ s.art = art
  <2>1. art \in Nat /\ st \in States
    BY <1>0, <1>1
  <2> QED BY <1>2, <2>1, WriteStateFacts
<1>4. Whole(rest)
  BY <1>0 DEF Whole, Queue
<1>5. \A s : Within(s, rest) => StepOf(op, s) /\ s.do \in Applies
  BY <1>0 DEF Queue, DosOf
<1>6. \A s, t : Within(s, w) /\ Within(t, rest) => Precedes(s, t)
  <2> SUFFICES ASSUME NEW s, NEW t, Within(s, w), Within(t, rest) PROVE Precedes(s, t)
    OBVIOUS
  <2>1. s.do \in {"remove", "rename"} /\ s.art = art /\ t.do \in Applies
    BY <1>3, <1>5
  <2>2. t.art = 0 \/ (art # 0 /\ art <= t.art)
    BY <1>0 DEF From
  <2> HIDE DEF Within
  <2> QED BY <2>1, <2>2 DEF Precedes, Walks, FileDos, Applies
<1>7. Whole(r) /\ \A s : Within(s, r) <=> Within(s, w) \/ Within(s, rest)
  <2>1. w \in Seq(Steps) /\ rest \in Seq(Steps)
    BY <1>3, <1>4 DEF Whole
  <2>2. Whole(r)
    BY <1>2, <1>3, <1>4, <1>6, TwoAreWhole
  <2> QED BY <1>2, <2>1, <2>2, WithinFacts
<1>8. ASSUME NEW s, Within(s, w) PROVE StepOf(op, s) /\ s.do \in DosOf(how)
  <2>1. s.do \in {"remove", "rename"} /\ s.art = art
    BY <1>3, <1>8
  <2> QED BY <1>0, <2>1 DEF StepOf, DosOf, Applies, FileDos, Walks
<1>9. Queue(op, how, r)
  <2>1. \A s : Within(s, rest) => StepOf(op, s) /\ s.do \in DosOf(how)
    BY <1>0 DEF Queue
  <2>2. \A s : Within(s, r) => StepOf(op, s) /\ s.do \in DosOf(how)
    BY <1>7, <1>8, <2>1
  <2> QED BY <1>7, <2>2 DEF Queue, Whole
<1>10. Len(r) >= 2 /\ r[1] = w[1] /\ r[2] = w[2]
  <2>1. w \in Seq(Steps) /\ rest \in Seq(Steps)
    BY <1>3, <1>4 DEF Whole
  <2>2. Len(r) = Len(w) + Len(rest) /\ Len(rest) \in Nat
        /\ \A i \in 1 .. Len(w) + Len(rest) : r[i] = IF i <= Len(w) THEN w[i] ELSE rest[i - Len(w)]
    BY <1>2, <2>1, ConcatProperties
  <2>3. 1 \in 1 .. Len(w) + Len(rest) /\ 2 \in 1 .. Len(w) + Len(rest)
    BY <1>3, <2>2
  <2> QED BY <1>3, <2>2, <2>3
<1>11. r \in Seq(Steps)
  BY <1>7 DEF Whole
<1>12. r # <<>>
  BY <1>10, <1>11
<1>13. Head(r) = r[1] /\ Head(Tail(r)) = r[2]
  <2>1. PICK t : t = Tail(r)
    OBVIOUS
  <2>2. Head(r) = r[1] /\ t \in Seq(Steps) /\ Len(t) = Len(r) - 1 /\ Len(r) \in Nat
        /\ \A i \in 1 .. Len(t) : t[i] = r[i + 1]
    BY <1>11, <1>12, <2>1, HeadFacts
  <2>3. 1 \in 1 .. Len(t) /\ t # <<>>
    BY <1>10, <2>2
  <2>4. Head(t) = t[1] /\ t[1] = r[1 + 1]
    BY <2>2, <2>3, HeadFacts
  <2>5. 1 + 1 = 2
    OBVIOUS
  <2> QED BY <2>1, <2>2, <2>4, <2>5
<1>14. \A s : Within(s, r) => Within(s, rest) \/ s.do \in {"remove", "rename"}
  BY <1>3, <1>7
<1> QED BY <1>2, <1>3, <1>7, <1>9, <1>10, <1>12, <1>13, <1>14 DEF WritesState

\* After a step that stands alone the queue starts anew.
LEMMA AfterAlone ==
    ASSUME NEW op, NEW how, NEW w, Queue(op, how, w), w # <<>>, Head(w).do \notin Firsts
    PROVE  Started(Tail(w))
<1> SUFFICES ASSUME Tail(w) # <<>> PROVE Tail(w)[1].do \notin Seconds
  BY DEF Started
<1>1. Linked(Head(w), Head(Tail(w)))
  BY RestFacts
<1>2. Head(Tail(w)) = Tail(w)[1]
  OBVIOUS
<1>3. PICK s, t : s = Head(w) /\ t = Tail(w)[1]
  OBVIOUS
<1>4. Linked(s, t) /\ s.do \notin Firsts
  BY <1>1, <1>2, <1>3
<1>5. t.do \notin Seconds
  BY <1>4 DEF Linked, Firsts, Seconds
<1> QED BY <1>3, <1>5

LEMMA CommitQueue ==
    ASSUME NEW op, Operation(op), NEW how \in {"installing", "applying"},
           NEW w, Queue(op, how, w), w # <<>>, Head(w).do = "commit", NEW st \in States
    PROVE  LET r == WriteState(Head(w).art, st) \o Tail(w) IN
           Queue(op, how, r) /\ WritesState(r, st, Tail(w))
<1>1. PICK rest : rest = Tail(w)
  OBVIOUS
<1>2. PICK h : h = Head(w)
  OBVIOUS
<1>3. Queue(op, how, rest) /\ Started(rest) /\ \A t : Within(t, rest) => Precedes(h, t)
  <2>1. Head(w).do \notin Firsts
    BY DEF Firsts
  <2> QED BY <1>1, <1>2, <2>1, RestFacts, AfterAlone
<1>4. StepOf(op, h)
  <2>1. Within(h, w)
    BY <1>2, HeadFacts DEF Queue
  <2> QED BY <2>1 DEF Queue
<1>5. h.do = "commit" /\ h.art \in 1 .. Len(op.arts)
  BY <1>2, <1>4 DEF StepOf
<1>6. h.art \in 0 .. Len(op.arts)
  BY <1>5
<1>7. \A t : Within(t, rest) => t.art = 0 \/ (h.art # 0 /\ h.art <= t.art)
  <2> SUFFICES ASSUME NEW t, Within(t, rest) PROVE t.art = 0 \/ (h.art # 0 /\ h.art <= t.art)
    OBVIOUS
  <2>1. Precedes(h, t) /\ t.do \in Applies
    BY <1>3 DEF Queue, DosOf
  <2>2. h.do \notin Walks /\ t.do \notin Walks
    BY <1>5, <2>1 DEF Walks, Applies
  <2> QED BY <2>1, <2>2 DEF Precedes
<1> HIDE DEF Within
<1>8. PICK art \in 0 .. Len(op.arts) : art = h.art
  BY <1>6
<1>9. \A t : Within(t, rest) => From(art, t)
  BY <1>7, <1>8 DEF From
<1>10. PICK r : r = WriteState(art, st) \o rest
  OBVIOUS
<1>11. Queue(op, how, r) /\ WritesState(r, st, rest)
  <2>1. CanWrite(op, how, art, st, rest)
    BY <1>3, <1>9 DEF CanWrite
  <2> QED BY <1>10, <2>1, WriteFirst
<1>12. WriteState(Head(w).art, st) \o Tail(w) = r
  BY <1>1, <1>2, <1>8, <1>10
<1> QED BY <1>1, <1>11, <1>12

\* r writes the state st and concludes.
WritesLast(r, st) ==
    /\ r # <<>> /\ Head(r).do = "remove"
    /\ Head(Tail(r)).do = "rename" /\ Head(Tail(r)).state = st
    /\ \A s : Within(s, r) => s.do \in {"remove", "rename", "conclude"}

LEMMA FinishQueue ==
    ASSUME NEW op, Operation(op), NEW st \in States
    PROVE  LET r == WriteState(0, st) \o <<PlainStep("conclude", 0)>> IN
           Queue(op, "applying", r) /\ WritesLast(r, st)
<1>1. PICK c : c = PlainStep("conclude", 0)
  OBVIOUS
<1>2. c \in Steps /\ c.do = "conclude" /\ c.art = 0
  <2>1. "conclude" \in Applies /\ 0 \in Nat
    BY DEF Applies
  <2> QED BY <1>1, <2>1, PlainStepFacts
<1>3. Whole(<<c>>) /\ \A t : Within(t, <<c>>) <=> t = c
  BY <1>2, SingleIsWhole DEF Firsts, Seconds
<1>4. PICK rest : rest = <<c>>
  OBVIOUS
<1>5. StepOf(op, c) /\ c.do \in DosOf("applying")
  BY <1>2 DEF StepOf, DosOf, Applies, FileDos, Walks
<1>6. Queue(op, "applying", rest) /\ Started(rest) /\ \A t : Within(t, rest) => t = c
  BY <1>3, <1>4, <1>5 DEF Queue, Whole
<1>7. 0 \in 0 .. Len(op.arts)
  BY OperationFacts
<1> HIDE DEF Within
<1>8. PICK art \in 0 .. Len(op.arts) : art = 0
  BY <1>7
<1>9. \A t : Within(t, rest) => From(art, t)
  BY <1>2, <1>6 DEF From
<1>10. PICK r : r = WriteState(art, st) \o rest
  OBVIOUS
<1>11. Queue(op, "applying", r) /\ WritesState(r, st, rest)
  <2>1. CanWrite(op, "applying", art, st, rest)
    BY <1>6, <1>9 DEF CanWrite
  <2> QED BY <1>10, <2>1, WriteFirst
<1>12. WriteState(0, st) \o <<PlainStep("conclude", 0)>> = r
  BY <1>1, <1>4, <1>8, <1>10
<1>13. \A s : Within(s, r) => s.do \in {"remove", "rename", "conclude"}
  BY <1>2, <1>6, <1>11 DEF WritesState
<1> QED BY <1>11, <1>12, <1>13 DEF WritesState, WritesLast

\* The queues of processes that begin, and of those that begin to undo.
LEMMA ApplyQueue ==
    ASSUME NEW op, Operation(op)
    PROVE  /\ Queue(op, "applying", ApplyArtifacts(op)) /\ Started(ApplyArtifacts(op))
           /\ ApplyArtifacts(op) # <<>>
<1> HIDE DEF Within, StepOf
<1>1. PICK w : w = ApplyArtifacts(op)
  OBVIOUS
<1>2. /\ Whole(w) /\ w # <<>>
      /\ \A s : Within(s, w) => /\ StepOf(op, s)
            /\ s.do \in {"check", "open", "drop", "keep", "place", "commit", "finish"}
  BY <1>1, ApplyArtifactsFacts
<1>3. \A s : Within(s, w) => StepOf(op, s) /\ s.do \in DosOf("applying")
  BY <1>2 DEF DosOf, Applies
<1> QED BY <1>1, <1>2, <1>3 DEF Queue, Whole

LEMMA UndoQueue ==
    ASSUME NEW op, Operation(op), NEW n \in 1 .. Len(op.arts), NEW how \in {"undoing", "reverting"}
    PROVE  Queue(op, how, RollbackArtifacts(op, n)) /\ Started(RollbackArtifacts(op, n))
<1> HIDE DEF Within, StepOf
<1>1. PICK w : w = RollbackArtifacts(op, n)
  OBVIOUS
<1>2. Whole(w) /\ \A s : Within(s, w) => StepOf(op, s) /\ s.do \in Walks \cup {"remove", "rename"}
  BY <1>1, RollbackArtifactsFacts
<1>3. \A s : Within(s, w) => StepOf(op, s) /\ s.do \in DosOf(how)
  BY <1>2 DEF DosOf
<1> QED BY <1>1, <1>2, <1>3 DEF Queue, Whole

InstallSteps(cat, kind) ==
    ApplyBundle(cat, kind, 1) \o (IF kind = "full" THEN <<PlainStep("mark", 0)>> ELSE <<>>)

LEMMA InstallQueue ==
    ASSUME NEW op, Operation(op), NEW kind \in CatalogOf(op).artifacts, op.arts = <<kind>>
    PROVE  /\ Queue(op, "installing", InstallSteps(CatalogOf(op), kind))
           /\ Started(InstallSteps(CatalogOf(op), kind))
           /\ InstallSteps(CatalogOf(op), kind) # <<>>
           /\ \E s : Within(s, InstallSteps(CatalogOf(op), kind)) /\ s.do = "open" /\ s.art = 1
<1>1. PICK cat \in Catalogs : cat = CatalogOf(op)
  BY OperationFacts
<1>2. 1 \in Nat /\ 1 # 0 /\ 1 \in 1 .. Len(op.arts) /\ op.arts[1] = kind
  BY OperationFacts
<1>3. PICK a, o : a = ApplyBundle(cat, kind, 1) /\ o = PlainStep("open", 1)
  OBVIOUS
<1>4. Whole(a) /\ (\A s : Within(s, a) => Applied(s, cat, kind, 1)) /\ Within(o, a)
  <2> HIDE DEF Whole, Within, Applied, Ships
  <2> QED BY <1>1, <1>2, <1>3, ApplyBundleFacts
<1>5. o.do = "open" /\ o.art = 1
  <2>1. "open" \in Applies
    BY DEF Applies
  <2> QED BY <1>2, <1>3, <2>1, PlainStepFacts
<1>6. PICK b : b = IF kind = "full" THEN <<PlainStep("mark", 0)>> ELSE <<>>
  OBVIOUS
<1>7. Whole(b) /\ \A s : Within(s, b) => s.do = "mark" /\ s.art = 0
  <2>1. PICK k : k = PlainStep("mark", 0)
    OBVIOUS
  <2>2. k \in Steps /\ k.do = "mark" /\ k.art = 0
    <3>1. "mark" \in Applies /\ 0 \in Nat
      BY DEF Applies
    <3> QED BY <2>1, <3>1, PlainStepFacts
  <2>3. Whole(<<k>>) /\ \A t : Within(t, <<k>>) <=> t = k
    BY <2>2, SingleIsWhole DEF Firsts, Seconds
  <2>4. <<>> \in Seq(Steps) /\ Len(<<>>) = 0
    OBVIOUS
  <2>5. Whole(<<>>) /\ \A s : ~Within(s, <<>>)
    BY <2>4 DEF Whole, InOrder, Started, Ended, Within
  <2> HIDE DEF Whole, Within
  <2> QED BY <1>6, <2>1, <2>2, <2>3, <2>5
<1>8. \A s : Within(s, a) => StepOf(op, s) /\ s.do \in DosOf("installing") /\ s.art = 1
  <2> SUFFICES ASSUME NEW s, Within(s, a)
               PROVE  StepOf(op, s) /\ s.do \in DosOf("installing") /\ s.art = 1
    OBVIOUS
  <2>1. Applied(s, cat, kind, 1)
    BY <1>4
  <2>2. StepOf(op, s) /\ s.art = 1
    BY <1>1, <1>2, <2>1, AppliedIsOf
  <2>3. s.do \in {"open", "commit", "drop", "keep", "place"}
    BY <2>1 DEF Applied
  <2> QED BY <2>2, <2>3 DEF DosOf, Applies
<1>9. \A s : Within(s, b) => StepOf(op, s) /\ s.do \in DosOf("installing")
  BY <1>7 DEF StepOf, DosOf, Applies, FileDos, Walks
<1>10. \A s, t : Within(s, a) /\ Within(t, b) => Precedes(s, t)
  <2> SUFFICES ASSUME NEW s, NEW t, Within(s, a), Within(t, b) PROVE Precedes(s, t)
    OBVIOUS
  <2>1. t.do = "mark" /\ t.art = 0 /\ s.do \in Applies
    BY <1>7, <1>8 DEF DosOf
  <2> QED BY <2>1 DEF Precedes, FileDos, Walks, Applies
<1>11. PICK w : w = a \o b
  OBVIOUS
<1>12. Whole(w) /\ \A s : Within(s, w) <=> Within(s, a) \/ Within(s, b)
  <2>1. a \in Seq(Steps) /\ b \in Seq(Steps)
    BY <1>4, <1>7 DEF Whole
  <2>2. Whole(w)
    BY <1>4, <1>7, <1>10, <1>11, TwoAreWhole
  <2> QED BY <1>11, <2>1, <2>2, WithinFacts
<1>13. w # <<>>
  <2>1. Within(o, w)
    BY <1>4, <1>12
  <2> QED BY <2>1 DEF Within
<1>14. w = InstallSteps(CatalogOf(op), kind)
  BY <1>1, <1>3, <1>6, <1>11 DEF InstallSteps
<1>15. \A s : Within(s, w) => StepOf(op, s) /\ s.do \in DosOf("installing")
  BY <1>8, <1>9, <1>12
<1>16. Queue(op, "installing", w) /\ Started(w)
  BY <1>12, <1>15 DEF Queue, Whole
<1> HIDE DEF Within
<1> QED BY <1>4, <1>5, <1>12, <1>13, <1>14, <1>16

-----------------------------------------------------------------------------
(* What the state of an installation and its updater look like.               *)

UpdateModes == {"idle", "installing", "applying", "undoing", "verifying", "reverting"}
Bounds == {"crash", "fault", "stage", "install", "rollback"}
FileMaps == [Files -> Nat]
Entries == [installed : FileMaps, backup : FileMaps, state : States, faults : Nat]
OpOK(op) == op = NoOp \/ Operation(op)
Busy == mode # "idle"

\* What was staged is what the planner picked for the state it found.
Planned(op) == op # NoOp => op.arts = PlanUpdate(op.previous, CatalogOf(op))

UpdateShapes ==
    /\ installed \in FileMaps /\ backup \in FileMaps /\ state \in States
    /\ OpOK(staged) /\ OpOK(run) /\ marked \in BOOLEAN /\ Planned(staged)
    /\ mode \in {"applying", "verifying"} => Planned(run)
    /\ used \in [Bounds -> Nat] /\ mode \in UpdateModes
    /\ Busy => entry \in Entries /\ entry.faults <= used.fault /\ run # NoOp
    /\ mode \in {"installing", "applying", "verifying"} => entry.faults = used.fault
    /\ Queue(run, mode, work)
    /\ mode \in {"idle", "verifying"} <=> work = <<>>

\* The process goes on with the steps more, and is done when there are none.
Went(more) ==
    /\ run' = run /\ work' = more
    /\ \/ more = <<>> /\ mode' = "idle"
       \/ more # <<>> /\ mode' = mode /\ entry' = entry

LEMMA ProceedGoes ==
    ASSUME NEW more, Proceed(more)
    PROVE  Went(more)
BY DEF Proceed, End, Went

LEMMA EndGoes ==
    ASSUME End
    PROVE  mode' = "idle" /\ work' = <<>> /\ run' = run
BY DEF End

\* A step leaves the shape of the state when it leaves those of its parts.
LEMMA ShapesOnward ==
    ASSUME UpdateShapes, work # <<>>, NEW more, Went(more), Queue(run, mode, more),
           installed' \in FileMaps, backup' \in FileMaps, state' \in States,
           OpOK(staged'), Planned(staged'), marked' \in BOOLEAN, used' \in [Bounds -> Nat],
           used.fault <= used'.fault,
           mode \in {"installing", "applying", "verifying"} => used'.fault = used.fault
    PROVE  UpdateShapes'
<1>1. mode \notin {"idle", "verifying"}
  BY DEF UpdateShapes
<1>2. CASE more = <<>>
  <2>1. mode' = "idle" /\ work' = <<>> /\ run' = run
    BY <1>2 DEF Went
  <2>2. Queue(run', mode', work')
    BY <2>1, EmptyQueue
  <2> QED BY <2>1, <2>2 DEF UpdateShapes, Busy, UpdateModes
<1>3. CASE more # <<>>
  <2>1. mode' = mode /\ work' = more /\ run' = run /\ entry' = entry
    BY <1>3 DEF Went
  <2>2. entry \in Entries /\ entry.faults <= used.fault /\ run # NoOp
    BY <1>1 DEF UpdateShapes, Busy
  <2>3. entry.faults \in Nat /\ used.fault \in Nat /\ used'.fault \in Nat
    BY <2>2 DEF UpdateShapes, Entries, Bounds
  <2>4. entry'.faults <= used'.fault
    BY <2>1, <2>2, <2>3
  <2>5. mode' \in {"installing", "applying", "verifying"} => entry'.faults = used'.fault
    BY <2>1 DEF UpdateShapes
  <2> QED BY <1>1, <1>3, <2>1, <2>2, <2>4, <2>5 DEF UpdateShapes, Busy
<1> QED BY <1>2, <1>3

LEMMA ShapesWhenIdle ==
    ASSUME UpdateShapes, mode' = "idle", work' = <<>>, run' = run,
           installed' \in FileMaps, backup' \in FileMaps, state' \in States,
           OpOK(staged'), Planned(staged'), marked' \in BOOLEAN, used' \in [Bounds -> Nat]
    PROVE  UpdateShapes'
<1>1. Queue(run', mode', work')
  BY EmptyQueue
<1> QED BY <1>1 DEF UpdateShapes, Busy, UpdateModes

LEMMA ShapesAtBegin ==
    ASSUME UpdateShapes, NEW op, NEW how \in {"installing", "applying", "reverting"}, NEW steps,
           Begin(op, how, steps), Operation(op), Queue(op, how, steps),
           used' \in [Bounds -> Nat], used'.fault = used.fault,
           how = "applying" => Planned(op)
    PROVE  UpdateShapes'
<1>1. /\ mode' = how /\ work' = steps /\ steps # <<>> /\ run' = op
      /\ entry' = [installed |-> installed, backup |-> backup, state |-> state, faults |-> used.fault]
      /\ UNCHANGED <<marked, installed, backup, state, staged>>
  BY DEF Begin
<1>2. used.fault \in Nat
  BY DEF UpdateShapes, Bounds
<1>3. entry' \in Entries /\ entry'.faults = used'.fault /\ entry'.faults <= used'.fault
  BY <1>1, <1>2 DEF UpdateShapes, Entries
<1>4. run' # NoOp
  BY <1>1, OperationFacts
<1> QED BY <1>1, <1>3, <1>4 DEF UpdateShapes, OpOK, Busy, UpdateModes

LEMMA UseFacts ==
    ASSUME UpdateShapes, NEW what \in Bounds, Use(what)
    PROVE  /\ used' \in [Bounds -> Nat]
           /\ what # "fault" => used'.fault = used.fault
           /\ what = "fault" => used'.fault = used.fault + 1
           /\ used.fault <= used'.fault /\ used.fault \in Nat
<1>1. used \in [Bounds -> Nat] /\ used' = [used EXCEPT ![what] = @ + 1] /\ "fault" \in Bounds
  BY DEF UpdateShapes, Use, Bounds
<1>2. used[what] \in Nat /\ used["fault"] \in Nat
  BY <1>1
<1>3. used' \in [Bounds -> Nat]
  BY <1>1, <1>2
<1>4. used'["fault"] = IF what = "fault" THEN used["fault"] + 1 ELSE used["fault"]
  BY <1>1
<1> QED BY <1>2, <1>3, <1>4

LEMMA SameUse ==
    ASSUME UpdateShapes, used' = used
    PROVE  used' \in [Bounds -> Nat] /\ used'.fault = used.fault /\ used.fault <= used'.fault
<1>1. used \in [Bounds -> Nat] /\ "fault" \in Bounds
  BY DEF UpdateShapes, Bounds
<1>2. used.fault \in Nat
  BY <1>1
<1> QED BY <1>1, <1>2

\* What is known of the step at the head.
LEMMA HeadStep ==
    ASSUME UpdateShapes, work # <<>>
    PROVE  /\ Operation(run) /\ mode \in {"installing", "applying", "undoing", "reverting"}
           /\ Queue(run, mode, work) /\ Queue(run, mode, Tail(work)) /\ Busy
           /\ Head(work) \in Steps /\ Within(Head(work), work)
           /\ StepOf(run, Head(work)) /\ Head(work).do \in DosOf(mode)
           /\ Head(work).file \in Files /\ Head(work).build \in Nat /\ Head(work).state \in States
           /\ \A s : Within(s, work) <=> s = Head(work) \/ Within(s, Tail(work))
<1>1. Queue(run, mode, work) /\ work \in Seq(Steps)
  BY DEF UpdateShapes, Queue
<1>2. /\ Head(work) \in Steps /\ Within(Head(work), work)
      /\ \A s : Within(s, work) <=> s = Head(work) \/ Within(s, Tail(work))
  BY <1>1, HeadFacts
<1>3. Queue(run, mode, Tail(work))
  BY <1>1, RestFacts
<1>4. StepOf(run, Head(work)) /\ Head(work).do \in DosOf(mode)
  BY <1>1, <1>2 DEF Queue
<1>5. mode \in {"installing", "applying", "undoing", "reverting"} /\ Busy
  BY DEF UpdateShapes, UpdateModes, Busy
<1>6. Operation(run)
  BY <1>5 DEF UpdateShapes, OpOK
<1>7. Head(work).file \in Files /\ Head(work).build \in Nat /\ Head(work).state \in States
  BY <1>2 DEF Steps
<1> QED BY <1>1, <1>2, <1>3, <1>4, <1>5, <1>6, <1>7

\* A put-back of the kept copy.
LEMMA PlaceBackFacts ==
    ASSUME UpdateShapes, NEW s, PlaceBack(s), s.file \in Files
    PROVE  installed' \in FileMaps /\ backup' \in FileMaps
<1>1. installed \in FileMaps /\ backup \in FileMaps
  BY DEF UpdateShapes
<1>2. backup[s.file] \in Nat /\ 0 \in Nat
  BY <1>1 DEF FileMaps
<1> QED BY <1>1, <1>2 DEF PlaceBack, FileMaps

LEMMA CostFacts ==
    ASSUME UpdateShapes, NEW s, CostOf(s)
    PROVE  /\ used' \in [Bounds -> Nat] /\ used.fault <= used'.fault
           /\ used.fault \in Nat
           /\ Hopeless(s) => used'.fault = used.fault
           /\ ~Hopeless(s) => used'.fault = used.fault + 1
<1>1. CASE Hopeless(s)
  <2>1. used' = used
    BY <1>1 DEF CostOf
  <2>2. used.fault \in Nat
    BY DEF UpdateShapes, Bounds
  <2> QED BY <1>1, <2>1, <2>2, SameUse
<1>2. CASE ~Hopeless(s)
  <2>1. Use("fault") /\ "fault" \in Bounds
    BY <1>2 DEF CostOf, Bounds
  <2> QED BY <1>2, <2>1, UseFacts
<1> QED BY <1>1, <1>2

LEMMA CommittedTyped ==
    ASSUME NEW s \in States, NEW cat \in Catalogs, NEW kind \in cat.artifacts
    PROVE  Committed(s, cat, kind) \in States
<1>1. cat.release \in Nat
  BY CatalogsAssumption DEF CatalogOK
<1>2. \A c \in DOMAIN BundleComponents(cat, kind) : BundleComponents(cat, kind)[c] \in Nat
  BY BundleFacts, PayloadAssumption
<1>3. \A c \in Components : s.builds[c] \in Nat
  BY DEF States
<1> QED BY <1>1, <1>2, <1>3 DEF Committed, States

\* What the planner picks can be made an operation.
LEMMA PlanKinded ==
    ASSUME NEW s, NEW cat, PlanUpdate(s, cat) # <<>>
    PROVE  \/ \E kind \in cat.artifacts : PlanUpdate(s, cat) = <<kind>>
           \/ /\ PlanUpdate(s, cat) = <<"frontend", "backend">>
              /\ {"frontend", "backend"} \subseteq cat.artifacts
<1> DEFINE Right(arts) == \/ arts = <<>>
                          \/ \E kind \in cat.artifacts : arts = <<kind>>
                          \/ arts = <<"frontend", "backend">> /\ {"frontend", "backend"} \subseteq cat.artifacts
<1>1. Right(FullPlan(cat))
  BY DEF FullPlan
<1>2. ASSUME NEW kind PROVE Right(ComponentPlan(cat, <<kind>>))
  <2>1. PICK arts : arts = <<kind>>
    OBVIOUS
  <2>2. DOMAIN arts = 1 .. 1 /\ arts[1] = kind
    BY <2>1
  <2>3. kind \in ToSet(arts)
    <3>1. 1 \in 1 .. 1
      OBVIOUS
    <3> QED BY <2>2, <3>1 DEF ToSet
  <2>4. ComponentPlan(cat, <<kind>>) = IF ToSet(arts) \subseteq cat.artifacts THEN arts ELSE FullPlan(cat)
    BY <2>1 DEF ComponentPlan
  <2> QED BY <1>1, <2>1, <2>3, <2>4
<1>3. Right(ComponentPlan(cat, <<"frontend", "backend">>))
  <2>1. PICK arts : arts = <<"frontend", "backend">>
    OBVIOUS
  <2>2. DOMAIN arts = 1 .. 2 /\ arts[1] = "frontend" /\ arts[2] = "backend"
    BY <2>1
  <2>3. "frontend" \in ToSet(arts) /\ "backend" \in ToSet(arts)
    <3>1. 1 \in 1 .. 2 /\ 2 \in 1 .. 2
      OBVIOUS
    <3> QED BY <2>2, <3>1 DEF ToSet
  <2>4. ComponentPlan(cat, <<"frontend", "backend">>) =
           IF ToSet(arts) \subseteq cat.artifacts THEN arts ELSE FullPlan(cat)
    BY <2>1 DEF ComponentPlan
  <2> QED BY <1>1, <2>1, <2>3, <2>4
<1>4. \A c, other : Right(OneSidedPlan(s, cat, c, other))
  <2> HIDE DEF Right
  <2> QED BY <1>1, <1>2 DEF OneSidedPlan
<1>5. Right(<<>>)
  OBVIOUS
<1>6. Right(PlanUpdate(s, cat))
  <2> HIDE DEF Right
  <2> QED BY <1>1, <1>2, <1>3, <1>4, <1>5 DEF PlanUpdate
<1> QED BY <1>6

StagedOp(cat) == [release |-> cat.release, arts |-> PlanUpdate(state, cat), previous |-> state]

LEMMA StagedIsOperation ==
    ASSUME UpdateShapes, NEW cat \in Catalogs, PlanUpdate(state, cat) # <<>>
    PROVE  Operation(StagedOp(cat)) /\ Planned(StagedOp(cat))
<1>1. PICK op : op = StagedOp(cat)
  OBVIOUS
<1>2. op.release = cat.release /\ op.arts = PlanUpdate(state, cat) /\ op.previous = state
  BY <1>1 DEF StagedOp
<1>3. Kinded(op, cat)
  BY <1>2, PlanKinded DEF Kinded
<1>4. CatalogOf(op) = cat
  BY <1>2, CatalogsAssumption DEF CatalogOf
<1>5. Planned(op)
  BY <1>2, <1>4 DEF Planned
<1>6. Operation(op)
  BY <1>2, <1>3 DEF Operation, UpdateShapes
<1> QED BY <1>1, <1>5, <1>6

\* Only a full bundle is picked for a state that records nothing.
LEMMA PlannedFacts ==
    ASSUME NEW op, Operation(op), Planned(op), op.arts # <<"full">>
    PROVE  op.previous # NoState
<1> SUFFICES ASSUME op.previous = NoState PROVE FALSE
  OBVIOUS
<1>1. op # NoOp /\ op.arts \in Seq(Kinds) /\ Len(op.arts) \in 1 .. 2
  BY OperationFacts
<1>2. op.arts = FullPlan(CatalogOf(op))
  BY <1>1 DEF Planned, PlanUpdate
<1>3. op.arts = <<>>
  BY <1>2 DEF FullPlan
<1>4. Len(op.arts) = 0
  BY <1>3
<1> QED BY <1>1, <1>4

InstalledOp(cat, kind) == [release |-> cat.release, arts |-> <<kind>>, previous |-> NoState]

LEMMA InstalledIsOperation ==
    ASSUME NEW cat \in Catalogs, NEW kind \in cat.artifacts
    PROVE  /\ Operation(InstalledOp(cat, kind)) /\ CatalogOf(InstalledOp(cat, kind)) = cat
           /\ InstalledOp(cat, kind).arts = <<kind>>
<1>1. PICK op : op = InstalledOp(cat, kind)
  OBVIOUS
<1>2. op.release = cat.release /\ op.arts = <<kind>> /\ op.previous = NoState
  BY <1>1 DEF InstalledOp
<1>3. Kinded(op, cat)
  BY <1>2 DEF Kinded
<1>4. Operation(op)
  BY <1>2, <1>3, NoStateTyped DEF Operation
<1>5. CatalogOf(op) = cat
  BY <1>2, CatalogsAssumption DEF CatalogOf
<1> QED BY <1>1, <1>2, <1>4, <1>5

LEMMA InstallBegins ==
    ASSUME NEW cat \in Catalogs, NEW kind, Install(cat, kind)
    PROVE  /\ kind \in cat.artifacts /\ Use("install")
           /\ kind = "full" \/ installed[AppFile] # 0
           /\ Begin(InstalledOp(cat, kind), "installing", InstallSteps(cat, kind))
           /\ Operation(InstalledOp(cat, kind)) /\ CatalogOf(InstalledOp(cat, kind)) = cat
           /\ InstalledOp(cat, kind).arts = <<kind>>
           /\ Queue(InstalledOp(cat, kind), "installing", InstallSteps(cat, kind))
           /\ Started(InstallSteps(cat, kind))
           /\ \E s : Within(s, InstallSteps(cat, kind)) /\ s.do = "open" /\ s.art = 1
<1>1. kind \in cat.artifacts /\ Use("install") /\ (kind = "full" \/ installed[AppFile] # 0)
      /\ Begin(InstalledOp(cat, kind), "installing", InstallSteps(cat, kind))
  BY DEF Install, InstalledOp, InstallSteps
<1>2. PICK op : op = InstalledOp(cat, kind)
  OBVIOUS
<1>3. Operation(op) /\ CatalogOf(op) = cat /\ op.arts = <<kind>>
  BY <1>1, <1>2, InstalledIsOperation
<1>4. kind \in CatalogOf(op).artifacts
  BY <1>1, <1>3
<1>5. /\ Queue(op, "installing", InstallSteps(CatalogOf(op), kind))
      /\ Started(InstallSteps(CatalogOf(op), kind))
      /\ \E s : Within(s, InstallSteps(CatalogOf(op), kind)) /\ s.do = "open" /\ s.art = 1
  BY <1>3, <1>4, InstallQueue
<1> QED BY <1>1, <1>2, <1>3, <1>5

LEMMA ApplyBegins ==
    ASSUME UpdateShapes, ApplyStaged
    PROVE  /\ Begin(staged, "applying", ApplyArtifacts(staged)) /\ used' = used
           /\ Operation(staged) /\ Planned(staged) /\ Queue(staged, "applying", ApplyArtifacts(staged))
           /\ Started(ApplyArtifacts(staged))
<1>1. Operation(staged)
  BY DEF ApplyStaged, UpdateShapes, OpOK
<1>2. Planned(staged)
  BY DEF UpdateShapes
<1> QED BY <1>1, <1>2, ApplyQueue DEF ApplyStaged

LEMMA RollbackBegins ==
    ASSUME UpdateShapes, RollbackStaged
    PROVE  /\ Begin(run, "reverting", RollbackArtifacts(run, Len(run.arts))) /\ Use("rollback")
           /\ Operation(run) /\ run.arts # <<"full">> /\ Len(run.arts) \in 1 .. Len(run.arts)
           /\ Queue(run, "reverting", RollbackArtifacts(run, Len(run.arts)))
           /\ Started(RollbackArtifacts(run, Len(run.arts)))
<1>1. Begin(run, "reverting", RollbackArtifacts(run, Len(run.arts))) /\ Use("rollback")
      /\ run.release # 0 /\ run.arts # <<"full">>
  BY DEF RollbackStaged
<1>2. Operation(run)
  BY <1>1 DEF UpdateShapes, OpOK, NoOp
<1>3. Len(run.arts) \in 1 .. Len(run.arts)
  BY <1>2, OperationFacts
<1>4. PICK n \in 1 .. Len(run.arts) : n = Len(run.arts)
  BY <1>3
<1>5. Queue(run, "reverting", RollbackArtifacts(run, n)) /\ Started(RollbackArtifacts(run, n))
  BY <1>2, UndoQueue
<1> QED BY <1>1, <1>2, <1>3, <1>4, <1>5

\* The steps that only go on to the next.
LEMMA TailWent ==
    ASSUME UpdateShapes, work # <<>>, Proceed(Tail(work))
    PROVE  Went(Tail(work)) /\ Queue(run, mode, Tail(work))
BY HeadStep, ProceedGoes

\* What a commit and the end of an apply go on with.
LEMMA CommitGoes ==
    ASSUME UpdateShapes, CommitBundle
    PROVE  \E more : \E st \in States :
             /\ st = Committed(state, CatalogOf(run), run.arts[Head(work).art])
             /\ Went(more) /\ Queue(run, mode, more) /\ WritesState(more, st, Tail(work))
             /\ mode \in {"installing", "applying"} /\ Head(work).art \in 1 .. Len(run.arts)
<1>1. work # <<>> /\ Head(work).do = "commit"
  BY DEF CommitBundle, Doing
<1>2. PICK h : h = Head(work)
  OBVIOUS
<1>3. Operation(run) /\ Queue(run, mode, work) /\ StepOf(run, h) /\ h.do \in DosOf(mode)
      /\ mode \in {"installing", "applying", "undoing", "reverting"}
  BY <1>1, <1>2, HeadStep
<1>4. h.art \in 1 .. Len(run.arts)
  BY <1>1, <1>2, <1>3 DEF StepOf
<1>5. mode \in {"installing", "applying"}
  BY <1>1, <1>2, <1>3 DEF DosOf, Walks
<1>6. CatalogOf(run) \in Catalogs /\ run.arts[h.art] \in CatalogOf(run).artifacts
  BY <1>3, <1>4, OperationFacts
<1>7. PICK cat \in Catalogs, kind \in CatalogOf(run).artifacts : cat = CatalogOf(run) /\ kind = run.arts[h.art]
  BY <1>6
<1>8. state \in States
  BY DEF UpdateShapes
<1>9. PICK st : st = Committed(state, cat, kind)
  OBVIOUS
<1>10. st \in States
  BY <1>7, <1>8, <1>9, CommittedTyped
<1>11. PICK more : more = WriteState(h.art, st) \o Tail(work)
  OBVIOUS
<1>12. Queue(run, mode, more) /\ WritesState(more, st, Tail(work))
  BY <1>1, <1>2, <1>3, <1>5, <1>10, <1>11, CommitQueue
<1>13. Proceed(more)
  BY <1>2, <1>7, <1>9, <1>11 DEF CommitBundle
<1>14. Went(more)
  BY <1>13, ProceedGoes
<1> QED BY <1>2, <1>4, <1>5, <1>7, <1>9, <1>10, <1>12, <1>14

LEMMA FinishGoes ==
    ASSUME UpdateShapes, FinishApply
    PROVE  \E more : \E st \in States :
             /\ st = [state EXCEPT !.release = run.release]
             /\ Went(more) /\ Queue(run, mode, more)
             /\ WritesLast(more, st)
             /\ mode = "applying"
<1>1. work # <<>> /\ Head(work).do = "finish"
  BY DEF FinishApply, Doing
<1>2. PICK h : h = Head(work)
  OBVIOUS
<1>3. Operation(run) /\ Queue(run, mode, work) /\ StepOf(run, h) /\ h.do \in DosOf(mode)
      /\ mode \in {"installing", "applying", "undoing", "reverting"}
  BY <1>1, <1>2, HeadStep
<1>5. mode = "applying"
  BY <1>1, <1>2, <1>3 DEF DosOf, Walks, Applies
<1>6. run.release \in Nat
  BY <1>3, OperationFacts, CatalogsAssumption DEF CatalogOK
<1>7. PICK st : st = [state EXCEPT !.release = run.release]
  OBVIOUS
<1>8. st \in States
  BY <1>6, <1>7 DEF UpdateShapes, States
<1>9. PICK more : more = WriteState(0, st) \o <<PlainStep("conclude", 0)>>
  OBVIOUS
<1>10. Queue(run, mode, more) /\ WritesLast(more, st)
  BY <1>3, <1>5, <1>8, <1>9, FinishQueue
<1>11. Proceed(more)
  BY <1>7, <1>9 DEF FinishApply
<1>12. Went(more)
  BY <1>11, ProceedGoes
<1> QED BY <1>5, <1>7, <1>8, <1>10, <1>12

\* A failure while undoing gives up the steps of one artifact.
LEMMA UndoGoes ==
    ASSUME UpdateShapes, UndoFails
    PROVE  \E more : /\ Went(more) /\ Queue(run, mode, more) /\ mode = "undoing" /\ work # <<>>
                     /\ \A s : Within(s, more) => Within(s, work)
                     /\ ~Hopeless(Head(work)) /\ used'.fault = used.fault + 1
                     /\ more # <<>> => Started(more)
<1>1. mode = "undoing" /\ work # <<>> /\ CostOf(Head(work))
  BY DEF UndoFails
<1>2. Queue(run, mode, work) /\ Head(work).do \in DosOf(mode)
  BY <1>1, HeadStep
<1>3. PICK n \in 1 .. Len(work) :
         /\ \A i \in 1 .. n : work[i].art = Head(work).art
         /\ n < Len(work) => work[n + 1].art # Head(work).art
         /\ Proceed(SubSeq(work, n + 1, Len(work)))
  BY DEF UndoFails
<1>4. PICK more : more = SubSeq(work, n + 1, Len(work))
  OBVIOUS
<1>5. Queue(run, mode, more) /\ \A s : Within(s, more) => Within(s, work)
  BY <1>2, <1>4, SuffixFacts
<1>6. Went(more)
  BY <1>3, <1>4, ProceedGoes
<1>7. ~Hopeless(Head(work))
  BY <1>1, <1>2 DEF DosOf, Hopeless, Walks
<1>8. used'.fault = used.fault + 1
  <2>1. PICK h : h = Head(work)
    OBVIOUS
  <2> QED BY <1>1, <1>7, <2>1, CostFacts
<1>9. more # <<>> => Started(more)
  <2> SUFFICES ASSUME more # <<>>, more[1].do \in Seconds PROVE FALSE
    BY DEF Started
  <2>1. work \in Seq(Steps) /\ n \in Nat /\ Len(work) \in Nat
    BY <1>2 DEF Queue
  <2>2. n < Len(work)
    <3> SUFFICES ASSUME ~(n < Len(work)) PROVE FALSE
      OBVIOUS
    <3>1. more = <<>>
      BY <1>3, <1>4, <2>1
    <3> QED BY <3>1
  <2>3. more[1] = work[n + 1]
    BY <1>4, <2>1, <2>2
  <2>4. n \in 1 .. Len(work) - 1 /\ n \in 1 .. n
    BY <2>1, <2>2
  <2>5. Linked(work[n], work[n + 1])
    BY <1>2, <2>4 DEF Queue, InOrder
  <2>6. work[n].art = work[n + 1].art
    BY <2>3, <2>5 DEF Linked
  <2> QED BY <1>3, <2>2, <2>4, <2>6
<1> QED BY <1>1, <1>5, <1>6, <1>7, <1>8, <1>9

\* A failed apply undoes what it did up to the artifact that failed.
LEMMA FailureGoes ==
    ASSUME UpdateShapes, ApplyFails
    PROVE  \E n \in 1 .. Len(run.arts) : \E more :
             /\ n = Head(work).art /\ more = RollbackArtifacts(run, n)
             /\ mode = "applying" /\ work # <<>> /\ Head(work).do # "check"
             /\ CostOf(Head(work)) /\ PlaceBack(Head(work))
             /\ Queue(run, "undoing", more) /\ Started(more)
             /\ run' = run /\ work' = more
             /\ \/ more = <<>> /\ mode' = "idle"
                \/ more # <<>> /\ mode' = "undoing" /\ entry' = entry
<1>1. mode = "applying" /\ work # <<>> /\ Head(work).art # 0 /\ Head(work).do # "check"
      /\ CostOf(Head(work)) /\ PlaceBack(Head(work))
  BY DEF ApplyFails
<1>2. PICK h : h = Head(work)
  OBVIOUS
<1>3. Operation(run) /\ StepOf(run, h) /\ h \in Steps /\ h.do \in Applies
  <2>1. Operation(run) /\ StepOf(run, h) /\ h \in Steps /\ h.do \in DosOf(mode)
    BY <1>1, <1>2, HeadStep
  <2> QED BY <1>1, <2>1 DEF DosOf
<1>4. h.art \in 1 .. Len(run.arts)
  <2>1. h.art # 0
    BY <1>1, <1>2
  <2>2. Len(run.arts) \in Nat
    BY <1>3, OperationFacts
  <2> QED BY <1>3, <2>1, <2>2 DEF StepOf, Applies, FileDos
<1>5. PICK n \in 1 .. Len(run.arts) : n = h.art
  BY <1>4
<1>6. PICK more : more = RollbackArtifacts(run, n)
  OBVIOUS
<1>7. Queue(run, "undoing", more) /\ Started(more)
  BY <1>3, <1>6, UndoQueue
<1>8. /\ run' = run /\ work' = more
      /\ \/ more = <<>> /\ mode' = "idle"
         \/ more # <<>> /\ mode' = "undoing" /\ entry' = entry
  BY <1>2, <1>5, <1>6 DEF ApplyFails, End
<1> QED BY <1>1, <1>2, <1>5, <1>6, <1>7, <1>8

LEMMA UnhealthyGoes ==
    ASSUME UpdateShapes, Unhealthy
    PROVE  /\ mode = "verifying" /\ Operation(run)
           /\ \/ mode' = "idle" /\ work' = <<>> /\ run' = run
              \/ /\ run.arts # <<"full">> /\ Len(run.arts) \in 1 .. Len(run.arts)
                 /\ mode' = "reverting" /\ work' = RollbackArtifacts(run, Len(run.arts))
                 /\ run' = run /\ entry' = entry
                 /\ Queue(run', mode', work') /\ Started(work')
<1>1. mode = "verifying" /\ Operation(run)
  BY DEF Unhealthy, UpdateShapes, OpOK, Busy
<1>2. Len(run.arts) \in 1 .. Len(run.arts)
  BY <1>1, OperationFacts
<1>3. CASE run.arts = <<"full">>
  BY <1>1, <1>3 DEF Unhealthy, End
<1>4. CASE run.arts # <<"full">>
  <2>1. mode' = "reverting" /\ work' = RollbackArtifacts(run, Len(run.arts))
        /\ run' = run /\ entry' = entry
    BY <1>4 DEF Unhealthy
  <2>2. PICK n \in 1 .. Len(run.arts) : n = Len(run.arts)
    BY <1>2
  <2>3. Queue(run, "reverting", RollbackArtifacts(run, n)) /\ Started(RollbackArtifacts(run, n))
    BY <1>1, UndoQueue
  <2> QED BY <1>1, <1>2, <1>4, <2>1, <2>2, <2>3
<1> QED BY <1>1, <1>3, <1>4

-----------------------------------------------------------------------------
(* Every step leaves the shape of the state as it should be.                  *)

LEMMA StageTyped ==
    ASSUME UpdateShapes, NEW cat \in Catalogs, Stage(cat)
    PROVE  UpdateShapes'
<1>1. /\ Use("stage") /\ PlanUpdate(state, cat) # <<>> /\ staged' = StagedOp(cat)
      /\ UNCHANGED <<marked, installed, backup, state, run, mode, work, entry>>
  BY DEF Stage, StagedOp
<1>2. Operation(staged') /\ Planned(staged')
  BY <1>1, StagedIsOperation
<1>3. used' \in [Bounds -> Nat] /\ used'.fault = used.fault
  BY <1>1, UseFacts DEF Bounds
<1> QED BY <1>1, <1>2, <1>3 DEF UpdateShapes, OpOK, Busy

LEMMA FilesTyped ==
    ASSUME UpdateShapes, NEW s, s.file \in Files, s.build \in Nat
    PROVE  /\ [installed EXCEPT ![s.file] = 0] \in FileMaps
           /\ [installed EXCEPT ![s.file] = s.build] \in FileMaps
           /\ [installed EXCEPT ![s.file] = backup[s.file]] \in FileMaps
           /\ [backup EXCEPT ![s.file] = 0] \in FileMaps
           /\ [backup EXCEPT ![s.file] = installed[s.file]] \in FileMaps
           /\ installed \in FileMaps /\ backup \in FileMaps
<1>1. installed \in FileMaps /\ backup \in FileMaps
  BY DEF UpdateShapes
<1>2. installed[s.file] \in Nat /\ backup[s.file] \in Nat
  BY <1>1 DEF FileMaps
<1> QED BY <1>1, <1>2 DEF FileMaps

LEMMA FileStepTyped ==
    ASSUME UpdateShapes,
           \/ DropBackup \/ KeepPrevious \/ Place \/ ClearInstalled \/ ReturnPrevious
    PROVE  UpdateShapes'
<1>1. PICK s : s = Head(work)
  OBVIOUS
<1>2. work # <<>> /\ Proceed(Tail(work)) /\ KeepsRest
  BY DEF DropBackup, KeepPrevious, Place, ClearInstalled, ReturnPrevious, Doing
<1>3. s.file \in Files /\ s.build \in Nat
  BY <1>1, <1>2, HeadStep
<1>4. installed' \in FileMaps /\ backup' \in FileMaps
  <2>1. CASE DropBackup
    BY <1>1, <1>3, <2>1, FilesTyped DEF DropBackup
  <2>2. CASE KeepPrevious
    BY <1>1, <1>3, <2>2, FilesTyped DEF KeepPrevious
  <2>3. CASE Place
    BY <1>1, <1>3, <2>3, FilesTyped DEF Place
  <2>4. CASE ClearInstalled
    BY <1>1, <1>3, <2>4, FilesTyped DEF ClearInstalled
  <2>5. CASE ReturnPrevious
    BY <1>1, <1>3, <2>5, FilesTyped DEF ReturnPrevious
  <2> QED BY <2>1, <2>2, <2>3, <2>4, <2>5
<1>5. Went(Tail(work)) /\ Queue(run, mode, Tail(work))
  BY <1>2, TailWent
<1>6. /\ marked' = marked /\ state' = state /\ staged' = staged /\ used' = used
  BY <1>2 DEF KeepsRest
<1>7. marked' \in BOOLEAN /\ state' \in States /\ OpOK(staged') /\ Planned(staged')
  BY <1>6 DEF UpdateShapes
<1>8. used' \in [Bounds -> Nat] /\ used'.fault = used.fault /\ used.fault <= used'.fault
  BY <1>6, SameUse
<1> QED BY <1>2, <1>4, <1>5, <1>7, <1>8, ShapesOnward

\* A step that moves no file.
LEMMA QuietStepTyped ==
    ASSUME UpdateShapes, Check \/ CommitBundle \/ FinishApply \/ WriteStateFile \/ MarkRoot
    PROVE  UpdateShapes'
<1>1. work # <<>> /\ installed' = installed /\ backup' = backup /\ staged' = staged /\ used' = used
  BY DEF Check, CommitBundle, FinishApply, WriteStateFile, MarkRoot, Doing, KeepsRest
<1>2. \E more : Went(more) /\ Queue(run, mode, more)
  <2>1. CASE Check \/ WriteStateFile \/ MarkRoot
    <3>1. Proceed(Tail(work))
      BY <2>1 DEF Check, WriteStateFile, MarkRoot
    <3> QED BY <1>1, <3>1, TailWent
  <2>2. CASE CommitBundle
    BY <2>2, CommitGoes
  <2>3. CASE FinishApply
    BY <2>3, FinishGoes
  <2> QED BY <2>1, <2>2, <2>3
<1>3. state' \in States /\ marked' \in BOOLEAN
  <2>1. state \in States /\ marked \in BOOLEAN
    BY DEF UpdateShapes
  <2>2. Head(work).state \in States
    BY <1>1, HeadStep
  <2> QED BY <2>1, <2>2 DEF Check, CommitBundle, FinishApply, WriteStateFile, MarkRoot, KeepsRest
<1>4. installed' \in FileMaps /\ backup' \in FileMaps /\ OpOK(staged') /\ Planned(staged')
  BY <1>1 DEF UpdateShapes
<1>5. used' \in [Bounds -> Nat] /\ used'.fault = used.fault /\ used.fault <= used'.fault
  BY <1>1, SameUse
<1>6. PICK more : Went(more) /\ Queue(run, mode, more)
  BY <1>2
<1> QED BY <1>1, <1>3, <1>4, <1>5, <1>6, ShapesOnward

LEMMA ConcludeTyped ==
    ASSUME UpdateShapes, NEW relaunch \in BOOLEAN, Conclude(relaunch)
    PROVE  UpdateShapes' /\ mode = "applying"
<1>1. /\ work # <<>> /\ Head(work).do = "conclude"
      /\ UNCHANGED <<marked, installed, backup, state, used>>
      /\ staged' = NoOp \/ staged' = staged
      /\ run' = run /\ work' = <<>>
      /\ (mode' = "verifying" /\ entry' = entry) \/ mode' = "idle"
  BY DEF Conclude, Doing, End
<1>2. mode = "applying" /\ Busy
  <2>1. PICK h : h = Head(work)
    OBVIOUS
  <2>2. h.do \in DosOf(mode) /\ mode \in {"installing", "applying", "undoing", "reverting"} /\ Busy
    BY <1>1, <2>1, HeadStep
  <2> QED BY <1>1, <2>1, <2>2 DEF DosOf, Walks, Applies
<1>3. /\ installed' \in FileMaps /\ backup' \in FileMaps /\ state' \in States
      /\ OpOK(staged') /\ Planned(staged') /\ marked' \in BOOLEAN
  BY <1>1 DEF UpdateShapes, OpOK, Planned
<1>4. used' \in [Bounds -> Nat] /\ used' = used
  BY <1>1, SameUse
<1>5. CASE mode' = "idle"
  BY <1>1, <1>2, <1>3, <1>4, <1>5, ShapesWhenIdle
<1>6. CASE mode' = "verifying" /\ entry' = entry
  <2>1. entry \in Entries /\ entry.faults <= used.fault /\ run # NoOp /\ entry.faults = used.fault
    BY <1>2 DEF UpdateShapes
  <2>2. Queue(run', mode', work')
    BY <1>1, EmptyQueue
  <2> QED BY <1>1, <1>2, <1>3, <1>4, <1>6, <2>1, <2>2 DEF UpdateShapes, Busy, UpdateModes
<1> QED BY <1>1, <1>5, <1>6

LEMMA EndingTyped ==
    ASSUME UpdateShapes, Healthy \/ StepFails \/ Killed
    PROVE  UpdateShapes' /\ mode' = "idle" /\ work' = <<>> /\ run' = run
<1>1. mode' = "idle" /\ work' = <<>> /\ run' = run
      /\ state' = state /\ staged' = staged /\ marked' = marked
  BY DEF Healthy, StepFails, Killed, End, KeepsRest
<1>2. used' \in [Bounds -> Nat]
  <2>1. CASE Healthy
    BY <2>1, SameUse DEF Healthy, KeepsRest
  <2>2. CASE StepFails
    BY <2>2, CostFacts DEF StepFails
  <2>3. CASE Killed
    BY <2>3, UseFacts DEF Killed, Bounds
  <2> QED BY <2>1, <2>2, <2>3
<1>3. installed' \in FileMaps /\ backup' \in FileMaps
  <2>1. CASE Healthy \/ Killed
    BY <2>1 DEF Healthy, Killed, UpdateShapes
  <2>2. CASE StepFails
    <3>1. PICK s : s = Head(work)
      OBVIOUS
    <3>2. work # <<>> /\ PlaceBack(s)
      BY <2>2, <3>1 DEF StepFails
    <3>3. s.file \in Files
      BY <3>1, <3>2, HeadStep
    <3> QED BY <3>2, <3>3, PlaceBackFacts
  <2> QED BY <2>1, <2>2
<1>4. state' \in States /\ OpOK(staged') /\ Planned(staged') /\ marked' \in BOOLEAN
  BY <1>1 DEF UpdateShapes
<1> QED BY <1>1, <1>2, <1>3, <1>4, ShapesWhenIdle

LEMMA FailureTyped ==
    ASSUME UpdateShapes, ApplyFails
    PROVE  UpdateShapes'
<1>1. PICK n \in 1 .. Len(run.arts) : \E more :
         /\ n = Head(work).art /\ more = RollbackArtifacts(run, n)
         /\ mode = "applying" /\ work # <<>> /\ Head(work).do # "check"
         /\ CostOf(Head(work)) /\ PlaceBack(Head(work))
         /\ Queue(run, "undoing", more) /\ Started(more)
         /\ run' = run /\ work' = more
         /\ \/ more = <<>> /\ mode' = "idle"
            \/ more # <<>> /\ mode' = "undoing" /\ entry' = entry
  BY FailureGoes
<1>2. PICK s : s = Head(work)
  OBVIOUS
<1>3. CostOf(s) /\ PlaceBack(s) /\ work # <<>> /\ mode = "applying"
      /\ Queue(run, "undoing", work') /\ run' = run
      /\ \/ work' = <<>> /\ mode' = "idle"
         \/ work' # <<>> /\ mode' = "undoing" /\ entry' = entry
  BY <1>1, <1>2
<1>4. s.file \in Files
  BY <1>2, <1>3, HeadStep
<1>5. installed' \in FileMaps /\ backup' \in FileMaps
  BY <1>3, <1>4, PlaceBackFacts
<1>6. used' \in [Bounds -> Nat] /\ used.fault <= used'.fault
  BY <1>3, CostFacts
<1>7. state' \in States /\ OpOK(staged') /\ Planned(staged') /\ marked' \in BOOLEAN
  BY DEF ApplyFails, UpdateShapes
<1>8. CASE work' = <<>> /\ mode' = "idle"
  BY <1>3, <1>5, <1>6, <1>7, <1>8, ShapesWhenIdle
<1>9. CASE work' # <<>> /\ mode' = "undoing" /\ entry' = entry
  <2>1. entry \in Entries /\ entry.faults <= used.fault /\ run # NoOp
    BY <1>3 DEF UpdateShapes, Busy
  <2>2. entry.faults <= used'.fault
    <3>1. entry.faults \in Nat /\ used.fault \in Nat /\ used'.fault \in Nat
      BY <1>6, <2>1 DEF Entries, Bounds, UpdateShapes
    <3> QED BY <1>6, <2>1, <3>1
  <2> QED BY <1>3, <1>5, <1>6, <1>7, <1>9, <2>1, <2>2 DEF UpdateShapes, Busy, UpdateModes
<1> QED BY <1>3, <1>8, <1>9

LEMMA UndoFailsTyped ==
    ASSUME UpdateShapes, UndoFails
    PROVE  UpdateShapes'
<1>1. PICK more : /\ Went(more) /\ Queue(run, mode, more) /\ mode = "undoing" /\ work # <<>>
                  /\ ~Hopeless(Head(work)) /\ used'.fault = used.fault + 1
  BY UndoGoes
<1>2. PICK s : s = Head(work)
  OBVIOUS
<1>3. CostOf(s) /\ UNCHANGED <<marked, installed, backup, state, staged>>
  BY <1>2 DEF UndoFails
<1>4. used' \in [Bounds -> Nat] /\ used.fault <= used'.fault
  BY <1>3, CostFacts
<1>5. /\ installed' \in FileMaps /\ backup' \in FileMaps /\ state' \in States
      /\ OpOK(staged') /\ Planned(staged') /\ marked' \in BOOLEAN
  BY <1>3 DEF UpdateShapes
<1> QED BY <1>1, <1>4, <1>5, ShapesOnward

LEMMA UnhealthyTyped ==
    ASSUME UpdateShapes, Unhealthy
    PROVE  UpdateShapes'
<1>1. UNCHANGED <<marked, installed, backup, state, staged, used>>
  BY DEF Unhealthy, KeepsRest
<1>2. /\ installed' \in FileMaps /\ backup' \in FileMaps /\ state' \in States
      /\ OpOK(staged') /\ Planned(staged') /\ marked' \in BOOLEAN /\ used' \in [Bounds -> Nat]
  BY <1>1 DEF UpdateShapes
<1>3. CASE mode' = "idle" /\ work' = <<>> /\ run' = run
  BY <1>2, <1>3, ShapesWhenIdle
<1>4. CASE ~(mode' = "idle" /\ work' = <<>> /\ run' = run)
  <2>1. /\ mode = "verifying" /\ mode' = "reverting" /\ run' = run /\ entry' = entry
        /\ work' = RollbackArtifacts(run, Len(run.arts))
        /\ Queue(run', mode', work')
    BY <1>4, UnhealthyGoes
  <2>2. entry \in Entries /\ entry.faults <= used.fault /\ run # NoOp
    BY <2>1 DEF UpdateShapes, Busy
  <2>3. work' # <<>>
    <3>1. Operation(run) /\ Planned(run) /\ run.arts # <<"full">> /\ Len(run.arts) \in 1 .. Len(run.arts)
      BY <1>4, <2>1, UnhealthyGoes DEF UpdateShapes
    <3>2. run.previous # NoState
      BY <3>1, PlannedFacts
    <3>3. PICK n \in 1 .. Len(run.arts) : n = Len(run.arts)
      BY <3>1
    <3>4. RollbackArtifacts(run, n) # <<>>
      <4> HIDE DEF Within, StepOf
      <4> QED BY <3>1, <3>2, RollbackArtifactsFacts
    <3> QED BY <2>1, <3>3, <3>4
  <2> QED BY <1>1, <1>2, <2>1, <2>2, <2>3 DEF UpdateShapes, Busy, UpdateModes
<1> QED BY <1>3, <1>4

LEMMA BeginTyped ==
    ASSUME UpdateShapes,
           \/ \E cat \in Catalogs, kind \in Kinds : Install(cat, kind)
           \/ ApplyStaged \/ RollbackStaged
    PROVE  UpdateShapes'
<1>1. CASE \E cat \in Catalogs, kind \in Kinds : Install(cat, kind)
  <2>1. PICK cat \in Catalogs, kind \in Kinds : Install(cat, kind)
    BY <1>1
  <2>2. PICK op, steps : op = InstalledOp(cat, kind) /\ steps = InstallSteps(cat, kind)
    OBVIOUS
  <2>3. Begin(op, "installing", steps) /\ Operation(op) /\ Queue(op, "installing", steps) /\ Use("install")
    BY <2>1, <2>2, InstallBegins
  <2>4. used' \in [Bounds -> Nat] /\ used'.fault = used.fault
    BY <2>3, UseFacts DEF Bounds
  <2> QED BY <2>3, <2>4, ShapesAtBegin
<1>2. CASE ApplyStaged
  <2>1. Begin(staged, "applying", ApplyArtifacts(staged)) /\ used' = used
        /\ Operation(staged) /\ Planned(staged) /\ Queue(staged, "applying", ApplyArtifacts(staged))
    BY <1>2, ApplyBegins
  <2>2. used' \in [Bounds -> Nat] /\ used'.fault = used.fault
    BY <2>1, SameUse
  <2> QED BY <2>1, <2>2, ShapesAtBegin
<1>3. CASE RollbackStaged
  <2>1. PICK steps : steps = RollbackArtifacts(run, Len(run.arts))
    OBVIOUS
  <2>2. Begin(run, "reverting", steps) /\ Operation(run) /\ Queue(run, "reverting", steps) /\ Use("rollback")
    BY <1>3, <2>1, RollbackBegins
  <2>3. used' \in [Bounds -> Nat] /\ used'.fault = used.fault
    BY <2>2, UseFacts DEF Bounds
  <2> QED BY <2>2, <2>3, ShapesAtBegin
<1> QED BY <1>1, <1>2, <1>3

\* What a step of an update is.
LEMMA UpdateSteps ==
    ASSUME UpdateNext
    PROVE  \/ \E cat \in Catalogs : Stage(cat)
           \/ \/ \E cat \in Catalogs, kind \in Kinds : Install(cat, kind)
              \/ ApplyStaged \/ RollbackStaged
           \/ DropBackup \/ KeepPrevious \/ Place \/ ClearInstalled \/ ReturnPrevious
           \/ Check \/ CommitBundle \/ FinishApply \/ WriteStateFile \/ MarkRoot
           \/ \E relaunch \in BOOLEAN : Conclude(relaunch)
           \/ Healthy \/ StepFails \/ Killed
           \/ ApplyFails \/ UndoFails \/ Unhealthy
BY DEF UpdateNext

LEMMA ShapesKept ==
    ASSUME UpdateShapes, [UpdateNext]_updateVars
    PROVE  UpdateShapes'
<1>1. CASE UNCHANGED updateVars
  BY <1>1 DEF updateVars, UpdateShapes, Busy
<1>2. CASE UpdateNext
  BY <1>2, UpdateSteps, StageTyped, BeginTyped, FileStepTyped, QuietStepTyped, ConcludeTyped,
     EndingTyped, FailureTyped, UndoFailsTyped, UnhealthyTyped
<1> QED BY <1>1, <1>2

LEMMA ShapesAtStart ==
    ASSUME UpdateInit
    PROVE  UpdateShapes
<1>1. installed \in FileMaps /\ backup \in FileMaps /\ state \in States
  <2>1. 0 \in Nat
    OBVIOUS
  <2> QED BY <2>1, NoStateTyped DEF UpdateInit, FileMaps
<1>2. used \in [Bounds -> Nat]
  BY DEF UpdateInit, Bounds
<1>3. Queue(run, mode, work) /\ work = <<>> /\ mode = "idle"
  BY EmptyQueue DEF UpdateInit
<1> QED BY <1>1, <1>2, <1>3 DEF UpdateInit, UpdateShapes, OpOK, Planned, Busy, UpdateModes

-----------------------------------------------------------------------------
(* No component update loses a file.                                          *)

Due(do, f) == \E s : Within(s, work) /\ s.do = do /\ s.file = f
Now(do, f) == work # <<>> /\ Head(work).do = do /\ Head(work).file = f
PartUpdate == Busy /\ run.arts # <<"full">>
OthersCopy(f, b) == b # 0 /\ [file |-> f, build |-> b] \notin OpFiles(run)
Forward == {"installing", "applying"}
Backward == {"undoing", "reverting"}

NotLost(f) ==
    OthersCopy(f, entry.installed[f]) =>
        /\ mode \in Forward \cup {"verifying"} =>
              OthersCopy(f, installed[f]) \/ OthersCopy(f, backup[f])
        /\ mode \in Forward /\ (Due("drop", f) \/ Due("keep", f)) =>
              installed[f] = entry.installed[f]
        /\ mode \in Backward =>
              \/ OthersCopy(f, installed[f])
              \/ backup[f] # 0
              \/ installed[f] # 0 /\ ~Due("clear", f)
StillKept(f) ==
    OthersCopy(f, entry.backup[f]) /\ used.fault = entry.faults =>
        /\ mode \in Forward =>
              backup[f] # 0 \/ (installed[f] # 0 /\ Now("keep", f))
        /\ mode = "verifying" => backup[f] # 0
        /\ mode \in Backward =>
              backup[f] # 0 \/ (installed[f] # 0 /\ ~Due("clear", f))
PlaceIsFree == work # <<>> /\ Head(work).do = "place" => installed[Head(work).file] = 0

LossInv ==
    /\ PlaceIsFree
    /\ PartUpdate => \A f \in Files : NotLost(f) /\ StillKept(f)

\* The files of an operation are those of its manifests.
LEMMA OpFilesFacts ==
    ASSUME NEW op, Operation(op)
    PROVE  \A x : x \in OpFiles(op) <=> \E n \in 1 .. Len(op.arts) : x \in ItemsOf(op, n)
<1>1. DOMAIN op.arts = 1 .. Len(op.arts)
  BY OperationFacts
<1>2. \A n \in 1 .. Len(op.arts) : ItemsOf(op, n) \subseteq Items
  BY ItemsFacts
<1> DEFINE R(n) == {[file |-> i.file, build |-> i.build] : i \in ItemsOf(op, n)}
<1>3. OpFiles(op) = UNION {R(n) : n \in 1 .. Len(op.arts)}
  BY <1>1 DEF OpFiles, ItemsOf
<1>4. ASSUME NEW n \in 1 .. Len(op.arts)
      PROVE  R(n) = ItemsOf(op, n)
  <2>1. \A i \in ItemsOf(op, n) : [file |-> i.file, build |-> i.build] = i
    BY <1>2 DEF Items
  <2> HIDE DEF ItemsOf
  <2> QED BY <2>1
<1> HIDE DEF R
<1> QED BY <1>3, <1>4

\* In a component update every step on a file keeps what it replaces.
LEMMA StepFiles ==
    ASSUME UpdateShapes, work # <<>>, Head(work).do \in FileDos
    PROVE  /\ [file |-> Head(work).file, build |-> Head(work).build] \in OpFiles(run)
           /\ Head(work).do \in {"drop", "keep", "place"} =>
                 mode \in Forward /\ (Head(work).preserve <=> run.arts # <<"full">>)
           /\ Head(work).do \in Walks => mode \in Backward
           /\ Head(work).art \in 1 .. Len(run.arts)
<1>1. PICK h : h = Head(work)
  OBVIOUS
<1>2. /\ Operation(run) /\ StepOf(run, h) /\ h.do \in DosOf(mode) /\ h.do \in FileDos
      /\ mode \in {"installing", "applying", "undoing", "reverting"}
  BY <1>1, HeadStep
<1>3. h.art \in 1 .. Len(run.arts) /\ [file |-> h.file, build |-> h.build] \in ItemsOf(run, h.art)
  BY <1>2 DEF StepOf
<1>4. [file |-> h.file, build |-> h.build] \in OpFiles(run)
  BY <1>2, <1>3, OpFilesFacts
<1>5. run.arts[h.art] = "full" <=> run.arts = <<"full">>
  BY <1>2, <1>3, OperationFacts
<1>6. h.do \in {"drop", "keep", "place"} =>
         mode \in Forward /\ (h.preserve <=> run.arts # <<"full">>)
  BY <1>2, <1>5 DEF StepOf, DosOf, Walks, Forward
<1>7. h.do \in Walks => mode \in Backward
  BY <1>2 DEF DosOf, Walks, Applies, Backward
<1> QED BY <1>1, <1>3, <1>4, <1>6, <1>7

LEMMA AfterStep ==
    ASSUME UpdateShapes, work # <<>>, Went(Tail(work)), NEW s, s = Head(work)
    PROVE  /\ run' = run
           /\ Busy' => mode' = mode /\ entry' = entry /\ work' # <<>>
           /\ \A do, f : Due(do, f)' => Due(do, f)
           /\ s.do \in FileDos => \A do \in FileDos : Due(do, s.file)' => Turn(s.do) < Turn(do)
           /\ s.do = "drop" => Now("keep", s.file)'
           /\ work' # <<>> /\ Head(work').do = "place" => s.do = "keep" /\ Head(work').file = s.file
<1>1. /\ run' = run /\ work' = Tail(work)
      /\ Busy' => mode' = mode /\ entry' = entry /\ work' # <<>>
  BY DEF Went, Busy
<1>2. /\ Queue(run, mode, work)
      /\ \A t : Within(t, work) <=> t = s \/ Within(t, Tail(work))
  BY HeadStep
<1>3. /\ \A t : Within(t, Tail(work)) => Precedes(s, t)
      /\ Tail(work) # <<>> => Linked(s, Head(Tail(work)))
      /\ s.do \in Firsts => Tail(work) # <<>>
  BY <1>2, RestFacts
<1>4. ASSUME NEW do, NEW f, Due(do, f)' PROVE Due(do, f)
  <2>1. PICK t : Within(t, Tail(work)) /\ t.do = do /\ t.file = f
    BY <1>1, <1>4 DEF Due
  <2> QED BY <1>2, <2>1 DEF Due
<1>5. ASSUME s.do \in FileDos, NEW do \in FileDos, Due(do, s.file)' PROVE Turn(s.do) < Turn(do)
  <2>1. PICK t : Within(t, Tail(work)) /\ t.do = do /\ t.file = s.file
    BY <1>1, <1>5 DEF Due
  <2>2. Precedes(s, t)
    BY <1>3, <2>1
  <2> QED BY <1>5, <2>1, <2>2 DEF Precedes
<1>6. ASSUME s.do = "drop" PROVE Now("keep", s.file)'
  <2>1. Tail(work) # <<>>
    BY <1>3, <1>6 DEF Firsts
  <2>2. PICK t : t = Head(Tail(work))
    OBVIOUS
  <2>3. Linked(s, t)
    BY <1>3, <2>1, <2>2
  <2>4. t.do = "keep" /\ t.file = s.file
    BY <1>6, <2>3 DEF Linked, Firsts
  <2> QED BY <1>1, <2>1, <2>2, <2>4 DEF Now
<1>7. ASSUME work' # <<>>, Head(work').do = "place" PROVE s.do = "keep" /\ Head(work').file = s.file
  <2>1. PICK t : t = Head(Tail(work))
    OBVIOUS
  <2>2. Linked(s, t) /\ t.do = "place" /\ Head(work') = t
    BY <1>1, <1>3, <1>7, <2>1
  <2>3. s.do = "keep" /\ t.file = s.file
    BY <2>2 DEF Linked, Firsts
  <2> QED BY <2>2, <2>3
<1> QED BY <1>1, <1>4, <1>5, <1>6, <1>7

\* A file that the step has nothing to do with.
LEMMA UntouchedStays ==
    ASSUME LossInv, PartUpdate, NEW f \in Files, ~Now("keep", f),
           installed'[f] = installed[f], backup'[f] = backup[f],
           mode' = mode, entry' = entry, run' = run, used'.fault = used.fault,
           \A do : Due(do, f)' => Due(do, f)
    PROVE  NotLost(f)' /\ StillKept(f)'
<1>1. NotLost(f) /\ StillKept(f)
  BY DEF LossInv
<1>2. \A b : b # 0 /\ [file |-> f, build |-> b] \notin OpFiles(run') <=> OthersCopy(f, b)
  BY DEF OthersCopy
<1>3. NotLost(f)'
  BY <1>1, <1>2 DEF NotLost, OthersCopy
<1>4. StillKept(f)'
  BY <1>1, <1>2 DEF StillKept, OthersCopy
<1> QED BY <1>3, <1>4

LEMMA QuietKeepsFiles ==
    ASSUME UpdateShapes, LossInv, Check \/ CommitBundle \/ FinishApply \/ WriteStateFile \/ MarkRoot
    PROVE  LossInv'
<1>1. /\ work # <<>> /\ installed' = installed /\ backup' = backup /\ used' = used
      /\ Head(work).do \in {"check", "open", "commit", "finish", "remove", "rename", "mark"}
  BY DEF Check, CommitBundle, FinishApply, WriteStateFile, MarkRoot, Doing, KeepsRest
<1>2. PICK s : s = Head(work)
  OBVIOUS
<1>3. \E more : /\ Went(more)
                /\ \A t : Within(t, more) => Within(t, work) \/ t.do \in {"remove", "rename", "conclude"}
                /\ more # <<>> => Head(more).do # "place"
  <2>1. CASE Check \/ WriteStateFile \/ MarkRoot
    <3>1. Proceed(Tail(work))
      BY <2>1 DEF Check, WriteStateFile, MarkRoot
    <3>2. Went(Tail(work))
      BY <1>1, <3>1, TailWent
    <3>3. \A t : Within(t, Tail(work)) => Within(t, work)
      BY <1>1, HeadStep
    <3>4. Tail(work) # <<>> => Head(Tail(work)).do # "place"
      <4>1. work' = Tail(work)
        BY <3>2 DEF Went
      <4>2. work' # <<>> /\ Head(work').do = "place" => s.do = "keep"
        BY <1>1, <1>2, <3>2, AfterStep
      <4> QED BY <1>1, <1>2, <4>1, <4>2
    <3> QED BY <3>2, <3>3, <3>4
  <2>2. CASE CommitBundle
    <3>1. PICK more : \E st \in States : Went(more) /\ WritesState(more, st, Tail(work))
      BY <2>2, CommitGoes
    <3>2. /\ Head(more).do = "remove"
          /\ \A t : Within(t, more) => Within(t, Tail(work)) \/ t.do \in {"remove", "rename"}
      BY <3>1 DEF WritesState
    <3>3. \A t : Within(t, Tail(work)) => Within(t, work)
      BY <1>1, HeadStep
    <3>4. \A t : Within(t, more) => Within(t, work) \/ t.do \in {"remove", "rename", "conclude"}
      BY <3>2, <3>3
    <3> QED BY <3>1, <3>2, <3>4
  <2>3. CASE FinishApply
    <3>1. PICK more : \E st \in States : Went(more) /\ WritesLast(more, st)
      BY <2>3, FinishGoes
    <3>2. /\ Head(more).do = "remove"
          /\ \A t : Within(t, more) => t.do \in {"remove", "rename", "conclude"}
      BY <3>1 DEF WritesLast
    <3> QED BY <3>1, <3>2
  <2> QED BY <2>1, <2>2, <2>3
<1>4. PICK more : /\ Went(more)
                  /\ \A t : Within(t, more) => Within(t, work) \/ t.do \in {"remove", "rename", "conclude"}
                  /\ more # <<>> => Head(more).do # "place"
  BY <1>3
<1>5. PlaceIsFree'
  BY <1>4 DEF PlaceIsFree, Went
<1>6. ASSUME PartUpdate', NEW f \in Files PROVE NotLost(f)' /\ StillKept(f)'
  <2>1. mode' = mode /\ entry' = entry /\ run' = run /\ work' = more /\ PartUpdate
    BY <1>4, <1>6 DEF Went, PartUpdate, Busy
  <2>2. ~Now("keep", f)
    BY <1>1 DEF Now
  <2>3. ASSUME NEW do \in {"drop", "keep", "clear"}, Due(do, f)' PROVE Due(do, f)
    <3>1. PICK t : Within(t, more) /\ t.do = do /\ t.file = f
      BY <2>1, <2>3 DEF Due
    <3> QED BY <1>4, <3>1 DEF Due
  <2>4. NotLost(f) /\ StillKept(f)
    BY <2>1 DEF LossInv
  <2>5. \A b : b # 0 /\ [file |-> f, build |-> b] \notin OpFiles(run') <=> OthersCopy(f, b)
    BY <2>1 DEF OthersCopy
  <2>6. NotLost(f)'
    BY <1>1, <2>1, <2>3, <2>4, <2>5 DEF NotLost, OthersCopy
  <2>7. StillKept(f)'
    BY <1>1, <2>1, <2>2, <2>3, <2>4, <2>5 DEF StillKept, OthersCopy
  <2> QED BY <2>6, <2>7
<1> QED BY <1>5, <1>6 DEF LossInv

\* The five steps on a file, for the file itself.
LEMMA DropLosesNothing ==
    ASSUME UpdateShapes, LossInv, PartUpdate, DropBackup, NEW s, s = Head(work), PartUpdate'
    PROVE  NotLost(s.file)' /\ StillKept(s.file)'
<1>1. /\ work # <<>> /\ s.do = "drop" /\ Proceed(Tail(work)) /\ used' = used
      /\ installed' = installed
      /\ backup' = IF installed[s.file] # 0 THEN [backup EXCEPT ![s.file] = 0] ELSE backup
  BY DEF DropBackup, Doing, KeepsRest
<1>2. s.file \in Files /\ Within(s, work)
  BY <1>1, HeadStep
<1>3. Went(Tail(work))
  BY <1>1, ProceedGoes
<1>4. /\ run' = run /\ mode' = mode /\ entry' = entry /\ Now("keep", s.file)'
  BY <1>1, <1>3, AfterStep DEF PartUpdate
<1>5. mode \in Forward
  BY <1>1, StepFiles DEF FileDos, Forward
<1>6. NotLost(s.file) /\ StillKept(s.file)
  BY <1>2 DEF LossInv
<1>7. Due("drop", s.file)
  BY <1>1, <1>2 DEF Due
<1>8. ~Now("keep", s.file)
  BY <1>1 DEF Now
<1>9. mode \notin Backward /\ mode # "verifying"
  BY <1>5 DEF Forward, Backward
<1>10. NotLost(s.file)'
  BY <1>1, <1>2, <1>4, <1>5, <1>6, <1>7, <1>9 DEF NotLost, OthersCopy
<1>11. StillKept(s.file)'
  <2>1. backup \in FileMaps
    BY DEF UpdateShapes
  <2>2. installed[s.file] # 0 \/ backup' = backup
    BY <1>1
  <2> QED BY <1>1, <1>2, <1>4, <1>5, <1>6, <1>8, <1>9, <2>2 DEF StillKept, OthersCopy
<1> QED BY <1>10, <1>11

LEMMA KeepLosesNothing ==
    ASSUME UpdateShapes, LossInv, PartUpdate, KeepPrevious, NEW s, s = Head(work), PartUpdate'
    PROVE  NotLost(s.file)' /\ StillKept(s.file)'
<1>1. /\ work # <<>> /\ s.do = "keep" /\ Proceed(Tail(work)) /\ used' = used
      /\ backup' = IF installed[s.file] # 0 /\ s.preserve
                     THEN [backup EXCEPT ![s.file] = installed[s.file]] ELSE backup
      /\ installed' = [installed EXCEPT ![s.file] = 0]
  BY DEF KeepPrevious, Doing, KeepsRest
<1>2. s.file \in Files /\ Within(s, work)
  BY <1>1, HeadStep
<1>3. Went(Tail(work))
  BY <1>1, ProceedGoes
<1>4. /\ run' = run /\ mode' = mode /\ entry' = entry
      /\ \A do \in FileDos : Due(do, s.file)' => Turn(s.do) < Turn(do)
  BY <1>1, <1>3, AfterStep DEF PartUpdate, FileDos
<1>5. mode \in Forward /\ s.preserve
  BY <1>1, StepFiles DEF FileDos, PartUpdate
<1>6. NotLost(s.file) /\ StillKept(s.file)
  BY <1>2 DEF LossInv
<1>7. Due("keep", s.file)
  BY <1>1, <1>2 DEF Due
<1>8. ~Due("drop", s.file)' /\ ~Due("keep", s.file)'
  BY <1>1, <1>4 DEF Turn, FileDos
<1>9. mode \notin Backward /\ mode # "verifying"
  BY <1>5 DEF Forward, Backward
<1>10. installed[s.file] # 0 => backup'[s.file] = installed[s.file]
  BY <1>1, <1>2, <1>5 DEF UpdateShapes, FileMaps
<1>11. installed[s.file] = 0 => backup'[s.file] = backup[s.file]
  BY <1>1
<1>12. NotLost(s.file)'
  BY <1>4, <1>5, <1>6, <1>7, <1>8, <1>9, <1>10 DEF NotLost, OthersCopy
<1>13. StillKept(s.file)'
  BY <1>1, <1>4, <1>5, <1>6, <1>9, <1>10, <1>11 DEF StillKept, OthersCopy
<1> QED BY <1>12, <1>13

LEMMA PlaceLosesNothing ==
    ASSUME UpdateShapes, LossInv, PartUpdate, Place, NEW s, s = Head(work), PartUpdate'
    PROVE  NotLost(s.file)' /\ StillKept(s.file)'
<1>1. /\ work # <<>> /\ s.do = "place" /\ Proceed(Tail(work)) /\ used' = used
      /\ backup' = backup /\ installed' = [installed EXCEPT ![s.file] = s.build]
  BY DEF Place, Doing, KeepsRest
<1>2. s.file \in Files /\ Within(s, work)
  BY <1>1, HeadStep
<1>3. Went(Tail(work))
  BY <1>1, ProceedGoes
<1>4. /\ run' = run /\ mode' = mode /\ entry' = entry
      /\ \A do \in FileDos : Due(do, s.file)' => Turn(s.do) < Turn(do)
  BY <1>1, <1>3, AfterStep DEF PartUpdate, FileDos
<1>5. mode \in Forward
  BY <1>1, StepFiles DEF FileDos, PartUpdate
<1>6. NotLost(s.file) /\ StillKept(s.file) /\ installed[s.file] = 0
  BY <1>1, <1>2 DEF LossInv, PlaceIsFree
<1>8. ~Due("drop", s.file)' /\ ~Due("keep", s.file)'
  BY <1>1, <1>4 DEF Turn, FileDos, Walks
<1>9. mode \notin Backward /\ mode # "verifying" /\ ~Now("keep", s.file)
  BY <1>1, <1>5 DEF Forward, Backward, Now
<1>12. NotLost(s.file)'
  BY <1>1, <1>4, <1>5, <1>6, <1>8, <1>9 DEF NotLost, OthersCopy
<1>13. StillKept(s.file)'
  BY <1>1, <1>4, <1>5, <1>6, <1>9 DEF StillKept, OthersCopy
<1> QED BY <1>12, <1>13

LEMMA ClearLosesNothing ==
    ASSUME UpdateShapes, LossInv, PartUpdate, ClearInstalled, NEW s, s = Head(work), PartUpdate'
    PROVE  NotLost(s.file)' /\ StillKept(s.file)'
<1>1. /\ work # <<>> /\ s.do = "clear" /\ Proceed(Tail(work)) /\ used' = used
      /\ backup' = backup
      /\ installed' = IF backup[s.file] # 0 \/ installed[s.file] = s.build
                        THEN [installed EXCEPT ![s.file] = 0] ELSE installed
  BY DEF ClearInstalled, Doing, KeepsRest
<1>2. s.file \in Files /\ Within(s, work)
  BY <1>1, HeadStep
<1>3. Went(Tail(work))
  BY <1>1, ProceedGoes
<1>4. run' = run /\ mode' = mode /\ entry' = entry
  BY <1>1, <1>3, AfterStep DEF PartUpdate, FileDos
<1>5. mode \in Backward /\ [file |-> s.file, build |-> s.build] \in OpFiles(run)
  BY <1>1, StepFiles DEF FileDos, Walks
<1>6. NotLost(s.file) /\ StillKept(s.file)
  BY <1>1, <1>2 DEF LossInv
<1>7. Due("clear", s.file)
  BY <1>1, <1>2 DEF Due
<1>9. mode \notin Forward /\ mode # "verifying"
  BY <1>5 DEF Forward, Backward
<1>10. OthersCopy(s.file, installed[s.file]) => installed[s.file] # s.build
  BY <1>5 DEF OthersCopy
<1>11. backup[s.file] = 0 /\ installed[s.file] # s.build => installed' = installed
  BY <1>1
<1>12. NotLost(s.file)'
  BY <1>1, <1>4, <1>5, <1>6, <1>7, <1>9, <1>10, <1>11 DEF NotLost, OthersCopy
<1>13. StillKept(s.file)'
  BY <1>1, <1>4, <1>5, <1>6, <1>7, <1>9 DEF StillKept, OthersCopy
<1> QED BY <1>12, <1>13

LEMMA ReturnLosesNothing ==
    ASSUME UpdateShapes, LossInv, PartUpdate, ReturnPrevious, NEW s, s = Head(work), PartUpdate'
    PROVE  NotLost(s.file)' /\ StillKept(s.file)'
<1>1. /\ work # <<>> /\ s.do = "return" /\ Proceed(Tail(work)) /\ used' = used
      /\ IF backup[s.file] # 0
           THEN /\ installed' = [installed EXCEPT ![s.file] = backup[s.file]]
                /\ backup' = [backup EXCEPT ![s.file] = 0]
           ELSE UNCHANGED <<installed, backup>>
  BY DEF ReturnPrevious, Doing, KeepsRest
<1>2. s.file \in Files /\ Within(s, work)
  BY <1>1, HeadStep
<1>3. Went(Tail(work))
  BY <1>1, ProceedGoes
<1>4. /\ run' = run /\ mode' = mode /\ entry' = entry
      /\ \A do \in FileDos : Due(do, s.file)' => Turn(s.do) < Turn(do)
  BY <1>1, <1>3, AfterStep DEF PartUpdate, FileDos, Walks
<1>5. mode \in Backward
  BY <1>1, StepFiles DEF FileDos, Walks
<1>6. NotLost(s.file) /\ StillKept(s.file)
  BY <1>1, <1>2 DEF LossInv
<1>7. ~Due("clear", s.file)'
  BY <1>1, <1>4 DEF Turn, FileDos, Walks
<1>9. mode \notin Forward /\ mode # "verifying"
  BY <1>5 DEF Forward, Backward
<1>10. backup[s.file] # 0 => installed'[s.file] # 0
  BY <1>1, <1>2 DEF UpdateShapes, FileMaps
<1>11. backup[s.file] = 0 => installed' = installed /\ backup' = backup
  BY <1>1
<1>12. NotLost(s.file)'
  BY <1>4, <1>5, <1>6, <1>7, <1>9, <1>10, <1>11 DEF NotLost, OthersCopy
<1>13. StillKept(s.file)'
  BY <1>1, <1>4, <1>5, <1>6, <1>7, <1>9, <1>10, <1>11 DEF StillKept, OthersCopy
<1> QED BY <1>12, <1>13

LEMMA FileStepsLoseNothing ==
    ASSUME UpdateShapes, LossInv,
           \/ DropBackup \/ KeepPrevious \/ Place \/ ClearInstalled \/ ReturnPrevious
    PROVE  LossInv'
<1>1. PICK s : s = Head(work)
  OBVIOUS
<1>2. work # <<>> /\ Proceed(Tail(work)) /\ used' = used
      /\ s.do \in {"drop", "keep", "place", "clear", "return"}
  BY <1>1 DEF DropBackup, KeepPrevious, Place, ClearInstalled, ReturnPrevious, Doing, KeepsRest
<1>3. Went(Tail(work)) /\ s.file \in Files
  BY <1>1, <1>2, HeadStep, ProceedGoes
<1>4. /\ run' = run
      /\ Busy' => mode' = mode /\ entry' = entry /\ work' # <<>>
      /\ \A do, f : Due(do, f)' => Due(do, f)
      /\ work' # <<>> /\ Head(work').do = "place" => s.do = "keep" /\ Head(work').file = s.file
  BY <1>1, <1>2, <1>3, AfterStep
<1>5. \A f \in Files : f # s.file => installed'[f] = installed[f] /\ backup'[f] = backup[f]
  <2>1. installed \in FileMaps /\ backup \in FileMaps
    BY DEF UpdateShapes
  <2> SUFFICES ASSUME NEW f \in Files, f # s.file
               PROVE  installed'[f] = installed[f] /\ backup'[f] = backup[f]
    OBVIOUS
  <2>2. CASE DropBackup
    BY <1>1, <2>1, <2>2 DEF DropBackup, FileMaps
  <2>3. CASE KeepPrevious
    <3>1. backup' = backup \/ backup' = [backup EXCEPT ![s.file] = installed[s.file]]
      BY <1>1, <2>3 DEF KeepPrevious
    <3>2. installed' = [installed EXCEPT ![s.file] = 0]
      BY <1>1, <2>3 DEF KeepPrevious
    <3> QED BY <2>1, <3>1, <3>2 DEF FileMaps
  <2>4. CASE Place
    BY <1>1, <2>1, <2>4 DEF Place, FileMaps
  <2>5. CASE ClearInstalled
    BY <1>1, <2>1, <2>5 DEF ClearInstalled, FileMaps
  <2>6. CASE ReturnPrevious
    BY <1>1, <2>1, <2>6 DEF ReturnPrevious, FileMaps
  <2> QED BY <2>2, <2>3, <2>4, <2>5, <2>6
<1>6. PlaceIsFree'
  <2> SUFFICES ASSUME work' # <<>>, Head(work').do = "place" PROVE installed'[Head(work').file] = 0
    BY DEF PlaceIsFree
  <2>1. s.do = "keep" /\ Head(work').file = s.file
    BY <1>4
  <2>2. installed' = [installed EXCEPT ![s.file] = 0]
    BY <1>1, <2>1 DEF DropBackup, KeepPrevious, Place, ClearInstalled, ReturnPrevious, Doing
  <2> QED BY <1>3, <2>1, <2>2 DEF UpdateShapes, FileMaps
<1>7. ASSUME PartUpdate', NEW f \in Files PROVE NotLost(f)' /\ StillKept(f)'
  <2>1. mode' = mode /\ entry' = entry /\ PartUpdate
    BY <1>4, <1>7 DEF PartUpdate, Busy
  <2>2. CASE f = s.file
    BY <1>1, <1>7, <2>1, <2>2, DropLosesNothing, KeepLosesNothing, PlaceLosesNothing,
       ClearLosesNothing, ReturnLosesNothing
  <2>3. CASE f # s.file
    <3>1. ~Now("keep", f)
      BY <1>1, <2>3 DEF Now
    <3> QED BY <1>2, <1>4, <1>5, <2>1, <2>3, <3>1, UntouchedStays
  <2> QED BY <2>2, <2>3
<1> QED BY <1>6, <1>7 DEF LossInv

LEMMA IdleLosesNothing ==
    ASSUME mode' = "idle", work' = <<>>
    PROVE  LossInv'
BY DEF LossInv, PlaceIsFree, PartUpdate, Busy

LEMMA StageLosesNothing ==
    ASSUME UpdateShapes, LossInv, NEW cat, Stage(cat)
    PROVE  LossInv'
<1>1. UNCHANGED <<marked, installed, backup, state, run, mode, work, entry>> /\ Use("stage")
  BY DEF Stage
<1>2. used'.fault = used.fault
  BY <1>1, UseFacts DEF Bounds
<1> QED BY <1>1, <1>2 DEF LossInv, PlaceIsFree, PartUpdate, Busy, NotLost, StillKept, OthersCopy, Due, Now

LEMMA BeginLosesNothing ==
    ASSUME UpdateShapes, NEW op, NEW how \in {"installing", "applying", "reverting"}, NEW steps,
           Begin(op, how, steps), Started(steps)
    PROVE  LossInv'
<1>1. /\ mode' = how /\ work' = steps /\ steps # <<>> /\ run' = op
      /\ entry' = [installed |-> installed, backup |-> backup, state |-> state, faults |-> used.fault]
      /\ installed' = installed /\ backup' = backup
  BY DEF Begin
<1>2. entry'.installed = installed' /\ entry'.backup = backup'
  BY <1>1
<1>3. PlaceIsFree'
  <2>1. Head(steps).do \notin Seconds
    BY <1>1 DEF Started
  <2> QED BY <1>1, <2>1 DEF PlaceIsFree, Seconds
<1>4. ASSUME NEW f \in Files PROVE NotLost(f)' /\ StillKept(f)'
  <2>1. NotLost(f)'
    BY <1>2 DEF NotLost, OthersCopy
  <2>2. mode' # "verifying"
    BY <1>1
  <2>3. StillKept(f)'
    BY <1>2, <2>2 DEF StillKept, OthersCopy
  <2> QED BY <2>1, <2>3
<1> QED BY <1>3, <1>4 DEF LossInv

LEMMA BeginningsLoseNothing ==
    ASSUME UpdateShapes,
           \/ \E cat \in Catalogs, kind \in Kinds : Install(cat, kind)
           \/ ApplyStaged \/ RollbackStaged
    PROVE  LossInv'
<1>1. CASE \E cat \in Catalogs, kind \in Kinds : Install(cat, kind)
  <2>1. PICK cat \in Catalogs, kind \in Kinds : Install(cat, kind)
    BY <1>1
  <2>2. PICK op, steps : op = InstalledOp(cat, kind) /\ steps = InstallSteps(cat, kind)
    OBVIOUS
  <2>3. Begin(op, "installing", steps) /\ Started(steps)
    BY <2>1, <2>2, InstallBegins
  <2> QED BY <2>3, BeginLosesNothing
<1>2. CASE ApplyStaged
  BY <1>2, ApplyBegins, BeginLosesNothing
<1>3. CASE RollbackStaged
  <2>1. PICK steps : steps = RollbackArtifacts(run, Len(run.arts))
    OBVIOUS
  <2>2. Begin(run, "reverting", steps) /\ Started(steps)
    BY <1>3, <2>1, RollbackBegins
  <2> QED BY <2>2, BeginLosesNothing
<1> QED BY <1>1, <1>2, <1>3

LEMMA ConcludeLosesNothing ==
    ASSUME UpdateShapes, LossInv, NEW relaunch \in BOOLEAN, Conclude(relaunch)
    PROVE  LossInv'
<1>1. /\ work # <<>> /\ Head(work).do = "conclude"
      /\ UNCHANGED <<marked, installed, backup, state, used>>
      /\ run' = run /\ work' = <<>>
      /\ (mode' = "verifying" /\ entry' = entry) \/ mode' = "idle"
  BY DEF Conclude, Doing, End
<1>2. mode = "applying"
  BY ConcludeTyped
<1>3. CASE mode' = "idle"
  BY <1>1, <1>3, IdleLosesNothing
<1>4. CASE mode' = "verifying" /\ entry' = entry
  <2>1. ASSUME PartUpdate', NEW f \in Files PROVE NotLost(f)' /\ StillKept(f)'
    <3>1. PartUpdate
      BY <1>1, <1>2, <2>1 DEF PartUpdate, Busy
    <3>2. NotLost(f) /\ StillKept(f) /\ ~Now("keep", f)
      BY <1>1, <3>1 DEF LossInv, Now
    <3>3. NotLost(f)'
      BY <1>1, <1>2, <1>4, <3>2 DEF NotLost, OthersCopy, Forward, Backward
    <3>4. StillKept(f)'
      BY <1>1, <1>2, <1>4, <3>2 DEF StillKept, OthersCopy, Forward, Backward
    <3> QED BY <3>3, <3>4
  <2>2. PlaceIsFree'
    BY <1>1 DEF PlaceIsFree
  <2> QED BY <2>1, <2>2 DEF LossInv
<1> QED BY <1>1, <1>3, <1>4

LEMMA UnhealthyLosesNothing ==
    ASSUME UpdateShapes, LossInv, Unhealthy
    PROVE  LossInv'
<1>1. UNCHANGED <<marked, installed, backup, state, staged, used>>
  BY DEF Unhealthy, KeepsRest
<1>2. CASE mode' = "idle" /\ work' = <<>> /\ run' = run
  BY <1>2, IdleLosesNothing
<1>3. CASE ~(mode' = "idle" /\ work' = <<>> /\ run' = run)
  <2>1. /\ mode = "verifying" /\ mode' = "reverting" /\ run' = run /\ entry' = entry /\ Started(work')
    BY <1>3, UnhealthyGoes
  <2>2. PlaceIsFree'
    <3> SUFFICES ASSUME work' # <<>> PROVE Head(work').do # "place"
      BY DEF PlaceIsFree
    <3>1. work'[1].do \notin Seconds
      BY <2>1 DEF Started
    <3> QED BY <3>1 DEF Seconds
  <2>3. ASSUME PartUpdate', NEW f \in Files PROVE NotLost(f)' /\ StillKept(f)'
    <3>1. PartUpdate
      BY <2>1, <2>3 DEF PartUpdate, Busy
    <3>2. NotLost(f) /\ StillKept(f)
      BY <3>1 DEF LossInv
    <3>3. NotLost(f)'
      BY <1>1, <2>1, <3>2 DEF NotLost, OthersCopy, Forward, Backward
    <3>4. StillKept(f)'
      BY <1>1, <2>1, <3>2 DEF StillKept, OthersCopy, Forward, Backward
    <3> QED BY <3>3, <3>4
  <2> QED BY <2>2, <2>3 DEF LossInv
<1> QED BY <1>2, <1>3

LEMMA FailureLosesNothing ==
    ASSUME UpdateShapes, LossInv, ApplyFails
    PROVE  LossInv'
<1>1. PICK n \in 1 .. Len(run.arts) : \E more :
         /\ n = Head(work).art /\ more = RollbackArtifacts(run, n)
         /\ mode = "applying" /\ work # <<>> /\ Head(work).do # "check"
         /\ CostOf(Head(work)) /\ PlaceBack(Head(work))
         /\ Queue(run, "undoing", more) /\ Started(more)
         /\ run' = run /\ work' = more
         /\ \/ more = <<>> /\ mode' = "idle"
            \/ more # <<>> /\ mode' = "undoing" /\ entry' = entry
  BY FailureGoes
<1>2. PICK s : s = Head(work)
  OBVIOUS
<1>3. CostOf(s) /\ PlaceBack(s) /\ work # <<>> /\ mode = "applying"
      /\ run' = run /\ Started(work')
      /\ \/ work' = <<>> /\ mode' = "idle"
         \/ work' # <<>> /\ mode' = "undoing" /\ entry' = entry
  BY <1>1, <1>2
<1>4. CASE work' = <<>> /\ mode' = "idle"
  BY <1>4, IdleLosesNothing
<1>5. CASE work' # <<>> /\ mode' = "undoing" /\ entry' = entry
  <2>1. PlaceIsFree'
    <3>1. work'[1].do \notin Seconds
      BY <1>3, <1>5 DEF Started
    <3> QED BY <3>1 DEF Seconds, PlaceIsFree
  <2>2. ASSUME PartUpdate', NEW f \in Files PROVE NotLost(f)' /\ StillKept(f)'
    <3>1. PartUpdate
      BY <1>3, <2>2 DEF PartUpdate, Busy
    <3>2. NotLost(f) /\ StillKept(f)
      BY <3>1 DEF LossInv
    <3>3. installed \in FileMaps /\ backup \in FileMaps /\ entry.faults = used.fault
      BY <1>3 DEF UpdateShapes
    <3>4. \/ installed'[f] = installed[f] /\ backup'[f] = backup[f]
          \/ installed[f] = 0 /\ installed'[f] = backup[f] /\ s.do = "place"
      BY <1>3, <3>3 DEF PlaceBack, FileMaps
    <3>5. NotLost(f)'
      BY <1>3, <1>5, <3>2, <3>4 DEF NotLost, OthersCopy, Forward, Backward
    <3>6. StillKept(f)'
      <4>1. CASE Hopeless(s)
        <5>1. s.do \in {"open", "finish"} /\ used'.fault = used.fault
          BY <1>3, <4>1, CostFacts DEF Hopeless
        <5>2. installed' = installed /\ backup' = backup /\ ~Now("keep", f)
          BY <1>2, <1>3, <5>1 DEF PlaceBack, Now
        <5> QED BY <1>3, <1>5, <3>2, <5>1, <5>2 DEF StillKept, OthersCopy, Forward, Backward
      <4>2. CASE ~Hopeless(s)
        <5>1. used'.fault # entry'.faults
          BY <1>3, <1>5, <3>3, <4>2, CostFacts
        <5> QED BY <5>1 DEF StillKept
      <4> QED BY <4>1, <4>2
    <3> QED BY <3>5, <3>6
  <2> QED BY <2>1, <2>2 DEF LossInv
<1> QED BY <1>3, <1>4, <1>5

LEMMA UndoFailsLosesNothing ==
    ASSUME UpdateShapes, LossInv, UndoFails
    PROVE  LossInv'
<1>1. PICK more : /\ Went(more) /\ mode = "undoing" /\ work # <<>>
                  /\ \A s : Within(s, more) => Within(s, work)
                  /\ used'.fault = used.fault + 1
                  /\ more # <<>> => Started(more)
  BY UndoGoes
<1>2. installed' = installed /\ backup' = backup
  BY DEF UndoFails
<1>3. PlaceIsFree'
  <2> SUFFICES ASSUME work' # <<>> PROVE Head(work').do # "place"
    BY DEF PlaceIsFree
  <2>1. work' = more
    BY <1>1 DEF Went
  <2>2. work'[1].do \notin Seconds
    BY <1>1, <2>1 DEF Started
  <2> QED BY <2>2 DEF Seconds
<1>4. ASSUME PartUpdate', NEW f \in Files PROVE NotLost(f)' /\ StillKept(f)'
  <2>1. mode' = mode /\ entry' = entry /\ run' = run /\ work' = more /\ PartUpdate
    BY <1>1, <1>4 DEF Went, PartUpdate, Busy
  <2>2. NotLost(f)
    BY <2>1 DEF LossInv
  <2>3. Due("clear", f)' => Due("clear", f)
    BY <1>1, <2>1 DEF Due
  <2>4. NotLost(f)'
    BY <1>1, <1>2, <2>1, <2>2, <2>3 DEF NotLost, OthersCopy, Forward, Backward
  <2>5. used'.fault # entry'.faults
    <3>1. entry.faults \in Nat /\ used.fault \in Nat /\ entry.faults <= used.fault
      BY <1>1 DEF UpdateShapes, Busy, Entries, Bounds
    <3> QED BY <1>1, <2>1, <3>1
  <2>6. StillKept(f)'
    BY <2>5 DEF StillKept
  <2> QED BY <2>4, <2>6
<1> QED BY <1>3, <1>4 DEF LossInv

LEMMA LossKept ==
    ASSUME UpdateShapes, LossInv, [UpdateNext]_updateVars
    PROVE  LossInv'
<1>1. CASE UNCHANGED updateVars
  BY <1>1 DEF updateVars, LossInv, PlaceIsFree, PartUpdate, Busy, NotLost, StillKept, OthersCopy, Due, Now
<1>2. CASE UpdateNext
  <2>1. CASE Healthy \/ StepFails \/ Killed
    BY <2>1, EndingTyped, IdleLosesNothing
  <2> QED BY <1>2, <2>1, UpdateSteps, StageLosesNothing, BeginningsLoseNothing, FileStepsLoseNothing,
        QuietKeepsFiles, ConcludeLosesNothing, FailureLosesNothing, UndoFailsLosesNothing,
        UnhealthyLosesNothing
<1> QED BY <1>1, <1>2

LEMMA LossInvShows ==
    ASSUME LossInv
    PROVE  NothingLost
<1> SUFFICES ASSUME mode \in {"installing", "applying", "undoing", "reverting"}, run.arts # <<"full">>,
                    NEW f \in Files,
                    \/ OthersCopy(f, entry.installed[f])
                    \/ OthersCopy(f, entry.backup[f]) /\ used.fault = entry.faults
             PROVE  installed[f] # 0 \/ backup[f] # 0
  BY DEF NothingLost, OthersCopy
<1>1. NotLost(f) /\ StillKept(f)
  BY DEF LossInv, PartUpdate, Busy
<1> QED BY <1>1 DEF NotLost, StillKept, OthersCopy, Forward, Backward

\* No component update leaves a file neither installed nor kept that was there
\* when the run began and was not the update's own, wherever it is stopped;
\* and one that repeats an interrupted run keeps what that one kept, unless
\* a file operation fails: install_file, rollback_bundle_zip.
THEOREM UpdatesLoseNothing == UpdateSpec => []NothingLost
<1> DEFINE FilesInv == UpdateShapes /\ LossInv
<1>1. UpdateInit => FilesInv
  <2>1. UpdateInit => LossInv
    BY DEF UpdateInit, LossInv, PlaceIsFree, PartUpdate, Busy
  <2> QED BY <2>1, ShapesAtStart
<1>2. FilesInv /\ [UpdateNext]_updateVars => FilesInv'
  BY ShapesKept, LossKept
<1>3. FilesInv => NothingLost
  BY LossInvShows
<1> HIDE DEF FilesInv
<1> QED BY <1>1, <1>2, <1>3, PTL DEF UpdateSpec

-----------------------------------------------------------------------------
(* What an update commits is what it has installed.                           *)

\* The component c is to get its new build.
Target(c) ==
    \E n \in 1 .. Len(run.arts) : c \in DOMAIN BundleComponents(CatalogOf(run), run.arts[n])
CommitDue(c) ==
    \E s : /\ Within(s, work) /\ s.do = "commit"
           /\ c \in DOMAIN BundleComponents(CatalogOf(run), run.arts[s.art])

\* The state file as it is, or as it will be when it is written.
Recorded ==
    IF work # <<>> /\ Head(work).do = "remove" THEN Head(Tail(work)).state
    ELSE IF work # <<>> /\ Head(work).do = "rename" THEN Head(work).state
    ELSE state

ItemsPlaced ==
    \A n \in 1 .. Len(run.arts) : \A x \in ItemsOf(run, n) :
       installed[x.file] = x.build \/ Due("place", x.file)
Committing ==
    \A c \in Components :
       /\ Target(c) => Recorded.builds[c] = CatalogOf(run).full[c] \/ CommitDue(c)
       /\ ~Target(c) => Recorded.builds[c] = entry.state.builds[c]
WritesAtOnce == work # <<>> => \A s : Within(s, Tail(work)) => s.do # "remove"
Concluding ==
    (\E s : Within(s, work) /\ s.do = "conclude") =>
       /\ Recorded.release = run.release
       /\ \A s : Within(s, work) => s.do \in {"remove", "rename", "conclude"}
CommitInv ==
    mode = "applying" => ItemsPlaced /\ Committing /\ WritesAtOnce /\ Concluding

\* The state is written by two steps in a row.
LEMMA OneRemove ==
    ASSUME NEW art \in Nat, NEW st \in States, NEW rest \in Seq(Steps),
           NEW r, r = WriteState(art, st) \o rest
    PROVE  \A s : Within(s, Tail(r)) => Within(s, rest) \/ s.do = "rename"
<1>1. PICK w : w = WriteState(art, st)
  OBVIOUS
<1>2. Whole(w) /\ Len(w) = 2 /\ w[2].do = "rename"
  <2> HIDE DEF Whole, Within
  <2>1. Whole(WriteState(art, st))
    BY WriteStateFacts
  <2>2. Len(WriteState(art, st)) = 2
    BY WriteStateFacts
  <2>3. WriteState(art, st)[2].do = "rename"
    BY WriteStateFacts
  <2> QED BY <1>1, <2>1, <2>2, <2>3
<1>3. w \in Seq(Steps)
  BY <1>2 DEF Whole
<1>4. /\ r \in Seq(Steps) /\ Len(r) = 2 + Len(rest) /\ Len(rest) \in Nat
      /\ \A i \in 1 .. 2 + Len(rest) : r[i] = IF i <= 2 THEN w[i] ELSE rest[i - 2]
  <2>1. r = w \o rest
    BY <1>1
  <2>2. /\ r \in Seq(Steps) /\ Len(r) = Len(w) + Len(rest)
        /\ \A i \in 1 .. Len(w) + Len(rest) : r[i] = IF i <= Len(w) THEN w[i] ELSE rest[i - Len(w)]
    BY <1>3, <2>1, ConcatProperties
  <2> QED BY <1>2, <2>2
<1>5. r # <<>>
  BY <1>4
<1>6. PICK t : t = Tail(r)
  OBVIOUS
<1>7. Len(t) = Len(r) - 1 /\ \A i \in 1 .. Len(t) : t[i] = r[i + 1]
  <2>1. PICK v \in Seq(Steps) : v = r /\ v # <<>>
    BY <1>4, <1>5
  <2>2. /\ Len(Tail(v)) = Len(v) - 1
        /\ \A i \in 1 .. Len(Tail(v)) : Tail(v)[i] = v[i + 1] /\ i + 1 \in 1 .. Len(v)
    BY <2>1, HeadFacts
  <2> QED BY <1>6, <2>1, <2>2
<1>8. ASSUME NEW s, Within(s, t) PROVE Within(s, rest) \/ s.do = "rename"
  <2>1. PICK i \in 1 .. Len(t) : t[i] = s
    BY <1>8 DEF Within
  <2>2. s = r[i + 1] /\ i + 1 \in 1 .. 2 + Len(rest) /\ i \in Nat /\ i >= 1
    <3>1. Len(t) = 1 + Len(rest)
      BY <1>4, <1>7
    <3>2. i \in Nat /\ i >= 1 /\ i <= 1 + Len(rest)
      BY <1>4, <2>1, <3>1
    <3>3. i + 1 \in 1 .. 2 + Len(rest)
      BY <1>4, <3>2
    <3>4. s = r[i + 1]
      BY <1>7, <2>1
    <3> QED BY <3>2, <3>3, <3>4
  <2>3. CASE i = 1
    <3>1. i + 1 = 2
      BY <2>3
    <3> QED BY <1>2, <1>4, <2>2, <3>1
  <2>4. CASE i # 1
    <3>1. PICK k : k = (i + 1) - 2
      OBVIOUS
    <3>2. k \in 1 .. Len(rest) /\ s = rest[k]
      BY <1>4, <2>2, <2>4, <3>1
    <3> QED BY <3>2 DEF Within
  <2> QED BY <2>3, <2>4
<1> QED BY <1>6, <1>8

\* A step that commits nothing keeps what is known, when it installs what it should.
LEMMA CommitsOnward ==
    ASSUME UpdateShapes, CommitInv, mode = "applying", work # <<>>, Went(Tail(work)),
           Head(work).do # "commit",
           mode' = "applying" => Recorded' = Recorded /\ ItemsPlaced'
    PROVE  CommitInv'
<1> SUFFICES ASSUME mode' = "applying" PROVE ItemsPlaced' /\ Committing' /\ WritesAtOnce' /\ Concluding'
  BY DEF CommitInv
<1>1. run' = run /\ work' = Tail(work) /\ entry' = entry /\ Recorded' = Recorded /\ Tail(work) # <<>>
  BY DEF Went
<1>2. /\ \A s : Within(s, work) <=> s = Head(work) \/ Within(s, Tail(work))
      /\ Queue(run, mode, Tail(work))
  BY HeadStep
<1>3. \A s : Within(s, Tail(Tail(work))) => Within(s, Tail(work))
  <2>1. PICK t : t = Tail(work)
    OBVIOUS
  <2>2. t \in Seq(Steps) /\ t # <<>>
    BY <1>1, <1>2, <2>1 DEF Queue
  <2> QED BY <2>1, <2>2, HeadFacts
<1>4. ItemsPlaced /\ Committing /\ WritesAtOnce /\ Concluding
  BY DEF CommitInv
<1>5. WritesAtOnce'
  BY <1>1, <1>3, <1>4 DEF WritesAtOnce
<1>6. \A c : Target(c)' <=> Target(c)
  BY <1>1 DEF Target
<1>7. \A c : CommitDue(c)' <=> CommitDue(c)
  BY <1>1, <1>2 DEF CommitDue
<1>8. Committing'
  BY <1>1, <1>4, <1>6, <1>7 DEF Committing
<1>9. Concluding'
  BY <1>1, <1>2, <1>4 DEF Concluding
<1> QED BY <1>5, <1>8, <1>9

\* What is recorded after a step that leaves the state file as it is to be.
LEMMA RecordedOnward ==
    ASSUME UpdateShapes, CommitInv, mode = "applying", work # <<>>, Went(Tail(work)), mode' = "applying",
           Head(work).do # "remove", state' = Recorded
    PROVE  Recorded' = Recorded
<1>1. work' = Tail(work) /\ Tail(work) # <<>>
  BY DEF Went
<1>2. Queue(run, mode, work) /\ work \in Seq(Steps)
  BY HeadStep DEF Queue
<1>3. PICK s, t : s = Head(work) /\ t = Head(Tail(work))
  OBVIOUS
<1>4. Linked(s, t)
  BY <1>1, <1>2, <1>3, RestFacts
<1>5. t.do # "rename"
  BY <1>3, <1>4 DEF Linked
<1>6. t.do # "remove"
  <2>1. Within(t, Tail(work))
    <3>1. PICK rest : rest = Tail(work)
      OBVIOUS
    <3>2. rest \in Seq(Steps) /\ rest # <<>>
      BY <1>1, <1>2, <3>1, HeadFacts
    <3> QED BY <1>3, <3>1, <3>2, HeadFacts
  <2> QED BY <2>1 DEF CommitInv, WritesAtOnce
<1> QED BY <1>1, <1>3, <1>5, <1>6 DEF Recorded

LEMMA NothingToCommit ==
    ASSUME mode' # "applying"
    PROVE  CommitInv'
BY DEF CommitInv

LEMMA BeginCommits ==
    ASSUME UpdateShapes,
           \/ \E cat \in Catalogs, kind \in Kinds : Install(cat, kind)
           \/ ApplyStaged \/ RollbackStaged
    PROVE  CommitInv'
<1>1. CASE \E cat \in Catalogs, kind \in Kinds : Install(cat, kind)
  BY <1>1, NothingToCommit DEF Install, Begin
<1>2. CASE RollbackStaged
  BY <1>2, NothingToCommit DEF RollbackStaged, Begin
<1>3. CASE ApplyStaged
  <2>1. PICK op : op = staged
    OBVIOUS
  <2>2. PICK w : w = ApplyArtifacts(op)
    OBVIOUS
  <2>3. Operation(op) /\ Begin(op, "applying", w)
    BY <1>3, <2>1, <2>2, ApplyBegins
  <2>4. /\ run' = op /\ work' = w /\ state' = state /\ w # <<>>
        /\ entry' = [installed |-> installed, backup |-> backup, state |-> state, faults |-> used.fault]
    BY <2>3 DEF Begin
  <2>5. entry'.state = state
    BY <2>4
  <2>6. \A s : Within(s, w) =>
           s.do \in {"check", "open", "drop", "keep", "place", "commit", "finish"}
    <3> HIDE DEF Whole, Within, ItemsOf, StepOf
    <3> QED BY <2>2, <2>3, ApplyArtifactsFacts
  <2>7. \A n \in 1 .. Len(op.arts) : \A x \in ItemsOf(op, n) :
           \E s : Within(s, w) /\ s.do = "place" /\ s.file = x.file
    <3> HIDE DEF Whole, Within, ItemsOf, StepOf
    <3> QED BY <2>2, <2>3, ApplyArtifactsFacts
  <2>8. \A n \in 1 .. Len(op.arts) : \E s : Within(s, w) /\ s.do = "commit" /\ s.art = n
    <3> HIDE DEF Whole, Within, ItemsOf, StepOf
    <3> QED BY <2>2, <2>3, ApplyArtifactsFacts
  <2>9. w \in Seq(Steps)
    <3>1. Whole(w)
      <4> HIDE DEF Whole, Within, ItemsOf, StepOf
      <4> QED BY <2>2, <2>3, ApplyArtifactsFacts
    <3> QED BY <3>1 DEF Whole
  <2>10. Within(Head(w), w) /\ \A s : Within(s, Tail(w)) => Within(s, w)
    BY <2>4, <2>9, HeadFacts
  <2>11. Recorded' = state
    BY <2>4, <2>6, <2>10 DEF Recorded
  <2>12. ItemsPlaced'
    BY <2>4, <2>7 DEF ItemsPlaced, Due
  <2>13. \A c : Target(c)' => CommitDue(c)'
    BY <2>4, <2>8 DEF Target, CommitDue
  <2>14. Committing'
    BY <2>5, <2>11, <2>13 DEF Committing
  <2>15. WritesAtOnce'
    BY <2>4, <2>6, <2>10 DEF WritesAtOnce
  <2>16. Concluding'
    BY <2>4, <2>6 DEF Concluding
  <2> QED BY <2>12, <2>14, <2>15, <2>16 DEF CommitInv
<1> QED BY <1>1, <1>2, <1>3

LEMMA StageCommits ==
    ASSUME CommitInv, NEW cat, Stage(cat)
    PROVE  CommitInv'
<1>1. UNCHANGED <<marked, installed, backup, state, run, mode, work, entry>>
  BY DEF Stage
<1> QED BY <1>1 DEF CommitInv, ItemsPlaced, Committing, WritesAtOnce, Concluding, Recorded,
                    Target, CommitDue, Due

\* The file of a step that places it is what the update is to install.
LEMMA PlacesItsItem ==
    ASSUME UpdateShapes, work # <<>>, Head(work).do = "place",
           NEW n \in 1 .. Len(run.arts), NEW x \in ItemsOf(run, n), x.file = Head(work).file
    PROVE  x.build = Head(work).build
<1>1. PICK h : h = Head(work)
  OBVIOUS
<1>2. Operation(run) /\ StepOf(run, h)
  BY <1>1, HeadStep
<1>3. h.do \in FileDos
  BY <1>1 DEF FileDos
<1>4. h.art \in 1 .. Len(run.arts) /\ [file |-> h.file, build |-> h.build] \in ItemsOf(run, h.art)
  BY <1>2, <1>3 DEF StepOf
<1>5. PICK m \in 1 .. Len(run.arts) : \E y \in ItemsOf(run, m) : y = [file |-> h.file, build |-> h.build]
  BY <1>4
<1>6. PICK y \in ItemsOf(run, m) : y.file = h.file /\ y.build = h.build
  BY <1>5
<1>7. x = y
  BY <1>1, <1>2, <1>6, ItemsAreUnique
<1> QED BY <1>1, <1>6, <1>7

LEMMA FileStepCommits ==
    ASSUME UpdateShapes, CommitInv,
           \/ DropBackup \/ KeepPrevious \/ Place \/ ClearInstalled \/ ReturnPrevious
    PROVE  CommitInv'
<1> SUFFICES ASSUME mode' = "applying" PROVE CommitInv'
  BY NothingToCommit
<1>1. PICK h : h = Head(work)
  OBVIOUS
<1>2. /\ work # <<>> /\ Proceed(Tail(work)) /\ state' = state
      /\ h.do \in {"drop", "keep", "place", "clear", "return"}
  BY <1>1 DEF DropBackup, KeepPrevious, Place, ClearInstalled, ReturnPrevious, Doing, KeepsRest
<1>3. Went(Tail(work)) /\ h.file \in Files /\ h.do \in DosOf(mode) /\ Operation(run)
      /\ \A s : Within(s, work) <=> s = h \/ Within(s, Tail(work))
  BY <1>1, <1>2, HeadStep, ProceedGoes
<1>4. mode = "applying" /\ work' = Tail(work) /\ Tail(work) # <<>> /\ run' = run
  <2>1. mode # "applying" => mode' # "applying"
    BY <1>3 DEF Went
  <2> QED BY <1>3, <2>1 DEF Went
<1>5. h.do \in {"drop", "keep", "place"}
  BY <1>2, <1>3, <1>4 DEF DosOf, Applies
<1>6. Recorded' = Recorded
  <2>1. Recorded = state
    BY <1>1, <1>5 DEF Recorded
  <2> QED BY <1>1, <1>2, <1>3, <1>4, <1>5, <2>1, RecordedOnward
<1>7. ASSUME NEW n \in 1 .. Len(run.arts), NEW x \in ItemsOf(run, n)
      PROVE  installed'[x.file] = x.build \/ Due("place", x.file)'
  <2>1. installed[x.file] = x.build \/ Due("place", x.file)
    BY <1>4, <1>7 DEF CommitInv, ItemsPlaced
  <2>2. x.file \in Files
    <3>1. x \in Items
      BY <1>3, <1>7, ItemsFacts
    <3> QED BY <3>1 DEF Items
  <2>3. installed \in FileMaps
    BY DEF UpdateShapes
  <2>4. ASSUME Due("place", x.file)
        PROVE  Due("place", x.file)' \/ (h.do = "place" /\ h.file = x.file)
    <3>1. PICK s : Within(s, work) /\ s.do = "place" /\ s.file = x.file
      BY <2>4 DEF Due
    <3>2. CASE s = h
      BY <3>1, <3>2
    <3>3. CASE Within(s, Tail(work))
      BY <1>4, <3>1, <3>3 DEF Due
    <3> QED BY <1>3, <3>1, <3>2, <3>3
  <2>5. CASE h.do = "drop"
    <3>1. installed' = installed
      BY <1>1, <1>2, <2>5 DEF DropBackup, KeepPrevious, Place, ClearInstalled, ReturnPrevious, Doing
    <3> QED BY <2>1, <2>4, <2>5, <3>1
  <2>6. CASE h.do = "keep"
    <3>1. installed' = [installed EXCEPT ![h.file] = 0]
      BY <1>1, <1>2, <2>6 DEF DropBackup, KeepPrevious, Place, ClearInstalled, ReturnPrevious, Doing
    <3>2. CASE x.file # h.file
      <4>1. installed'[x.file] = installed[x.file]
        BY <2>2, <2>3, <3>1, <3>2 DEF FileMaps
      <4> QED BY <2>1, <2>4, <2>6, <4>1
    <3>3. CASE x.file = h.file
      <4>1. PICK t : t = Head(Tail(work))
        OBVIOUS
      <4>2. Linked(h, t)
        BY <1>1, <1>2, <1>4, <4>1, HeadStep, RestFacts
      <4>3. t.do = "place" /\ t.file = h.file
        BY <2>6, <4>2 DEF Linked, Firsts
      <4>4. Within(t, Tail(work))
        <5>1. PICK rest : rest = Tail(work)
          OBVIOUS
        <5>2. rest \in Seq(Steps) /\ rest # <<>>
          BY <1>2, <1>4, <5>1, HeadStep DEF Queue
        <5> QED BY <4>1, <5>1, <5>2, HeadFacts
      <4> QED BY <1>4, <3>3, <4>3, <4>4 DEF Due
    <3> QED BY <3>2, <3>3
  <2>7. CASE h.do = "place"
    <3>1. installed' = [installed EXCEPT ![h.file] = h.build]
      BY <1>1, <1>2, <2>7 DEF DropBackup, KeepPrevious, Place, ClearInstalled, ReturnPrevious, Doing
    <3>2. CASE x.file # h.file
      <4>1. installed'[x.file] = installed[x.file]
        BY <2>2, <2>3, <3>1, <3>2 DEF FileMaps
      <4> QED BY <2>1, <2>4, <3>2, <4>1
    <3>3. CASE x.file = h.file
      <4>1. x.build = h.build
        BY <1>1, <1>2, <1>7, <2>7, <3>3, PlacesItsItem
      <4>2. installed'[h.file] = h.build
        BY <1>3, <2>3, <3>1 DEF FileMaps
      <4> QED BY <3>3, <4>1, <4>2
    <3> QED BY <3>2, <3>3
  <2> QED BY <1>5, <2>5, <2>6, <2>7
<1>8. ItemsPlaced'
  BY <1>4, <1>7 DEF ItemsPlaced
<1> QED BY <1>1, <1>2, <1>3, <1>4, <1>5, <1>6, <1>8, CommitsOnward

LEMMA CheckCommits ==
    ASSUME UpdateShapes, CommitInv, Check \/ MarkRoot
    PROVE  CommitInv'
<1> SUFFICES ASSUME mode' = "applying" PROVE CommitInv'
  BY NothingToCommit
<1>1. PICK h : h = Head(work)
  OBVIOUS
<1>2. /\ work # <<>> /\ Proceed(Tail(work)) /\ state' = state /\ installed' = installed
      /\ h.do \in {"check", "open", "mark"}
  BY <1>1 DEF Check, MarkRoot, Doing, KeepsRest
<1>3. Went(Tail(work)) /\ \A s : Within(s, work) <=> s = h \/ Within(s, Tail(work))
  BY <1>1, <1>2, HeadStep, ProceedGoes
<1>4. mode = "applying" /\ work' = Tail(work) /\ run' = run
  BY <1>3 DEF Went
<1>5. Recorded' = Recorded
  <2>1. Recorded = state
    BY <1>1, <1>2 DEF Recorded
  <2> QED BY <1>1, <1>2, <1>3, <1>4, <2>1, RecordedOnward
<1>6. \A f : Due("place", f) => Due("place", f)'
  BY <1>2, <1>3, <1>4 DEF Due
<1>7. ItemsPlaced'
  BY <1>2, <1>4, <1>6 DEF CommitInv, ItemsPlaced
<1> QED BY <1>1, <1>2, <1>3, <1>4, <1>5, <1>7, CommitsOnward

LEMMA WriteCommits ==
    ASSUME UpdateShapes, CommitInv, WriteStateFile
    PROVE  CommitInv'
<1> SUFFICES ASSUME mode' = "applying" PROVE CommitInv'
  BY NothingToCommit
<1>1. PICK h : h = Head(work)
  OBVIOUS
<1>2. /\ work # <<>> /\ Proceed(Tail(work)) /\ state' = h.state /\ installed' = installed
      /\ h.do \in {"remove", "rename"}
  BY <1>1 DEF WriteStateFile, Doing
<1>3. Went(Tail(work)) /\ \A s : Within(s, work) <=> s = h \/ Within(s, Tail(work))
  BY <1>1, <1>2, HeadStep, ProceedGoes
<1>4. mode = "applying" /\ work' = Tail(work) /\ run' = run /\ Tail(work) # <<>>
  BY <1>3 DEF Went
<1>5. ASSUME h.do = "rename" PROVE Recorded' = Recorded
  <2>1. Recorded = h.state
    BY <1>1, <1>2, <1>5 DEF Recorded
  <2> QED BY <1>1, <1>2, <1>3, <1>4, <1>5, <2>1, RecordedOnward
<1>6. ASSUME h.do = "remove" PROVE Recorded' = Recorded
  <2>1. PICK t : t = Head(Tail(work))
    OBVIOUS
  <2>2. Linked(h, t)
    BY <1>1, <1>2, <1>4, <2>1, HeadStep, RestFacts
  <2>3. t.do = "rename"
    BY <1>6, <2>2 DEF Linked
  <2>4. Recorded = t.state
    BY <1>1, <1>2, <1>6, <2>1 DEF Recorded
  <2>5. Recorded' = t.state
    BY <1>4, <2>1, <2>3 DEF Recorded
  <2> QED BY <2>4, <2>5
<1>7. \A f : Due("place", f) => Due("place", f)'
  BY <1>2, <1>3, <1>4 DEF Due
<1>8. ItemsPlaced'
  BY <1>2, <1>4, <1>7 DEF CommitInv, ItemsPlaced
<1>9. Recorded' = Recorded
  BY <1>2, <1>5, <1>6
<1> QED BY <1>1, <1>2, <1>3, <1>4, <1>8, <1>9, CommitsOnward

LEMMA CommitCommits ==
    ASSUME UpdateShapes, CommitInv, CommitBundle
    PROVE  CommitInv'
<1> SUFFICES ASSUME mode' = "applying" PROVE CommitInv'
  BY NothingToCommit
<1>1. PICK h : h = Head(work)
  OBVIOUS
<1>2. work # <<>> /\ h.do = "commit" /\ state' = state /\ installed' = installed
  BY <1>1 DEF CommitBundle, Doing, KeepsRest
<1>3. PICK more : \E st \in States :
         /\ st = Committed(state, CatalogOf(run), run.arts[h.art])
         /\ Went(more) /\ WritesState(more, st, Tail(work))
         /\ h.art \in 1 .. Len(run.arts)
  BY <1>1, CommitGoes
<1>4. PICK st \in States :
         /\ st = Committed(state, CatalogOf(run), run.arts[h.art])
         /\ Went(more) /\ WritesState(more, st, Tail(work))
         /\ h.art \in 1 .. Len(run.arts)
  BY <1>3
<1>5. /\ Operation(run) /\ Queue(run, mode, Tail(work)) /\ h \in Steps
      /\ \A s : Within(s, work) <=> s = h \/ Within(s, Tail(work))
  BY <1>1, <1>2, HeadStep
<1>6. mode = "applying" /\ work' = more /\ run' = run /\ entry' = entry /\ more # <<>>
  BY <1>4 DEF Went, WritesState
<1>7. ItemsPlaced /\ Committing /\ WritesAtOnce /\ Concluding
  BY <1>6 DEF CommitInv
<1>8. \A s : Within(s, Tail(work)) => Within(s, more)
  BY <1>4 DEF WritesState
<1>9. \A s : Within(s, more) => Within(s, Tail(work)) \/ s.do \in {"remove", "rename"}
  BY <1>4 DEF WritesState
<1>10. ItemsPlaced'
  <2>1. \A f : Due("place", f) => Due("place", f)'
    BY <1>2, <1>5, <1>6, <1>8 DEF Due
  <2> QED BY <1>2, <1>6, <1>7, <2>1 DEF ItemsPlaced
<1>11. Recorded = state /\ Recorded' = st
  <2>1. Recorded = state
    BY <1>1, <1>2 DEF Recorded
  <2>2. Recorded' = st
    BY <1>4, <1>6 DEF Recorded, WritesState
  <2> QED BY <2>1, <2>2
<1>12. WritesAtOnce'
  <2>1. PICK kind : kind = run.arts[h.art]
    OBVIOUS
  <2>2. PICK rest \in Seq(Steps) : rest = Tail(work)
    BY <1>5 DEF Queue
  <2>3. PICK art \in Nat : art = h.art
    BY <1>5 DEF Steps
  <2>4. PICK r : r = WriteState(art, st) \o rest
    OBVIOUS
  <2>5. Proceed(r)
    BY <1>1, <1>4, <2>2, <2>3, <2>4 DEF CommitBundle
  <2>6. more = r
    BY <1>6, <2>5, ProceedGoes DEF Went
  <2>7. \A s : Within(s, Tail(r)) => Within(s, rest) \/ s.do = "rename"
    BY <2>4, OneRemove
  <2> QED BY <1>2, <1>6, <1>7, <2>2, <2>6, <2>7 DEF WritesAtOnce
<1>13. Committing'
  <2>1. PICK cat \in Catalogs, kind \in CatalogOf(run).artifacts : cat = CatalogOf(run) /\ kind = run.arts[h.art]
    BY <1>4, <1>5, OperationFacts
  <2>2. \A c : Target(c)' <=> Target(c)
    BY <1>6 DEF Target
  <2>3. \A c \in Components : st.builds[c] = IF c \in DOMAIN BundleComponents(cat, kind)
                                               THEN cat.full[c] ELSE state.builds[c]
    <3>1. kind \in cat.artifacts
      BY <2>1
    <3>2. ASSUME NEW c \in DOMAIN BundleComponents(cat, kind)
          PROVE  BundleComponents(cat, kind)[c] = cat.full[c]
      <4>1. cat \in Catalogs
        BY <2>1
      <4> QED BY <3>1, <4>1, BundleFacts
    <3> QED BY <1>4, <2>1, <3>2 DEF Committed
  <2>4. ASSUME NEW c \in Components, Target(c)
        PROVE  st.builds[c] = cat.full[c] \/ CommitDue(c)'
    <3>1. CASE c \in DOMAIN BundleComponents(cat, kind)
      BY <2>3, <3>1
    <3>2. CASE c \notin DOMAIN BundleComponents(cat, kind)
      <4>1. state.builds[c] = cat.full[c] \/ CommitDue(c)
        BY <1>7, <1>11, <2>1, <2>4 DEF Committing
      <4>2. ASSUME CommitDue(c) PROVE CommitDue(c)'
        <5>1. PICK s : /\ Within(s, work) /\ s.do = "commit"
                       /\ c \in DOMAIN BundleComponents(CatalogOf(run), run.arts[s.art])
          BY <4>2 DEF CommitDue
        <5>2. s # h
          BY <2>1, <3>2, <5>1
        <5>3. Within(s, more)
          BY <1>5, <1>8, <5>1, <5>2
        <5> QED BY <1>6, <5>1, <5>3 DEF CommitDue
      <4> QED BY <2>3, <3>2, <4>1, <4>2
    <3> QED BY <3>1, <3>2
  <2>5. ASSUME NEW c \in Components, ~Target(c)
        PROVE  st.builds[c] = entry.state.builds[c]
    <3>1. c \notin DOMAIN BundleComponents(cat, kind)
      BY <1>4, <2>1, <2>5 DEF Target
    <3>2. state.builds[c] = entry.state.builds[c]
      BY <1>7, <1>11, <2>5 DEF Committing
    <3> QED BY <2>3, <3>1, <3>2
  <2> QED BY <1>6, <1>11, <2>1, <2>2, <2>4, <2>5 DEF Committing
<1>14. Concluding'
  <2> SUFFICES ASSUME NEW s, Within(s, more), s.do = "conclude" PROVE FALSE
    BY <1>6 DEF Concluding
  <2>1. Within(s, work)
    BY <1>5, <1>9
  <2>2. Within(h, work)
    BY <1>5
  <2> QED BY <1>2, <1>7, <2>1, <2>2 DEF Concluding
<1> QED BY <1>10, <1>12, <1>13, <1>14 DEF CommitInv

LEMMA FinishCommits ==
    ASSUME UpdateShapes, CommitInv, FinishApply
    PROVE  CommitInv'
<1> SUFFICES ASSUME mode' = "applying" PROVE CommitInv'
  BY NothingToCommit
<1>1. PICK h : h = Head(work)
  OBVIOUS
<1>2. work # <<>> /\ h.do = "finish" /\ state' = state /\ installed' = installed
  BY <1>1 DEF FinishApply, Doing, KeepsRest
<1>3. PICK more : \E st \in States :
         /\ st = [state EXCEPT !.release = run.release]
         /\ Went(more) /\ WritesLast(more, st) /\ mode = "applying"
  BY FinishGoes
<1>4. PICK st \in States :
         /\ st = [state EXCEPT !.release = run.release]
         /\ Went(more) /\ WritesLast(more, st) /\ mode = "applying"
  BY <1>3
<1>5. /\ Operation(run) /\ Queue(run, mode, work) /\ StepOf(run, h)
      /\ \A s : Within(s, work) <=> s = h \/ Within(s, Tail(work))
  BY <1>1, <1>2, HeadStep
<1>6. work' = more /\ run' = run /\ entry' = entry /\ more # <<>>
  BY <1>4 DEF Went, WritesLast
<1>7. ItemsPlaced /\ Committing
  BY <1>4 DEF CommitInv
<1>8. \A s : Within(s, work) => s.do \notin {"place", "commit"}
  <2> SUFFICES ASSUME NEW s, Within(s, work), s.do \in {"place", "commit"} PROVE FALSE
    OBVIOUS
  <2>1. Within(s, Tail(work)) /\ StepOf(run, s)
    BY <1>2, <1>5 DEF Queue
  <2>2. Precedes(h, s)
    BY <1>1, <1>2, <1>5, <2>1, RestFacts
  <2>3. s.art \in 1 .. Len(run.arts) /\ h.art = 0
    BY <1>2, <1>5, <2>1 DEF StepOf, FileDos
  <2>4. s.art # 0
    BY <1>5, <2>3, OperationFacts
  <2> QED BY <1>2, <2>2, <2>3, <2>4 DEF Precedes, Walks
<1>9. ItemsPlaced'
  <2>1. \A f : ~Due("place", f)
    BY <1>8 DEF Due
  <2> QED BY <1>2, <1>6, <1>7, <2>1 DEF ItemsPlaced
<1>10. Recorded = state /\ Recorded' = st
  <2>1. Recorded = state
    BY <1>1, <1>2 DEF Recorded
  <2>2. Recorded' = st
    BY <1>4, <1>6 DEF Recorded, WritesLast
  <2> QED BY <2>1, <2>2
<1>11. st.builds = state.builds /\ st.release = run.release
  <2>1. state \in States
    BY DEF UpdateShapes
  <2> QED BY <1>4, <2>1 DEF States
<1>12. Committing'
  <2>1. \A c : Target(c)' <=> Target(c)
    BY <1>6 DEF Target
  <2>2. \A c : ~CommitDue(c)
    BY <1>8 DEF CommitDue
  <2> QED BY <1>6, <1>7, <1>10, <1>11, <2>1, <2>2 DEF Committing
<1>13. Concluding'
  BY <1>4, <1>6, <1>10, <1>11 DEF Concluding, WritesLast
<1>14. WritesAtOnce'
  <2>1. PICK c : c = PlainStep("conclude", 0)
    OBVIOUS
  <2>2. c \in Steps /\ c.do = "conclude"
    <3>1. "conclude" \in Applies /\ 0 \in Nat
      BY DEF Applies
    <3> QED BY <2>1, <3>1, PlainStepFacts
  <2>3. PICK rest : rest = <<c>>
    OBVIOUS
  <2>4. rest \in Seq(Steps) /\ \A s : Within(s, rest) => s = c
    <3>1. rest \in Seq(Steps) /\ Len(rest) = 1 /\ rest[1] = c
      BY <2>2, <2>3
    <3> QED BY <3>1 DEF Within
  <2>5. PICK art \in Nat : art = 0
    OBVIOUS
  <2>6. PICK r : r = WriteState(art, st) \o rest
    OBVIOUS
  <2>7. Proceed(r)
    BY <1>4, <2>1, <2>3, <2>5, <2>6 DEF FinishApply
  <2>8. more = r
    BY <1>6, <2>7, ProceedGoes DEF Went
  <2>9. \A s : Within(s, Tail(r)) => Within(s, rest) \/ s.do = "rename"
    BY <2>4, <2>6, OneRemove
  <2> QED BY <1>6, <2>2, <2>4, <2>8, <2>9 DEF WritesAtOnce
<1> QED BY <1>9, <1>12, <1>13, <1>14 DEF CommitInv

LEMMA CommitKept ==
    ASSUME UpdateShapes, CommitInv, [UpdateNext]_updateVars
    PROVE  CommitInv'
<1>1. CASE UNCHANGED updateVars
  BY <1>1 DEF updateVars, CommitInv, ItemsPlaced, Committing, WritesAtOnce, Concluding, Recorded,
              Target, CommitDue, Due
<1>2. CASE UpdateNext
  <2>1. CASE Healthy \/ StepFails \/ Killed
    BY <2>1, EndingTyped, NothingToCommit
  <2>2. CASE ApplyFails
    BY <2>2, FailureGoes, NothingToCommit
  <2>3. CASE UndoFails
    BY <2>3, UndoGoes, NothingToCommit DEF Went
  <2>4. CASE Unhealthy
    BY <2>4, UnhealthyGoes, NothingToCommit
  <2>5. CASE \E relaunch \in BOOLEAN : Conclude(relaunch)
    BY <2>5, NothingToCommit DEF Conclude, End
  <2> QED BY <1>2, <2>1, <2>2, <2>3, <2>4, <2>5, UpdateSteps, StageCommits, BeginCommits,
        FileStepCommits, CheckCommits, WriteCommits, CommitCommits, FinishCommits
<1> QED BY <1>1, <1>2

\* What an apply that has nothing left to do has done.
LEMMA ConcludedFacts ==
    ASSUME UpdateShapes, CommitInv, Doing("conclude")
    PROVE  /\ mode = "applying" /\ Operation(run) /\ state \in States
           /\ state.release = run.release
           /\ \A c : Target(c) <=> c \in Targets(run)
           /\ \A c \in Components : Target(c) => state.builds[c] = CatalogOf(run).full[c]
           /\ \A c \in Components : ~Target(c) => state.builds[c] = entry.state.builds[c]
           /\ \A n \in 1 .. Len(run.arts) : \A x \in ItemsOf(run, n) : installed[x.file] = x.build
<1>1. PICK h : h = Head(work)
  OBVIOUS
<1>2. work # <<>> /\ h.do = "conclude"
  BY <1>1 DEF Doing
<1>3. Operation(run) /\ h.do \in DosOf(mode) /\ Within(h, work)
      /\ mode \in {"installing", "applying", "undoing", "reverting"}
  BY <1>1, <1>2, HeadStep
<1>4. mode = "applying"
  BY <1>2, <1>3 DEF DosOf, Walks
<1>5. ItemsPlaced /\ Committing /\ Concluding
  BY <1>4 DEF CommitInv
<1>6. Recorded = state
  BY <1>1, <1>2 DEF Recorded
<1>7. \A s : Within(s, work) => s.do \notin {"place", "commit"}
  BY <1>2, <1>3, <1>5 DEF Concluding
<1>8. state.release = run.release
  BY <1>2, <1>3, <1>5, <1>6 DEF Concluding
<1>9. \A c : ~CommitDue(c)
  BY <1>7 DEF CommitDue
<1>10. \A f : ~Due("place", f)
  BY <1>7 DEF Due
<1>11. \A c \in Components : /\ Target(c) => state.builds[c] = CatalogOf(run).full[c]
                             /\ ~Target(c) => state.builds[c] = entry.state.builds[c]
  BY <1>5, <1>6, <1>9 DEF Committing
<1>12. \A n \in 1 .. Len(run.arts) : \A x \in ItemsOf(run, n) : installed[x.file] = x.build
  BY <1>5, <1>10 DEF ItemsPlaced
<1>13. \A c : Target(c) <=> c \in Targets(run)
  <2>1. DOMAIN run.arts = 1 .. Len(run.arts)
    BY <1>3, OperationFacts
  <2> QED BY <2>1 DEF Target, Targets
<1>14. state \in States
  BY DEF UpdateShapes
<1> QED BY <1>3, <1>4, <1>8, <1>11, <1>12, <1>13, <1>14

LEMMA CommitInvShows ==
    ASSUME UpdateShapes, CommitInv
    PROVE  CommittedIsInstalled
<1> SUFFICES ASSUME Doing("conclude"), NEW c \in Targets(run)
             PROVE  state.builds[c] # 0 /\ InPlace(c) /\ state.release = run.release
  BY DEF CommittedIsInstalled
<1>1. /\ Operation(run) /\ state.release = run.release /\ Target(c)
      /\ \A d \in Components : Target(d) => state.builds[d] = CatalogOf(run).full[d]
      /\ \A n \in 1 .. Len(run.arts) : \A x \in ItemsOf(run, n) : installed[x.file] = x.build
  BY ConcludedFacts
<1>2. PICK n \in 1 .. Len(run.arts) : c \in DOMAIN BundleComponents(CatalogOf(run), run.arts[n])
  BY <1>1 DEF Target
<1>3. PICK cat \in Catalogs, kind \in CatalogOf(run).artifacts : cat = CatalogOf(run) /\ kind = run.arts[n]
  BY <1>1, OperationFacts
<1>4. kind \in cat.artifacts
  BY <1>3
<1>5. c \in Components /\ BundleComponents(cat, kind)[c] \in Builds
      /\ BundleComponents(cat, kind)[c] = cat.full[c]
  <2>1. c \in DOMAIN BundleComponents(cat, kind)
    BY <1>2, <1>3
  <2>2. cat \in Catalogs
    BY <1>3
  <2>3. DOMAIN BundleComponents(cat, kind) \subseteq Components
    BY <1>4, <2>2, BundleFacts
  <2>4. /\ BundleComponents(cat, kind)[c] \in Builds
        /\ BundleComponents(cat, kind)[c] = cat.full[c]
    BY <1>4, <2>1, <2>2, BundleFacts
  <2> QED BY <2>1, <2>3, <2>4
<1>6. PICK b \in Builds : b = cat.full[c]
  BY <1>5
<1>7. state.builds[c] = b /\ b # 0
  BY <1>1, <1>3, <1>5, <1>6, PayloadAssumption
<1>8. ASSUME NEW f \in ToSet(Payload[c][b]) PROVE installed[f] = b
  <2>1. PICK x : x = [file |-> f, build |-> b]
    OBVIOUS
  <2>2. x.file = f /\ x.build = b
    BY <2>1
  <2>3. Ships(cat, kind, x)
    BY <1>2, <1>3, <1>5, <1>6, <2>1 DEF Ships, Pay
  <2>4. x \in ItemsOf(run, n)
    BY <1>1, <1>3, <2>3, ItemsFacts
  <2> QED BY <1>1, <2>2, <2>4
<1>9. InPlace(c)
  BY <1>7, <1>8 DEF InPlace
<1> QED BY <1>1, <1>7, <1>9

LEMMA CommitAtStart ==
    ASSUME UpdateInit
    PROVE  CommitInv
BY DEF UpdateInit, CommitInv

\* A run of the updater that ends well leaves every file of every component that
\* it was to update at the build that install-state.json then names, whatever was
\* interrupted, failed or rolled back before: apply_staged, commit_bundle_state.
THEOREM WhatIsCommittedIsInstalled == UpdateSpec => []CommittedIsInstalled
<1> DEFINE CommitsInv == UpdateShapes /\ CommitInv
<1>1. UpdateInit => CommitsInv
  BY ShapesAtStart, CommitAtStart
<1>2. CommitsInv /\ [UpdateNext]_updateVars => CommitsInv'
  BY ShapesKept, CommitKept
<1>3. CommitsInv => CommittedIsInstalled
  BY CommitInvShows
<1> HIDE DEF CommitsInv
<1> QED BY <1>1, <1>2, <1>3, PTL DEF UpdateSpec

\* The protocol of a component depends on its own build only.
LEMMA ProtocolAlike ==
    ASSUME NEW c, NEW builds, NEW others, c \in DOMAIN builds, c \in DOMAIN others,
           builds[c] = others[c]
    PROVE  ProtocolOf(builds, c) = ProtocolOf(others, c)
BY DEF ProtocolOf

LEMMA EntryTyped ==
    ASSUME UpdateShapes, Doing("conclude")
    PROVE  entry.state.builds \in [Components -> Nat]
<1>1. mode \notin {"idle", "verifying"}
  BY DEF UpdateShapes, Doing
<1>2. entry \in Entries
  BY <1>1 DEF UpdateShapes, Busy, UpdateModes
<1> QED BY <1>2 DEF Entries, States

LEMMA OnlyOne ==
    ASSUME NEW c, NEW other, <<c>> = <<other>>
    PROVE  c = other
<1>1. PICK arts : arts = <<c>>
  OBVIOUS
<1>2. arts[1] = c
  BY <1>1
<1>3. arts = <<other>>
  BY <1>1
<1>4. arts[1] = other
  BY <1>3
<1> QED BY <1>2, <1>4

LEMMA OneIsNotTwo ==
    ASSUME NEW c, NEW one, NEW two
    PROVE  <<c>> # <<one, two>> /\ <<c>> # <<>>
<1>1. PICK arts : arts = <<c>>
  OBVIOUS
<1>2. Len(arts) = 1
  BY <1>1
<1>3. arts # <<>>
  <2> SUFFICES ASSUME arts = <<>> PROVE FALSE
    OBVIOUS
  <2>1. Len(arts) = 0
    OBVIOUS
  <2> QED BY <1>2, <2>1
<1>4. arts # <<one, two>>
  <2> SUFFICES ASSUME arts = <<one, two>> PROVE FALSE
    OBVIOUS
  <2>1. Len(arts) = 2
    OBVIOUS
  <2> QED BY <1>2, <2>1
<1> QED BY <1>1, <1>3, <1>4

\* The plan <<c>> is made in one place, after the protocols were compared.
LEMMA OneSided ==
    ASSUME NEW s, NEW cat, NEW c, NEW other,
           <<c, other>> \in {<<"frontend", "backend">>, <<"backend", "frontend">>},
           c # "full", c # "runtime", PlanUpdate(s, cat) = <<c>>
    PROVE  ProtocolOf(cat.builds, c) = ProtocolOf(s.builds, other)
<1>1. \/ c = "frontend" /\ other = "backend"
      \/ c = "backend" /\ other = "frontend"
  OBVIOUS
<1>2. FullPlan(cat) # <<c>>
  <2>1. <<"full">> # <<c>>
    BY OnlyOne
  <2>2. <<>> # <<c>>
    BY OneIsNotTwo
  <2> QED BY <2>1, <2>2 DEF FullPlan
<1>3. ASSUME NEW arts, arts # <<c>> PROVE ComponentPlan(cat, arts) # <<c>>
  BY <1>2, <1>3 DEF ComponentPlan
<1>4. ComponentPlan(cat, <<"runtime">>) # <<c>>
  <2>1. <<"runtime">> # <<c>>
    BY OnlyOne
  <2> QED BY <1>3, <2>1
<1>5. ComponentPlan(cat, <<"frontend", "backend">>) # <<c>>
  <2>1. <<"frontend", "backend">> # <<c>>
    BY OneIsNotTwo
  <2> QED BY <1>3, <2>1
<1>6. <<>> # <<c>>
  BY OneIsNotTwo
<1>7. \/ PlanUpdate(s, cat) = OneSidedPlan(s, cat, "backend", "frontend")
      \/ PlanUpdate(s, cat) = OneSidedPlan(s, cat, "frontend", "backend")
  BY <1>2, <1>4, <1>5, <1>6 DEF PlanUpdate
<1>8. ASSUME NEW d, NEW e, OneSidedPlan(s, cat, d, e) = <<c>>
      PROVE  d = c /\ ProtocolOf(cat.builds, d) = ProtocolOf(s.builds, e)
  <2>1. ProtocolOf(cat.builds, d) = ProtocolOf(s.builds, e) /\ ComponentPlan(cat, <<d>>) = <<c>>
    BY <1>2, <1>8 DEF OneSidedPlan
  <2>2. <<d>> = <<c>>
    BY <1>3, <2>1
  <2>3. d = c
    BY <2>2, OnlyOne
  <2> QED BY <2>1, <2>3
<1>9. CASE PlanUpdate(s, cat) = OneSidedPlan(s, cat, "backend", "frontend")
  <2>1. "backend" = c /\ ProtocolOf(cat.builds, "backend") = ProtocolOf(s.builds, "frontend")
    BY <1>8, <1>9
  <2> QED BY <1>1, <2>1
<1>10. CASE PlanUpdate(s, cat) = OneSidedPlan(s, cat, "frontend", "backend")
  <2>1. "frontend" = c /\ ProtocolOf(cat.builds, "frontend") = ProtocolOf(s.builds, "backend")
    BY <1>8, <1>10
  <2> QED BY <1>1, <2>1
<1> QED BY <1>7, <1>9, <1>10

\* A component that is updated alone: the other side is not touched.
LEMMA TargetsOfOne ==
    ASSUME Operation(run), NEW kind \in Kinds, run.arts = <<kind>>
    PROVE  /\ kind \in CatalogOf(run).artifacts
           /\ kind = "full" => \A c \in Components : Target(c)
           /\ kind # "full" => \A c : Target(c) <=> c = kind
<1>1. CatalogOf(run) \in Catalogs /\ \A n \in 1 .. Len(run.arts) : run.arts[n] \in CatalogOf(run).artifacts
  BY OperationFacts
<1>2. PICK cat \in Catalogs, arts \in {run.arts} : arts = run.arts /\ cat = CatalogOf(run)
  BY <1>1
<1>3. arts = <<kind>>
  BY <1>2
<1>4. Len(arts) = 1 /\ arts[1] = kind
  BY <1>3
<1>5. 1 \in 1 .. 1 /\ \A n \in 1 .. 1 : n = 1
  OBVIOUS
<1>6. kind \in cat.artifacts
  BY <1>1, <1>2, <1>4, <1>5
<1>7. \A c : Target(c) <=> c \in DOMAIN BundleComponents(cat, kind)
  BY <1>2, <1>4, <1>5 DEF Target
<1>8. /\ kind # "full" => DOMAIN BundleComponents(cat, kind) = {kind}
      /\ kind = "full" => DOMAIN BundleComponents(cat, kind) = Components
  BY <1>2, <1>6, BundleFacts
<1> QED BY <1>2, <1>6, <1>7, <1>8

LEMMA TargetsOfTwo ==
    ASSUME Operation(run), run.arts = <<"frontend", "backend">>
    PROVE  Target("frontend") /\ Target("backend")
<1>1. CatalogOf(run) \in Catalogs /\ \A n \in 1 .. Len(run.arts) : run.arts[n] \in CatalogOf(run).artifacts
  BY OperationFacts
<1>2. PICK cat \in Catalogs, arts \in {run.arts} : arts = run.arts /\ cat = CatalogOf(run)
  BY <1>1
<1>3. arts = <<"frontend", "backend">>
  BY <1>2
<1>4. Len(arts) = 2 /\ arts[1] = "frontend" /\ arts[2] = "backend"
  BY <1>3
<1>5. 1 \in 1 .. 2 /\ 2 \in 1 .. 2
  OBVIOUS
<1>6. "frontend" \in cat.artifacts /\ "backend" \in cat.artifacts
  BY <1>1, <1>2, <1>4, <1>5
<1>7. "frontend" \in DOMAIN BundleComponents(cat, "frontend")
  BY <1>2, <1>6, BundleFacts
<1>8. "backend" \in DOMAIN BundleComponents(cat, "backend")
  BY <1>2, <1>6, BundleFacts
<1> QED BY <1>2, <1>4, <1>5, <1>7, <1>8 DEF Target

\* One side alone is updated by a catalog whose build speaks what the other side does.
LEMMA OneSideAgrees ==
    ASSUME UpdateShapes, CommitInv, Doing("conclude"), OtherSidesSpeakAsPlanned,
           NEW c \in {"frontend", "backend"}, NEW other \in {"frontend", "backend"}, c # other,
           run.arts = <<c>>
    PROVE  Agree(state.builds)
<1>1. /\ mode = "applying" /\ Operation(run) /\ state \in States
      /\ \A d \in Components : Target(d) => state.builds[d] = CatalogOf(run).full[d]
      /\ \A d \in Components : ~Target(d) => state.builds[d] = entry.state.builds[d]
  BY ConcludedFacts
<1>2. c \in Components /\ other \in Components /\ c \in Kinds /\ c # "full" /\ c # "runtime"
  BY DEF Components, Kinds
<1>3. c \in CatalogOf(run).artifacts /\ \A d : Target(d) <=> d = c
  BY <1>1, <1>2, TargetsOfOne
<1>4. Planned(run) /\ run # NoOp /\ CatalogOf(run) \in Catalogs
  BY <1>1, OperationFacts DEF UpdateShapes
<1>5. PICK cat \in Catalogs : cat = CatalogOf(run)
  BY <1>4
<1>6. PICK old : old = run.previous
  OBVIOUS
<1>7. run.arts = PlanUpdate(old, cat)
  BY <1>4, <1>5, <1>6 DEF Planned
<1>8. PlanUpdate(old, cat) = <<c>>
  BY <1>7
<1>9. <<c, other>> \in {<<"frontend", "backend">>, <<"backend", "frontend">>}
  OBVIOUS
<1>10. ProtocolOf(cat.builds, c) = ProtocolOf(old.builds, other)
  BY <1>2, <1>8, <1>9, OneSided
<1>11. CatalogOK(cat)
  BY CatalogsAssumption
<1>12. c \in DOMAIN cat.builds /\ cat.full[c] = cat.builds[c]
  BY <1>2, <1>3, <1>5, <1>11 DEF CatalogOK
<1>13. old.builds \in [Components -> Nat]
  BY <1>1, <1>6 DEF Operation, States
<1>14. PICK builds \in [Components -> Nat] : builds = state.builds
  BY <1>1 DEF States
<1>15. PICK at \in [Components -> Nat] : at = entry.state.builds
  BY EntryTyped
<1>16. builds[c] = cat.builds[c] /\ builds[other] = at[other]
  BY <1>1, <1>2, <1>3, <1>5, <1>12, <1>14, <1>15
<1>17. other \notin Targets(run)
  BY <1>3, ConcludedFacts
<1>18. ProtocolOf(at, other) = ProtocolOf(old.builds, other)
  BY <1>6, <1>15, <1>17 DEF OtherSidesSpeakAsPlanned
<1>19. ProtocolOf(builds, c) = ProtocolOf(cat.builds, c)
  BY <1>2, <1>12, <1>16, ProtocolAlike
<1>20. ProtocolOf(builds, other) = ProtocolOf(at, other)
  BY <1>2, <1>16, ProtocolAlike
<1>21. ProtocolOf(builds, c) = ProtocolOf(builds, other)
  BY <1>10, <1>18, <1>19, <1>20
<1> QED BY <1>14, <1>21 DEF Agree

LEMMA CommitInvAgrees ==
    ASSUME UpdateShapes, CommitInv
    PROVE  ProtocolsAgree
<1> SUFFICES ASSUME Doing("conclude"), OtherSidesSpeakAsPlanned,
                    Agree(run.previous.builds), Agree(CatalogOf(run).full)
             PROVE  Agree(state.builds)
  BY DEF ProtocolsAgree
<1>1. /\ mode = "applying" /\ Operation(run) /\ state \in States
      /\ \A d \in Components : Target(d) => state.builds[d] = CatalogOf(run).full[d]
      /\ \A d \in Components : ~Target(d) => state.builds[d] = entry.state.builds[d]
  BY ConcludedFacts
<1>2. CatalogOf(run) \in Catalogs /\ Kinded(run, CatalogOf(run))
  BY <1>1, OperationFacts
<1>3. PICK cat \in Catalogs : cat = CatalogOf(run)
  BY <1>2
<1>4. CatalogOK(cat)
  BY CatalogsAssumption
<1>5. PICK full \in [Components -> Builds] : full = cat.full
  BY <1>4 DEF CatalogOK
<1>6. PICK builds \in [Components -> Nat] : builds = state.builds
  BY <1>1 DEF States
<1>7. PICK old \in [Components -> Nat] : old = run.previous.builds
  BY <1>1 DEF Operation, States
<1>8. "frontend" \in Components /\ "backend" \in Components
  BY DEF Components
<1>9. ASSUME Target("frontend"), Target("backend") PROVE Agree(state.builds)
  <2>1. builds["frontend"] = full["frontend"] /\ builds["backend"] = full["backend"]
    BY <1>1, <1>3, <1>5, <1>6, <1>8, <1>9
  <2>2. ProtocolOf(builds, "frontend") = ProtocolOf(full, "frontend")
    BY <1>8, <2>1, ProtocolAlike
  <2>3. ProtocolOf(builds, "backend") = ProtocolOf(full, "backend")
    BY <1>8, <2>1, ProtocolAlike
  <2>4. ProtocolOf(full, "frontend") = ProtocolOf(full, "backend")
    BY <1>3, <1>5 DEF Agree
  <2>5. ProtocolOf(builds, "frontend") = ProtocolOf(builds, "backend")
    BY <2>2, <2>3, <2>4
  <2> QED BY <1>6, <2>5 DEF Agree
<1>10. ASSUME ~Target("frontend"), ~Target("backend") PROVE Agree(state.builds)
  <2>1. PICK at \in [Components -> Nat] : at = entry.state.builds
    BY EntryTyped
  <2>2. builds["frontend"] = at["frontend"] /\ builds["backend"] = at["backend"]
    BY <1>1, <1>6, <1>8, <1>10, <2>1
  <2>3. ProtocolOf(builds, "frontend") = ProtocolOf(at, "frontend")
    BY <1>8, <2>2, ProtocolAlike
  <2>4. ProtocolOf(builds, "backend") = ProtocolOf(at, "backend")
    BY <1>8, <2>2, ProtocolAlike
  <2>5. "frontend" \notin Targets(run) /\ "backend" \notin Targets(run)
    BY <1>10, ConcludedFacts
  <2>6. /\ ProtocolOf(at, "frontend") = ProtocolOf(old, "frontend")
        /\ ProtocolOf(at, "backend") = ProtocolOf(old, "backend")
    BY <1>7, <2>1, <2>5 DEF OtherSidesSpeakAsPlanned
  <2>7. ProtocolOf(old, "frontend") = ProtocolOf(old, "backend")
    BY <1>7 DEF Agree
  <2>8. ProtocolOf(builds, "frontend") = ProtocolOf(builds, "backend")
    BY <2>3, <2>4, <2>6, <2>7
  <2> QED BY <1>6, <2>8 DEF Agree
<1>11. CASE run.arts = <<"frontend", "backend">>
  BY <1>1, <1>9, <1>11, TargetsOfTwo
<1>12. ASSUME NEW kind \in Kinds, run.arts = <<kind>> PROVE Agree(state.builds)
  <2>1. /\ kind = "full" => \A c \in Components : Target(c)
        /\ kind # "full" => \A c : Target(c) <=> c = kind
    BY <1>1, <1>12, TargetsOfOne
  <2>2. CASE kind = "full"
    BY <1>8, <1>9, <2>1, <2>2
  <2>3. CASE kind = "runtime"
    BY <1>10, <2>1, <2>3
  <2>4. CASE kind = "frontend"
    <3>1. run.arts = <<"frontend">>
      BY <1>12, <2>4
    <3> QED BY <3>1, OneSideAgrees
  <2>5. CASE kind = "backend"
    <3>1. run.arts = <<"backend">>
      BY <1>12, <2>5
    <3> QED BY <3>1, OneSideAgrees
  <2> QED BY <2>2, <2>3, <2>4, <2>5 DEF Kinds, Components
<1> QED BY <1>2, <1>3, <1>4, <1>11, <1>12 DEF Kinded, CatalogOK

\* Where the installed frontend and backend spoke one protocol when the update was
\* planned, and those of the release do, the pair that a run of the updater leaves does
\* too, whatever was installed, applied in part or rolled back since - as long as the
\* side it does not replace still speaks the protocol that plan_update compared.
THEOREM BothSidesSpeakOneProtocol == UpdateSpec => []ProtocolsAgree
<1> DEFINE CommitsInv == UpdateShapes /\ CommitInv
<1>1. UpdateInit => CommitsInv
  BY ShapesAtStart, CommitAtStart
<1>2. CommitsInv /\ [UpdateNext]_updateVars => CommitsInv'
  BY ShapesKept, CommitKept
<1>3. CommitsInv => ProtocolsAgree
  BY CommitInvAgrees
<1> HIDE DEF CommitsInv
<1> QED BY <1>1, <1>2, <1>3, PTL DEF UpdateSpec

-----------------------------------------------------------------------------
(* A component update that is undone leaves the files as they were.           *)

Pristine(f) == installed[f] = entry.installed[f] /\ backup[f] = 0
SetAside(f) == installed[f] = 0 /\ backup[f] = entry.installed[f]
Replaced(x) == installed[x.file] = x.build /\ backup[x.file] = entry.installed[x.file]
AllPristine == \A x \in OpFiles(run) : Pristine(x.file)

\* Nothing is left to do for an artifact before the n-th.
NoneBefore(n) == \A s : Within(s, work) => s.art = 0 \/ n <= s.art

\* The file x of artifact n while the update goes on, and while it is undone.
ForwardOf(n, x) ==
    \/ Pristine(x.file) /\ Due("place", x.file) /\ ~Now("place", x.file)
    \/ SetAside(x.file) /\ Now("place", x.file)
    \/ Replaced(x) /\ ~Due("place", x.file) /\ NoneBefore(n)
BackwardOf(x) ==
    \/ Pristine(x.file)
    \/ SetAside(x.file) /\ Now("return", x.file)
    \/ Replaced(x) /\ Due("clear", x.file)
AllForward == \A n \in 1 .. Len(run.arts) : \A x \in ItemsOf(run, n) : ForwardOf(n, x)
AllBackward == \A x \in OpFiles(run) : BackwardOf(x)

\* The update has checked nothing yet, or only the first artifact's hash; after
\* that the application is there, or is being put in place.
Opening == work = ApplyArtifacts(run) \/ work = Tail(ApplyArtifacts(run))
AppThere == installed[AppFile] # 0 \/ Now("place", AppFile) \/ (AllPristine /\ Opening)

OthersStay ==
    \A f \in Files : (\A x \in OpFiles(run) : x.file # f) => installed[f] = entry.installed[f]
Restoring == PartUpdate /\ CleanEntry /\ mode # "installing"
RestoreInv ==
    Restoring =>
        /\ OthersStay
        /\ mode = "applying" => AppThere /\ AllForward
        /\ mode = "verifying" => \A x \in OpFiles(run) : Replaced(x)
        /\ mode = "undoing" =>
              \/ AllPristine
              \/ used.fault > entry.faults + 1
              \/ used.fault = entry.faults + 1 /\ AllBackward
        /\ mode = "reverting" => used.fault = entry.faults /\ AllBackward

\* The first step of a bundle opens it.
LEMMA BundleOpens ==
    ASSUME NEW cat \in Catalogs, NEW kind \in cat.artifacts, NEW art \in Nat, art # 0
    PROVE  /\ ApplyBundle(cat, kind, art) \in Seq(Steps)
           /\ Len(ApplyBundle(cat, kind, art)) > 0
           /\ ApplyBundle(cat, kind, art)[1] = PlainStep("open", art)
<1>1. PICK m \in Seq(Items) : m = Manifest(cat, kind)
  BY ManifestFacts
<1>2. PICK p \in BOOLEAN : p = (kind # "full")
  OBVIOUS
<1>3. PICK parts : parts = [i \in DOMAIN m |-> InstallFile(art, m[i], p)]
  OBVIOUS
<1>4. Len(m) \in Nat /\ DOMAIN m = 1 .. Len(m) /\ \A i \in 1 .. Len(m) : m[i] \in Items
  OBVIOUS
<1>5. parts \in Seq(Seq(Steps))
  <2>1. \A i \in 1 .. Len(m) : parts[i] = InstallFile(art, m[i], p) /\ Whole(InstallFile(art, m[i], p))
    BY <1>3, <1>4, InstallFileFacts
  <2>2. \A i \in 1 .. Len(m) : parts[i] \in Seq(Steps)
    BY <2>1 DEF Whole
  <2>3. parts \in [1 .. Len(m) -> Seq(Steps)]
    BY <1>3, <1>4, <2>2
  <2> QED BY <1>4, <2>3
<1>6. PICK flat \in Seq(Steps) : flat = FlattenSeq(parts)
  <2>1. FlattenSeq(parts) \in Seq(Steps)
    BY <1>5, FlattenTyped
  <2> QED BY <2>1
<1>7. PICK o, c : o = PlainStep("open", art) /\ c = PlainStep("commit", art)
  OBVIOUS
<1>8. o \in Steps /\ c \in Steps
  <2>1. "open" \in Applies /\ "commit" \in Applies
    BY DEF Applies
  <2> QED BY <1>7, <2>1, PlainStepFacts
<1>9. PICK front, all : front = <<o>> \o flat /\ all = front \o <<c>>
  OBVIOUS
<1>10. <<o>> \in Seq(Steps) /\ <<c>> \in Seq(Steps) /\ Len(<<o>>) = 1 /\ Len(<<c>>) = 1 /\ <<o>>[1] = o
  BY <1>8
<1>11. front \in Seq(Steps) /\ Len(front) = 1 + Len(flat) /\ Len(flat) \in Nat /\ front[1] = o
  <2>1. /\ front \in Seq(Steps) /\ Len(front) = Len(<<o>>) + Len(flat) /\ Len(flat) \in Nat
        /\ \A i \in 1 .. Len(<<o>>) + Len(flat) :
              front[i] = IF i <= Len(<<o>>) THEN <<o>>[i] ELSE flat[i - Len(<<o>>)]
    BY <1>6, <1>9, <1>10, ConcatProperties
  <2>2. 1 \in 1 .. Len(<<o>>) + Len(flat) /\ 1 <= Len(<<o>>)
    BY <1>10, <2>1
  <2>3. front[1] = <<o>>[1]
    BY <2>1, <2>2
  <2> QED BY <1>10, <2>1, <2>3
<1>12. all \in Seq(Steps) /\ Len(all) > 0 /\ all[1] = o
  <2>1. /\ all \in Seq(Steps) /\ Len(all) = Len(front) + Len(<<c>>)
        /\ \A i \in 1 .. Len(front) + Len(<<c>>) :
              all[i] = IF i <= Len(front) THEN front[i] ELSE <<c>>[i - Len(front)]
    BY <1>9, <1>10, <1>11, ConcatProperties
  <2>2. 1 \in 1 .. Len(front) + Len(<<c>>) /\ 1 <= Len(front) /\ Len(all) > 0
    BY <1>10, <1>11, <2>1
  <2>3. all[1] = front[1]
    BY <2>1, <2>2
  <2> QED BY <1>11, <2>1, <2>2, <2>3
<1>13. ApplyBundle(cat, kind, art) = all
  <2>1. parts = [i \in DOMAIN m |-> InstallFile(art, m[i], kind # "full")]
    BY <1>2, <1>3
  <2> QED BY <1>1, <1>6, <1>7, <1>9, <2>1 DEF ApplyBundle
<1> QED BY <1>7, <1>12, <1>13

\* The first two steps of an update.
LEMMA ApplyOpens ==
    ASSUME NEW op, Operation(op), NEW w, w = ApplyArtifacts(op)
    PROVE  /\ w \in Seq(Steps) /\ w # <<>> /\ Head(w).do = "check"
           /\ Tail(w) # <<>> /\ Head(Tail(w)).do = "open" /\ Head(Tail(w)).art = 1
<1>1. PICK cat \in Catalogs, arts \in Seq(Kinds) : cat = CatalogOf(op) /\ arts = op.arts
  BY OperationFacts
<1>2. PICK N \in 1 .. 2 : DOMAIN op.arts = 1 .. N /\ \A n \in 1 .. N : arts[n] \in cat.artifacts
  BY <1>1, OperationFacts
<1>3. PICK parts : parts = [i \in 1 .. N |-> <<PlainStep("check", i)>> \o ApplyBundle(cat, arts[i], i)]
  OBVIOUS
<1>4. ASSUME NEW i \in 1 .. N
      PROVE  /\ parts[i] \in Seq(Steps) /\ Len(parts[i]) > 1
             /\ parts[i][1].do = "check" /\ parts[i][2].do = "open" /\ parts[i][2].art = i
  <2>1. i \in Nat /\ i # 0
    BY <1>2
  <2>2. PICK k, b : k = PlainStep("check", i) /\ b = ApplyBundle(cat, arts[i], i)
    OBVIOUS
  <2>3. k \in Steps /\ k.do = "check"
    <3>1. "check" \in Applies
      BY DEF Applies
    <3> QED BY <2>1, <2>2, <3>1, PlainStepFacts
  <2>4. PICK o : o = PlainStep("open", i) /\ o.do = "open" /\ o.art = i
    <3>1. "open" \in Applies
      BY DEF Applies
    <3> QED BY <2>1, <3>1, PlainStepFacts
  <2>5. b \in Seq(Steps) /\ Len(b) > 0 /\ b[1] = o
    <3>1. PICK kind \in cat.artifacts : kind = arts[i]
      BY <1>2
    <3> QED BY <2>1, <2>2, <2>4, <3>1, BundleOpens
  <2>6. <<k>> \in Seq(Steps) /\ Len(<<k>>) = 1 /\ <<k>>[1] = k
    BY <2>3
  <2>7. PICK r : r = <<k>> \o b
    OBVIOUS
  <2>8. /\ r \in Seq(Steps) /\ Len(r) = Len(<<k>>) + Len(b) /\ Len(b) \in Nat
        /\ \A j \in 1 .. Len(<<k>>) + Len(b) :
              r[j] = IF j <= Len(<<k>>) THEN <<k>>[j] ELSE b[j - Len(<<k>>)]
    BY <2>5, <2>6, <2>7, ConcatProperties
  <2>9. 1 \in 1 .. 1 + Len(b) /\ 2 \in 1 .. 1 + Len(b) /\ 2 - 1 = 1 /\ Len(r) > 1
    BY <2>5, <2>6, <2>8
  <2>10. r[1] = k /\ r[2] = b[1]
    BY <2>6, <2>8, <2>9
  <2>11. parts[i] = r
    BY <1>3, <2>2, <2>7
  <2> QED BY <2>3, <2>4, <2>5, <2>8, <2>9, <2>10, <2>11
<1>5. parts \in Seq(Seq(Steps)) /\ Len(parts) = N
  <2>1. parts \in [1 .. N -> Seq(Steps)]
    BY <1>3, <1>4
  <2> QED BY <1>2, <2>1
<1>6. PICK h : FlatUpTo(h, N, parts) /\ FlattenSeq(parts) = h[N]
  <2>1. Len(parts) # 0 /\ parts \in Seq(Seq(Steps))
    BY <1>2, <1>5
  <2> QED BY <1>5, <2>1, FlattenIsFlat
<1>7. PICK p : p = parts[1]
  OBVIOUS
<1>8. p \in Seq(Steps) /\ Len(p) > 1 /\ p[1].do = "check" /\ p[2].do = "open" /\ p[2].art = 1
  <2>1. 1 \in 1 .. N
    BY <1>2
  <2> QED BY <1>4, <1>7, <2>1
<1>9. PICK flat \in Seq(Steps) : flat = FlattenSeq(parts)
  <2>1. FlattenSeq(parts) \in Seq(Steps)
    BY <1>5, FlattenTyped
  <2> QED BY <2>1
<1>10. Len(flat) > 1 /\ flat[1] = p[1] /\ flat[2] = p[2]
  <2>1. h[1] = p
    <3>1. 1 \in 1 .. N
      BY <1>2
    <3> QED BY <1>6, <1>7, <3>1 DEF FlatUpTo
  <2>2. CASE N = 1
    BY <1>6, <1>8, <1>9, <2>1, <2>2
  <2>3. CASE N = 2
    <3>1. 2 \in 1 .. N /\ 2 # 1 /\ 2 - 1 = 1
      BY <2>3
    <3>2. h[2] = h[1] \o parts[2] /\ parts[2] \in Seq(Steps)
      <4>1. h[2] = Behind(h[1], parts[2])
        BY <1>6, <3>1 DEF FlatUpTo
      <4>2. parts[2] \in Seq(Steps)
        BY <1>4, <3>1
      <4> QED BY <4>1, <4>2 DEF Behind
    <3>3. PICK q \in Seq(Steps) : q = parts[2]
      BY <3>2
    <3>4. flat = p \o q
      BY <1>6, <1>9, <2>1, <2>3, <3>2, <3>3
    <3>5. /\ Len(flat) = Len(p) + Len(q) /\ Len(q) \in Nat /\ Len(p) \in Nat
          /\ \A i \in 1 .. Len(p) + Len(q) : flat[i] = IF i <= Len(p) THEN p[i] ELSE q[i - Len(p)]
      BY <1>8, <3>4, ConcatProperties
    <3>6. 1 \in 1 .. Len(p) + Len(q) /\ 2 \in 1 .. Len(p) + Len(q) /\ 1 <= Len(p) /\ 2 <= Len(p)
      BY <1>8, <3>5
    <3> QED BY <1>8, <3>5, <3>6
  <2> QED BY <1>2, <2>2, <2>3
<1>11. PICK e : e = PlainStep("finish", 0)
  OBVIOUS
<1>12. <<e>> \in Seq(Steps) /\ Len(<<e>>) = 1
  <2>1. "finish" \in Applies /\ 0 \in Nat
    BY DEF Applies
  <2>2. e \in Steps
    BY <1>11, <2>1, PlainStepFacts
  <2> QED BY <2>2
<1>13. w = flat \o <<e>>
  <2>1. parts = [i \in DOMAIN op.arts |-> <<PlainStep("check", i)>> \o ApplyBundle(cat, op.arts[i], i)]
    BY <1>1, <1>2, <1>3
  <2> QED BY <1>1, <1>9, <1>11, <2>1 DEF ApplyArtifacts
<1>14. w \in Seq(Steps) /\ Len(w) > 2 /\ w[1] = flat[1] /\ w[2] = flat[2]
  <2>1. /\ w \in Seq(Steps) /\ Len(w) = Len(flat) + Len(<<e>>) /\ Len(flat) \in Nat
        /\ \A i \in 1 .. Len(flat) + Len(<<e>>) : w[i] = IF i <= Len(flat) THEN flat[i] ELSE <<e>>[i - Len(flat)]
    BY <1>9, <1>12, <1>13, ConcatProperties
  <2>2. 1 \in 1 .. Len(flat) + 1 /\ 2 \in 1 .. Len(flat) + 1 /\ 1 <= Len(flat) /\ 2 <= Len(flat)
    BY <1>10, <2>1
  <2> QED BY <1>10, <1>12, <2>1, <2>2
<1>15. w # <<>>
  BY <1>14
<1>16. /\ Head(w) = w[1] /\ Len(Tail(w)) = Len(w) - 1 /\ Tail(w) \in Seq(Steps)
       /\ \A i \in 1 .. Len(Tail(w)) : Tail(w)[i] = w[i + 1]
  BY <1>14, <1>15, HeadFacts
<1>17. PICK t \in Seq(Steps) : t = Tail(w)
  BY <1>16
<1>19. t # <<>> /\ 1 \in 1 .. Len(t) /\ 1 + 1 = 2
  <2>1. Len(w) \in Nat
    BY <1>14
  <2>2. Len(t) = Len(w) - 1
    BY <1>16, <1>17
  <2>3. Len(t) \in Nat /\ Len(t) > 0
    BY <1>14, <2>1, <2>2
  <2> QED BY <2>3
<1>18. Head(t) = t[1] /\ t[1] = w[2]
  BY <1>16, <1>17, <1>19
<1> QED BY <1>8, <1>10, <1>14, <1>15, <1>16, <1>17, <1>18, <1>19

\* What is left to do but the step that was taken is still left.
LEMMA StillDue ==
    ASSUME UpdateShapes, work # <<>>, work' = Tail(work), NEW do, NEW f, Due(do, f),
           ~(Head(work).do = do /\ Head(work).file = f)
    PROVE  Due(do, f)'
<1>1. PICK t : Within(t, work) /\ t.do = do /\ t.file = f
  BY DEF Due
<1>2. Within(t, Tail(work))
  BY <1>1, HeadStep
<1> QED BY <1>1, <1>2 DEF Due

\* The second of two steps on a file follows the first one at once.
LEMMA SecondFollows ==
    ASSUME NEW op, NEW how, NEW w, Queue(op, how, w), w # <<>>,
           NEW first, NEW second, Head(w).do = first,
           <<first, second>> \in {<<"drop", "keep">>, <<"keep", "place">>, <<"clear", "return">>}
    PROVE  Tail(w) # <<>> /\ Head(Tail(w)).do = second /\ Head(Tail(w)).file = Head(w).file
<1>1. \/ first = "drop" /\ second = "keep"
      \/ first = "keep" /\ second = "place"
      \/ first = "clear" /\ second = "return"
  OBVIOUS
<1>2. PICK s, t : s = Head(w) /\ t = Head(Tail(w))
  OBVIOUS
<1>3. s.do \in Firsts
  BY <1>1, <1>2 DEF Firsts
<1>4. Tail(w) # <<>> /\ Linked(s, t)
  BY <1>2, <1>3, RestFacts
<1>5. t.do = second /\ s.file = t.file
  BY <1>1, <1>2, <1>3, <1>4 DEF Linked
<1> QED BY <1>2, <1>4, <1>5

LEMMA PlaceIsDue ==
    ASSUME UpdateShapes, work # <<>>, Head(work).do \in {"drop", "keep"}
    PROVE  Due("place", Head(work).file)
<1>1. PICK s : s = Head(work)
  OBVIOUS
<1>2. /\ Queue(run, mode, work) /\ Queue(run, mode, Tail(work))
      /\ \A t : Within(t, work) <=> t = Head(work) \/ Within(t, Tail(work))
  BY HeadStep
<1>3. PICK w : w = Tail(work)
  OBVIOUS
<1>4. \A v \in {work, w} : v # <<>> =>
         (\A t : Within(t, v) <=> t = Head(v) \/ Within(t, Tail(v))) /\ Within(Head(v), v)
  <2>1. \A v \in {work, w} : v \in Seq(Steps)
    BY <1>2, <1>3 DEF Queue
  <2> QED BY <2>1, HeadFacts
<1>5. ASSUME NEW v \in {work, w}, Queue(run, mode, v), v # <<>>, Head(v).do = "keep"
      PROVE  \E t : Within(t, v) /\ t.do = "place" /\ t.file = Head(v).file
  <2>1. Tail(v) # <<>> /\ Head(Tail(v)).do = "place" /\ Head(Tail(v)).file = Head(v).file
    <3>1. <<"keep", "place">> \in {<<"drop", "keep">>, <<"keep", "place">>, <<"clear", "return">>}
      OBVIOUS
    <3> QED BY <1>5, <3>1, SecondFollows
  <2>2. Queue(run, mode, Tail(v))
    BY <1>5, RestFacts
  <2>3. PICK r \in Seq(Steps) : r = Tail(v)
    BY <2>2 DEF Queue
  <2>4. Within(Head(r), r)
    BY <2>1, <2>3, HeadFacts
  <2>5. Within(Head(r), v)
    BY <1>4, <1>5, <2>3, <2>4
  <2> QED BY <2>1, <2>3, <2>5
<1>6. CASE s.do = "keep"
  <2>1. \E t : Within(t, work) /\ t.do = "place" /\ t.file = Head(work).file
    BY <1>1, <1>2, <1>5, <1>6
  <2> QED BY <2>1 DEF Due
<1>7. CASE s.do = "drop"
  <2>1. Tail(work) # <<>> /\ Head(Tail(work)).do = "keep" /\ Head(Tail(work)).file = Head(work).file
    <3>1. <<"drop", "keep">> \in {<<"drop", "keep">>, <<"keep", "place">>, <<"clear", "return">>}
      OBVIOUS
    <3>2. Head(work).do = "drop"
      BY <1>1, <1>7
    <3> QED BY <1>2, <3>1, <3>2, SecondFollows
  <2>2. w # <<>> /\ Head(w).do = "keep" /\ Head(w).file = s.file /\ Queue(run, mode, w)
    BY <1>1, <1>2, <1>3, <2>1
  <2>3. PICK t : Within(t, w) /\ t.do = "place" /\ t.file = Head(w).file
    BY <1>5, <2>2
  <2>4. Within(t, work)
    BY <1>2, <1>3, <2>3
  <2> QED BY <1>1, <2>2, <2>3, <2>4 DEF Due
<1> QED BY <1>1, <1>6, <1>7

\* A step is about one file of the operation, and no other entry of it.
LEMMA StepIsAbout ==
    ASSUME UpdateShapes, work # <<>>, Head(work).do \in FileDos,
           NEW n \in 1 .. Len(run.arts), NEW x \in ItemsOf(run, n), x.file = Head(work).file
    PROVE  n = Head(work).art /\ x.build = Head(work).build
<1>1. PICK s : s = Head(work)
  OBVIOUS
<1>2. Operation(run) /\ StepOf(run, s) /\ s.do \in FileDos
  BY <1>1, HeadStep
<1>3. PICK m \in 1 .. Len(run.arts), y \in {[file |-> s.file, build |-> s.build]} :
         m = s.art /\ y \in ItemsOf(run, m)
  <2>1. s.art \in 1 .. Len(run.arts) /\ [file |-> s.file, build |-> s.build] \in ItemsOf(run, s.art)
    BY <1>2 DEF StepOf
  <2> HIDE DEF ItemsOf
  <2> QED BY <2>1
<1>4. y.file = s.file /\ y.build = s.build
  BY <1>3
<1>5. x.file = y.file
  BY <1>1, <1>4
<1>6. n = m /\ x = y
  <2>1. y \in ItemsOf(run, m)
    BY <1>3
  <2> HIDE DEF ItemsOf
  <2> QED BY <1>2, <1>5, <2>1, ItemsAreUnique
<1> QED BY <1>1, <1>3, <1>4, <1>6

\* Only the first two steps of an update are checks before anything happens.
LEMMA OpeningFacts ==
    ASSUME UpdateShapes, work # <<>>, Opening
    PROVE  \/ Head(work).do = "check" /\ work = ApplyArtifacts(run)
           \/ Head(work).do = "open" /\ Head(work).art = 1
<1>1. PICK w : w = ApplyArtifacts(run)
  OBVIOUS
<1>2. Operation(run)
  BY HeadStep
<1>3. Head(w).do = "check" /\ Head(Tail(w)).do = "open" /\ Head(Tail(w)).art = 1
  BY <1>1, <1>2, ApplyOpens
<1> QED BY <1>1, <1>3 DEF Opening

\* A file that the step is not about.
LEMMA OtherForward ==
    ASSUME UpdateShapes, work # <<>>, mode = "applying", Went(Tail(work)), Busy',
           NEW n, NEW x, ForwardOf(n, x),
           Head(work).do \in FileDos => x.file # Head(work).file,
           installed'[x.file] = installed[x.file], backup'[x.file] = backup[x.file]
    PROVE  ForwardOf(n, x)'
<1>1. PICK s : s = Head(work)
  OBVIOUS
<1>2. /\ run' = run /\ work' = Tail(work) /\ entry' = entry
      /\ \A do, f : Due(do, f)' => Due(do, f)
      /\ work' # <<>> /\ Head(work').do = "place" => s.do = "keep" /\ Head(work').file = s.file
  BY <1>1, AfterStep DEF Went
<1>3. s.do \in {"place", "keep"} => x.file # s.file
  BY <1>1 DEF FileDos
<1>4. CASE Pristine(x.file) /\ Due("place", x.file) /\ ~Now("place", x.file)
  <2>1. Due("place", x.file)'
    BY <1>1, <1>2, <1>3, <1>4, StillDue
  <2>2. ~Now("place", x.file)'
    BY <1>2, <1>3 DEF Now
  <2>3. Pristine(x.file)'
    BY <1>2, <1>4 DEF Pristine
  <2> QED BY <2>1, <2>2, <2>3 DEF ForwardOf
<1>5. ~Now("place", x.file)
  BY <1>1, <1>3 DEF Now
<1>6. CASE Replaced(x) /\ ~Due("place", x.file) /\ NoneBefore(n)
  <2>1. ~Due("place", x.file)'
    BY <1>2, <1>6
  <2>2. NoneBefore(n)'
    <3>1. \A t : Within(t, Tail(work)) => Within(t, work)
      BY HeadStep
    <3> QED BY <1>2, <1>6, <3>1 DEF NoneBefore
  <2>3. Replaced(x)'
    BY <1>2, <1>6 DEF Replaced
  <2> QED BY <2>1, <2>2, <2>3 DEF ForwardOf
<1> QED BY <1>4, <1>5, <1>6 DEF ForwardOf

LEMMA OtherBackward ==
    ASSUME UpdateShapes, work # <<>>, Went(Tail(work)), Busy', NEW x, BackwardOf(x),
           Head(work).do \in FileDos => x.file # Head(work).file,
           installed'[x.file] = installed[x.file], backup'[x.file] = backup[x.file]
    PROVE  BackwardOf(x)'
<1>1. PICK s : s = Head(work)
  OBVIOUS
<1>2. run' = run /\ work' = Tail(work) /\ entry' = entry
  BY AfterStep DEF Went
<1>3. s.do \in {"clear", "return"} => x.file # s.file
  BY <1>1 DEF FileDos, Walks
<1>4. CASE Pristine(x.file)
  BY <1>2, <1>4 DEF Pristine, BackwardOf
<1>5. ~Now("return", x.file)
  BY <1>1, <1>3 DEF Now
<1>6. CASE Replaced(x) /\ Due("clear", x.file)
  <2>1. Due("clear", x.file)'
    BY <1>1, <1>2, <1>3, <1>6, StillDue
  <2>2. Replaced(x)'
    BY <1>2, <1>6 DEF Replaced
  <2> QED BY <2>1, <2>2 DEF BackwardOf
<1> QED BY <1>4, <1>5, <1>6 DEF BackwardOf

\* The five steps on a file, for the file itself.
LEMMA DropRestores ==
    ASSUME UpdateShapes, mode = "applying", DropBackup, Busy', NEW s, s = Head(work),
           NEW n \in 1 .. Len(run.arts), NEW x \in ItemsOf(run, n), x.file = s.file, ForwardOf(n, x)
    PROVE  ForwardOf(n, x)'
<1>1. /\ work # <<>> /\ s.do = "drop" /\ Proceed(Tail(work)) /\ installed' = installed
      /\ backup' = IF installed[s.file] # 0 THEN [backup EXCEPT ![s.file] = 0] ELSE backup
  BY DEF DropBackup, Doing, KeepsRest
<1>2. Went(Tail(work)) /\ s.file \in Files
  BY <1>1, HeadStep, ProceedGoes
<1>3. /\ work' = Tail(work) /\ entry' = entry
      /\ work' # <<>> /\ Head(work').do = "place" => s.do = "keep" /\ Head(work').file = s.file
  BY <1>1, <1>2, AfterStep DEF Went
<1>4. Due("place", s.file)
  BY <1>1, PlaceIsDue
<1>5. ~Now("place", s.file)
  BY <1>1 DEF Now
<1>6. Pristine(s.file)
  BY <1>4, <1>5 DEF ForwardOf
<1>7. Due("place", s.file)'
  BY <1>1, <1>3, <1>4, StillDue
<1>8. ~Now("place", s.file)'
  BY <1>1, <1>3 DEF Now
<1>9. backup'[s.file] = 0
  BY <1>1, <1>2, <1>6 DEF Pristine, UpdateShapes, FileMaps
<1>10. Pristine(s.file)'
  BY <1>1, <1>3, <1>6, <1>9 DEF Pristine
<1> QED BY <1>7, <1>8, <1>10 DEF ForwardOf

LEMMA KeepRestores ==
    ASSUME UpdateShapes, mode = "applying", KeepPrevious, Busy', NEW s, s = Head(work), PartUpdate,
           NEW n \in 1 .. Len(run.arts), NEW x \in ItemsOf(run, n), x.file = s.file, ForwardOf(n, x)
    PROVE  ForwardOf(n, x)'
<1>1. /\ work # <<>> /\ s.do = "keep" /\ Proceed(Tail(work))
      /\ backup' = IF installed[s.file] # 0 /\ s.preserve
                     THEN [backup EXCEPT ![s.file] = installed[s.file]] ELSE backup
      /\ installed' = [installed EXCEPT ![s.file] = 0]
  BY DEF KeepPrevious, Doing, KeepsRest
<1>2. Went(Tail(work)) /\ s.file \in Files /\ Queue(run, mode, work)
  BY <1>1, HeadStep, ProceedGoes
<1>3. work' = Tail(work) /\ entry' = entry
  BY <1>1, <1>2, AfterStep DEF Went
<1>4. Due("place", s.file)
  BY <1>1, PlaceIsDue
<1>5. ~Now("place", s.file)
  BY <1>1 DEF Now
<1>6. Pristine(s.file)
  BY <1>4, <1>5 DEF ForwardOf
<1>7. s.preserve
  BY <1>1, StepFiles DEF FileDos, PartUpdate
<1>8. Now("place", s.file)'
  <2>1. <<"keep", "place">> \in {<<"drop", "keep">>, <<"keep", "place">>, <<"clear", "return">>}
    OBVIOUS
  <2>2. Tail(work) # <<>> /\ Head(Tail(work)).do = "place" /\ Head(Tail(work)).file = Head(work).file
    BY <1>1, <1>2, <2>1, SecondFollows
  <2> QED BY <1>3, <2>2 DEF Now
<1>9. installed'[s.file] = 0
  BY <1>1, <1>2 DEF UpdateShapes, FileMaps
<1>10. backup'[s.file] = entry.installed[s.file]
  <2>1. CASE installed[s.file] # 0
    BY <1>1, <1>2, <1>6, <1>7, <2>1 DEF Pristine, UpdateShapes, FileMaps
  <2>2. CASE installed[s.file] = 0
    BY <1>1, <1>6, <2>2 DEF Pristine
  <2> QED BY <2>1, <2>2
<1>11. SetAside(s.file)'
  BY <1>3, <1>9, <1>10 DEF SetAside
<1> QED BY <1>8, <1>11 DEF ForwardOf

LEMMA PlaceRestores ==
    ASSUME UpdateShapes, mode = "applying", Place, Busy', NEW s, s = Head(work),
           NEW n \in 1 .. Len(run.arts), NEW x \in ItemsOf(run, n), x.file = s.file, ForwardOf(n, x)
    PROVE  ForwardOf(n, x)'
<1>1. /\ work # <<>> /\ s.do = "place" /\ Proceed(Tail(work))
      /\ backup' = backup /\ installed' = [installed EXCEPT ![s.file] = s.build]
  BY DEF Place, Doing, KeepsRest
<1>2. Went(Tail(work)) /\ s.file \in Files /\ Queue(run, mode, work) /\ Within(s, work)
      /\ \A t : Within(t, Tail(work)) => Within(t, work)
  BY <1>1, HeadStep, ProceedGoes
<1>3. /\ work' = Tail(work) /\ entry' = entry
      /\ \A do \in FileDos : Due(do, s.file)' => Turn(s.do) < Turn(do)
  BY <1>1, <1>2, AfterStep DEF Went, FileDos
<1>4. Due("place", s.file) /\ Now("place", s.file)
  BY <1>1, <1>2 DEF Due, Now
<1>5. SetAside(s.file)
  BY <1>4 DEF ForwardOf
<1>6. ~Due("place", s.file)'
  BY <1>1, <1>3 DEF Turn, FileDos, Walks
<1>7. n = s.art /\ x.build = s.build
  <2> HIDE DEF ItemsOf
  <2> QED BY <1>1, StepIsAbout DEF FileDos
<1>8. NoneBefore(n)'
  <2> SUFFICES ASSUME NEW t, Within(t, Tail(work)) PROVE t.art = 0 \/ n <= t.art
    BY <1>3 DEF NoneBefore
  <2>1. Precedes(s, t)
    BY <1>1, <1>2, RestFacts
  <2>2. t.do \in DosOf(mode)
    BY <1>2 DEF Queue
  <2>3. t.do \notin Walks /\ s.do \notin Walks
    BY <1>1, <2>2 DEF DosOf, Applies, Walks
  <2> QED BY <1>7, <2>1, <2>3 DEF Precedes
<1>9. installed'[s.file] = s.build
  BY <1>1, <1>2 DEF UpdateShapes, FileMaps
<1>10. Replaced(x)'
  BY <1>1, <1>3, <1>5, <1>7, <1>9 DEF Replaced, SetAside
<1> QED BY <1>6, <1>8, <1>10 DEF ForwardOf

\* A file that is as it was stays so when its update is undone once more.
LEMMA PristineStays ==
    ASSUME UpdateShapes, CleanEntry, ClearInstalled \/ ReturnPrevious, entry' = entry,
           NEW x \in OpFiles(run), x.file \in Files, Pristine(x.file),
           x.file = Head(work).file => x.build = Head(work).build
    PROVE  Pristine(x.file)'
<1>1. PICK s : s = Head(work)
  OBVIOUS
<1>2. backup[x.file] = 0 /\ installed[x.file] = entry.installed[x.file]
      /\ installed[x.file] # x.build
  BY DEF Pristine, CleanEntry
<1>3. installed \in FileMaps /\ backup \in FileMaps
  BY DEF UpdateShapes
<1>4. installed'[x.file] = installed[x.file] /\ backup'[x.file] = backup[x.file]
  <2>1. CASE ClearInstalled
    <3>1. /\ backup' = backup
          /\ installed' = IF backup[s.file] # 0 \/ installed[s.file] = s.build
                            THEN [installed EXCEPT ![s.file] = 0] ELSE installed
      BY <1>1, <2>1 DEF ClearInstalled
    <3>2. CASE x.file = s.file
      BY <1>1, <1>2, <3>1, <3>2
    <3>3. CASE x.file # s.file
      <4>1. installed' = installed \/ installed' = [installed EXCEPT ![s.file] = 0]
        BY <3>1
      <4>2. installed'[x.file] = installed[x.file]
        BY <1>3, <3>3, <4>1 DEF FileMaps
      <4> QED BY <3>1, <4>2
    <3> QED BY <3>2, <3>3
  <2>2. CASE ReturnPrevious
    <3>1. IF backup[s.file] # 0
            THEN /\ installed' = [installed EXCEPT ![s.file] = backup[s.file]]
                 /\ backup' = [backup EXCEPT ![s.file] = 0]
            ELSE UNCHANGED <<installed, backup>>
      BY <1>1, <2>2 DEF ReturnPrevious
    <3>2. CASE x.file = s.file
      BY <1>2, <3>1, <3>2
    <3>3. CASE x.file # s.file
      BY <1>3, <3>1, <3>3 DEF FileMaps
    <3> QED BY <3>2, <3>3
  <2> QED BY <2>1, <2>2
<1> QED BY <1>2, <1>4 DEF Pristine

LEMMA ClearRestores ==
    ASSUME UpdateShapes, CleanEntry, ClearInstalled, Busy', NEW s, s = Head(work),
           NEW x \in OpFiles(run), x.file = s.file, x.build = s.build, BackwardOf(x)
    PROVE  BackwardOf(x)'
<1>1. /\ work # <<>> /\ s.do = "clear" /\ Proceed(Tail(work)) /\ backup' = backup
      /\ installed' = IF backup[s.file] # 0 \/ installed[s.file] = s.build
                        THEN [installed EXCEPT ![s.file] = 0] ELSE installed
  BY DEF ClearInstalled, Doing, KeepsRest
<1>2. Went(Tail(work)) /\ s.file \in Files /\ Queue(run, mode, work)
  BY <1>1, HeadStep, ProceedGoes
<1>3. work' = Tail(work) /\ entry' = entry
  BY <1>1, <1>2, AfterStep DEF Went
<1>4. CASE Pristine(x.file)
  <2>1. Pristine(x.file)'
    BY <1>2, <1>3, <1>4, PristineStays
  <2> QED BY <2>1 DEF BackwardOf
<1>5. ~Now("return", x.file)
  BY <1>1 DEF Now
<1>6. CASE Replaced(x)
  <2>1. installed'[s.file] = 0
    BY <1>1, <1>2, <1>6 DEF Replaced, UpdateShapes, FileMaps
  <2>2. SetAside(x.file)'
    BY <1>1, <1>3, <1>6, <2>1 DEF Replaced, SetAside
  <2>3. Now("return", x.file)'
    <3>1. <<"clear", "return">> \in {<<"drop", "keep">>, <<"keep", "place">>, <<"clear", "return">>}
      OBVIOUS
    <3>2. Tail(work) # <<>> /\ Head(Tail(work)).do = "return" /\ Head(Tail(work)).file = Head(work).file
      BY <1>1, <1>2, <3>1, SecondFollows
    <3> QED BY <1>3, <3>2 DEF Now
  <2> QED BY <2>2, <2>3 DEF BackwardOf
<1> QED BY <1>4, <1>5, <1>6 DEF BackwardOf

LEMMA ReturnRestores ==
    ASSUME UpdateShapes, CleanEntry, ReturnPrevious, Busy', NEW s, s = Head(work),
           NEW x \in OpFiles(run), x.file = s.file, x.build = s.build, BackwardOf(x)
    PROVE  BackwardOf(x)'
<1>1. /\ work # <<>> /\ s.do = "return" /\ Proceed(Tail(work))
      /\ IF backup[s.file] # 0
           THEN /\ installed' = [installed EXCEPT ![s.file] = backup[s.file]]
                /\ backup' = [backup EXCEPT ![s.file] = 0]
           ELSE UNCHANGED <<installed, backup>>
  BY DEF ReturnPrevious, Doing, KeepsRest
<1>2. /\ Went(Tail(work)) /\ s.file \in Files /\ Queue(run, mode, work)
      /\ \A t : Within(t, work) <=> t = s \/ Within(t, Tail(work))
  BY <1>1, HeadStep, ProceedGoes
<1>3. work' = Tail(work) /\ entry' = entry
  BY <1>1, <1>2, AfterStep DEF Went
<1>4. ~Due("clear", x.file)
  <2> SUFFICES ASSUME NEW t, Within(t, work), t.do = "clear", t.file = s.file PROVE FALSE
    BY DEF Due
  <2>1. Within(t, Tail(work))
    BY <1>1, <1>2
  <2>2. Precedes(s, t)
    BY <1>1, <1>2, <2>1, RestFacts
  <2> QED BY <1>1, <2>2 DEF Precedes, Turn, FileDos, Walks
<1>5. CASE Pristine(x.file)
  <2>1. Pristine(x.file)'
    BY <1>2, <1>3, <1>5, PristineStays
  <2> QED BY <2>1 DEF BackwardOf
<1>6. CASE SetAside(x.file)
  <2>1. installed[s.file] = 0 /\ backup[s.file] = entry.installed[s.file]
    BY <1>6 DEF SetAside
  <2>2. installed'[s.file] = entry.installed[s.file] /\ backup'[s.file] = 0
    <3>1. CASE backup[s.file] # 0
      BY <1>1, <1>2, <2>1, <3>1 DEF UpdateShapes, FileMaps
    <3>2. CASE backup[s.file] = 0
      BY <1>1, <2>1, <3>2
    <3> QED BY <3>1, <3>2
  <2>3. Pristine(x.file)'
    BY <1>3, <2>2 DEF Pristine
  <2> QED BY <2>3 DEF BackwardOf
<1> QED BY <1>4, <1>5, <1>6 DEF BackwardOf

LEMMA OpFilesTyped ==
    ASSUME NEW op, Operation(op), NEW x \in OpFiles(op)
    PROVE  x.file \in Files /\ x.build \in Nat \ {0}
<1>1. PICK n \in 1 .. Len(op.arts) : x \in ItemsOf(op, n)
  BY OpFilesFacts
<1>2. ItemsOf(op, n) \subseteq Items
  BY ItemsFacts
<1>3. x \in Items
  <2> HIDE DEF ItemsOf
  <2> QED BY <1>1, <1>2
<1> QED BY <1>3, PayloadAssumption DEF Items

LEMMA StillRestoring ==
    ASSUME Restoring', run' = run, entry' = entry, mode # "idle", mode # "installing"
    PROVE  Restoring
BY DEF Restoring, PartUpdate, Busy, CleanEntry

LEMMA NoUpdateNoRestoring ==
    ASSUME mode' \in {"idle", "installing"}
    PROVE  RestoreInv'
BY DEF RestoreInv, Restoring, PartUpdate, Busy

\* One step on a file while the update goes on, for the application.
LEMMA AppStays ==
    ASSUME UpdateShapes, PartUpdate, mode = "applying", AppThere, Busy', NEW s, s = Head(work),
           DropBackup \/ KeepPrevious \/ Place
    PROVE  AppThere'
<1>1. /\ work # <<>> /\ Proceed(Tail(work)) /\ s.do \in {"drop", "keep", "place"}
      /\ DropBackup => s.do = "drop"
      /\ KeepPrevious => s.do = "keep"
      /\ Place => s.do = "place"
  BY DEF DropBackup, KeepPrevious, Place, Doing
<1>2. Went(Tail(work)) /\ s.file \in Files /\ Queue(run, mode, work) /\ s.build \in Nat
  BY <1>1, HeadStep, ProceedGoes
<1>3. work' = Tail(work)
  BY <1>2 DEF Went
<1>4. ~Opening
  BY <1>1, OpeningFacts
<1>5. installed \in FileMaps /\ AppFile \in Files
  BY PayloadAssumption DEF UpdateShapes
<1>6. CASE DropBackup
  BY <1>1, <1>4, <1>6 DEF AppThere, Now, DropBackup
<1>7. CASE KeepPrevious
  <2>1. installed' = [installed EXCEPT ![s.file] = 0]
    BY <1>7 DEF KeepPrevious
  <2>2. CASE s.file = AppFile
    <3>1. <<"keep", "place">> \in {<<"drop", "keep">>, <<"keep", "place">>, <<"clear", "return">>}
      OBVIOUS
    <3>2. Tail(work) # <<>> /\ Head(Tail(work)).do = "place" /\ Head(Tail(work)).file = Head(work).file
      BY <1>1, <1>2, <1>7, <3>1, SecondFollows
    <3>3. Now("place", AppFile)'
      BY <1>3, <2>2, <3>2 DEF Now
    <3> QED BY <3>3 DEF AppThere
  <2>3. CASE s.file # AppFile
    <3>1. ~Now("place", AppFile)
      BY <2>3 DEF Now
    <3>2. installed[AppFile] # 0
      BY <1>4, <3>1 DEF AppThere
    <3>3. installed'[AppFile] = installed[AppFile]
      BY <1>5, <2>1, <2>3 DEF FileMaps
    <3> QED BY <3>2, <3>3 DEF AppThere
  <2> QED BY <2>2, <2>3
<1>8. CASE Place
  <2>1. installed' = [installed EXCEPT ![s.file] = s.build]
    BY <1>8 DEF Place
  <2>2. CASE s.file = AppFile
    <3>1. PICK x : x = [file |-> s.file, build |-> s.build]
      OBVIOUS
    <3>2. x \in OpFiles(run) /\ Operation(run)
      BY <1>1, <3>1, StepFiles, HeadStep DEF FileDos
    <3>3. x.build = s.build /\ x.build # 0
      BY <3>1, <3>2, OpFilesTyped
    <3>4. installed'[AppFile] = s.build
      BY <1>5, <2>1, <2>2 DEF FileMaps
    <3> QED BY <3>3, <3>4 DEF AppThere
  <2>3. CASE s.file # AppFile
    <3>1. ~Now("place", AppFile)
      BY <2>3 DEF Now
    <3>2. installed[AppFile] # 0
      BY <1>4, <3>1 DEF AppThere
    <3>3. installed'[AppFile] = installed[AppFile]
      BY <1>5, <2>1, <2>3 DEF FileMaps
    <3> QED BY <3>2, <3>3 DEF AppThere
  <2> QED BY <2>2, <2>3
<1> QED BY <1>6, <1>7, <1>8

LEMMA FileStepRestores ==
    ASSUME UpdateShapes, RestoreInv,
           \/ DropBackup \/ KeepPrevious \/ Place \/ ClearInstalled \/ ReturnPrevious
    PROVE  RestoreInv'
<1>1. PICK s : s = Head(work)
  OBVIOUS
<1>2. work # <<>> /\ Proceed(Tail(work)) /\ used' = used
      /\ s.do \in {"drop", "keep", "place", "clear", "return"}
  BY <1>1 DEF DropBackup, KeepPrevious, Place, ClearInstalled, ReturnPrevious, Doing, KeepsRest
<1>3. Went(Tail(work)) /\ s.file \in Files /\ Operation(run)
      /\ mode \in {"installing", "applying", "undoing", "reverting"}
  BY <1>1, <1>2, HeadStep, ProceedGoes
<1>4. run' = run /\ (Busy' => mode' = mode /\ entry' = entry)
  BY <1>2, <1>3, AfterStep
<1>5. \A f \in Files : f # s.file => installed'[f] = installed[f] /\ backup'[f] = backup[f]
  <2>1. installed \in FileMaps /\ backup \in FileMaps
    BY DEF UpdateShapes
  <2> SUFFICES ASSUME NEW f \in Files, f # s.file
               PROVE  installed'[f] = installed[f] /\ backup'[f] = backup[f]
    OBVIOUS
  <2>2. CASE DropBackup
    BY <1>1, <2>1, <2>2 DEF DropBackup, FileMaps
  <2>3. CASE KeepPrevious
    <3>1. backup' = backup \/ backup' = [backup EXCEPT ![s.file] = installed[s.file]]
      BY <1>1, <2>3 DEF KeepPrevious
    <3>2. installed' = [installed EXCEPT ![s.file] = 0]
      BY <1>1, <2>3 DEF KeepPrevious
    <3> QED BY <2>1, <3>1, <3>2 DEF FileMaps
  <2>4. CASE Place
    BY <1>1, <2>1, <2>4 DEF Place, FileMaps
  <2>5. CASE ClearInstalled
    BY <1>1, <2>1, <2>5 DEF ClearInstalled, FileMaps
  <2>6. CASE ReturnPrevious
    BY <1>1, <2>1, <2>6 DEF ReturnPrevious, FileMaps
  <2> QED BY <2>2, <2>3, <2>4, <2>5, <2>6
<1>6. CASE ~Restoring'
  BY <1>6 DEF RestoreInv
<1>7. CASE Restoring'
  <2>1. mode' = mode /\ entry' = entry /\ Busy' /\ mode # "installing"
    BY <1>4, <1>7 DEF Restoring, PartUpdate
  <2>2. Restoring
    BY <1>3, <1>4, <1>7, <2>1, StillRestoring
  <2>3. /\ [file |-> s.file, build |-> s.build] \in OpFiles(run)
        /\ s.do \in {"drop", "keep", "place"} => mode = "applying"
        /\ s.do \in {"clear", "return"} => mode \in {"undoing", "reverting"}
    BY <1>1, <1>2, <2>1, StepFiles DEF FileDos, Walks, Forward, Backward
  <2>4. \A x \in OpFiles(run) : x.file \in Files /\ (x.file = s.file => x.build = s.build)
    <3> SUFFICES ASSUME NEW x \in OpFiles(run)
                 PROVE  x.file \in Files /\ (x.file = s.file => x.build = s.build)
      OBVIOUS
    <3>1. PICK n \in 1 .. Len(run.arts) : x \in ItemsOf(run, n)
      BY <1>3, OpFilesFacts
    <3>2. x.file = s.file => x.build = s.build
      <4> HIDE DEF ItemsOf
      <4> QED BY <1>1, <1>2, <3>1, StepIsAbout DEF FileDos, Walks
    <3> QED BY <1>3, <3>2, OpFilesTyped
  <2>5. OthersStay'
    <3> SUFFICES ASSUME NEW f \in Files, \A x \in OpFiles(run) : x.file # f
                 PROVE  installed'[f] = entry.installed[f]
      BY <1>4, <2>1 DEF OthersStay
    <3>1. f # s.file
      <4>1. PICK x : x = [file |-> s.file, build |-> s.build]
        OBVIOUS
      <4> QED BY <2>3, <4>1
    <3> QED BY <1>5, <2>2, <3>1 DEF RestoreInv, OthersStay
  <2>6. ASSUME mode = "applying" PROVE AppThere' /\ AllForward'
    <3>1. DropBackup \/ KeepPrevious \/ Place
      BY <1>1, <2>3, <2>6 DEF ClearInstalled, ReturnPrevious, Doing
    <3>2. AppThere /\ AllForward /\ PartUpdate
      BY <2>2, <2>6 DEF RestoreInv, Restoring
    <3>3. AppThere'
      BY <1>1, <2>1, <2>6, <3>1, <3>2, AppStays
    <3>4. ASSUME NEW n \in 1 .. Len(run.arts), NEW x \in ItemsOf(run, n) PROVE ForwardOf(n, x)'
      <4> HIDE DEF ItemsOf
      <4>1. ForwardOf(n, x)
        BY <3>2 DEF AllForward
      <4>2. x \in OpFiles(run)
        BY <1>3, OpFilesFacts
      <4>3. CASE x.file = s.file
        BY <1>1, <2>1, <2>6, <3>1, <3>2, <4>1, <4>3, DropRestores, KeepRestores, PlaceRestores
      <4>4. CASE x.file # s.file
        BY <1>1, <1>2, <1>3, <1>5, <2>1, <2>4, <2>6, <4>1, <4>2, <4>4, OtherForward
      <4> QED BY <4>3, <4>4
    <3>5. AllForward'
      BY <1>4, <3>4 DEF AllForward, ItemsOf
    <3> QED BY <3>3, <3>5
  <2>7. ASSUME mode \in {"undoing", "reverting"}
        PROVE  (AllBackward => AllBackward') /\ (AllPristine => AllPristine')
    <3>1. ClearInstalled \/ ReturnPrevious
      BY <1>1, <2>3, <2>7 DEF DropBackup, KeepPrevious, Place, Doing
    <3>2. CleanEntry
      BY <2>2 DEF Restoring
    <3>3. ASSUME NEW x \in OpFiles(run), BackwardOf(x) PROVE BackwardOf(x)'
      <4>1. CASE x.file = s.file
        BY <1>1, <2>1, <2>4, <3>1, <3>2, <3>3, <4>1, ClearRestores, ReturnRestores
      <4>2. CASE x.file # s.file
        BY <1>1, <1>2, <1>3, <1>5, <2>1, <2>4, <3>3, <4>2, OtherBackward
      <4> QED BY <4>1, <4>2
    <3>4. ASSUME NEW x \in OpFiles(run), Pristine(x.file) PROVE Pristine(x.file)'
      BY <1>1, <2>1, <2>4, <3>1, <3>2, <3>4, PristineStays
    <3> QED BY <1>4, <3>3, <3>4 DEF AllBackward, AllPristine
  <2>8. /\ mode = "undoing" =>
              \/ AllPristine
              \/ used.fault > entry.faults + 1
              \/ used.fault = entry.faults + 1 /\ AllBackward
        /\ mode = "reverting" => used.fault = entry.faults /\ AllBackward
    BY <2>2 DEF RestoreInv
  <2> QED BY <1>2, <1>3, <2>1, <2>5, <2>6, <2>7, <2>8 DEF RestoreInv
<1> QED BY <1>6, <1>7

LEMMA NoPlaceAfter ==
    ASSUME UpdateShapes, work # <<>>, Head(work).do \in {"finish", "conclude"}
    PROVE  \A f : ~Due("place", f)
<1>1. PICK h : h = Head(work)
  OBVIOUS
<1>2. /\ Operation(run) /\ Queue(run, mode, work) /\ StepOf(run, h)
      /\ \A s : Within(s, work) <=> s = h \/ Within(s, Tail(work))
  BY <1>1, HeadStep
<1>3. ASSUME NEW s, Within(s, work), s.do = "place" PROVE FALSE
  <2>1. Within(s, Tail(work)) /\ StepOf(run, s)
    BY <1>1, <1>2, <1>3 DEF Queue
  <2>2. Precedes(h, s)
    BY <1>1, <1>2, <2>1, RestFacts
  <2>3. s.art \in 1 .. Len(run.arts) /\ h.art = 0
    BY <1>1, <1>2, <1>3, <2>1 DEF StepOf, FileDos
  <2>4. s.art # 0
    BY <1>2, <2>3, OperationFacts
  <2> QED BY <1>1, <1>3, <2>2, <2>3, <2>4 DEF Precedes, Walks
<1> QED BY <1>3 DEF Due

\* Steps that touch no file, and take only themselves off the queue.
LEMMA PlainStepRestores ==
    ASSUME UpdateShapes, RestoreInv, Check \/ WriteStateFile \/ MarkRoot
    PROVE  RestoreInv'
<1>1. PICK s : s = Head(work)
  OBVIOUS
<1>2. /\ work # <<>> /\ Proceed(Tail(work)) /\ installed' = installed /\ backup' = backup
      /\ used' = used /\ s.do \in {"check", "open", "remove", "rename", "mark"}
      /\ s.do \in {"check", "open"} => ~Hopeless(s)
  BY <1>1 DEF Check, WriteStateFile, MarkRoot, Doing, KeepsRest
<1>3. Went(Tail(work)) /\ Operation(run) /\ mode \in {"installing", "applying", "undoing", "reverting"}
  BY <1>2, HeadStep, ProceedGoes
<1>4. run' = run /\ work' = Tail(work) /\ (Busy' => mode' = mode /\ entry' = entry)
  BY <1>2, <1>3, AfterStep DEF Went
<1>5. CASE ~Restoring'
  BY <1>5 DEF RestoreInv
<1>6. CASE Restoring'
  <2>1. mode' = mode /\ entry' = entry /\ Busy' /\ mode # "installing"
    BY <1>4, <1>6 DEF Restoring, PartUpdate
  <2>2. Restoring
    BY <1>3, <1>4, <1>6, <2>1, StillRestoring
  <2>3. OthersStay' /\ (AllPristine => AllPristine')
    BY <1>2, <1>4, <2>1, <2>2 DEF RestoreInv, OthersStay, AllPristine, Pristine
  <2>4. s.do \notin FileDos
    BY <1>2 DEF FileDos, Walks
  <2>5. ASSUME mode = "applying" PROVE AppThere' /\ AllForward'
    <3>1. AppThere /\ AllForward
      BY <2>2, <2>5 DEF RestoreInv
    <3>2. ASSUME NEW n \in 1 .. Len(run.arts), NEW x \in ItemsOf(run, n) PROVE ForwardOf(n, x)'
      <4> HIDE DEF ItemsOf
      <4>1. ForwardOf(n, x)
        BY <3>1 DEF AllForward
      <4> QED BY <1>1, <1>2, <1>3, <2>1, <2>4, <2>5, <4>1, OtherForward
    <3>3. AllForward'
      BY <1>4, <3>2 DEF AllForward, ItemsOf
    <3>4. CASE installed[AppFile] # 0
      BY <1>2, <3>3, <3>4 DEF AppThere
    <3>5. ~Now("place", AppFile)
      BY <1>1, <1>2 DEF Now
    <3>6. CASE AllPristine /\ Opening
      <4>1. \/ s.do = "check" /\ work = ApplyArtifacts(run)
            \/ s.do = "open" /\ s.art = 1
        BY <1>1, <1>2, <3>6, OpeningFacts
      <4>2. CASE s.do = "check" /\ work = ApplyArtifacts(run)
        <5>1. Opening'
          BY <1>4, <4>2 DEF Opening
        <5> QED BY <2>3, <3>3, <3>6, <5>1 DEF AppThere
      <4>3. CASE s.do = "open" /\ s.art = 1
        <5>1. run.arts # <<"full">>
          BY <2>2 DEF Restoring, PartUpdate
        <5>2. run.arts[1] # "full"
          <6>1. 1 \in 1 .. Len(run.arts)
            <7>1. Len(run.arts) \in 1 .. 2
              BY <1>3, OperationFacts
            <7> QED BY <7>1
          <6> QED BY <1>3, <5>1, <6>1, OperationFacts
        <5>3. installed[AppFile] # 0
          BY <1>2, <4>3, <5>2 DEF Hopeless
        <5> QED BY <1>2, <3>3, <5>3 DEF AppThere
      <4> QED BY <4>1, <4>2, <4>3
    <3> QED BY <3>1, <3>3, <3>4, <3>5, <3>6 DEF AppThere
  <2>6. AllBackward => AllBackward'
    <3> SUFFICES ASSUME NEW x \in OpFiles(run), BackwardOf(x) PROVE BackwardOf(x)'
      BY <1>4 DEF AllBackward
    <3> QED BY <1>1, <1>2, <1>3, <2>1, <2>4, OtherBackward
  <2>7. /\ mode = "undoing" =>
              \/ AllPristine
              \/ used.fault > entry.faults + 1
              \/ used.fault = entry.faults + 1 /\ AllBackward
        /\ mode = "reverting" => used.fault = entry.faults /\ AllBackward
    BY <2>2 DEF RestoreInv
  <2> QED BY <1>2, <1>3, <2>1, <2>3, <2>5, <2>6, <2>7 DEF RestoreInv
<1> QED BY <1>5, <1>6

\* The two steps that write the state, on behalf of an artifact.
LEMMA CommitSteps ==
    ASSUME UpdateShapes, CommitBundle
    PROVE  /\ work # <<>> /\ Head(work).do = "commit"
           /\ run' = run /\ work' # <<>> /\ entry' = entry /\ mode' = mode
           /\ Head(work').do = "remove"
           /\ \A t : Within(t, Tail(work)) => Within(t, work')
           /\ \A t : Within(t, work') => \/ Within(t, Tail(work))
                                         \/ t.do \in {"remove", "rename"} /\ t.art = Head(work).art
<1>1. work # <<>> /\ Head(work).do = "commit"
  BY DEF CommitBundle, Doing
<1>2. PICK more : \E st \in States :
         /\ st = Committed(state, CatalogOf(run), run.arts[Head(work).art])
         /\ Went(more) /\ WritesState(more, st, Tail(work)) /\ Head(work).art \in 1 .. Len(run.arts)
  BY CommitGoes
<1>3. PICK st \in States :
         /\ st = Committed(state, CatalogOf(run), run.arts[Head(work).art])
         /\ Went(more) /\ WritesState(more, st, Tail(work)) /\ Head(work).art \in 1 .. Len(run.arts)
  BY <1>2
<1>4. /\ run' = run /\ work' = more /\ more # <<>> /\ entry' = entry /\ mode' = mode
      /\ Head(more).do = "remove" /\ \A t : Within(t, Tail(work)) => Within(t, more)
  BY <1>3 DEF Went, WritesState
<1>5. PICK art \in Nat : art = Head(work).art
  <2>1. Head(work).art \in Nat
    BY <1>1, HeadStep DEF Steps
  <2> QED BY <2>1
<1>6. PICK w : w = WriteState(art, st)
  OBVIOUS
<1>7. Proceed(w \o Tail(work))
  BY <1>3, <1>5, <1>6 DEF CommitBundle
<1>8. more = w \o Tail(work)
  BY <1>4, <1>7, ProceedGoes DEF Went
<1>9. w \in Seq(Steps) /\ \A t : Within(t, w) => t.do \in {"remove", "rename"} /\ t.art = art
  <2>1. Whole(w) /\ \A t : Within(t, w) => t.do \in {"remove", "rename"} /\ t.art = art
    BY <1>6, WriteStateFacts
  <2> QED BY <2>1 DEF Whole
<1>10. Tail(work) \in Seq(Steps)
  BY <1>1, HeadStep DEF Queue
<1>11. \A t : Within(t, more) <=> Within(t, w) \/ Within(t, Tail(work))
  BY <1>8, <1>9, <1>10, WithinFacts
<1> QED BY <1>1, <1>4, <1>5, <1>9, <1>11

LEMMA CommitRestores ==
    ASSUME UpdateShapes, RestoreInv, CommitBundle
    PROVE  RestoreInv'
<1>1. PICK s : s = Head(work)
  OBVIOUS
<1>2. installed' = installed /\ backup' = backup /\ used' = used
  BY DEF CommitBundle, KeepsRest
<1>3. /\ work # <<>> /\ s.do = "commit"
      /\ run' = run /\ work' # <<>> /\ entry' = entry /\ mode' = mode
      /\ Head(work').do = "remove"
      /\ \A t : Within(t, Tail(work)) => Within(t, work')
      /\ \A t : Within(t, work') => \/ Within(t, Tail(work))
                                    \/ t.do \in {"remove", "rename"} /\ t.art = s.art
  BY <1>1, CommitSteps
<1>4. /\ Within(s, work) /\ s.do \in DosOf(mode)
      /\ mode \in {"installing", "applying", "undoing", "reverting"}
      /\ \A t : Within(t, work) <=> t = s \/ Within(t, Tail(work))
  BY <1>1, <1>3, HeadStep
<1>5. mode \in {"installing", "applying"}
  BY <1>3, <1>4 DEF DosOf, Walks
<1>6. CASE ~Restoring'
  BY <1>6 DEF RestoreInv
<1>7. CASE Restoring'
  <2>1. Restoring /\ mode = "applying"
    BY <1>3, <1>5, <1>7, StillRestoring DEF Restoring
  <2>2. OthersStay /\ AppThere /\ AllForward
    BY <2>1 DEF RestoreInv
  <2>3. OthersStay'
    BY <1>2, <1>3, <2>2 DEF OthersStay
  <2>4. ASSUME NEW n, NEW x, ForwardOf(n, x) PROVE ForwardOf(n, x)'
    <3>1. ~Now("place", x.file) /\ ~Now("place", x.file)'
      BY <1>1, <1>3 DEF Now
    <3>2. Due("place", x.file) <=> Due("place", x.file)'
      <4>1. ASSUME Due("place", x.file) PROVE Due("place", x.file)'
        <5>1. PICK t : Within(t, work) /\ t.do = "place" /\ t.file = x.file
          BY <4>1 DEF Due
        <5>2. Within(t, work')
          BY <1>3, <1>4, <5>1
        <5> QED BY <5>1, <5>2 DEF Due
      <4>2. ASSUME Due("place", x.file)' PROVE Due("place", x.file)
        <5>1. PICK t : Within(t, work') /\ t.do = "place" /\ t.file = x.file
          BY <4>2 DEF Due
        <5>2. Within(t, work)
          BY <1>3, <1>4, <5>1
        <5> QED BY <5>1, <5>2 DEF Due
      <4> QED BY <4>1, <4>2
    <3>3. NoneBefore(n) => NoneBefore(n)'
      <4> SUFFICES ASSUME NoneBefore(n), NEW t, Within(t, work') PROVE t.art = 0 \/ n <= t.art
        BY DEF NoneBefore
      <4>1. s.art = 0 \/ n <= s.art
        BY <1>4 DEF NoneBefore
      <4> QED BY <1>3, <1>4, <4>1 DEF NoneBefore
    <3>4. (Pristine(x.file) => Pristine(x.file)') /\ (Replaced(x) => Replaced(x)')
      BY <1>2, <1>3 DEF Pristine, Replaced
    <3> QED BY <2>4, <3>1, <3>2, <3>3, <3>4 DEF ForwardOf
  <2>5. AllForward'
    BY <1>3, <2>2, <2>4 DEF AllForward, ItemsOf
  <2>6. AppThere'
    <3>1. ~Opening
      BY <1>1, <1>3, OpeningFacts
    <3>2. ~Now("place", AppFile)
      BY <1>1, <1>3 DEF Now
    <3> QED BY <1>2, <2>2, <3>1, <3>2 DEF AppThere
  <2> QED BY <1>3, <2>1, <2>3, <2>5, <2>6 DEF RestoreInv
<1> QED BY <1>6, <1>7

LEMMA FinishRestores ==
    ASSUME UpdateShapes, RestoreInv, FinishApply
    PROVE  RestoreInv'
<1>1. installed' = installed /\ backup' = backup /\ work # <<>> /\ Head(work).do = "finish"
  BY DEF FinishApply, KeepsRest, Doing
<1>2. PICK more : \E st \in States : Went(more) /\ WritesLast(more, st) /\ mode = "applying"
  BY FinishGoes
<1>3. PICK st \in States : Went(more) /\ WritesLast(more, st) /\ mode = "applying"
  BY <1>2
<1>4. /\ run' = run /\ work' = more /\ more # <<>> /\ entry' = entry /\ mode' = mode
      /\ \A t : Within(t, more) => t.do \in {"remove", "rename", "conclude"}
  BY <1>3 DEF Went, WritesLast
<1>5. PICK art \in Nat : art = 0
  OBVIOUS
<1>6. PICK c : c = PlainStep("conclude", art)
  OBVIOUS
<1>7. ASSUME NEW t, Within(t, more) PROVE t.art = 0
  <2>1. c \in Steps /\ c.do = "conclude" /\ c.art = 0
    <3>1. "conclude" \in Applies
      BY DEF Applies
    <3> QED BY <1>5, <1>6, <3>1, PlainStepFacts
  <2>2. PICK rest : rest = <<c>>
    OBVIOUS
  <2>3. rest \in Seq(Steps) /\ \A s : Within(s, rest) => s = c
    <3>1. rest \in Seq(Steps) /\ Len(rest) = 1 /\ rest[1] = c
      BY <2>1, <2>2
    <3> QED BY <3>1 DEF Within
  <2>5. PICK u : u = [state EXCEPT !.release = run.release]
    OBVIOUS
  <2>6. Proceed(WriteState(art, u) \o rest)
    BY <1>5, <1>6, <2>2, <2>5 DEF FinishApply
  <2>7. u \in States
    <3>1. run.release \in Nat
      BY <1>1, HeadStep, OperationFacts, CatalogsAssumption DEF CatalogOK
    <3> QED BY <2>5, <3>1 DEF UpdateShapes, States
  <2>8. PICK v : v = WriteState(art, u)
    OBVIOUS
  <2>9. v \in Seq(Steps) /\ \A s : Within(s, v) => s.art = art
    <3>1. Whole(v) /\ \A s : Within(s, v) => s.do \in {"remove", "rename"} /\ s.art = art
      BY <2>7, <2>8, WriteStateFacts
    <3> QED BY <3>1 DEF Whole
  <2>10. more = v \o rest
    BY <1>4, <2>6, <2>8, ProceedGoes DEF Went
  <2>11. Within(t, v) \/ Within(t, rest)
    BY <1>7, <2>3, <2>9, <2>10, WithinFacts
  <2> QED BY <1>5, <2>1, <2>3, <2>9, <2>11
<1>8. CASE ~Restoring'
  BY <1>8 DEF RestoreInv
<1>9. CASE Restoring'
  <2>1. Restoring
    BY <1>3, <1>4, <1>9, StillRestoring
  <2>2. OthersStay /\ AppThere /\ AllForward
    BY <1>3, <2>1 DEF RestoreInv
  <2>3. OthersStay'
    BY <1>1, <1>4, <2>2 DEF OthersStay
  <2>4. ASSUME NEW n, NEW x, ForwardOf(n, x) PROVE ForwardOf(n, x)'
    <3>1. ~Now("place", x.file) /\ ~Due("place", x.file)
      BY <1>1, NoPlaceAfter DEF Now
    <3>2. Replaced(x)
      BY <2>4, <3>1 DEF ForwardOf
    <3>3. Replaced(x)'
      BY <1>1, <1>4, <3>2 DEF Replaced
    <3>4. ~Due("place", x.file)'
      BY <1>4 DEF Due
    <3>5. NoneBefore(n)'
      BY <1>4, <1>7 DEF NoneBefore
    <3> QED BY <3>3, <3>4, <3>5 DEF ForwardOf
  <2>5. AllForward'
    BY <1>4, <2>2, <2>4 DEF AllForward, ItemsOf
  <2>6. AppThere'
    <3>1. ~Opening
      BY <1>1, OpeningFacts
    <3>2. ~Now("place", AppFile)
      BY <1>1 DEF Now
    <3> QED BY <1>1, <2>2, <3>1, <3>2 DEF AppThere
  <2> QED BY <1>3, <1>4, <2>3, <2>5, <2>6 DEF RestoreInv
<1> QED BY <1>8, <1>9

LEMMA SameRestores ==
    ASSUME RestoreInv, UNCHANGED <<installed, backup, run, mode, work, entry>>,
           used'.fault = used.fault
    PROVE  RestoreInv'
<1>1. /\ installed' = installed /\ backup' = backup /\ run' = run /\ mode' = mode
      /\ work' = work /\ entry' = entry
  OBVIOUS
<1>2. CASE ~Restoring'
  BY <1>2 DEF RestoreInv
<1>3. CASE Restoring'
  <2>1. Restoring
    BY <1>1, <1>3 DEF Restoring, PartUpdate, Busy, CleanEntry
  <2>2. (OthersStay => OthersStay') /\ (AllPristine => AllPristine')
    BY <1>1 DEF OthersStay, AllPristine, Pristine
  <2>3. \A do, f : (Due(do, f) <=> Due(do, f)') /\ (Now(do, f) <=> Now(do, f)')
    BY <1>1 DEF Due, Now
  <2>4. \A x : (Pristine(x.file) => Pristine(x.file)') /\ (SetAside(x.file) => SetAside(x.file)')
               /\ (Replaced(x) => Replaced(x)')
    BY <1>1 DEF Pristine, SetAside, Replaced
  <2>5. \A n : NoneBefore(n) => NoneBefore(n)'
    BY <1>1 DEF NoneBefore
  <2>6. \A n, x : ForwardOf(n, x) => ForwardOf(n, x)'
    BY <2>3, <2>4, <2>5 DEF ForwardOf
  <2>7. \A x : BackwardOf(x) => BackwardOf(x)'
    BY <2>3, <2>4 DEF BackwardOf
  <2>8. (AllForward => AllForward') /\ (AllBackward => AllBackward')
    BY <1>1, <2>6, <2>7 DEF AllForward, AllBackward, ItemsOf
  <2>9. AppThere => AppThere'
    BY <1>1, <2>2, <2>3 DEF AppThere, Opening
  <2>10. (\A x \in OpFiles(run) : Replaced(x)) => (\A x \in OpFiles(run') : Replaced(x)')
    BY <1>1, <2>4
  <2> QED BY <1>1, <2>1, <2>2, <2>8, <2>9, <2>10 DEF RestoreInv
<1> QED BY <1>2, <1>3

LEMMA StageRestores ==
    ASSUME UpdateShapes, RestoreInv, NEW cat, Stage(cat)
    PROVE  RestoreInv'
<1>1. UNCHANGED <<installed, backup, run, mode, work, entry>> /\ Use("stage")
  BY DEF Stage
<1>2. used'.fault = used.fault
  BY <1>1, UseFacts DEF Bounds
<1> QED BY <1>1, <1>2, SameRestores

\* What a process finds when it begins is what it is to leave again.
LEMMA BeginIsPristine ==
    ASSUME NEW op, NEW how, NEW steps, Begin(op, how, steps), Restoring'
    PROVE  OthersStay' /\ AllPristine'
<1>1. entry' = [installed |-> installed, backup |-> backup, state |-> state, faults |-> used.fault]
      /\ installed' = installed /\ backup' = backup
  BY DEF Begin
<1>2. entry'.installed = installed' /\ entry'.backup = backup'
  BY <1>1
<1>3. OthersStay'
  BY <1>2 DEF OthersStay
<1>4. \A x \in OpFiles(run') : entry'.backup[x.file] = 0
  BY DEF Restoring, CleanEntry
<1>5. AllPristine'
  BY <1>2, <1>4 DEF AllPristine, Pristine
<1> QED BY <1>3, <1>5

LEMMA ApplyRestores ==
    ASSUME UpdateShapes, ApplyStaged
    PROVE  RestoreInv'
<1>1. PICK w : w = ApplyArtifacts(staged)
  OBVIOUS
<1>2. Begin(staged, "applying", w) /\ Operation(staged) /\ Started(w)
  BY <1>1, ApplyBegins
<1>3. mode' = "applying" /\ work' = w /\ w # <<>> /\ run' = staged
  BY <1>2 DEF Begin
<1>4. CASE ~Restoring'
  BY <1>4 DEF RestoreInv
<1>5. CASE Restoring'
  <2>1. OthersStay' /\ AllPristine'
    BY <1>2, <1>5, BeginIsPristine
  <2>2. AppThere'
    BY <1>1, <1>3, <2>1 DEF AppThere, Opening
  <2>3. ASSUME NEW f PROVE ~Now("place", f)'
    <3>1. Head(work').do # "place"
      <4>1. w[1].do \notin Seconds
        BY <1>2, <1>3 DEF Started
      <4> QED BY <1>3, <4>1 DEF Seconds
    <3> QED BY <3>1 DEF Now
  <2>4. ASSUME NEW n \in 1 .. Len(run'.arts), NEW x \in ItemsOf(run', n) PROVE ForwardOf(n, x)'
    <3> HIDE DEF ItemsOf, Within
    <3>1. x \in OpFiles(run')
      BY <1>2, <1>3, OpFilesFacts
    <3>2. Pristine(x.file)'
      BY <2>1, <3>1 DEF AllPristine
    <3>3. \E s : Within(s, w) /\ s.do = "place" /\ s.file = x.file
      <4> HIDE DEF Whole, StepOf
      <4> QED BY <1>1, <1>2, <1>3, ApplyArtifactsFacts
    <3>4. Due("place", x.file)'
      BY <1>3, <3>3 DEF Due
    <3> QED BY <2>3, <3>2, <3>4 DEF ForwardOf
  <2>5. AllForward'
    BY <2>4 DEF AllForward, ItemsOf
  <2> QED BY <1>3, <2>1, <2>2, <2>5 DEF RestoreInv
<1> QED BY <1>4, <1>5

LEMMA BeginRestores ==
    ASSUME UpdateShapes,
           \/ \E cat \in Catalogs, kind \in Kinds : Install(cat, kind)
           \/ ApplyStaged \/ RollbackStaged
    PROVE  RestoreInv'
<1>1. CASE \E cat \in Catalogs, kind \in Kinds : Install(cat, kind)
  <2>1. mode' = "installing"
    BY <1>1 DEF Install, Begin
  <2> QED BY <2>1, NoUpdateNoRestoring
<1>2. CASE ApplyStaged
  BY <1>2, ApplyRestores
<1>3. CASE RollbackStaged
  <2>1. PICK steps : steps = RollbackArtifacts(run, Len(run.arts))
    OBVIOUS
  <2>2. Begin(run, "reverting", steps) /\ Use("rollback")
    BY <1>3, <2>1, RollbackBegins
  <2>3. used'.fault = used.fault
    BY <2>2, UseFacts DEF Bounds
  <2>4. mode' = "reverting" /\ entry'.faults = used.fault
    BY <2>2 DEF Begin
  <2>5. CASE ~Restoring'
    BY <2>5 DEF RestoreInv
  <2>6. CASE Restoring'
    <3>1. OthersStay' /\ AllPristine'
      BY <2>2, <2>6, BeginIsPristine
    <3>2. AllBackward'
      BY <3>1 DEF AllPristine, AllBackward, BackwardOf
    <3> QED BY <2>3, <2>4, <3>1, <3>2 DEF RestoreInv
  <2> QED BY <2>5, <2>6
<1> QED BY <1>1, <1>2, <1>3

LEMMA ConcludeRestores ==
    ASSUME UpdateShapes, RestoreInv, NEW relaunch \in BOOLEAN, Conclude(relaunch)
    PROVE  RestoreInv'
<1>1. /\ work # <<>> /\ Head(work).do = "conclude"
      /\ UNCHANGED <<installed, backup, used>> /\ run' = run
      /\ (mode' = "verifying" /\ entry' = entry) \/ mode' = "idle"
  BY DEF Conclude, Doing, End
<1>2. mode = "applying" /\ Operation(run)
  BY <1>1, ConcludeTyped, HeadStep
<1>3. CASE mode' = "idle" \/ ~Restoring'
  BY <1>3, NoUpdateNoRestoring DEF RestoreInv
<1>4. CASE mode' = "verifying" /\ entry' = entry /\ Restoring'
  <2>1. Restoring
    BY <1>1, <1>2, <1>4, StillRestoring
  <2>2. OthersStay /\ AllForward
    BY <1>2, <2>1 DEF RestoreInv
  <2>3. ASSUME NEW x \in OpFiles(run) PROVE Replaced(x)'
    <3>1. PICK n \in 1 .. Len(run.arts) : x \in ItemsOf(run, n)
      BY <1>2, OpFilesFacts
    <3>2. ForwardOf(n, x)
      BY <2>2, <3>1 DEF AllForward
    <3>3. ~Due("place", x.file) /\ ~Now("place", x.file)
      BY <1>1, NoPlaceAfter DEF Now
    <3>4. Replaced(x)
      BY <3>2, <3>3 DEF ForwardOf
    <3> QED BY <1>1, <1>4, <3>4 DEF Replaced
  <2>4. OthersStay'
    BY <1>1, <1>4, <2>2 DEF OthersStay
  <2> QED BY <1>1, <1>4, <2>3, <2>4 DEF RestoreInv
<1> QED BY <1>1, <1>3, <1>4

\* The way back from artifact n clears every file of the artifacts up to it.
LEMMA ClearIsDue ==
    ASSUME Operation(run), run' = run, run.arts # <<"full">>, NEW n \in 1 .. Len(run.arts),
           work' = RollbackArtifacts(run, n), NEW m \in 1 .. n, NEW x \in ItemsOf(run, m)
    PROVE  Due("clear", x.file)'
<1> HIDE DEF ItemsOf, Within, Whole, StepOf
<1>1. \E s : Within(s, RollbackArtifacts(run, n)) /\ s.do = "clear" /\ s.file = x.file
  BY RollbackArtifactsFacts
<1> QED BY <1>1 DEF Due

LEMMA UnhealthyRestores ==
    ASSUME UpdateShapes, RestoreInv, Unhealthy
    PROVE  RestoreInv'
<1>1. installed' = installed /\ backup' = backup /\ used' = used
  BY DEF Unhealthy, KeepsRest
<1>2. CASE mode' = "idle" \/ ~Restoring'
  BY <1>2, NoUpdateNoRestoring DEF RestoreInv
<1>3. CASE mode' # "idle" /\ Restoring'
  <2>1. /\ mode = "verifying" /\ Operation(run)
        /\ run.arts # <<"full">> /\ Len(run.arts) \in 1 .. Len(run.arts)
        /\ mode' = "reverting" /\ work' = RollbackArtifacts(run, Len(run.arts))
        /\ run' = run /\ entry' = entry
    BY <1>3, UnhealthyGoes
  <2>2. Restoring
    BY <1>3, <2>1, StillRestoring
  <2>3. OthersStay /\ \A x \in OpFiles(run) : Replaced(x)
    BY <2>1, <2>2 DEF RestoreInv
  <2>4. used'.fault = entry'.faults
    BY <1>1, <2>1 DEF UpdateShapes
  <2>5. OthersStay'
    BY <1>1, <2>1, <2>3 DEF OthersStay
  <2>6. ASSUME NEW x \in OpFiles(run) PROVE BackwardOf(x)'
    <3>1. PICK n \in 1 .. Len(run.arts) : x \in ItemsOf(run, n)
      BY <2>1, OpFilesFacts
    <3>2. Due("clear", x.file)'
      BY <2>1, <3>1, ClearIsDue
    <3>3. Replaced(x)'
      BY <1>1, <2>1, <2>3 DEF Replaced
    <3> QED BY <3>2, <3>3 DEF BackwardOf
  <2>7. AllBackward'
    BY <2>1, <2>6 DEF AllBackward
  <2> QED BY <2>1, <2>4, <2>5, <2>7 DEF RestoreInv
<1> QED BY <1>2, <1>3

\* What failed is put back where it had been set aside, and the rest is undone.
LEMMA FailureRestores ==
    ASSUME UpdateShapes, RestoreInv, ApplyFails
    PROVE  RestoreInv'
<1>1. PICK n \in 1 .. Len(run.arts) : \E more :
         /\ n = Head(work).art /\ more = RollbackArtifacts(run, n)
         /\ mode = "applying" /\ work # <<>> /\ Head(work).do # "check"
         /\ CostOf(Head(work)) /\ PlaceBack(Head(work))
         /\ Queue(run, "undoing", more) /\ Started(more)
         /\ run' = run /\ work' = more
         /\ \/ more = <<>> /\ mode' = "idle"
            \/ more # <<>> /\ mode' = "undoing" /\ entry' = entry
  BY FailureGoes
<1>2. PICK s : s = Head(work)
  OBVIOUS
<1>3. /\ CostOf(s) /\ PlaceBack(s) /\ work # <<>> /\ mode = "applying" /\ n = s.art
      /\ run' = run /\ work' = RollbackArtifacts(run, n)
      /\ mode' = "idle" \/ (mode' = "undoing" /\ entry' = entry)
  BY <1>1, <1>2
<1>4. Operation(run) /\ Within(s, work) /\ s.file \in Files
  BY <1>2, <1>3, HeadStep
<1>5. CASE mode' = "idle" \/ ~Restoring'
  BY <1>5, NoUpdateNoRestoring DEF RestoreInv
<1>6. CASE mode' = "undoing" /\ entry' = entry /\ Restoring'
  <2>1. Restoring
    BY <1>3, <1>6, StillRestoring
  <2>2. OthersStay /\ AppThere /\ AllForward
    BY <1>3, <2>1 DEF RestoreInv
  <2>3. installed \in FileMaps /\ backup \in FileMaps /\ entry.faults = used.fault
    BY <1>3 DEF UpdateShapes
  <2>4. \A f \in Files : f # s.file \/ s.do # "place" =>
           installed'[f] = installed[f] /\ backup'[f] = backup[f]
    BY <1>3, <2>3 DEF PlaceBack, FileMaps
  <2>5. OthersStay'
    <3> SUFFICES ASSUME NEW f \in Files, \A x \in OpFiles(run) : x.file # f
                 PROVE  installed'[f] = entry.installed[f]
      BY <1>3, <1>6 DEF OthersStay
    <3>1. installed[f] = entry.installed[f]
      BY <2>2 DEF OthersStay
    <3>2. s.do = "place" => f # s.file
      <4>1. ASSUME s.do = "place" PROVE [file |-> s.file, build |-> s.build] \in OpFiles(run)
        BY <1>2, <1>3, <4>1, StepFiles DEF FileDos
      <4>2. [file |-> s.file, build |-> s.build].file = s.file
        OBVIOUS
      <4> QED BY <4>1, <4>2
    <3> QED BY <2>4, <3>1, <3>2
  <2>6. CASE Hopeless(s)
    <3>1. s.do \in {"open", "finish"} /\ used'.fault = used.fault
      BY <1>3, <2>6, CostFacts DEF Hopeless
    <3>2. s.do = "open" /\ installed[AppFile] = 0
      <4>1. ASSUME s.do = "finish" PROVE FALSE
        <5>1. s.art = 0
          BY <1>2, <1>3, <4>1, HeadStep DEF StepOf
        <5>2. n # 0
          BY <1>4, OperationFacts
        <5> QED BY <1>3, <5>1, <5>2
      <4> QED BY <2>6, <3>1, <4>1 DEF Hopeless
    <3>3. AllPristine
      BY <1>2, <2>2, <3>2 DEF AppThere, Now
    <3>4. installed' = installed /\ backup' = backup
      BY <1>3, <3>2 DEF PlaceBack
    <3>5. AllPristine'
      BY <1>3, <1>6, <3>3, <3>4 DEF AllPristine, Pristine
    <3> QED BY <1>6, <2>5, <3>5 DEF RestoreInv
  <2>7. CASE ~Hopeless(s)
    <3>1. used'.fault = entry'.faults + 1
      BY <1>3, <1>6, <2>3, <2>7, CostFacts
    <3>2. ASSUME NEW x \in OpFiles(run) PROVE BackwardOf(x)'
      <4>1. PICK m \in 1 .. Len(run.arts) : x \in ItemsOf(run, m)
        BY <1>4, OpFilesFacts
      <4>2. ForwardOf(m, x) /\ x.file \in Files
        BY <1>4, <2>2, <4>1, OpFilesTyped DEF AllForward
      <4>3. CASE Pristine(x.file) /\ ~Now("place", x.file)
        <5>1. s.do = "place" => x.file # s.file
          BY <1>2, <1>3, <4>3 DEF Now
        <5>2. installed'[x.file] = installed[x.file] /\ backup'[x.file] = backup[x.file]
          BY <2>4, <4>2, <5>1
        <5>3. Pristine(x.file)'
          BY <1>6, <4>3, <5>2 DEF Pristine
        <5> QED BY <5>3 DEF BackwardOf
      <4>4. CASE SetAside(x.file) /\ Now("place", x.file)
        <5>1. s.do = "place" /\ s.file = x.file
          BY <1>2, <4>4 DEF Now
        <5>2. s.preserve
          BY <1>2, <1>3, <2>1, <5>1, StepFiles DEF FileDos, Restoring, PartUpdate
        <5>3. installed[s.file] = 0 /\ backup[s.file] = entry.installed[s.file]
          BY <4>4, <5>1 DEF SetAside
        <5>4. installed'[s.file] = entry.installed[s.file] /\ backup'[s.file] = 0
          <6>1. CASE backup[s.file] # 0
            <7>1. /\ installed' = [installed EXCEPT ![s.file] = backup[s.file]]
                  /\ backup' = [backup EXCEPT ![s.file] = 0]
              BY <1>3, <5>1, <5>2, <5>3, <6>1 DEF PlaceBack
            <7> QED BY <1>4, <2>3, <5>3, <7>1 DEF FileMaps
          <6>2. CASE backup[s.file] = 0
            <7>1. installed' = installed /\ backup' = backup
              BY <1>3, <6>2 DEF PlaceBack
            <7> QED BY <5>3, <6>2, <7>1
          <6> QED BY <6>1, <6>2
        <5>5. Pristine(x.file)'
          BY <1>6, <5>1, <5>4 DEF Pristine
        <5> QED BY <5>5 DEF BackwardOf
      <4>5. CASE Replaced(x) /\ ~Due("place", x.file) /\ NoneBefore(m)
        <5>1. s.do = "place" => x.file # s.file
          BY <1>4, <4>5 DEF Due
        <5>2. installed'[x.file] = installed[x.file] /\ backup'[x.file] = backup[x.file]
          BY <2>4, <4>2, <5>1
        <5>3. Replaced(x)'
          BY <1>6, <4>5, <5>2 DEF Replaced
        <5>4. m <= n
          <6>1. s.art = 0 \/ m <= s.art
            BY <1>4, <4>5 DEF NoneBefore
          <6>2. n # 0
            BY <1>4, OperationFacts
          <6> QED BY <1>3, <6>1, <6>2
        <5>5. m \in 1 .. n
          <6>1. Len(run.arts) \in Nat
            BY <1>4, OperationFacts
          <6> QED BY <5>4, <6>1
        <5>6. run.arts # <<"full">>
          BY <2>1 DEF Restoring, PartUpdate
        <5>7. Due("clear", x.file)'
          BY <1>3, <1>4, <4>1, <5>5, <5>6, ClearIsDue
        <5> QED BY <5>3, <5>7 DEF BackwardOf
      <4> QED BY <4>2, <4>3, <4>4, <4>5 DEF ForwardOf
    <3>3. AllBackward'
      BY <1>3, <3>2 DEF AllBackward
    <3> QED BY <1>6, <2>5, <3>1, <3>3 DEF RestoreInv
  <2> QED BY <2>6, <2>7
<1> QED BY <1>3, <1>5, <1>6

LEMMA UndoFailsRestores ==
    ASSUME UpdateShapes, RestoreInv, UndoFails
    PROVE  RestoreInv'
<1>1. PICK more : Went(more) /\ mode = "undoing" /\ work # <<>> /\ used'.fault = used.fault + 1
  BY UndoGoes
<1>2. installed' = installed /\ backup' = backup
  BY DEF UndoFails
<1>3. CASE mode' = "idle" \/ ~Restoring'
  BY <1>3, NoUpdateNoRestoring DEF RestoreInv
<1>4. CASE mode' # "idle" /\ Restoring'
  <2>1. mode' = mode /\ entry' = entry /\ run' = run
    BY <1>1, <1>4 DEF Went
  <2>2. Restoring
    BY <1>1, <1>4, <2>1, StillRestoring
  <2>3. /\ OthersStay
        /\ \/ AllPristine
           \/ used.fault > entry.faults + 1
           \/ used.fault = entry.faults + 1
    BY <1>1, <2>2 DEF RestoreInv
  <2>4. OthersStay' /\ (AllPristine => AllPristine')
    BY <1>2, <2>1, <2>3 DEF OthersStay, AllPristine, Pristine
  <2>5. AllPristine' \/ used'.fault > entry'.faults + 1
    <3>1. entry.faults \in Nat /\ used.fault \in Nat
      BY <1>1 DEF UpdateShapes, Busy, Entries, Bounds
    <3>2. used.fault >= entry.faults + 1 => used'.fault > entry.faults + 1
      BY <1>1, <3>1
    <3> QED BY <2>1, <2>3, <2>4, <3>1, <3>2
  <2> QED BY <1>1, <2>1, <2>4, <2>5 DEF RestoreInv
<1> QED BY <1>3, <1>4

LEMMA RestoreKept ==
    ASSUME UpdateShapes, RestoreInv, [UpdateNext]_updateVars
    PROVE  RestoreInv'
<1>1. CASE UNCHANGED updateVars
  <2>1. UNCHANGED <<installed, backup, run, mode, work, entry>> /\ used'.fault = used.fault
    BY <1>1 DEF updateVars
  <2> QED BY <2>1, SameRestores
<1>2. CASE UpdateNext
  <2>1. CASE Healthy \/ StepFails \/ Killed
    BY <2>1, EndingTyped, NoUpdateNoRestoring
  <2> QED BY <1>2, <2>1, UpdateSteps, StageRestores, BeginRestores, FileStepRestores, PlainStepRestores,
        CommitRestores, FinishRestores, ConcludeRestores, FailureRestores, UndoFailsRestores,
        UnhealthyRestores
<1> QED BY <1>1, <1>2

LEMMA RestoreAtStart ==
    ASSUME UpdateInit
    PROVE  RestoreInv
BY DEF UpdateInit, RestoreInv, Restoring, PartUpdate, Busy

LEMMA RestoreInvShows ==
    ASSUME UpdateShapes, RestoreInv
    PROVE  RestoresWhenUndone
<1> SUFFICES ASSUME BackInPlace, CleanEntry PROVE installed = entry.installed
  BY DEF RestoresWhenUndone
<1>1. /\ mode \in {"undoing", "reverting"} /\ work # <<>> /\ Head(work).do = "rename"
      /\ run.arts # <<"full">> /\ used.fault <= entry.faults + 1
  BY DEF BackInPlace, Doing
<1>2. Restoring /\ Operation(run)
  BY <1>1, HeadStep DEF Restoring, PartUpdate, Busy
<1>3. PICK s : s = Head(work)
  OBVIOUS
<1>4. ASSUME NEW f PROVE ~Now("return", f) /\ ~Due("clear", f)
  <2>1. ~Now("return", f)
    BY <1>1 DEF Now
  <2>2. ASSUME NEW t, Within(t, work), t.do = "clear" PROVE FALSE
    <3>1. Queue(run, mode, work) /\ (t = s \/ Within(t, Tail(work)))
      BY <1>1, <1>3, <2>2, HeadStep
    <3>2. Within(t, Tail(work))
      BY <1>1, <1>3, <2>2, <3>1
    <3>3. Precedes(s, t)
      BY <1>1, <1>3, <3>1, <3>2, RestFacts
    <3> QED BY <1>1, <1>3, <2>2, <3>3 DEF Precedes, Walks
  <2> QED BY <2>1, <2>2 DEF Due
<1>5. AllPristine \/ AllBackward
  <2>1. entry.faults \in Nat /\ used.fault \in Nat
    BY <1>1 DEF UpdateShapes, Busy, Entries, Bounds
  <2>2. ~(used.fault > entry.faults + 1)
    BY <1>1, <2>1
  <2> QED BY <1>1, <1>2, <2>2 DEF RestoreInv
<1>6. AllPristine
  BY <1>4, <1>5 DEF AllPristine, AllBackward, BackwardOf
<1>7. installed \in FileMaps /\ entry.installed \in FileMaps
  BY <1>1 DEF UpdateShapes, Busy, Entries
<1>8. ASSUME NEW f \in Files PROVE installed[f] = entry.installed[f]
  <2>1. CASE \E x \in OpFiles(run) : x.file = f
    BY <1>6, <2>1 DEF AllPristine, Pristine
  <2>2. CASE ~\E x \in OpFiles(run) : x.file = f
    BY <1>2, <2>2 DEF RestoreInv, OthersStay
  <2> QED BY <2>1, <2>2
<1> QED BY <1>7, <1>8 DEF FileMaps

\* A component update that fails and undoes itself, and one that is taken back,
\* leave the files of the installation as they were when the run began, before
\* they write the recorded state, unless a second operation fails on the way:
\* apply_bundle_zip, rollback_bundle_zip, rollback_operation.
THEOREM UndoneUpdatesRestore == UpdateSpec => []RestoresWhenUndone
<1> DEFINE UndoInv == UpdateShapes /\ RestoreInv
<1>1. UpdateInit => UndoInv
  BY ShapesAtStart, RestoreAtStart
<1>2. UndoInv /\ [UpdateNext]_updateVars => UndoInv'
  BY ShapesKept, RestoreKept
<1>3. UndoInv => RestoresWhenUndone
  BY RestoreInvShows
<1> HIDE DEF UndoInv
<1> QED BY <1>1, <1>2, <1>3, PTL DEF UpdateSpec

=============================================================================
