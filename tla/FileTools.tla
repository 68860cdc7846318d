------------------------------ MODULE FileTools ------------------------------
(* The file tools of an agent (read_file, edit_file, write, delete and        *)
(* apply_patch) on one file of the workspace that others change too, and the  *)
(* ledger by which the tools notice that they did.                            *)
(*                                                                            *)
(* A tool reads the file, decides, and changes it in a later step: whatever   *)
(* happens in between is not looked at again.  The ledger keeps the hash of   *)
(* what a tool saw or wrote last; two texts have the same hash exactly when   *)
(* they are equal.  It is the process's, so the agents that share a service   *)
(* share it; the service runs their calls one after the other.                *)
(*                                                                            *)
(* The tools have two views of a file with both CRLF and lone CR in it: read  *)
(* takes a lone CR for a newline, the others leave it in its line, where it is *)
(* the token Cr.                                                              *)
EXTENDS EditEngine

CONSTANTS
  Cr,          \* the token of a CR that is no newline
  Texts,       \* what others may put into the file
  Edits,       \* what edit_file may be asked to do: records of ops and dry
  Writes,      \* what write may be given
  MaxCalls,    \* bound: calls that change the file or are refused
  MaxForeign,  \* bound: changes by others
  MaxRestarts  \* bound: restarts of the process the tools run in

(* A request is a list of operations and whether to try them only.            *)
ASSUME EditsAssumption ==
  \A edit \in Edits :
    /\ edit = [ops |-> edit.ops, dry |-> edit.dry]
    /\ edit.ops \in Seq(ToSet(edit.ops))
    /\ \A op \in ToSet(edit.ops) : op.all \/ op.regex => op.old # << <<>> >>

(* How the expected hash of a call is given: not at all, as the empty string, *)
(* or as the one that came with what the caller read last.                    *)
HashArgs == {"none", "empty", "told"}

VARIABLES
  disk,    \* the file: whether it is there, and its lines
  ledger,  \* file_state: whether there is a hash for the file, and of which text
  call,    \* the tool call that runs
  told,    \* history: what the caller knows of the file
  spent    \* the bounds used so far

vars == <<disk, ledger, call, told, spent>>

NoText == [is |-> FALSE, text |-> <<>>]
Text(t) == [is |-> TRUE, text |-> t]

(* `hash`: the caller has the hash, too; `apart`: the ledger is no longer what *)
(* the caller was told.                                                       *)
Told(t) == [is |-> TRUE, text |-> t, hash |-> FALSE, apart |-> FALSE]
Untold == [is |-> FALSE, text |-> <<>>, hash |-> FALSE, apart |-> FALSE]

(* The two views of a file are one unless its newlines are mixed.             *)
Mixed(t) == \E i \in DOMAIN t : Cr \in ToSet(t[i])
LinesAtCr(l) ==
  LET lines[k \in 0 .. Len(l)] ==
        CASE k = 0 -> << <<>> >>
          [] k # 0 /\ l[k] = Cr -> Append(lines[k - 1], <<>>)
          [] OTHER -> [lines[k - 1] EXCEPT ![Len(lines[k - 1])] = Append(@, l[k])]
  IN  lines[Len(l)]
ReadView(t) == IF Mixed(t) THEN FlattenSeq([i \in DOMAIN t |-> LinesAtCr(t[i])]) ELSE t

(* `base` is the text that the tool read, `known` the ledger when it did,     *)
(* `view` the edited text, `codes` what was reported of the operations.       *)
Idle == [tool |-> "idle", base |-> <<>>, known |-> NoText, hash |-> "none",
         edit |-> [ops |-> <<>>, dry |-> FALSE], view |-> <<>>, codes |-> <<>>]

(* How a call ended that went no further than its checks.                     *)
Refused(code) == [Idle EXCEPT !.tool = "done", !.codes = <<code>>]

Free == call.tool \in {"idle", "done"}
Spend(what) == spent' = [spent EXCEPT ![what] = @ + 1]
MayCall == Free /\ spent.calls < MaxCalls /\ Spend("calls")

Init ==
  /\ disk \in {Text(t) : t \in Texts}
  /\ ledger = NoText
  /\ call = Idle
  /\ told = Untold
  /\ spent = [calls |-> 0, foreign |-> 0, restarts |-> 0]

-----------------------------------------------------------------------------
(* The others: an editor, a build, git, an agent that runs its tools itself.  *)
Foreign ==
  /\ spent.foreign < MaxForeign
  /\ Spend("foreign")
  /\ disk' \in {NoText} \cup {Text(t) : t \in Texts}
  /\ disk' # disk
  /\ UNCHANGED <<ledger, call, told>>

(* Another agent of the same service writes, edits or deletes the file, or a  *)
(* call of this one does that its caller gave up on.                          *)
FellowWrites ==
  /\ Free
  /\ spent.foreign < MaxForeign
  /\ Spend("foreign")
  /\ disk' \in {NoText} \cup {Text(t) : t \in Texts}
  /\ ledger' = disk'
  /\ told' = [told EXCEPT !.apart = TRUE]
  /\ UNCHANGED call

(* The agent is resumed, or the tool service comes up again: the ledger is    *)
(* empty, the conversation still has what the caller was told.                *)
Restart ==
  /\ spent.restarts < MaxRestarts
  /\ Spend("restarts")
  /\ ledger' = NoText
  /\ call' = Idle
  /\ UNCHANGED <<disk, told>>

-----------------------------------------------------------------------------
(* read_file.  Any range of lines makes the whole text the ledger's.          *)
RecordRead(t) == ledger' = Text(ReadView(t))

Read ==
  /\ Free /\ disk.is
  /\ RecordRead(disk.text)
  /\ told' = [Told(ReadView(disk.text)) EXCEPT !.hash = TRUE]
  /\ call' = Idle
  /\ UNCHANGED <<disk, spent>>

(* if_hash is the hash of the file: nothing is recorded.                      *)
ReadNotModified ==
  /\ Free /\ disk.is
  /\ told.is /\ told.hash /\ told.text = ReadView(disk.text)
  /\ call' = Idle
  /\ UNCHANGED <<disk, ledger, told, spent>>

(* A read whose caller is not this one, or is told of an error only: another  *)
(* file of the request cannot be read, or it is too much in all.              *)
ReadUntold ==
  /\ Free /\ disk.is
  /\ RecordRead(disk.text)
  /\ told' = [told EXCEPT !.apart = TRUE]
  /\ call' = Idle
  /\ UNCHANGED <<disk, spent>>

-----------------------------------------------------------------------------
(* edit_file.                                                                 *)

(* The hash that the caller gives must be that of the text; an empty one is   *)
(* none.                                                                      *)
VerifyExpectedHash(hash, t) == hash = "told" => t = told.text

(* A hash can only be given by a caller that was told one.                    *)
HashGiven(hash) == hash \in HashArgs /\ (hash = "told" => told.is /\ told.hash)

EditBegin(edit, hash) ==
  /\ MayCall /\ HashGiven(hash)
  /\ call' = CASE ~disk.is -> Refused("READ_FAILED")
               [] disk.is /\ ~VerifyExpectedHash(hash, disk.text) -> Refused("STALE_FILE")
               [] OTHER -> [Idle EXCEPT !.tool = "edit", !.base = disk.text, !.known = ledger,
                                        !.hash = hash, !.edit = edit, !.view = disk.text]
  /\ UNCHANGED <<disk, ledger, told>>

(* An operation by line number that names no text.  One whose old_string is   *)
(* empty or white space is not counted as such, nor is its text compared.     *)
Blind(op) == op.start # 0 /\ op.oldLines = <<>> /\ op.old = <<>>

(* Mutant: a file that is in the ledger is taken to be the one on the disk.   *)
BlindGuardOnKnown(op) ==
  IF Blind(op) /\ call.hash = "none" /\ ~call.known.is THEN "UNVERIFIED_LINE_EDIT" ELSE "ok"

(* Without a hash it needs a ledger that agrees with the text.                *)
BlindGuard(op) ==
  CASE ~Blind(op) \/ call.hash # "none" -> "ok"
    [] Blind(op) /\ call.hash = "none" /\ ~call.known.is -> "UNVERIFIED_LINE_EDIT"
    [] Blind(op) /\ call.hash = "none" /\ call.known.is
       /\ call.known.text # call.base -> "STALE_FILE"
    [] OTHER -> "ok"

OpResult(op) ==
  IF BlindGuard(op) = "ok" THEN ApplyOp(call.view, op)
                           ELSE [file |-> call.view, code |-> BlindGuard(op)]

After(done) == [call EXCEPT !.view = done.file, !.codes = Append(@, done.code)]

EditOp ==
  /\ call.tool = "edit" /\ Len(call.codes) < Len(call.edit.ops)
  /\ call' = After(OpResult(call.edit.ops[Len(call.codes) + 1]))
  /\ UNCHANGED <<disk, ledger, told, spent>>

EditReady == call.tool = "edit" /\ Len(call.codes) = Len(call.edit.ops)
Changes == "ok" \in ToSet(call.codes) /\ ~call.edit.dry

(* Mutant: the edit is not entered in the ledger.                             *)
RecordEditForgotten(t) == UNCHANGED ledger

RecordEdit(t) == ledger' = Text(ReadView(t))

(* One write at the end, in place of whatever the file is by then.            *)
EditWrites ==
  /\ EditReady /\ Changes
  /\ disk' = Text(call.view)
  /\ RecordEdit(call.view)
  /\ told' = Told(ReadView(call.view))
  /\ call' = Idle
  /\ UNCHANGED spent

(* Nothing to write, or the write failed.                                     *)
EditEndsUnwritten ==
  /\ EditReady
  /\ call' = Idle
  /\ UNCHANGED <<disk, ledger, told, spent>>

-----------------------------------------------------------------------------
(* write, overwriting or appending, and delete.  A missing file reads as an   *)
(* empty one.                                                                 *)

LedgerAgrees == ledger.is => ledger.text = disk.text

WriteBegin(tool, t, hash) ==
  /\ MayCall /\ HashGiven(hash)
  /\ call' = IF VerifyExpectedHash(hash, disk.text) /\ (hash # "told" => LedgerAgrees)
             THEN [Idle EXCEPT !.tool = tool, !.base = disk.text, !.known = ledger,
                               !.hash = hash, !.view = t]
             ELSE Refused("STALE_FILE")
  /\ UNCHANGED <<disk, ledger, told>>

Written(t) ==
  /\ ledger' = Text(t)
  /\ told' = Told(t)
  /\ call' = Idle
  /\ UNCHANGED spent

Overwrite == call.tool = "write" /\ disk' = Text(call.view) /\ Written(call.view)

(* What is recorded is the text that was read and what was appended to it.    *)
AppendText ==
  /\ call.tool = "append"
  /\ disk' = Text(disk.text \o call.view)
  /\ Written(call.base \o call.view)

DeleteBegin ==
  /\ MayCall
  /\ call' = CASE ~disk.is -> Refused("NOT_FOUND")
               [] disk.is /\ ~LedgerAgrees -> Refused("STALE_FILE")
               [] OTHER -> [Idle EXCEPT !.tool = "delete", !.base = disk.text, !.known = ledger]
  /\ UNCHANGED <<disk, ledger, told>>

(* Moved to the trash, or copied there and removed.                           *)
Delete ==
  /\ call.tool = "delete" /\ disk.is
  /\ disk' = NoText
  /\ ledger' = NoText
  /\ told' = Untold
  /\ call' = Idle
  /\ UNCHANGED spent

(* The file system refuses, or the copy cannot be followed by the removal.    *)
ToolFails ==
  /\ call.tool \in {"write", "append", "delete"}
  /\ call' = Idle
  /\ UNCHANGED <<disk, ledger, told, spent>>

-----------------------------------------------------------------------------
(* apply_patch: git applies all of a patch or none of it.  What the file then *)
(* holds is recorded under the path as the patch names it; the other tools    *)
(* look under the path in the workspace, where the ledger stays as it was.    *)
Patch(t) ==
  /\ MayCall /\ disk.is
  /\ disk' = Text(t)
  /\ told' = [Told(t) EXCEPT !.apart = TRUE]
  /\ call' = Idle
  /\ UNCHANGED ledger

-----------------------------------------------------------------------------
Next ==
  \/ Foreign \/ FellowWrites
  \/ Restart
  \/ Read \/ ReadNotModified \/ ReadUntold
  \/ \E edit \in Edits, hash \in HashArgs : EditBegin(edit, hash)
  \/ EditOp
  \/ EditWrites
  \/ EditEndsUnwritten
  \/ \E tool \in {"write", "append"}, t \in Writes, hash \in HashArgs : WriteBegin(tool, t, hash)
  \/ Overwrite
  \/ AppendText
  \/ DeleteBegin
  \/ Delete
  \/ ToolFails
  \/ \E t \in Writes : Patch(t)

Spec == Init /\ [][Next]_vars

-----------------------------------------------------------------------------
Codes == {"ok", "NO_MATCH", "AMBIGUOUS_MATCH", "OP_ERROR", "LINE_MISMATCH", "CROSS_CHECK",
          "STALE_FILE", "UNVERIFIED_LINE_EDIT", "READ_FAILED", "NOT_FOUND"}

(* The state has its types: a missing text has no lines, a call reports at    *)
(* most one code for each operation, and what a call holds is cleared with it *)
(* (file_edit.rs execute_file, file_state.rs).                                *)
TypeOK ==
  /\ \A x \in {disk, ledger, told} : x.is \/ x.text = <<>>
  /\ call.tool \in {"idle", "edit", "write", "append", "delete", "done"}
  /\ call.hash \in HashArgs
  /\ ToSet(call.codes) \subseteq Codes
  /\ call.tool = "edit" => Len(call.codes) <= Len(call.edit.ops)
  /\ call.tool = "idle" => call = Idle

(* A call that overwrites, deletes or edits by bare line numbers has decided  *)
(* on the text that its caller was told last, whatever others have put into   *)
(* the file: with the hash that came with that text always, and without one   *)
(* for as long as the ledger has it too - not after a restart, when a write   *)
(* is not checked, nor after a patch, a read that told the caller nothing, or *)
(* the tools of another agent of the service (the ledger checks of            *)
(* file_edit.rs and file_mutate.rs).  An edit with an empty expected_hash, or *)
(* with an old_string of white space, is exempt: there nothing is checked.    *)
AppliedBlind ==
  \E k \in DOMAIN call.codes : call.codes[k] = "ok" /\ Blind(call.edit.ops[k])

DecidesOnWhatWasTold ==
  LET edits == call.tool = "edit" /\ call.hash # "empty" /\ AppliedBlind
      mutates == /\ call.tool \in {"write", "append", "delete"}
                 /\ call.known.is \/ call.hash = "told"
  IN  edits \/ mutates =>
        \/ told.is /\ call.base = told.text
        \/ told.apart /\ call.hash # "told"

(* The tools do not cry wolf: a call is refused as stale only if the text it  *)
(* read is not the one its caller was told last, whatever mixture of reads,   *)
(* edits, writes, refusals and restarts came before - unless the ledger has   *)
(* been moved apart from the caller, or the file has CRLF and lone CR, which  *)
(* read shows in another view than the others check (file_query.rs exec_read, *)
(* file_shared.rs normalize_newlines).                                        *)
StaleCodes(c) == {k \in DOMAIN c.codes : c.codes[k] = "STALE_FILE"}

NoFalseAlarm ==
  [][LET seen == IF call.tool = "edit" THEN call.base ELSE disk.text
         before == IF call.tool = "edit" THEN StaleCodes(call) ELSE {}
     IN  ~(StaleCodes(call') \subseteq before) /\ ~told.apart
         => told.is /\ (ReadView(seen) # told.text \/ Mixed(seen))]_call

(* An operation that names a text changes the file only where that text is:   *)
(* in the one place that matches or, when lines around it are named too, in   *)
(* one of them; a looser match counts only if it is allowed and no stricter   *)
(* one exists; every line outside of the place stays as it was, but for a     *)
(* blank line at the end of the file, which is lost (the locating and the     *)
(* splicing of file_edit.rs).  White space names no text to a line number.    *)
Wanted(op) == IF op.oldLines # <<>> THEN op.oldLines
              ELSE IF Single(op.old) THEN op.old ELSE MultilineStringLines(op.old)

Inline(op) == Single(op.old) /\ op.oldLines = <<>> /\ op.start = 0

PlacesAt(file, op, grade) ==
  LET w == Wanted(op)
      Same(a, b) == CASE grade = 1 -> TrimEnd(a) = TrimEnd(b)
                      [] grade = 2 -> TrimLine(a) = TrimLine(b)
                      [] grade = 3 -> Normalise(a) = Normalise(b)
  IN  {i \in DOMAIN file :
         IF Inline(op) /\ grade = 0 THEN Occurs(file[i], op.old[1]) # {}
         ELSE /\ grade # 0 /\ i + Len(w) - 1 <= Len(file)
              /\ \A k \in DOMAIN w : Same(file[i + k - 1], w[k])
              /\ op.start \in {0, i}}

Places(file, op) ==
  LET grades == {g \in 0..(IF op.fuzzy THEN 3 ELSE 1) : PlacesAt(file, op, g) # {}}
  IN  IF grades = {} THEN {} ELSE PlacesAt(file, op, Min(grades))

SameOutside(file, next, i, n) ==
  LET rest == Len(file) - (i + n - 1)
  IN  \E whole \in {next, Append(next, <<>>)} :
        /\ Len(whole) >= i - 1 + rest
        /\ SubSeq(whole, 1, i - 1) = SubSeq(file, 1, i - 1)
        /\ SubSeq(whole, Len(whole) - rest + 1, Len(whole)) = SubSeq(file, i + n, Len(file))

NamesText(op) ==
  op.start = 0 \/ op.oldLines # <<>> \/ MultilineStringLines(op.old) # <<>>

TouchesOnlyWhatWasNamed ==
  [][LET n == Len(call'.codes)
         op == call.edit.ops[n]
         places == Places(call.view, op)
     IN  call.tool = "edit" /\ call'.tool = "edit" /\ n > Len(call.codes)
         /\ call'.codes[n] = "ok" /\ NamesText(op) /\ ~op.all
         => /\ places # {}
            /\ op.before \o op.after = <<>> => Cardinality(places) = 1
            /\ \E i \in places : SameOutside(call.view, call'.view, i, Len(Wanted(op)))]_call
=============================================================================
