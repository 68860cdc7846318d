---------------------------- MODULE AgentLoopProofs ----------------------------
(***************************************************************************)
(* Proofs about the worker (AgentLoop), for every number of turns, rounds, *)
(* calls and commands: a tool runs at most once and, where a permission is *)
(* needed, only after it was given; the model is only asked about calls    *)
(* that are answered; and an interrupt ends the turn it hits.              *)
(*                                                                         *)
(* Then about the request that a lap makes to a provider (GateStream), for *)
(* every number of pieces, calls and attempts.                             *)
(***************************************************************************)
EXTENDS AgentLoop, GateStream, FiniteSetTheorems, SequenceTheorems, WellFoundedInduction, TLAPS

----------------------------------------------------------------------------
(* What is known of a history.                                             *)

Results == UNION {[D -> Answers] : D \in SUBSET Nat}

StepSet == [calls : SUBSET Nat, results : Results]
TurnSet == [id : Nat, steps : Seq(StepSet)]
History == Seq(TurnSet)

\* Whatever is answered was asked.
AnswersAreOfCalls(history) ==
    \A i \in 1 .. Len(history) : \A k \in 1 .. Len(history[i].steps) :
        DOMAIN history[i].steps[k].results \subseteq history[i].steps[k].calls

\* Only the last step of the last turn may have open calls.
SettledBefore(history) ==
    \A i \in 1 .. Len(history) : \A k \in 1 .. Len(history[i].steps) :
        i # Len(history) \/ k # Len(history[i].steps) => AllAnswered(history[i].steps[k])

\* The open calls.
Open(history) ==
    {c \in Nat : /\ history # <<>> /\ history[Len(history)].steps # <<>>
                 /\ LET steps == history[Len(history)].steps
                    IN  c \in steps[Len(steps)].calls \ DOMAIN steps[Len(steps)].results}

\* No earlier step of its turn has an open call: an answer finds the step that is waiting.
OpenAskedOnce(history) ==
    \A c \in Open(history) :
        \A k \in 1 .. Len(history[Len(history)].steps) - 1 :
            c \notin history[Len(history)].steps[k].calls

CallsAmong(history, known) ==
    \A i \in 1 .. Len(history) : \A k \in 1 .. Len(history[i].steps) :
        history[i].steps[k].calls \subseteq known

Tidy(history, known) ==
    /\ history \in History
    /\ AnswersAreOfCalls(history)
    /\ SettledBefore(history)
    /\ CallsAmong(history, known)

Sound(history, known) == Tidy(history, known) /\ OpenAskedOnce(history)

----------------------------------------------------------------------------
(* The inductive invariant.                                                *)

Sent ==
    [type : {"cancel", "shutdown", "compact", "send"}]
    \cup [type : {"undo"}, turn : Nat]
    \cup [type : {"permit"}, call : Nat, yes : BOOLEAN]
    \cup [type : {"answer", "dismiss"}, call : Nat]

Runs == [turn : Nat, round : Nat, caller : {"loop", "lap", "handler"}]
Batches == [parallel : SUBSET Nat, serial : SUBSET Nat, started : SUBSET Nat,
            finished : SUBSET Nat, asks : SUBSET Nat]
Suspensions == [turn : Nat, round : Nat, perms : SUBSET Nat, deferred : SUBSET Nat,
                serial : SUBSET Nat, asks : SUBSET Nat]

Shapes ==
    /\ inbox \in Seq(Sent)
    /\ arriving \in Sent \cup {None}
    /\ cancel \in BOOLEAN
    /\ pc \in {"idle", "lap", "gate", "tools", "stopped"}
    /\ run \in Runs
    /\ work \in Batches
    /\ suspended \in Suspensions \cup {None}
    /\ compact \in [keep : Nat] \cup {None}
    /\ timeline \in Seq({"running", "sealed"})
    /\ calls \in Seq(Kinds) /\ Len(calls) <= MaxCalls
    /\ runs \in [1 .. MaxCalls -> Nat]

\* The turn that runs, and the turn that waits, exist.
TurnsExist ==
    /\ Busy => run.turn \in 1 .. Len(timeline)
    /\ suspended # None => suspended.turn \in 1 .. Len(timeline)

Waiting == work.parallel \cup work.serial \cup work.started

\* The call has not run, and would be allowed to.
MayRun(c) ==
    /\ c \in 1 .. Len(calls)
    /\ runs[c] = 0
    /\ calls[c] \in {"run", "perm"}
    /\ calls[c] = "perm" => c \in approved

MayBeAllowed(c) == c \in 1 .. Len(calls) /\ runs[c] = 0 /\ calls[c] = "perm"

\* A call waits in one place.
WaitsOnce ==
    /\ work.parallel \cap work.serial = {}
    /\ work.started \cap (work.parallel \cup work.serial) = {}
    /\ \A b, c \in work.started : b = c
    /\ suspended # None => (suspended.deferred \cup suspended.perms) \cap Waiting = {}

WaitersMayRun ==
    /\ \A c \in Waiting : MayRun(c)
    /\ suspended # None => /\ \A c \in suspended.deferred : MayRun(c)
                           /\ \A c \in suspended.perms : MayBeAllowed(c)

NewHaveNotRun == \A c \in 1 .. MaxCalls : c > Len(calls) => runs[c] = 0

\* The calls of a step that is taken back at once have a number of their own.
Known == 1 .. Len(calls) \cup {MaxCalls + 1}

HistoryIsSound == Sound(turns, Known)

\* Each open call of the history is with somebody who will answer it.
OpenIsWorked ==
    /\ pc \in {"lap", "gate"} => Open(turns) = {}
    /\ pc = "tools" /\ ~cancel =>
           Open(turns) \subseteq Waiting \cup work.finished \cup work.asks
    /\ pc = "idle" /\ suspended # None =>
           Open(turns) \subseteq suspended.perms \cup suspended.deferred \cup suspended.asks

\* A turn that waits for no permission waits for answers alone.
DeferredWaitForPermission ==
    suspended # None /\ suspended.perms = {} => suspended.deferred = {}

IInv ==
    /\ Shapes
    /\ TurnsExist
    /\ WaitsOnce
    /\ WaitersMayRun
    /\ NewHaveNotRun
    /\ RunsOnlyApproved
    /\ HistoryIsSound
    /\ OpenIsWorked
    /\ DeferredWaitForPermission

----------------------------------------------------------------------------
(* Operators on histories (TurnHistory).                                   *)

LEMMA StepFacts ==
    ASSUME NEW s \in StepSet
    PROVE  s.calls \subseteq Nat /\ s.results \in Results
  BY DEF StepSet

LEMMA TurnFacts ==
    ASSUME NEW t \in TurnSet
    PROVE  /\ t.id \in Nat /\ t.steps \in Seq(StepSet) /\ Len(t.steps) \in Nat
           /\ DOMAIN t.steps = 1 .. Len(t.steps)
           /\ \A k \in 1 .. Len(t.steps) : t.steps[k] \in StepSet
<1>1. t.id \in Nat /\ t.steps \in Seq(StepSet)
  BY DEF TurnSet
<1>2. QED
  BY <1>1

LEMMA HistoryFacts ==
    ASSUME NEW h \in History
    PROVE  /\ Len(h) \in Nat /\ DOMAIN h = 1 .. Len(h) /\ h \in Seq(TurnSet)
           /\ \A i \in 1 .. Len(h) : h[i] \in TurnSet
  BY DEF History

\* An answer is added to what a step was answered.
LEMMA AnswerFacts ==
    ASSUME NEW s \in StepSet, NEW new \in SUBSET s.calls, NEW answer \in Answers,
           DOMAIN s.results \subseteq s.calls
    PROVE  /\ Answer(s, new, answer) \in StepSet
           /\ Answer(s, new, answer).calls = s.calls
           /\ DOMAIN Answer(s, new, answer).results = DOMAIN s.results \cup new
<1> DEFINE D == DOMAIN s.results \cup new
           r == [c \in D |-> IF c \in DOMAIN s.results THEN s.results[c] ELSE answer]
<1>1. s.calls \subseteq Nat /\ s.results \in Results
  BY StepFacts
<1>2. D \in SUBSET Nat
  BY <1>1
<1>3. \A c \in DOMAIN s.results : s.results[c] \in Answers
  BY <1>1 DEF Results
<1>4. r \in [D -> Answers]
  BY <1>3
<1>5. r \in Results
  BY <1>2, <1>4 DEF Results
<1>6. DOMAIN r = D
  OBVIOUS
<1> HIDE DEF r, D
<1>7. Answer(s, new, answer) = [calls |-> s.calls, results |-> r]
  BY DEF Answer, r, D
<1>8. QED
  BY <1>1, <1>5, <1>6, <1>7 DEF StepSet, D

\* A history in which every step has kept its calls and its answers and has perhaps more.
MoreAnswers(g, h) ==
    /\ g \in History
    /\ Len(g) = Len(h)
    /\ \A i \in 1 .. Len(h) :
          /\ Len(g[i].steps) = Len(h[i].steps)
          /\ \A k \in 1 .. Len(h[i].steps) :
                /\ g[i].steps[k].calls = h[i].steps[k].calls
                /\ DOMAIN h[i].steps[k].results \subseteq DOMAIN g[i].steps[k].results
                /\ DOMAIN g[i].steps[k].results \subseteq g[i].steps[k].calls

\* The open calls, in words that need no case distinction.
LEMMA OpenFacts ==
    ASSUME NEW h \in History
    PROVE  /\ h = <<>> <=> Len(h) = 0
           /\ \A i \in 1 .. Len(h) : h[i].steps = <<>> <=> Len(h[i].steps) = 0
           /\ \A c : c \in Open(h) <=>
                 /\ Len(h) > 0
                 /\ Len(h[Len(h)].steps) > 0
                 /\ c \in h[Len(h)].steps[Len(h[Len(h)].steps)].calls
                 /\ c \notin DOMAIN h[Len(h)].steps[Len(h[Len(h)].steps)].results
<1>1. h = <<>> <=> Len(h) = 0
  BY HistoryFacts
<1>2. ASSUME NEW i \in 1 .. Len(h) PROVE h[i].steps = <<>> <=> Len(h[i].steps) = 0
  BY HistoryFacts, TurnFacts
<1>3. Len(h) \in Nat /\ (Len(h) > 0 => Len(h) \in 1 .. Len(h) /\ h[Len(h)] \in TurnSet)
  BY HistoryFacts
<1>4. ASSUME Len(h) > 0, Len(h[Len(h)].steps) > 0
      PROVE  h[Len(h)].steps[Len(h[Len(h)].steps)].calls \subseteq Nat
  <2>1. Len(h[Len(h)].steps) \in 1 .. Len(h[Len(h)].steps)
    BY <1>3, <1>4, TurnFacts
  <2>2. h[Len(h)].steps[Len(h[Len(h)].steps)] \in StepSet
    BY <1>3, <1>4, <2>1, TurnFacts
  <2>3. QED
    BY <2>2, StepFacts
<1>5. Len(h) > 0 => Len(h[Len(h)].steps) \in Nat
  BY <1>3, TurnFacts
<1>6. QED
  BY <1>1, <1>2, <1>3, <1>4, <1>5 DEF Open

\* All calls are answered when none of the last step is open.
LEMMA NoneOpen ==
    ASSUME NEW h, NEW known, Tidy(h, known)
    PROVE  CallsAnswered(h) <=> Open(h) = {}
<1>1. h \in History /\ AnswersAreOfCalls(h) /\ SettledBefore(h)
  BY DEF Tidy
<1>2. /\ Len(h) \in Nat /\ DOMAIN h = 1 .. Len(h)
      /\ \A i \in 1 .. Len(h) :
            /\ Len(h[i].steps) \in Nat /\ DOMAIN h[i].steps = 1 .. Len(h[i].steps)
            /\ \A k \in 1 .. Len(h[i].steps) : h[i].steps[k].calls \subseteq Nat
  BY <1>1, HistoryFacts, TurnFacts, StepFacts
<1>3. CallsAnswered(h) <=>
        \A i \in 1 .. Len(h) : \A k \in 1 .. Len(h[i].steps) : AllAnswered(h[i].steps[k])
  BY <1>2 DEF CallsAnswered, Range
<1>4. ASSUME CallsAnswered(h) PROVE Open(h) = {}
  <2>1. SUFFICES ASSUME NEW c \in Open(h) PROVE FALSE
    OBVIOUS
  <2>2. Len(h) > 0 /\ Len(h[Len(h)].steps) > 0
    BY <1>1, <2>1, OpenFacts
  <2>3. Len(h) \in 1 .. Len(h) /\ Len(h[Len(h)].steps) \in 1 .. Len(h[Len(h)].steps)
    BY <1>2, <2>2
  <2>4. AllAnswered(h[Len(h)].steps[Len(h[Len(h)].steps)])
    BY <1>3, <1>4, <2>3
  <2>5. QED
    BY <1>1, <2>1, <2>4, OpenFacts DEF AllAnswered
<1>5. ASSUME Open(h) = {} PROVE CallsAnswered(h)
  <2>1. SUFFICES ASSUME NEW i \in 1 .. Len(h), NEW k \in 1 .. Len(h[i].steps)
                 PROVE  AllAnswered(h[i].steps[k])
    BY <1>3
  <2>2. CASE i # Len(h) \/ k # Len(h[i].steps)
    BY <1>1, <2>2 DEF SettledBefore
  <2>3. CASE i = Len(h) /\ k = Len(h[i].steps)
    <3>1. Len(h) > 0 /\ Len(h[Len(h)].steps) > 0
      BY <1>2, <2>3
    <3>2. \A c \in h[i].steps[k].calls : c \in DOMAIN h[i].steps[k].results
      BY <1>1, <1>5, <2>3, <3>1, OpenFacts
    <3>3. DOMAIN h[i].steps[k].results \subseteq h[i].steps[k].calls
      BY <1>1 DEF AnswersAreOfCalls
    <3>4. QED
      BY <3>2, <3>3 DEF AllAnswered
  <2>4. QED
    BY <2>2, <2>3
<1>6. QED
  BY <1>4, <1>5

LEMMA ClosedIsSound ==
    ASSUME NEW h, NEW known, Tidy(h, known), Open(h) = {}
    PROVE  Sound(h, known)
  BY DEF Sound, OpenAskedOnce

\* More answers leave a history tidy, and open nothing.
LEMMA MoreAnswersKeep ==
    ASSUME NEW h, NEW g, NEW known, Tidy(h, known), MoreAnswers(g, h)
    PROVE  /\ Tidy(g, known)
           /\ Open(g) \subseteq Open(h)
           /\ OpenAskedOnce(h) => OpenAskedOnce(g)
<1>1. h \in History /\ g \in History /\ Len(g) = Len(h) /\ Len(h) \in Nat
  BY HistoryFacts DEF Tidy, MoreAnswers
<1>2. \A i \in 1 .. Len(h) : Len(h[i].steps) \in Nat
  BY <1>1, HistoryFacts, TurnFacts
<1>3. AnswersAreOfCalls(g) /\ CallsAmong(g, known)
  BY <1>1 DEF Tidy, MoreAnswers, AnswersAreOfCalls, CallsAmong
<1>4. SettledBefore(g)
  BY <1>1 DEF Tidy, MoreAnswers, SettledBefore, AllAnswered
<1>5. Open(g) \subseteq Open(h)
  <2>1. SUFFICES ASSUME NEW c \in Open(g) PROVE c \in Open(h)
    OBVIOUS
  <2>2. /\ Len(g) > 0 /\ Len(g[Len(g)].steps) > 0
        /\ c \in g[Len(g)].steps[Len(g[Len(g)].steps)].calls
        /\ c \notin DOMAIN g[Len(g)].steps[Len(g[Len(g)].steps)].results
    BY <1>1, <2>1, OpenFacts
  <2>3. Len(h) \in 1 .. Len(h) /\ Len(g[Len(h)].steps) = Len(h[Len(h)].steps)
    BY <1>1, <2>2 DEF MoreAnswers
  <2>4. Len(h[Len(h)].steps) \in 1 .. Len(h[Len(h)].steps)
    BY <1>1, <1>2, <2>2, <2>3
  <2>5. /\ c \in h[Len(h)].steps[Len(h[Len(h)].steps)].calls
        /\ c \notin DOMAIN h[Len(h)].steps[Len(h[Len(h)].steps)].results
    BY <1>1, <2>2, <2>3, <2>4 DEF MoreAnswers
  <2>6. QED
    BY <1>1, <2>2, <2>3, <2>5, OpenFacts
<1>6. ASSUME OpenAskedOnce(h) PROVE OpenAskedOnce(g)
  <2>1. SUFFICES ASSUME NEW c \in Open(g), NEW k \in 1 .. Len(g[Len(g)].steps) - 1
                 PROVE  c \notin g[Len(g)].steps[k].calls
    BY DEF OpenAskedOnce
  <2>2. Len(h) \in 1 .. Len(h)
    BY <1>1, <2>1, OpenFacts
  <2>3. Len(g[Len(h)].steps) = Len(h[Len(h)].steps) /\ k \in 1 .. Len(h[Len(h)].steps)
    BY <1>1, <1>2, <2>1, <2>2 DEF MoreAnswers
  <2>4. g[Len(h)].steps[k].calls = h[Len(h)].steps[k].calls
    BY <2>2, <2>3 DEF MoreAnswers
  <2>5. QED
    BY <1>1, <1>5, <1>6, <2>1, <2>3, <2>4 DEF OpenAskedOnce
<1>7. QED
  BY <1>1, <1>3, <1>4, <1>5, <1>6 DEF Tidy

\* A step in place: the history with step k of turn i replaced.
Replaced(h, i, k, s) == [h EXCEPT ![i].steps[k] = s]

LEMMA ReplaceStep ==
    ASSUME NEW h \in History, NEW i \in 1 .. Len(h), NEW k \in 1 .. Len(h[i].steps),
           NEW s \in StepSet, NEW g, g = Replaced(h, i, k, s)
    PROVE  /\ g \in History /\ Len(g) = Len(h)
           /\ \A j \in 1 .. Len(h) : j # i => g[j] = h[j]
           /\ Len(g[i].steps) = Len(h[i].steps)
           /\ \A l \in 1 .. Len(h[i].steps) : l # k => g[i].steps[l] = h[i].steps[l]
           /\ g[i].steps[k] = s
<1> DEFINE new == [h[i].steps EXCEPT ![k] = s]
           turn == [id |-> h[i].id, steps |-> new]
<1>1. h \in Seq(TurnSet) /\ h[i] \in TurnSet /\ Len(h) \in Nat /\ DOMAIN h = 1 .. Len(h)
  BY HistoryFacts
<1>2. h[i].id \in Nat /\ h[i].steps \in Seq(StepSet) /\ DOMAIN h[i].steps = 1 .. Len(h[i].steps)
  BY <1>1, TurnFacts
<1>3. /\ new \in Seq(StepSet) /\ Len(new) = Len(h[i].steps) /\ new[k] = s
      /\ \A l \in 1 .. Len(h[i].steps) : l # k => new[l] = h[i].steps[l]
  BY <1>2
<1> HIDE DEF new
<1>4. turn \in TurnSet /\ turn.steps = new
  BY <1>2, <1>3 DEF TurnSet
<1>5. [h[i] EXCEPT !.steps = new] = turn
  <2>1. h[i] = [id |-> h[i].id, steps |-> h[i].steps]
    BY <1>1 DEF TurnSet
  <2>2. QED
    BY <2>1
<1>6. g = [h EXCEPT ![i] = [h[i] EXCEPT !.steps = new]]
  BY <1>1 DEF new, Replaced
<1> HIDE DEF turn
<1>7. g = [h EXCEPT ![i] = turn] /\ g[i] = turn
  <2>1. g = [h EXCEPT ![i] = turn]
    BY <1>5, <1>6
  <2>2. QED
    BY <1>1, <2>1
<1>8. g \in Seq(TurnSet) /\ Len(g) = Len(h) /\ g[i] = turn
      /\ \A j \in 1 .. Len(h) : j # i => g[j] = h[j]
  BY <1>1, <1>4, <1>7
<1>9. QED
  BY <1>3, <1>4, <1>8 DEF History

\* The open calls of the last step are answered as not run.
LEMMA SettlingAnswersAll ==
    ASSUME NEW h, NEW known, Tidy(h, known)
    PROVE  /\ Tidy(SettleLast(h), known) /\ Open(SettleLast(h)) = {}
           /\ Len(SettleLast(h)) = Len(h)
           /\ SettleLast(h) = <<>> <=> h = <<>>
<1>1. /\ h \in History /\ AnswersAreOfCalls(h) /\ Len(h) \in Nat /\ h \in Seq(TurnSet)
      /\ h = <<>> <=> Len(h) = 0
      /\ \A i \in 1 .. Len(h) : h[i].steps = <<>> <=> Len(h[i].steps) = 0
      /\ \A i \in 1 .. Len(h) : h[i] \in TurnSet
  BY HistoryFacts, OpenFacts DEF Tidy
<1>2. CASE ~HasStep(h)
  <2>1. SettleLast(h) = h
    BY <1>2 DEF SettleLast
  <2>2. Open(h) = {}
    BY <1>2 DEF HasStep, Open, Last
  <2>3. QED
    BY <2>1, <2>2
<1>3. CASE HasStep(h)
  <2> DEFINE n == Len(h)
             m == Len(h[n].steps)
             s == h[n].steps[m]
             g == SettleLast(h)
  <2>1. h # <<>> /\ h[n].steps # <<>>
    BY <1>3 DEF HasStep, Last
  <2>2. n \in 1 .. Len(h) /\ m \in 1 .. Len(h[n].steps)
    <3>1. n \in 1 .. Len(h)
      BY <1>1, <2>1
    <3>2. m \in Nat /\ m # 0
      BY <1>1, <2>1, <3>1, TurnFacts
    <3>3. QED
      BY <3>1, <3>2
  <2>3. s \in StepSet /\ DOMAIN s.results \subseteq s.calls
    <3>1. s \in StepSet
      BY <1>1, <2>2, TurnFacts
    <3>2. QED
      BY <1>1, <2>2, <3>1 DEF AnswersAreOfCalls
  <2>4. Settle(s) \in StepSet /\ Settle(s).calls = s.calls /\ DOMAIN Settle(s).results = s.calls
    <3>1. "skipped" \in Answers /\ s.calls \in SUBSET s.calls
      BY DEF Answers
    <3>2. /\ Answer(s, s.calls, "skipped") \in StepSet
          /\ Answer(s, s.calls, "skipped").calls = s.calls
          /\ DOMAIN Answer(s, s.calls, "skipped").results = DOMAIN s.results \cup s.calls
      BY <2>3, <3>1, AnswerFacts
    <3>3. QED
      BY <2>3, <3>2 DEF Settle
  <2>5. g = Replaced(h, n, m, Settle(s))
    BY <1>3 DEF SettleLast, Last, Replaced
  <2> HIDE DEF s, g, n, m
  <2>6. /\ g \in History /\ Len(g) = Len(h)
        /\ \A j \in 1 .. Len(h) : j # n => g[j] = h[j]
        /\ Len(g[n].steps) = Len(h[n].steps)
        /\ \A l \in 1 .. Len(h[n].steps) : l # m => g[n].steps[l] = h[n].steps[l]
        /\ g[n].steps[m] = Settle(s)
    <3> DEFINE settled == Settle(s)
    <3>1. h \in History /\ settled \in StepSet
      BY <1>1, <2>4
    <3>2. g = Replaced(h, n, m, settled)
      BY <2>5
    <3>3. settled = Settle(s)
      OBVIOUS
    <3> HIDE DEF settled
    <3>4. g \in History /\ Len(g) = Len(h)
      BY <2>2, <3>1, <3>2, ReplaceStep
    <3>5. \A j \in 1 .. Len(h) : j # n => g[j] = h[j]
      BY <2>2, <3>1, <3>2, ReplaceStep
    <3>6. Len(g[n].steps) = Len(h[n].steps)
      BY <2>2, <3>1, <3>2, ReplaceStep
    <3>7. \A l \in 1 .. Len(h[n].steps) : l # m => g[n].steps[l] = h[n].steps[l]
      BY <2>2, <3>1, <3>2, ReplaceStep
    <3>8. g[n].steps[m] = settled
      BY <2>2, <3>1, <3>2, ReplaceStep
    <3>9. QED
      BY <3>3, <3>4, <3>5, <3>6, <3>7, <3>8
  <2>7. MoreAnswers(g, h)
    <3>1. ASSUME NEW i \in 1 .. Len(h)
          PROVE  /\ Len(g[i].steps) = Len(h[i].steps)
                 /\ \A k \in 1 .. Len(h[i].steps) :
                       /\ g[i].steps[k].calls = h[i].steps[k].calls
                       /\ DOMAIN h[i].steps[k].results \subseteq DOMAIN g[i].steps[k].results
                       /\ DOMAIN g[i].steps[k].results \subseteq g[i].steps[k].calls
      <4>1. \A k \in 1 .. Len(h[i].steps) :
                DOMAIN h[i].steps[k].results \subseteq h[i].steps[k].calls
        BY <1>1 DEF AnswersAreOfCalls
      <4>2. CASE i # n
        BY <2>6, <4>1, <4>2
      <4>3. CASE i = n
        <5>1. ASSUME NEW k \in 1 .. Len(h[n].steps)
              PROVE  /\ g[n].steps[k].calls = h[n].steps[k].calls
                     /\ DOMAIN h[n].steps[k].results \subseteq DOMAIN g[n].steps[k].results
                     /\ DOMAIN g[n].steps[k].results \subseteq g[n].steps[k].calls
          <6>1. CASE k # m
            BY <2>6, <4>1, <4>3, <5>1, <6>1
          <6>2. CASE k = m
            <7>1. g[n].steps[k] = Settle(s)
              BY <2>6, <6>2
            <7>2. h[n].steps[k] = s
              BY <6>2 DEF s
            <7>3. QED
              BY <2>3, <2>4, <7>1, <7>2
          <6>3. QED
            BY <6>1, <6>2
        <5>2. QED
          BY <2>6, <4>3, <5>1
      <4>4. QED
        BY <4>2, <4>3
    <3>2. QED
      BY <2>6, <3>1 DEF MoreAnswers
  <2>8. Tidy(g, known)
    BY <2>7, MoreAnswersKeep
  <2>9. Open(g) = {}
    <3>1. SUFFICES ASSUME NEW c \in Open(g) PROVE FALSE
      OBVIOUS
    <3>2. c \in g[Len(g)].steps[Len(g[Len(g)].steps)].calls
          /\ c \notin DOMAIN g[Len(g)].steps[Len(g[Len(g)].steps)].results
      BY <2>6, <3>1, OpenFacts
    <3>3. Len(g) = n /\ Len(g[n].steps) = m
      BY <2>6 DEF n, m
    <3>4. c \in Settle(s).calls /\ c \notin DOMAIN Settle(s).results
      BY <2>6, <3>2, <3>3
    <3>5. QED
      BY <2>4, <3>4
  <2>10. g = <<>> <=> h = <<>>
    BY <1>1, <2>6, HistoryFacts, OpenFacts
  <2>11. QED
    BY <2>6, <2>8, <2>9, <2>10 DEF g
<1>4. QED
  BY <1>2, <1>3

\* A new turn comes behind turns that are answered.
LEMMA PushUserKeeps ==
    ASSUME NEW h, NEW known, Tidy(h, known), NEW id \in Nat
    PROVE  Tidy(PushUser(h, id), known) /\ Open(PushUser(h, id)) = {}
<1> DEFINE f == SettleLast(h)
           g == Append(f, NewTurn(id))
<1>1. Tidy(f, known) /\ Open(f) = {}
  BY SettlingAnswersAll
<1> HIDE DEF f
<1>2. f \in Seq(TurnSet) /\ Len(f) \in Nat /\ \A i \in 1 .. Len(f) : f[i] \in TurnSet
  BY <1>1, HistoryFacts DEF Tidy
<1>3. NewTurn(id) \in TurnSet /\ NewTurn(id).steps = <<>>
  BY DEF NewTurn, TurnSet
<1>4. /\ g \in Seq(TurnSet) /\ Len(g) = Len(f) + 1 /\ g[Len(f) + 1] = NewTurn(id)
      /\ \A i \in 1 .. Len(f) : g[i] = f[i]
  BY <1>2, <1>3
<1> HIDE DEF g
<1>5. g \in History
  BY <1>4 DEF History
<1>6. \A i \in 1 .. Len(g) : i \in 1 .. Len(f) \/ i = Len(f) + 1
  BY <1>2, <1>4
<1>7. Len(g[Len(f) + 1].steps) = 0
  BY <1>3, <1>4
<1>8. /\ \A i \in 1 .. Len(f) : \A k \in 1 .. Len(f[i].steps) : AllAnswered(f[i].steps[k])
  <2>1. CallsAnswered(f)
    BY <1>1, NoneOpen
  <2>2. f \in History /\ \A i \in 1 .. Len(f) : DOMAIN f[i].steps = 1 .. Len(f[i].steps)
    BY <1>1, <1>2, TurnFacts DEF Tidy
  <2>3. QED
    BY <2>1, <2>2, HistoryFacts DEF CallsAnswered, Range
<1>9. AnswersAreOfCalls(g)
  BY <1>1, <1>4, <1>6, <1>7 DEF Tidy, AnswersAreOfCalls
<1>10. CallsAmong(g, known)
  BY <1>1, <1>4, <1>6, <1>7 DEF Tidy, CallsAmong
<1>11. SettledBefore(g)
  BY <1>4, <1>6, <1>7, <1>8 DEF SettledBefore
<1>12. Open(g) = {}
  BY <1>4, <1>5, <1>7, OpenFacts
<1>13. PushUser(h, id) = g
  BY DEF PushUser, g, f
<1>14. QED
  BY <1>5, <1>9, <1>10, <1>11, <1>12, <1>13 DEF Tidy

\* A turn in place: the history with the steps of turn i replaced.
WithSteps(h, i, steps) == [h EXCEPT ![i].steps = steps]

LEMMA ReplaceSteps ==
    ASSUME NEW h \in History, NEW i \in 1 .. Len(h), NEW steps \in Seq(StepSet),
           NEW g, g = WithSteps(h, i, steps)
    PROVE  /\ g \in History /\ Len(g) = Len(h)
           /\ \A j \in 1 .. Len(h) : j # i => g[j] = h[j]
           /\ g[i].steps = steps
<1> DEFINE turn == [id |-> h[i].id, steps |-> steps]
<1>1. h \in Seq(TurnSet) /\ h[i] \in TurnSet /\ Len(h) \in Nat /\ DOMAIN h = 1 .. Len(h)
  BY HistoryFacts
<1>2. h[i].id \in Nat
  BY <1>1, TurnFacts
<1>3. turn \in TurnSet /\ turn.steps = steps
  BY <1>2 DEF TurnSet
<1>4. [h[i] EXCEPT !.steps = steps] = turn
  <2>1. h[i] = [id |-> h[i].id, steps |-> h[i].steps]
    BY <1>1 DEF TurnSet
  <2>2. QED
    BY <2>1
<1>5. g = [h EXCEPT ![i] = [h[i] EXCEPT !.steps = steps]]
  BY <1>1 DEF WithSteps
<1> HIDE DEF turn
<1>6. g = [h EXCEPT ![i] = turn] /\ g[i] = turn
  <2>1. g = [h EXCEPT ![i] = turn]
    BY <1>4, <1>5
  <2>2. QED
    BY <1>1, <2>1
<1>7. g \in Seq(TurnSet) /\ Len(g) = Len(h) /\ \A j \in 1 .. Len(h) : j # i => g[j] = h[j]
  BY <1>1, <1>3, <1>6
<1>8. QED
  BY <1>3, <1>6, <1>7 DEF History

LEMMA NewStep ==
    ASSUME NEW C \in SUBSET Nat
    PROVE  /\ Step(C) \in StepSet /\ Step(C).calls = C /\ DOMAIN Step(C).results = {}
<1>1. <<>> \in [{} -> Answers] /\ DOMAIN <<>> = {}
  OBVIOUS
<1>2. {} \in SUBSET Nat
  OBVIOUS
<1>3. <<>> \in Results
  BY <1>1, <1>2 DEF Results
<1>4. Step(C) = [calls |-> C, results |-> <<>>]
  BY DEF Step
<1>5. QED
  BY <1>1, <1>3, <1>4 DEF StepSet

\* A new step comes behind steps that are answered.
LEMMA PushAssistantKeeps ==
    ASSUME NEW h, NEW known, Tidy(h, known), NEW C \in SUBSET Nat
    PROVE  /\ Tidy(PushAssistant(h, C), known \cup C)
           /\ Open(PushAssistant(h, C)) \subseteq C
           /\ C \cap known = {} => OpenAskedOnce(PushAssistant(h, C))
<1>1. CASE h = <<>>
  <2>1. PushAssistant(h, C) = h
    BY <1>1 DEF PushAssistant
  <2>2. Open(h) = {}
    BY <1>1 DEF Open
  <2>3. Tidy(h, known \cup C)
    BY DEF Tidy, CallsAmong
  <2>4. OpenAskedOnce(h)
    BY <2>2 DEF OpenAskedOnce
  <2>5. QED
    BY <2>1, <2>2, <2>3, <2>4
<1>2. CASE h # <<>>
  <2> DEFINE f == SettleLast(h)
             n == Len(h)
             new == Append(f[n].steps, Step(C))
             g == WithSteps(f, n, new)
             m == Len(f[n].steps)
  <2>1. Tidy(f, known) /\ Open(f) = {} /\ Len(f) = n /\ h \in History
    BY SettlingAnswersAll DEF Tidy
  <2>2. n \in Nat /\ n \in 1 .. n
    BY <1>2, <2>1, HistoryFacts, OpenFacts
  <2> HIDE DEF f
  <2>3. /\ f \in History /\ f[n] \in TurnSet
        /\ f[n].steps \in Seq(StepSet) /\ m \in Nat
        /\ \A i \in 1 .. n : Len(f[i].steps) \in Nat /\ DOMAIN f[i].steps = 1 .. Len(f[i].steps)
    BY <2>1, <2>2, HistoryFacts, TurnFacts DEF Tidy
  <2>4. Step(C) \in StepSet /\ Step(C).calls = C /\ DOMAIN Step(C).results = {}
    BY NewStep
  <2>5. /\ new \in Seq(StepSet) /\ Len(new) = m + 1 /\ new[m + 1] = Step(C)
        /\ \A k \in 1 .. m : new[k] = f[n].steps[k]
    BY <2>3, <2>4
  <2>6. PushAssistant(h, C) = g
    BY <1>2 DEF PushAssistant, WithSteps, f
  <2> HIDE DEF new, g, n
  <2>7. /\ g \in History /\ Len(g) = n /\ g[n].steps = new
        /\ \A j \in 1 .. n : j # n => g[j] = f[j]
    <3>1. g = WithSteps(f, n, new)
      BY DEF g
    <3>2. f \in History /\ n \in 1 .. Len(f) /\ new \in Seq(StepSet)
      BY <2>1, <2>2, <2>3, <2>5
    <3>3. /\ g \in History /\ Len(g) = Len(f) /\ g[n].steps = new
          /\ \A j \in 1 .. Len(f) : j # n => g[j] = f[j]
      BY <3>1, <3>2, ReplaceSteps
    <3>4. QED
      BY <2>1, <3>3
  <2> HIDE DEF m
  <2>8. \A i \in 1 .. n : \A k \in 1 .. Len(f[i].steps) : AllAnswered(f[i].steps[k])
    <3>1. CallsAnswered(f)
      BY <2>1, NoneOpen
    <3>2. DOMAIN f = 1 .. n
      BY <2>1, <2>3, HistoryFacts
    <3>3. QED
      BY <2>3, <3>1, <3>2 DEF CallsAnswered, Range
  <2>9. \A i \in 1 .. n : \A k \in 1 .. Len(g[i].steps) :
           \/ k \in 1 .. Len(f[i].steps) /\ g[i].steps[k] = f[i].steps[k]
           \/ i = n /\ k = m + 1 /\ g[i].steps[k] = Step(C)
    <3>1. ASSUME NEW i \in 1 .. n, NEW k \in 1 .. Len(g[i].steps)
          PROVE  \/ k \in 1 .. Len(f[i].steps) /\ g[i].steps[k] = f[i].steps[k]
                 \/ i = n /\ k = m + 1 /\ g[i].steps[k] = Step(C)
      <4>1. CASE i # n
        BY <2>7, <3>1, <4>1
      <4>2. CASE i = n
        <5>1. k \in 1 .. m + 1
          BY <2>5, <2>7, <3>1, <4>2
        <5>2. k \in 1 .. m \/ k = m + 1
          BY <2>3, <5>1
        <5>3. QED
          BY <2>5, <2>7, <4>2, <5>2 DEF m
      <4>3. QED
        BY <4>1, <4>2
    <3>2. QED
      BY <3>1
  <2>10. AnswersAreOfCalls(g)
    <3>1. \A i \in 1 .. n : \A k \in 1 .. Len(f[i].steps) :
              DOMAIN f[i].steps[k].results \subseteq f[i].steps[k].calls
      BY <2>1 DEF Tidy, AnswersAreOfCalls
    <3>2. QED
      BY <2>4, <2>7, <2>9, <3>1 DEF AnswersAreOfCalls
  <2>11. CallsAmong(g, known \cup C)
    <3>1. \A i \in 1 .. n : \A k \in 1 .. Len(f[i].steps) : f[i].steps[k].calls \subseteq known
      BY <2>1 DEF Tidy, CallsAmong
    <3>2. QED
      BY <2>4, <2>7, <2>9, <3>1 DEF CallsAmong
  <2>12. SettledBefore(g)
    <3>1. Len(g[n].steps) = m + 1
      BY <2>5, <2>7
    <3>2. QED
      BY <2>7, <2>8, <2>9, <3>1 DEF SettledBefore
  <2>13. Open(g) \subseteq C
    <3>1. Len(g) = n /\ Len(g[n].steps) = m + 1 /\ g[n].steps[m + 1] = Step(C)
      BY <2>5, <2>7
    <3>2. QED
      BY <2>4, <2>7, <3>1, OpenFacts
  <2>14. ASSUME C \cap known = {} PROVE OpenAskedOnce(g)
    <3>1. SUFFICES ASSUME NEW c \in C, NEW k \in 1 .. Len(g[n].steps) - 1
                   PROVE  c \notin g[n].steps[k].calls
      BY <2>7, <2>13 DEF OpenAskedOnce
    <3>2. k \in 1 .. m
      BY <2>3, <2>5, <2>7, <3>1
    <3>3. g[n].steps[k] = f[n].steps[k] /\ k \in 1 .. Len(f[n].steps)
      BY <2>5, <2>7, <3>2 DEF m
    <3>4. f[n].steps[k].calls \subseteq known
      BY <2>1, <2>2, <3>3 DEF Tidy, CallsAmong
    <3>5. QED
      BY <2>14, <3>1, <3>3, <3>4
  <2>15. QED
    BY <2>6, <2>7, <2>10, <2>11, <2>12, <2>13, <2>14 DEF Tidy
<1>3. QED
  BY <1>1, <1>2

\* Answers close the calls they are for.
LEMMA PushResultsKeeps ==
    ASSUME NEW h, NEW known, Sound(h, known), NEW C, NEW answer \in Answers
    PROVE  /\ Sound(PushResults(h, C, answer), known)
           /\ Open(PushResults(h, C, answer)) \subseteq Open(h) \ C
<1> DEFINE Of(i, k) == {c \in C : Owns(h, i, k, c)}
           S(i, k) == Answer(h[i].steps[k], Of(i, k), answer)
           T(i) == [id |-> h[i].id, steps |-> [k \in 1 .. Len(h[i].steps) |-> S(i, k)]]
           g == PushResults(h, C, answer)
<1>1. Tidy(h, known) /\ h \in History /\ AnswersAreOfCalls(h) /\ OpenAskedOnce(h)
  BY DEF Sound, Tidy
<1>2. /\ Len(h) \in Nat /\ DOMAIN h = 1 .. Len(h)
      /\ \A i \in 1 .. Len(h) :
            /\ h[i].id \in Nat /\ Len(h[i].steps) \in Nat
            /\ DOMAIN h[i].steps = 1 .. Len(h[i].steps)
            /\ \A k \in 1 .. Len(h[i].steps) : h[i].steps[k] \in StepSet
  BY <1>1, HistoryFacts, TurnFacts
<1>3. g = [i \in 1 .. Len(h) |-> T(i)]
  BY <1>2 DEF PushResults
<1>4. \A i, k : Of(i, k) \subseteq h[i].steps[k].calls
  BY DEF Owns
<1>5. ASSUME NEW i \in 1 .. Len(h), NEW k \in 1 .. Len(h[i].steps)
      PROVE  /\ S(i, k) \in StepSet /\ S(i, k).calls = h[i].steps[k].calls
             /\ DOMAIN S(i, k).results = DOMAIN h[i].steps[k].results \cup Of(i, k)
             /\ DOMAIN h[i].steps[k].results \subseteq h[i].steps[k].calls
  <2>1. h[i].steps[k] \in StepSet /\ DOMAIN h[i].steps[k].results \subseteq h[i].steps[k].calls
    BY <1>1, <1>2, <1>5 DEF AnswersAreOfCalls
  <2>2. Of(i, k) \in SUBSET h[i].steps[k].calls
    BY <1>4
  <2> HIDE DEF Of
  <2>3. QED
    BY <2>1, <2>2, AnswerFacts
<1> HIDE DEF S
<1>6. ASSUME NEW i \in 1 .. Len(h)
      PROVE  /\ T(i) \in TurnSet /\ Len(T(i).steps) = Len(h[i].steps)
             /\ \A k \in 1 .. Len(h[i].steps) : T(i).steps[k] = S(i, k)
  <2> DEFINE s == [k \in 1 .. Len(h[i].steps) |-> S(i, k)]
  <2>1. s \in Seq(StepSet) /\ Len(s) = Len(h[i].steps)
    BY <1>2, <1>5, <1>6
  <2>2. \A k \in 1 .. Len(h[i].steps) : s[k] = S(i, k)
    OBVIOUS
  <2> HIDE DEF s
  <2>3. T(i) = [id |-> h[i].id, steps |-> s]
    BY DEF s
  <2>4. QED
    BY <1>2, <1>6, <2>1, <2>2, <2>3 DEF TurnSet
<1> HIDE DEF T
<1>7. g \in History /\ Len(g) = Len(h) /\ \A i \in 1 .. Len(h) : g[i] = T(i)
  BY <1>2, <1>3, <1>6 DEF History
<1> HIDE DEF g
<1>8. MoreAnswers(g, h)
  <2>1. ASSUME NEW i \in 1 .. Len(h)
        PROVE  /\ Len(g[i].steps) = Len(h[i].steps)
               /\ \A k \in 1 .. Len(h[i].steps) :
                     /\ g[i].steps[k].calls = h[i].steps[k].calls
                     /\ DOMAIN h[i].steps[k].results \subseteq DOMAIN g[i].steps[k].results
                     /\ DOMAIN g[i].steps[k].results \subseteq g[i].steps[k].calls
    <3>1. \A k \in 1 .. Len(h[i].steps) : g[i].steps[k] = S(i, k)
      BY <1>6, <1>7, <2>1
    <3>2. QED
      BY <1>4, <1>5, <1>6, <1>7, <2>1, <3>1
  <2>2. QED
    BY <1>7, <2>1 DEF MoreAnswers
<1>9. Tidy(g, known) /\ Open(g) \subseteq Open(h) /\ OpenAskedOnce(g)
  BY <1>1, <1>8, MoreAnswersKeep
<1>10. ASSUME NEW c \in C, c \in Open(g) PROVE FALSE
  <2> DEFINE n == Len(h)
             m == Len(h[n].steps)
  <2>1. c \in Open(h)
    BY <1>9, <1>10
  <2>2. n > 0 /\ m > 0 /\ c \in h[n].steps[m].calls
    BY <1>1, <2>1, OpenFacts
  <2>3. n \in 1 .. Len(h) /\ m \in 1 .. Len(h[n].steps)
    BY <1>2, <2>2
  <2>4. \A l \in 1 .. m - 1 : c \notin h[n].steps[l].calls
    BY <1>1, <2>1 DEF OpenAskedOnce
  <2>5. n + 1 .. Len(h) = {}
    BY <1>2
  <2>6. Owns(h, n, m, c)
    BY <2>2, <2>4, <2>5 DEF Owns
  <2>7. c \in DOMAIN S(n, m).results
    BY <1>5, <1>10, <2>3, <2>6
  <2>8. g[n].steps[m] = S(n, m) /\ Len(g) = n /\ Len(g[n].steps) = m
    BY <1>6, <1>7, <2>3
  <2>9. QED
    BY <1>7, <1>10, <2>7, <2>8, OpenFacts
<1>11. QED
  BY <1>9, <1>10 DEF Sound, g

\* A step with open calls is taken back.
LEMMA RemoveIncompleteKeeps ==
    ASSUME NEW h, NEW known, Tidy(h, known)
    PROVE  Tidy(RemoveIncomplete(h), known) /\ Open(RemoveIncomplete(h)) = {}
<1> DEFINE n == Len(h)
           m == Len(h[n].steps)
           g == RemoveIncomplete(h)
<1>1. /\ h \in History /\ n \in Nat
      /\ h = <<>> <=> n = 0
      /\ \A i \in 1 .. n : h[i].steps = <<>> <=> Len(h[i].steps) = 0
      /\ \A i \in 1 .. n : h[i] \in TurnSet /\ h[i].steps \in Seq(StepSet) /\ Len(h[i].steps) \in Nat
  BY HistoryFacts, TurnFacts, OpenFacts DEF Tidy
<1>2. CASE ~HasStep(h)
  <2>1. g = h
    BY <1>2 DEF RemoveIncomplete
  <2>2. Open(h) = {}
    BY <1>2 DEF HasStep, Open, Last
  <2>3. QED
    BY <2>1, <2>2
<1>3. CASE HasStep(h) /\ AllAnswered(h[n].steps[m])
  <2>1. g = h
    BY <1>3 DEF RemoveIncomplete, Last
  <2>2. Open(h) = {}
    BY <1>1, <1>3, OpenFacts DEF AllAnswered
  <2>3. QED
    BY <2>1, <2>2
<1>4. CASE HasStep(h) /\ ~AllAnswered(h[n].steps[m])
  <2> DEFINE rest == Front(h[n].steps)
  <2>1. n \in 1 .. n /\ m \in 1 .. m
    <3>1. h # <<>> /\ h[n].steps # <<>>
      BY <1>4 DEF HasStep, Last
    <3>2. n \in 1 .. n
      BY <1>1, <3>1
    <3>3. QED
      BY <1>1, <3>1, <3>2
  <2>2. g = WithSteps(h, n, rest)
    BY <1>4 DEF RemoveIncomplete, Last, WithSteps
  <2>3. /\ rest \in Seq(StepSet) /\ Len(rest) = m - 1
        /\ \A k \in 1 .. m - 1 : rest[k] = h[n].steps[k]
    <3>1. h[n].steps \in Seq(StepSet) /\ m \in Nat
      BY <1>1, <2>1
    <3>2. rest = SubSeq(h[n].steps, 1, m - 1)
      BY DEF Front
    <3> HIDE DEF n
    <3>3. QED
      BY <2>1, <3>1, <3>2
  <2> HIDE DEF rest, g
  <2>4. /\ g \in History /\ Len(g) = n /\ g[n].steps = rest
        /\ \A j \in 1 .. n : j # n => g[j] = h[j]
    <3>1. h \in History /\ n \in 1 .. Len(h) /\ rest \in Seq(StepSet)
      BY <1>1, <2>1, <2>3
    <3> HIDE DEF n
    <3>2. PICK j \in 1 .. Len(h) : j = n
      BY <3>1
    <3>3. g = WithSteps(h, j, rest)
      BY <2>2, <3>2
    <3>4. g \in History /\ Len(g) = Len(h)
      BY <3>1, <3>3, ReplaceSteps
    <3>5. \A k \in 1 .. Len(h) : k # j => g[k] = h[k]
      BY <3>1, <3>3, ReplaceSteps
    <3>6. g[j].steps = rest
      BY <3>1, <3>3, ReplaceSteps
    <3>7. Len(h) = n
      BY DEF n
    <3>8. QED
      BY <3>2, <3>4, <3>5, <3>6, <3>7
  <2> HIDE DEF n, m
  <2>5. \A i \in 1 .. n : \A k \in 1 .. Len(g[i].steps) :
            /\ k \in 1 .. Len(h[i].steps) /\ g[i].steps[k] = h[i].steps[k]
            /\ i = n => k # m
    <3>1. ASSUME NEW i \in 1 .. n, NEW k \in 1 .. Len(g[i].steps)
          PROVE  /\ k \in 1 .. Len(h[i].steps) /\ g[i].steps[k] = h[i].steps[k]
                 /\ i = n => k # m
      <4>1. CASE i # n
        BY <2>4, <3>1, <4>1
      <4>2. CASE i = n
        <5>1. k \in 1 .. m - 1 /\ m \in Nat /\ Len(h[n].steps) = m
          BY <2>1, <2>3, <2>4, <3>1, <4>2 DEF m
        <5>2. k \in 1 .. m /\ k # m
          BY <5>1
        <5>3. QED
          BY <2>3, <2>4, <4>2, <5>1, <5>2
      <4>3. QED
        BY <4>1, <4>2
    <3>2. QED
      BY <3>1
  <2>6. AnswersAreOfCalls(g) /\ CallsAmong(g, known)
    <3>1. \A i \in 1 .. n : \A k \in 1 .. Len(h[i].steps) :
             /\ DOMAIN h[i].steps[k].results \subseteq h[i].steps[k].calls
             /\ h[i].steps[k].calls \subseteq known
      BY DEF n, Tidy, AnswersAreOfCalls, CallsAmong
    <3>2. \A i \in 1 .. n : \A k \in 1 .. Len(g[i].steps) :
             /\ DOMAIN g[i].steps[k].results \subseteq g[i].steps[k].calls
             /\ g[i].steps[k].calls \subseteq known
      BY <2>5, <3>1
    <3>3. Len(g) = n
      BY <2>4
    <3>4. QED
      BY <3>2, <3>3 DEF AnswersAreOfCalls, CallsAmong
  <2>7. \A i \in 1 .. n : \A k \in 1 .. Len(g[i].steps) : AllAnswered(g[i].steps[k])
    <3>1. Len(h) = n /\ Len(h[n].steps) = m
      BY DEF n, m
    <3>2. QED
      BY <2>5, <3>1 DEF Tidy, SettledBefore
  <2>8. SettledBefore(g)
    BY <2>4, <2>7 DEF SettledBefore
  <2>9. Tidy(g, known)
    BY <2>4, <2>6, <2>8 DEF Tidy
  <2>10. CallsAnswered(g)
    <3>1. DOMAIN g = 1 .. n /\ \A i \in 1 .. n : DOMAIN g[i].steps = 1 .. Len(g[i].steps)
      BY <2>4, HistoryFacts, TurnFacts
    <3>2. QED
      BY <2>7, <3>1 DEF CallsAnswered, Range
  <2>11. QED
    BY <2>9, <2>10, NoneOpen DEF g
<1>5. QED
  BY <1>2, <1>3, <1>4

\* An undo keeps the turns before the one it names.
LEMMA TruncateKeeps ==
    ASSUME NEW h, NEW known, Sound(h, known), NEW id \in Nat
    PROVE  /\ Sound(Truncate(h, id), known)
           /\ Open(Truncate(h, id)) \subseteq Open(h)
<1>1. /\ Tidy(h, known) /\ h \in History /\ Len(h) \in Nat /\ h \in Seq(TurnSet)
      /\ \A i \in 1 .. Len(h) : Len(h[i].steps) \in Nat
  BY HistoryFacts, TurnFacts DEF Sound, Tidy
<1>2. CASE id > Len(h)
  BY <1>2 DEF Truncate
<1>3. CASE ~(id > Len(h))
  <2> DEFINE g == SubSeq(h, 1, id - 1)
  <2>1. /\ g \in Seq(TurnSet) /\ Len(g) \in Nat /\ Len(g) <= Len(h)
        /\ Len(g) > 0 => Len(g) < Len(h)
        /\ \A i \in 1 .. Len(g) : g[i] = h[i]
    <3>1. CASE id = 0
      <4>1. g = <<>>
        BY <3>1, SubSeqEmpty
      <4> HIDE DEF g
      <4>2. g \in Seq(TurnSet) /\ Len(g) = 0
        BY <4>1
      <4>3. QED
        BY <1>1, <4>2
    <3>2. CASE id # 0
      <4>1. id - 1 \in Nat /\ id - 1 < Len(h)
        BY <1>1, <1>3, <3>2
      <4>2. g \in Seq(TurnSet) /\ Len(g) = id - 1 /\ \A i \in 1 .. id - 1 : g[i] = h[i]
        BY <1>1, <4>1
      <4> HIDE DEF g
      <4>3. QED
        BY <1>1, <4>1, <4>2
    <3>3. QED
      BY <3>1, <3>2
  <2> HIDE DEF g
  <2>2. g \in History
    BY <2>1 DEF History
  <2>3. \A i \in 1 .. Len(g) : i \in 1 .. Len(h) /\ i # Len(h)
    BY <1>1, <2>1
  <2>4. AnswersAreOfCalls(g) /\ CallsAmong(g, known)
    BY <1>1, <2>1, <2>3 DEF Tidy, AnswersAreOfCalls, CallsAmong
  <2>5. \A i \in 1 .. Len(g) : \A k \in 1 .. Len(g[i].steps) : AllAnswered(g[i].steps[k])
    BY <1>1, <2>1, <2>3 DEF Tidy, SettledBefore
  <2>6. Tidy(g, known)
    BY <2>2, <2>4, <2>5 DEF Tidy, SettledBefore
  <2>7. CallsAnswered(g)
    <3>1. /\ DOMAIN g = 1 .. Len(g)
          /\ \A i \in 1 .. Len(g) : DOMAIN g[i].steps = 1 .. Len(g[i].steps)
      BY <2>2, HistoryFacts, TurnFacts
    <3>2. QED
      BY <2>5, <3>1 DEF CallsAnswered, Range
  <2>8. Open(g) = {}
    BY <2>6, <2>7, NoneOpen
  <2>9. Truncate(h, id) = g
    BY <1>3 DEF Truncate, g
  <2>10. QED
    BY <2>6, <2>8, <2>9, ClosedIsSound
<1>4. QED
  BY <1>2, <1>3

\* A compaction keeps the last turn as it is.
LEMMA CompactedKeeps ==
    ASSUME NEW h, NEW known, Sound(h, known), NEW keep \in Nat
    PROVE  Sound(Compacted(h, keep), known) /\ Open(Compacted(h, keep)) = Open(h)
<1> DEFINE kept == IF keep = 0 THEN 1 ELSE keep
           skip == Len(h) - kept
           tail == SubSeq(h, skip + 1, Len(h))
           g == <<NewTurn(Summary)>> \o tail
<1>1. Tidy(h, known) /\ h \in History /\ Len(h) \in Nat /\ h \in Seq(TurnSet) /\ OpenAskedOnce(h)
  BY HistoryFacts DEF Sound, Tidy
<1>2. kept \in Nat /\ kept > 0 /\ skip \in Int
  BY <1>1
<1>3. CASE skip <= 0
  <2>1. Compacted(h, keep) = h
    BY <1>3 DEF Compacted
  <2>2. QED
    BY <2>1
<1>4. CASE ~(skip <= 0)
  <2> HIDE DEF kept
  <2>1. skip \in Nat /\ skip > 0 /\ skip < Len(h)
    BY <1>1, <1>2, <1>4
  <2>2. Compacted(h, keep) = g
    BY <1>4 DEF Compacted, kept
  <2>3. /\ tail \in Seq(TurnSet) /\ Len(tail) = Len(h) - skip
        /\ \A i \in 1 .. Len(h) - skip : tail[i] = h[skip + i]
    <3> HIDE DEF skip
    <3>1. QED
      BY <1>1, <2>1
  <2> HIDE DEF skip, tail
  <2>4. NewTurn(Summary) \in TurnSet /\ NewTurn(Summary).steps = <<>>
    BY DEF NewTurn, TurnSet, Summary
  <2>5. /\ g \in Seq(TurnSet) /\ Len(g) = 1 + Len(tail) /\ g[1] = NewTurn(Summary)
        /\ \A i \in 1 .. Len(tail) : g[1 + i] = tail[i]
    <3> HIDE DEF NewTurn
    <3>1. QED
      BY <2>3, <2>4
  <2> HIDE DEF g
  <2>6. Len(g) = Len(h) - skip + 1 /\ Len(g) > 1
    BY <1>1, <2>1, <2>3, <2>5
  <2>7. \A i \in 1 .. Len(g) :
           \/ i = 1 /\ i # Len(g) /\ Len(g[i].steps) = 0
           \/ /\ i + skip - 1 \in 1 .. Len(h) /\ g[i] = h[i + skip - 1]
              /\ i = Len(g) <=> i + skip - 1 = Len(h)
    <3>1. ASSUME NEW i \in 1 .. Len(g), i # 1
          PROVE  /\ i + skip - 1 \in 1 .. Len(h) /\ g[i] = h[i + skip - 1]
                 /\ i = Len(g) <=> i + skip - 1 = Len(h)
      <4>1. i - 1 \in 1 .. Len(tail) /\ 1 + (i - 1) = i /\ skip + (i - 1) = i + skip - 1
        BY <1>1, <2>1, <2>3, <2>5, <3>1
      <4>2. g[i] = tail[i - 1] /\ tail[i - 1] = h[i + skip - 1]
        BY <2>3, <2>5, <4>1
      <4>3. i + skip - 1 \in 1 .. Len(h) /\ (i = Len(g) <=> i + skip - 1 = Len(h))
        BY <1>1, <2>1, <2>6, <3>1
      <4>4. QED
        BY <4>2, <4>3
    <3>2. Len(g[1].steps) = 0
      BY <2>4, <2>5
    <3>3. QED
      BY <2>6, <3>1, <3>2
  <2>8. g \in History
    BY <2>5 DEF History
  <2>9. AnswersAreOfCalls(g) /\ CallsAmong(g, known)
    <3>1. AnswersAreOfCalls(h) /\ CallsAmong(h, known)
      BY <1>1 DEF Tidy
    <3>2. ASSUME NEW i \in 1 .. Len(g), NEW k \in 1 .. Len(g[i].steps)
          PROVE  /\ DOMAIN g[i].steps[k].results \subseteq g[i].steps[k].calls
                 /\ g[i].steps[k].calls \subseteq known
      <4>1. CASE Len(g[i].steps) = 0
        BY <3>2, <4>1
      <4>2. CASE i + skip - 1 \in 1 .. Len(h) /\ g[i] = h[i + skip - 1]
        <5> DEFINE j == i + skip - 1
        <5>1. j \in 1 .. Len(h) /\ g[i] = h[j]
          BY <4>2
        <5> HIDE DEF j
        <5>2. k \in 1 .. Len(h[j].steps)
          BY <3>2, <5>1
        <5>3. /\ DOMAIN h[j].steps[k].results \subseteq h[j].steps[k].calls
              /\ h[j].steps[k].calls \subseteq known
          BY <3>1, <5>1, <5>2 DEF AnswersAreOfCalls, CallsAmong
        <5>4. QED
          BY <5>1, <5>3
      <4>3. QED
        BY <2>7, <4>1, <4>2
    <3>3. QED
      BY <3>2 DEF AnswersAreOfCalls, CallsAmong
  <2>10. SettledBefore(g)
    BY <1>1, <2>7 DEF Tidy, SettledBefore
  <2>11. g[Len(g)] = h[Len(h)]
    <3>1. Len(g) \in 1 .. Len(g) /\ Len(g) # 1 /\ Len(g) + skip - 1 = Len(h)
      BY <1>1, <2>1, <2>6
    <3>2. QED
      BY <2>7, <3>1
  <2>12. Open(g) = Open(h)
    <3>1. Len(g) > 0 /\ Len(h) > 0
      BY <1>1, <2>1, <2>6
    <3>2. \A c : c \in Open(g) <=> c \in Open(h)
      BY <1>1, <2>8, <2>11, <3>1, OpenFacts
    <3>3. QED
      BY <3>2
  <2>13. OpenAskedOnce(g)
    BY <1>1, <2>11, <2>12 DEF OpenAskedOnce
  <2>14. QED
    BY <2>2, <2>8, <2>9, <2>10, <2>12, <2>13 DEF Sound, Tidy
<1>5. QED
  BY <1>3, <1>4

\* What is known of fewer calls is known of more.
LEMMA MoreKnown ==
    ASSUME NEW h, NEW known, NEW more, known \subseteq more
    PROVE  (Tidy(h, known) => Tidy(h, more)) /\ (Sound(h, known) => Sound(h, more))
  BY DEF Tidy, Sound, CallsAmong

LEMMA SmallestIsIn ==
    ASSUME NEW S \in SUBSET Nat, S # {}
    PROVE  Min(S) \in S /\ \A c \in S : Min(S) <= c
<1> DEFINE R == OpToRel(<, Nat)
<1>1. IsWellFoundedOn(R, Nat)
  BY NatLessThanWellFounded
<1> HIDE DEF R
<1>2. PICK x \in S : \A y \in S : ~(<<y, x>> \in R)
  BY <1>1, WFMin
<1>3. \A y \in S : x <= y
  <2> SUFFICES ASSUME NEW y \in S PROVE x <= y
    OBVIOUS
  <2>1. ~(<<y, x>> \in R)
    BY <1>2
  <2>2. ~(y < x)
    BY <2>1 DEF R, OpToRel
  <2>3. QED
    BY <2>2
<1>4. QED
  BY <1>2, <1>3 DEF Min

----------------------------------------------------------------------------
(* Shapes.                                                                 *)

LEMMA BatchFacts ==
    ASSUME NEW b \in Batches
    PROVE  /\ b.parallel \subseteq Nat /\ b.serial \subseteq Nat /\ b.started \subseteq Nat
           /\ b.finished \subseteq Nat /\ b.asks \subseteq Nat
           /\ b = [parallel |-> b.parallel, serial |-> b.serial, started |-> b.started,
                   finished |-> b.finished, asks |-> b.asks]
  BY DEF Batches

LEMMA AdmittedFacts ==
    ASSUME NEW p \in SUBSET Nat, NEW s \in SUBSET Nat, NEW a \in SUBSET Nat
    PROVE  /\ Admitted(p, s, a) \in Batches
           /\ Admitted(p, s, a).parallel = p /\ Admitted(p, s, a).serial = s
           /\ Admitted(p, s, a).asks = a
           /\ Admitted(p, s, a).started = {} /\ Admitted(p, s, a).finished = {}
  BY DEF Admitted, Batches

LEMMA NoWorkIsBatch ==
    /\ NoWork \in Batches /\ NoWork.parallel = {} /\ NoWork.serial = {} /\ NoWork.started = {}
    /\ NoWork.finished = {} /\ NoWork.asks = {}
  BY DEF NoWork, Admitted, Batches

LEMMA SuspensionFacts ==
    ASSUME NEW s \in Suspensions
    PROVE  /\ s.turn \in Nat /\ s.round \in Nat /\ s.perms \subseteq Nat
           /\ s.deferred \subseteq Nat /\ s.serial \subseteq Nat /\ s.asks \subseteq Nat
           /\ s = [turn |-> s.turn, round |-> s.round, perms |-> s.perms,
                   deferred |-> s.deferred, serial |-> s.serial, asks |-> s.asks]
  BY DEF Suspensions

LEMMA FewerAsks ==
    ASSUME NEW s \in Suspensions, NEW c
    PROVE  [s EXCEPT !.asks = @ \ {c}]
             = [turn |-> s.turn, round |-> s.round, perms |-> s.perms, deferred |-> s.deferred,
                serial |-> s.serial, asks |-> s.asks \ {c}]
<1>1. s = [turn |-> s.turn, round |-> s.round, perms |-> s.perms, deferred |-> s.deferred,
           serial |-> s.serial, asks |-> s.asks]
  BY SuspensionFacts
<1>2. ASSUME NEW t, NEW r, NEW p, NEW d, NEW e, NEW a,
             s = [turn |-> t, round |-> r, perms |-> p, deferred |-> d, serial |-> e, asks |-> a]
      PROVE  [s EXCEPT !.asks = @ \ {c}]
               = [turn |-> t, round |-> r, perms |-> p, deferred |-> d, serial |-> e,
                  asks |-> a \ {c}]
  BY <1>2
<1>3. QED
  BY <1>1, <1>2

\* What the answer to a permission does to the turn that waits for it.
LEMMA ResolveFacts ==
    ASSUME suspended \in Suspensions \cup {None}, NEW c, NEW ok, Resolve(c, ok)
    PROVE  \/ (suspended = None \/ c \notin suspended.perms) /\ UNCHANGED <<pc, run, work, suspended>>
           \/ \E deferred :
                 /\ suspended # None /\ c \in suspended.perms
                 /\ deferred = suspended.deferred \cup (IF ok THEN {c} ELSE {})
                 /\ \/ /\ suspended.perms \ {c} # {}
                       /\ suspended' = [turn |-> suspended.turn, round |-> suspended.round,
                                        perms |-> suspended.perms \ {c}, deferred |-> deferred,
                                        serial |-> suspended.serial, asks |-> suspended.asks]
                       /\ UNCHANGED <<pc, run, work>>
                    \/ /\ suspended.perms \ {c} = {}
                       /\ suspended' = None
                       /\ run' = [turn |-> suspended.turn, round |-> suspended.round,
                                  caller |-> "handler"]
                       /\ work' = Admitted(deferred \ suspended.serial,
                                           deferred \cap suspended.serial, suspended.asks)
                       /\ pc' = "tools"
<1> DEFINE d == suspended.deferred \cup (IF ok THEN {c} ELSE {})
           p == suspended.perms \ {c}
<1>1. CASE suspended = None \/ c \notin suspended.perms
  BY <1>1 DEF Resolve
<1>2. CASE suspended # None /\ c \in suspended.perms
  <2>1. suspended = [turn |-> suspended.turn, round |-> suspended.round,
                     perms |-> suspended.perms, deferred |-> suspended.deferred,
                     serial |-> suspended.serial, asks |-> suspended.asks]
    BY <1>2, SuspensionFacts
  <2>2. \/ p # {} /\ suspended' = [suspended EXCEPT !.perms = p, !.deferred = d]
           /\ UNCHANGED <<pc, run, work>>
        \/ /\ p = {}
           /\ suspended' = None
           /\ run' = [turn |-> suspended.turn, round |-> suspended.round, caller |-> "handler"]
           /\ work' = Admitted(d \ suspended.serial, d \cap suspended.serial, suspended.asks)
           /\ pc' = "tools"
    BY <1>2, Zenon DEF Resolve
  <2>3. ASSUME NEW P, NEW D
        PROVE  [suspended EXCEPT !.perms = P, !.deferred = D]
                 = [turn |-> suspended.turn, round |-> suspended.round,
                    perms |-> P, deferred |-> D,
                    serial |-> suspended.serial, asks |-> suspended.asks]
    <3> DEFINE t == suspended.turn
               r == suspended.round
               s == suspended.serial
               a == suspended.asks
               p0 == suspended.perms
               d0 == suspended.deferred
    <3>1. suspended = [turn |-> t, round |-> r, perms |-> p0, deferred |-> d0, serial |-> s, asks |-> a]
      BY <2>1
    <3> HIDE DEF t, r, s, a, p0, d0
    <3>2. [suspended EXCEPT !.perms = P]
            = [turn |-> t, round |-> r, perms |-> P, deferred |-> d0, serial |-> s, asks |-> a]
      BY <3>1
    <3> DEFINE x == [suspended EXCEPT !.perms = P]
    <3>5. x = [turn |-> t, round |-> r, perms |-> P, deferred |-> d0, serial |-> s, asks |-> a]
      BY <3>2
    <3>6. [suspended EXCEPT !.perms = P, !.deferred = D] = [x EXCEPT !.deferred = D]
      BY Zenon
    <3> HIDE DEF x
    <3>7. [x EXCEPT !.deferred = D]
            = [turn |-> t, round |-> r, perms |-> P, deferred |-> D, serial |-> s, asks |-> a]
      BY <3>5
    <3>4. [suspended EXCEPT !.perms = P, !.deferred = D]
            = [turn |-> t, round |-> r, perms |-> P, deferred |-> D, serial |-> s, asks |-> a]
      BY <3>6, <3>7
    <3>3. QED
      BY <3>4 DEF t, r, s, a
  <2>4. d = suspended.deferred \cup (IF ok THEN {c} ELSE {}) /\ p = suspended.perms \ {c}
    OBVIOUS
  <2> HIDE DEF d, p
  <2>5. [suspended EXCEPT !.perms = p, !.deferred = d]
                 = [turn |-> suspended.turn, round |-> suspended.round,
                    perms |-> p, deferred |-> d,
                    serial |-> suspended.serial, asks |-> suspended.asks]
    BY <2>3
  <2>6. QED
    BY <1>2, <2>2, <2>4, <2>5
<1>3. QED
  BY <1>1, <1>2

LEMMA RunFacts ==
    ASSUME NEW r \in Runs
    PROVE  /\ r.turn \in Nat /\ r.round \in Nat /\ r.caller \in {"loop", "lap", "handler"}
           /\ r = [turn |-> r.turn, round |-> r.round, caller |-> r.caller]
  BY DEF Runs

LEMMA DispatchFacts ==
    ASSUME Shapes, NEW type, Dispatch(type)
    PROVE  /\ pc = "idle" /\ inbox' \in Seq(Sent) /\ arriving' = arriving
           /\ Head(inbox) \in Sent /\ Head(inbox).type = type
<1>1. inbox \in Seq(Sent) /\ inbox # <<>>
  BY DEF Shapes, Dispatch
<1>2. Head(inbox) \in Sent /\ Tail(inbox) \in Seq(Sent)
  BY <1>1
<1>3. QED
  BY <1>2 DEF Dispatch

LEMMA SentFacts ==
    ASSUME NEW cmd \in Sent
    PROVE  /\ cmd.type = "undo" => cmd.turn \in Nat
           /\ cmd.type = "permit" => cmd.call \in Nat /\ cmd.yes \in BOOLEAN
           /\ cmd.type \in {"answer", "dismiss"} => cmd.call \in Nat
  BY DEF Sent

LEMMA CommandsAreSent ==
    ASSUME Shapes, NEW cmd \in Commands
    PROVE  cmd \in Sent
<1>1. DOMAIN timeline \subseteq Nat /\ DOMAIN calls \subseteq Nat
  BY DEF Shapes
<1>2. QED
  BY <1>1 DEF Commands, Sent

\* The queue.
LEMMA QueueShape ==
    ASSUME Shapes, [Next]_vars
    PROVE  inbox' \in Seq(Sent) /\ arriving' \in Sent \cup {None}
<1>1. inbox \in Seq(Sent) /\ arriving \in Sent \cup {None}
  BY DEF Shapes
<1>2. ASSUME NEW cmd \in Commands, Receive(cmd) PROVE inbox' \in Seq(Sent) /\ arriving' \in Sent \cup {None}
  <2>1. cmd \in Sent
    BY <1>2, CommandsAreSent
  <2>2. Append(inbox, cmd) \in Seq(Sent)
    BY <1>1, <2>1
  <2>3. QED
    BY <1>1, <1>2, <2>1, <2>2 DEF Receive
<1>3. CASE Forward
  <2>1. arriving \in Sent
    BY <1>1, <1>3 DEF Forward
  <2>2. Append(inbox, arriving) \in Seq(Sent)
    BY <1>1, <2>1
  <2>3. QED
    BY <1>3, <2>2 DEF Forward
<1>4. CASE Handle
  BY <1>1, <1>4, DispatchFacts DEF Handle, SendMessage, Cancel, Shutdown, UndoTurn, StartCompact,
     RespondPermission, RespondAsk, DismissAsk
<1>5. CASE UNCHANGED queueVars
  BY <1>1, <1>5 DEF queueVars
<1>6. Lap \/ Gate => UNCHANGED queueVars
  BY DEF Lap, Gate, LapCancelled, EnterGate, GateCancelled, GateFails, GateAnswers,
     GateAnswersWithSkill, GateRepeatsAnId, GateCalls
<1>7. Tools \/ FinishCompact \/ Exit => UNCHANGED queueVars
  BY DEF Tools, RunParallel, RunSerial, Collect, CutSerial, StartSerial, ToolsCancelled, AskUser,
     RoundDone, FinishCompact, Exit
<1>8. UNCHANGED vars => UNCHANGED queueVars
  BY DEF vars
<1>9. QED
  BY <1>2, <1>3, <1>4, <1>5, <1>6, <1>7, <1>8 DEF Next

\* The timeline, and the flag.
LEMMA TimelineShape ==
    ASSUME Shapes, TurnsExist, [Next]_vars
    PROVE  /\ timeline' \in Seq({"running", "sealed"}) /\ Len(timeline) <= Len(timeline')
           /\ Len(timeline) \in Nat /\ Len(timeline') \in Nat
<1>1. /\ timeline \in Seq({"running", "sealed"}) /\ Len(timeline) \in Nat
      /\ Len(timeline) <= Len(timeline)
  BY DEF Shapes
<1>2. ASSUME NEW t \in 1 .. Len(timeline), Seal(t)
      PROVE  timeline' \in Seq({"running", "sealed"}) /\ Len(timeline') = Len(timeline)
  BY <1>1, <1>2 DEF Seal
<1>3. CASE UNCHANGED timeline
  BY <1>1, <1>3
<1>4. ASSUME NEW t \in 1 .. Len(timeline), Seal(t)
      PROVE  /\ timeline' \in Seq({"running", "sealed"}) /\ Len(timeline) <= Len(timeline')
             /\ Len(timeline) \in Nat /\ Len(timeline') \in Nat
  BY <1>1, <1>2, <1>4
<1>5. CASE SendMessage
  <2>1. CASE UNCHANGED timeline
    BY <1>3, <2>1
  <2>2. CASE timeline' = Append(timeline, "running")
    <3>1. timeline' \in Seq({"running", "sealed"}) /\ Len(timeline') = Len(timeline) + 1
      BY <1>1, <2>2
    <3>2. QED
      BY <1>1, <3>1
  <2>3. QED
    BY <1>5, <2>1, <2>2 DEF SendMessage
<1>6. Busy => run.turn \in 1 .. Len(timeline)
  BY DEF TurnsExist
<1>7. CASE LapCancelled \/ GateCancelled \/ GateFails \/ GateAnswers \/ ToolsCancelled
  <2>1. Busy /\ Seal(run.turn)
    BY <1>7 DEF LapCancelled, GateCancelled, GateFails, GateAnswers, ToolsCancelled, ToolsDone, Busy
  <2>2. QED
    BY <1>4, <1>6, <2>1
<1>8. CASE DismissAsk
  <2>1. CASE ActiveAsk(Head(inbox).call)
    <3>1. suspended.turn \in 1 .. Len(timeline) /\ Seal(suspended.turn)
      BY <1>8, <2>1 DEF DismissAsk, ActiveAsk, TurnsExist
    <3>2. QED
      BY <1>4, <3>1
  <2>2. CASE ~ActiveAsk(Head(inbox).call)
    BY <1>3, <1>8, <2>2 DEF DismissAsk
  <2>3. QED
    BY <2>1, <2>2
<1>9. EnterGate \/ GateAnswersWithSkill \/ GateRepeatsAnId \/ (\E n \in 1 .. MaxCalls : GateCalls(n))
         => UNCHANGED timeline
  BY DEF EnterGate, GateAnswersWithSkill, GateRepeatsAnId, GateCalls
<1>10. (\E c \in 1 .. MaxCalls : RunParallel(c) \/ RunSerial(c)) \/ Collect \/ CutSerial
         \/ StartSerial \/ AskUser \/ RoundDone => UNCHANGED timeline
  BY DEF RunParallel, RunSerial, Collect, CutSerial, StartSerial, AskUser, RoundDone
<1>11. Cancel \/ Shutdown \/ UndoTurn \/ StartCompact \/ RespondPermission \/ RespondAsk
         => UNCHANGED timeline
  BY DEF Cancel, Shutdown, UndoTurn, StartCompact, RespondPermission, RespondAsk
<1>12. (\E cmd \in Commands : Receive(cmd)) \/ Forward \/ FinishCompact \/ Exit \/ UNCHANGED vars
         => UNCHANGED timeline
  BY DEF Receive, Forward, FinishCompact, Exit, vars
<1>13. QED
  BY <1>3, <1>5, <1>7, <1>8, <1>9, <1>10, <1>11, <1>12 DEF Next, Lap, Gate, Tools, Handle

\* Flags, compaction and the place of the loop.
LEMMA FlagShape ==
    ASSUME Shapes, [Next]_vars
    PROVE  /\ cancel' \in BOOLEAN /\ compact' \in [keep : Nat] \cup {None}
           /\ pc' \in {"idle", "lap", "gate", "tools", "stopped"}
<1>1. /\ cancel \in BOOLEAN /\ compact \in [keep : Nat] \cup {None}
      /\ pc \in {"idle", "lap", "gate", "tools", "stopped"}
  BY DEF Shapes
<1>2. Keeps \subseteq Nat
  BY DEF Keeps
<1>3. \A keep \in Keeps : [keep |-> keep] \in [keep : Nat]
  BY <1>2
<1>4. ASSUME NEW cmd, Receive(cmd) PROVE cancel' \in BOOLEAN /\ UNCHANGED <<compact, pc>>
  BY <1>1, <1>4 DEF Receive, Raise
<1>5. CASE Lap
  BY <1>1, <1>5 DEF Lap, LapCancelled, EnterGate, Abort, ResetEngines
<1>6. CASE Gate
  <2>1. CASE GateCancelled
    BY <1>1, <2>1 DEF GateCancelled, Abort, ResetEngines, PollCompact
  <2>2. CASE GateFails
    BY <1>1, <2>2 DEF GateFails, Abort, ResetEngines, PollCompact
  <2>3. CASE GateAnswers
    BY <1>1, <2>3 DEF GateAnswers, ContinueTurn, ResetEngines, PollCompact
  <2>4. CASE GateAnswersWithSkill
    BY <1>1, <2>4 DEF GateAnswersWithSkill, ContinueTurn, ResetEngines, PollCompact
  <2>5. CASE GateRepeatsAnId
    BY <1>1, <2>5 DEF GateRepeatsAnId, Abort, ContinueTurn, ResetEngines, PollCompact, Suspend
  <2>6. ASSUME NEW n \in 1 .. MaxCalls, GateCalls(n)
        PROVE  /\ cancel' \in BOOLEAN /\ compact' \in [keep : Nat] \cup {None}
               /\ pc' \in {"idle", "lap", "gate", "tools", "stopped"}
    BY <1>1, <2>6 DEF GateCalls, ContinueTurn, PollCompact, Suspend
  <2> QED BY <1>6, <2>1, <2>2, <2>3, <2>4, <2>5, <2>6 DEF Gate
<1>7. CASE Tools
  BY <1>1, <1>7 DEF Tools, RunParallel, RunSerial, Collect, CutSerial, StartSerial, ToolsCancelled,
     AskUser, RoundDone, Abort, ResetEngines, ContinueTurn, PollCompact, Suspend
<1>8. CASE Handle
  <2>1. CASE StartCompact
    BY <1>1, <1>3, <2>1 DEF StartCompact
  <2>2. CASE RespondPermission
    <3>1. UNCHANGED <<cancel, compact>> /\ pc' \in {pc, "tools"}
      BY <2>2 DEF RespondPermission, Resolve
    <3>2. QED
      BY <1>1, <3>1
  <2>3. QED
    BY <1>1, <1>8, <2>1, <2>2 DEF Handle, SendMessage, Cancel, Shutdown, UndoTurn, RespondAsk,
       DismissAsk, ResetEngines
<1>9. CASE Forward \/ FinishCompact \/ Exit \/ UNCHANGED vars
  BY <1>1, <1>9 DEF Forward, FinishCompact, Exit, vars
<1>10. QED
  BY <1>1, <1>4, <1>5, <1>6, <1>7, <1>8, <1>9 DEF Next

\* The round a turn is in.
LEMMA RunShape ==
    ASSUME Shapes, TurnsExist, [Next]_vars
    PROVE  run' \in Runs /\ (pc' \in {"lap", "gate", "tools"} => run'.turn \in 1 .. Len(timeline'))
<1>1. run \in Runs /\ suspended \in Suspensions \cup {None}
  BY DEF Shapes
<1>2. /\ Len(timeline) \in Nat /\ Len(timeline') \in Nat /\ Len(timeline) <= Len(timeline')
      /\ timeline \in Seq({"running", "sealed"})
  BY TimelineShape DEF Shapes
<1>3. 1 .. Len(timeline) \subseteq 1 .. Len(timeline')
  BY <1>2
<1>4. Busy => run.turn \in 1 .. Len(timeline)
  BY DEF TurnsExist
<1>5. ASSUME run' = run, pc' \in {"lap", "gate", "tools"} => Busy
      PROVE  run' \in Runs /\ (pc' \in {"lap", "gate", "tools"} => run'.turn \in 1 .. Len(timeline'))
  BY <1>1, <1>3, <1>4, <1>5
<1>6. ASSUME Busy, NEW caller \in {"loop", "lap", "handler"},
             run' = [run EXCEPT !.round = @ + 1, !.caller = caller]
      PROVE  run' \in Runs /\ (pc' \in {"lap", "gate", "tools"} => run'.turn \in 1 .. Len(timeline'))
  <2>1. run = [turn |-> run.turn, round |-> run.round, caller |-> run.caller] /\ run.round \in Nat
          /\ run.turn \in Nat
    BY <1>1, RunFacts
  <2> DEFINE t == run.turn
             r == run.round
             k == run.caller
  <2> HIDE DEF t, r, k
  <2>4. run = [turn |-> t, round |-> r, caller |-> k]
    BY <2>1 DEF t, r, k
  <2>5. run' = [turn |-> t, round |-> r + 1, caller |-> caller]
    BY <1>6, <2>4
  <2>2. run' \in Runs /\ run'.turn = run.turn
    BY <2>1, <2>5 DEF Runs, t, r
  <2>3. QED
    BY <1>3, <1>4, <1>6, <2>2
<1>7. ASSUME NEW t \in 1 .. Len(timeline'), NEW round \in Nat,
             NEW caller \in {"loop", "lap", "handler"},
             run' = [turn |-> t, round |-> round, caller |-> caller]
      PROVE  run' \in Runs /\ (pc' \in {"lap", "gate", "tools"} => run'.turn \in 1 .. Len(timeline'))
  BY <1>2, <1>7 DEF Runs
<1>8. suspended # None => /\ suspended.turn \in 1 .. Len(timeline') /\ suspended.round \in Nat
                          /\ suspended.round + 1 \in Nat
  BY <1>1, <1>3, SuspensionFacts DEF TurnsExist
<1>9. CASE Lap
  BY <1>5, <1>9 DEF Lap, LapCancelled, EnterGate, Abort, Busy, engineVars
<1>10. CASE Gate
  <2>1. CASE GateAnswersWithSkill
    BY <1>6, <2>1 DEF GateAnswersWithSkill, ContinueTurn, Busy
  <2>2. CASE ~GateAnswersWithSkill
    BY <1>5, <1>10, <2>2 DEF Gate, GateCancelled, GateFails, GateAnswers, GateRepeatsAnId, GateCalls,
       Busy, engineVars
  <2>3. QED
    BY <2>1, <2>2
<1>11. CASE Tools
  <2>1. CASE RoundDone
    BY <1>6, <2>1 DEF RoundDone, ToolsDone, ContinueTurn, Busy
  <2>2. CASE ~RoundDone
    BY <1>5, <1>11, <2>2 DEF Tools, RunParallel, RunSerial, Collect, CutSerial, StartSerial,
       SerialsNext, ToolsCancelled, AskUser, ToolsDone, Busy, engineVars
  <2>3. QED
    BY <2>1, <2>2
<1>12. CASE Handle
  <2>1. CASE SendMessage
    <3>1. CASE UNCHANGED <<pc, run, turns, timeline>>
      BY <1>5, <3>1 DEF Busy
    <3>2. CASE /\ timeline' = Append(timeline, "running")
               /\ run' = [turn |-> Len(timeline) + 1, round |-> 0, caller |-> "loop"]
      <4>1. Len(timeline') = Len(timeline) + 1
        BY <1>2, <3>2
      <4>2. Len(timeline) + 1 \in 1 .. Len(timeline') /\ 0 \in Nat
        BY <1>2, <4>1
      <4>3. QED
        BY <1>7, <3>2, <4>2
    <3>3. QED
      BY <2>1, <3>1, <3>2 DEF SendMessage
  <2>2. CASE RespondPermission
    <3>1. CASE UNCHANGED <<pc, run>>
      BY <1>5, <3>1 DEF Busy
    <3>2. CASE /\ suspended # None
               /\ run' = [turn |-> suspended.turn, round |-> suspended.round, caller |-> "handler"]
      BY <1>7, <1>8, <3>2
    <3>3. QED
      BY <2>2, <3>1, <3>2 DEF RespondPermission, Resolve, engineVars
  <2>3. CASE RespondAsk
    <3>1. CASE UNCHANGED <<pc, run>>
      BY <1>5, <3>1 DEF Busy
    <3>2. CASE /\ suspended # None
               /\ run' = [turn |-> suspended.turn, round |-> suspended.round + 1, caller |-> "lap"]
      BY <1>7, <1>8, <3>2
    <3>3. QED
      BY <2>3, <3>1, <3>2 DEF RespondAsk, ActiveAsk
  <2>4. QED
    BY <1>5, <1>12, <2>1, <2>2, <2>3 DEF Handle, Cancel, Shutdown, UndoTurn, StartCompact, DismissAsk,
       Busy, engineVars
<1>13. CASE (\E cmd \in Commands : Receive(cmd)) \/ Forward \/ FinishCompact \/ Exit \/ UNCHANGED vars
  BY <1>5, <1>13 DEF Receive, Forward, FinishCompact, Exit, vars, engineVars, Busy
<1>14. QED
  BY <1>9, <1>10, <1>11, <1>12, <1>13 DEF Next

\* The admitted calls.
LEMMA WorkShape ==
    ASSUME Shapes, [Next]_vars
    PROVE  work' \in Batches
<1>1. work \in Batches /\ calls \in Seq(Kinds) /\ Len(calls) \in Nat
      /\ suspended \in Suspensions \cup {None}
  BY DEF Shapes
<1>2. /\ work.parallel \subseteq Nat /\ work.serial \subseteq Nat /\ work.started \subseteq Nat
      /\ work.finished \subseteq Nat /\ work.asks \subseteq Nat
      /\ work = [parallel |-> work.parallel, serial |-> work.serial, started |-> work.started,
                 finished |-> work.finished, asks |-> work.asks]
  BY <1>1, BatchFacts
<1>3. work' = NoWork => work' \in Batches
  BY NoWorkIsBatch
<1>4. ASSUME NEW p \in SUBSET Nat, NEW s \in SUBSET Nat, NEW a \in SUBSET Nat,
             work' = Admitted(p, s, a)
      PROVE  work' \in Batches
  BY <1>4, AdmittedFacts
<1>5. CASE UNCHANGED work
  BY <1>1, <1>5
<1>6. Lap => UNCHANGED work
  BY DEF Lap, LapCancelled, EnterGate, engineVars
<1>7. ASSUME NEW n \in 1 .. MaxCalls, GateCalls(n)
      PROVE  work' \in Batches
  <2>1. n \in Nat
    BY AgentAssumption
  <2>2. (Len(calls) + 1) .. (Len(calls) + n) \subseteq Nat
    BY <1>1, <2>1
  <2> DEFINE new == (Len(calls) + 1) .. (Len(calls) + n)
  <2>3. PICK kinds \in [1 .. n -> Kinds], serial \in SUBSET new :
           \/ UNCHANGED work
           \/ work' = Admitted({c \in new : kinds[c - Len(calls)] = "run"} \ serial, serial,
                               {c \in new : kinds[c - Len(calls)] = "ask"})
    BY <1>7 DEF GateCalls
  <2> DEFINE p == {c \in new : kinds[c - Len(calls)] = "run"} \ serial
             a == {c \in new : kinds[c - Len(calls)] = "ask"}
  <2>4. p \in SUBSET Nat /\ a \in SUBSET Nat /\ serial \in SUBSET Nat
    BY <2>2
  <2>5. UNCHANGED work \/ work' = Admitted(p, serial, a)
    BY <2>3
  <2> HIDE DEF p, a
  <2>6. QED
    BY <1>4, <1>5, <2>4, <2>5
<1>8. GateCancelled \/ GateFails \/ GateAnswers \/ GateAnswersWithSkill \/ GateRepeatsAnId
        => UNCHANGED work
  BY DEF GateCancelled, GateFails, GateAnswers, GateAnswersWithSkill, GateRepeatsAnId, engineVars
<1>9. ASSUME NEW c \in 1 .. MaxCalls, RunParallel(c) PROVE work' \in Batches
  BY <1>1, <1>2, <1>9 DEF RunParallel, Batches
<1>10. Collect \/ CutSerial \/ (\E c \in 1 .. MaxCalls : RunSerial(c)) => work' \in Batches
  BY <1>1, <1>2 DEF Collect, CutSerial, RunSerial, Batches
<1>11. CASE StartSerial
  <2>1. work' = [work EXCEPT !.started = {Min(work.serial)}, !.serial = @ \ {Min(work.serial)}]
    BY <1>11 DEF StartSerial
  <2>2. Min(work.serial) \in work.serial
    BY <1>2, <1>11, SmallestIsIn DEF StartSerial, SerialsNext
  <2>3. QED
    BY <1>1, <1>2, <2>1, <2>2 DEF Batches
<1>12. ToolsCancelled \/ AskUser \/ RoundDone => work' = NoWork
  BY DEF ToolsCancelled, AskUser, RoundDone
<1>13. CASE RespondPermission
  <2>1. CASE UNCHANGED work
    BY <1>5, <2>1
  <2>2. PICK ok \in BOOLEAN : UNCHANGED work \/ Resolve(Head(inbox).call, ok)
    BY <1>13 DEF RespondPermission, engineVars
  <2>3. Head(inbox).call \in Nat
    BY <1>13, DispatchFacts, SentFacts DEF RespondPermission
  <2>4. CASE Resolve(Head(inbox).call, ok)
    <3>1. CASE UNCHANGED work
      BY <2>1, <3>1
    <3>2. ASSUME NEW d, suspended # None,
                 d = suspended.deferred \cup (IF ok THEN {Head(inbox).call} ELSE {}),
                 work' = Admitted(d \ suspended.serial, d \cap suspended.serial, suspended.asks)
          PROVE  work' \in Batches
      <4>1. /\ d \ suspended.serial \in SUBSET Nat /\ d \cap suspended.serial \in SUBSET Nat
            /\ suspended.asks \in SUBSET Nat
        BY <1>1, <2>3, <3>2, SuspensionFacts
      <4>2. QED
        BY <1>4, <3>2, <4>1
    <3>3. QED
      BY <1>1, <2>4, <3>1, <3>2, ResolveFacts
  <2>5. QED
    BY <2>1, <2>2, <2>4
<1>14. SendMessage \/ Cancel \/ Shutdown \/ UndoTurn \/ StartCompact \/ RespondAsk \/ DismissAsk
         => UNCHANGED work
  BY DEF SendMessage, Cancel, Shutdown, UndoTurn, StartCompact, RespondAsk, DismissAsk, engineVars
<1>15. (\E cmd \in Commands : Receive(cmd)) \/ Forward \/ FinishCompact \/ Exit \/ UNCHANGED vars
         => UNCHANGED work
  BY DEF Receive, Forward, FinishCompact, Exit, vars, engineVars
<1>16. QED
  BY <1>3, <1>5, <1>6, <1>7, <1>8, <1>9, <1>10, <1>11, <1>12, <1>13, <1>14, <1>15
     DEF Next, Gate, Tools, Handle

\* The turn that waits.
LEMMA SuspendedShape ==
    ASSUME Shapes, TurnsExist, [Next]_vars
    PROVE  /\ suspended' \in Suspensions \cup {None}
           /\ suspended' # None => suspended'.turn \in 1 .. Len(timeline')
<1> DEFINE Goal == /\ suspended' \in Suspensions \cup {None}
                   /\ suspended' # None => suspended'.turn \in 1 .. Len(timeline')
<1> SUFFICES Goal
  OBVIOUS
<1>1. run \in Runs /\ suspended \in Suspensions \cup {None} /\ work \in Batches
      /\ calls \in Seq(Kinds) /\ Len(calls) \in Nat
  BY DEF Shapes
<1>2. /\ Len(timeline) \in Nat /\ Len(timeline') \in Nat /\ Len(timeline) <= Len(timeline')
  BY TimelineShape
<1>3. 1 .. Len(timeline) \subseteq 1 .. Len(timeline')
  BY <1>2
<1>4. suspended # None => suspended.turn \in 1 .. Len(timeline')
  BY <1>3 DEF TurnsExist
<1>5. Busy => run.turn \in 1 .. Len(timeline')
  BY <1>3 DEF TurnsExist
<1>6. suspended' \in {suspended, None} => Goal
  BY <1>1, <1>4
<1>7. ASSUME NEW t \in 1 .. Len(timeline'), NEW r \in Nat, NEW p \in SUBSET Nat,
             NEW d \in SUBSET Nat, NEW s \in SUBSET Nat, NEW a \in SUBSET Nat,
             suspended' = [turn |-> t, round |-> r, perms |-> p, deferred |-> d, serial |-> s,
                           asks |-> a]
      PROVE  Goal
  BY <1>2, <1>7 DEF Suspensions
<1> HIDE DEF Goal
<1>8. run.round \in Nat
  BY <1>1, RunFacts
<1>9. suspended # None => /\ suspended.round \in Nat /\ suspended.perms \in SUBSET Nat
                          /\ suspended.deferred \in SUBSET Nat /\ suspended.serial \in SUBSET Nat
                          /\ suspended.asks \in SUBSET Nat
  BY <1>1, SuspensionFacts
<1>10. Lap => suspended' \in {suspended, None}
  BY DEF Lap, LapCancelled, EnterGate, Abort, ResetEngines, engineVars
<1>11. ASSUME NEW n \in 1 .. MaxCalls, GateCalls(n)
       PROVE  Goal
  <2> DEFINE new == (Len(calls) + 1) .. (Len(calls) + n)
  <2>1. n \in Nat
    BY AgentAssumption
  <2>2. new \subseteq Nat
    BY <1>1, <2>1
  <2>3. PICK kinds \in [1 .. n -> Kinds], serial \in SUBSET new :
           \/ UNCHANGED suspended
           \/ Suspend({c \in new : kinds[c - Len(calls)] = "perm"},
                      {c \in new : kinds[c - Len(calls)] = "run"}, serial,
                      {c \in new : kinds[c - Len(calls)] = "ask"})
    BY <1>11 DEF GateCalls
  <2> DEFINE p == {c \in new : kinds[c - Len(calls)] = "perm"}
             d == {c \in new : kinds[c - Len(calls)] = "run"}
             a == {c \in new : kinds[c - Len(calls)] = "ask"}
  <2>4. p \in SUBSET Nat /\ d \in SUBSET Nat /\ a \in SUBSET Nat /\ serial \in SUBSET Nat
    BY <2>2
  <2>5. UNCHANGED suspended \/ Suspend(p, d, serial, a)
    BY <2>3
  <2> HIDE DEF p, d, a
  <2>6. run.turn \in 1 .. Len(timeline')
    BY <1>5, <1>11 DEF GateCalls, Busy
  <2>7. QED
    BY <1>6, <1>7, <1>8, <2>4, <2>5, <2>6 DEF Suspend
<1>12. GateCancelled \/ GateFails \/ GateAnswers \/ GateAnswersWithSkill \/ GateRepeatsAnId
        => suspended' \in {suspended, None}
  BY DEF GateCancelled, GateFails, GateAnswers, GateAnswersWithSkill, GateRepeatsAnId, engineVars,
     Abort, ResetEngines
<1>13. CASE AskUser
  <2> DEFINE e == {}
  <2>1. e \in SUBSET Nat /\ work.asks \in SUBSET Nat
    BY <1>1, BatchFacts
  <2>2. run.turn \in 1 .. Len(timeline')
    BY <1>5, <1>13 DEF AskUser, ToolsDone, Busy
  <2>3. suspended' = [turn |-> run.turn, round |-> run.round, perms |-> e, deferred |-> e,
                      serial |-> e, asks |-> work.asks]
    BY <1>13 DEF AskUser, Suspend
  <2> HIDE DEF e
  <2>4. QED
    BY <1>7, <1>8, <2>1, <2>2, <2>3
<1>14. (\E c \in 1 .. MaxCalls : RunParallel(c) \/ RunSerial(c)) \/ Collect \/ CutSerial
         \/ StartSerial \/ ToolsCancelled \/ RoundDone => suspended' \in {suspended, None}
  BY DEF RunParallel, RunSerial, Collect, CutSerial, StartSerial, ToolsCancelled, RoundDone, Abort,
     ResetEngines
<1>15. CASE RespondPermission
  <2>1. PICK ok \in BOOLEAN : UNCHANGED suspended \/ Resolve(Head(inbox).call, ok)
    BY <1>15 DEF RespondPermission, engineVars
  <2>2. Head(inbox).call \in Nat
    BY <1>15, DispatchFacts, SentFacts DEF RespondPermission
  <2>3. ASSUME NEW d, suspended # None,
               d = suspended.deferred \cup (IF ok THEN {Head(inbox).call} ELSE {}),
               suspended' = [turn |-> suspended.turn, round |-> suspended.round,
                             perms |-> suspended.perms \ {Head(inbox).call}, deferred |-> d,
                             serial |-> suspended.serial, asks |-> suspended.asks]
        PROVE  Goal
    <3> DEFINE p == suspended.perms \ {Head(inbox).call}
    <3>1. d \in SUBSET Nat /\ p \in SUBSET Nat
      BY <1>9, <2>2, <2>3
    <3>2. suspended' = [turn |-> suspended.turn, round |-> suspended.round,
                        perms |-> p, deferred |-> d,
                        serial |-> suspended.serial, asks |-> suspended.asks]
      BY <2>3
    <3> HIDE DEF p
    <3>3. QED
      BY <1>4, <1>7, <1>9, <2>3, <3>1, <3>2
  <2>4. CASE Resolve(Head(inbox).call, ok)
    BY <1>1, <1>6, <2>3, <2>4, ResolveFacts
  <2>5. QED
    BY <1>6, <2>1, <2>4
<1>16. CASE RespondAsk
  <2>1. \/ suspended' \in {suspended, None}
        \/ /\ suspended # None
           /\ suspended' = [suspended EXCEPT !.asks = @ \ {Head(inbox).call}]
    BY <1>16 DEF RespondAsk, ActiveAsk
  <2>2. CASE /\ suspended # None
             /\ suspended' = [suspended EXCEPT !.asks = @ \ {Head(inbox).call}]
    <3> DEFINE a == suspended.asks \ {Head(inbox).call}
    <3>1. a \in SUBSET Nat
      BY <1>9, <2>2
    <3>2. suspended' = [turn |-> suspended.turn, round |-> suspended.round,
                        perms |-> suspended.perms, deferred |-> suspended.deferred,
                        serial |-> suspended.serial, asks |-> a]
      BY <1>1, <2>2, FewerAsks
    <3> HIDE DEF a
    <3>3. QED
      BY <1>4, <1>7, <1>9, <2>2, <3>1, <3>2
  <2>3. QED
    BY <1>6, <2>1, <2>2
<1>17. SendMessage \/ Cancel \/ Shutdown \/ UndoTurn \/ StartCompact \/ DismissAsk
         => suspended' \in {suspended, None}
  BY DEF SendMessage, Cancel, Shutdown, UndoTurn, StartCompact, DismissAsk, engineVars, ResetEngines
<1>18. (\E cmd \in Commands : Receive(cmd)) \/ Forward \/ FinishCompact \/ Exit \/ UNCHANGED vars
         => UNCHANGED suspended
  BY DEF Receive, Forward, FinishCompact, Exit, vars, engineVars
<1>19. QED
  BY <1>6, <1>10, <1>11, <1>12, <1>13, <1>14, <1>15, <1>16, <1>17, <1>18
     DEF Next, Gate, Tools, Handle

\* The calls of an answer are numbered on from the ones there are.
LEMMA NewCalls ==
    ASSUME Shapes, NEW n \in 1 .. MaxCalls, NEW kinds \in [1 .. n -> Kinds],
           calls' = calls \o kinds
    PROVE  /\ n \in Nat /\ Len(calls) \in Nat
           /\ calls' \in Seq(Kinds) /\ Len(calls') = Len(calls) + n
           /\ \A c \in 1 .. Len(calls) : calls'[c] = calls[c]
           /\ \A c \in (Len(calls) + 1) .. (Len(calls) + n) : calls'[c] = kinds[c - Len(calls)]
<1>1. n \in Nat /\ calls \in Seq(Kinds) /\ Len(calls) \in Nat
  BY AgentAssumption DEF Shapes
<1>2. kinds \in Seq(Kinds) /\ Len(kinds) = n
  BY <1>1
<1>3. calls \o kinds \in Seq(Kinds) /\ Len(calls \o kinds) = Len(calls) + n
  BY <1>1, <1>2, ConcatProperties
<1>4. \A c \in 1 .. Len(calls) : (calls \o kinds)[c] = calls[c]
  BY <1>1, <1>2
<1>5. \A c \in (Len(calls) + 1) .. (Len(calls) + n) : (calls \o kinds)[c] = kinds[c - Len(calls)]
  BY <1>1, <1>2
<1>6. QED
  BY <1>1, <1>3, <1>4, <1>5

LEMMA CallsGrow ==
    ASSUME Shapes, [Next]_vars
    PROVE  \/ UNCHANGED calls
           \/ \E n \in 1 .. MaxCalls : GateCalls(n)
<1>1. Lap => UNCHANGED calls
  BY DEF Lap, LapCancelled, EnterGate, toolGhosts
<1>2. GateCancelled \/ GateFails \/ GateAnswers \/ GateAnswersWithSkill \/ GateRepeatsAnId
        => UNCHANGED calls
  BY DEF GateCancelled, GateFails, GateAnswers, GateAnswersWithSkill, GateRepeatsAnId, toolGhosts
<1>3. Tools => UNCHANGED calls
  BY DEF Tools, RunParallel, RunSerial, Collect, CutSerial, StartSerial, ToolsCancelled, AskUser,
     RoundDone, toolGhosts
<1>4. Handle => UNCHANGED calls
  BY DEF Handle, SendMessage, Cancel, Shutdown, UndoTurn, StartCompact, RespondPermission,
     RespondAsk, DismissAsk, toolGhosts
<1>5. (\E cmd \in Commands : Receive(cmd)) \/ Forward \/ FinishCompact \/ Exit \/ UNCHANGED vars
         => UNCHANGED calls
  BY DEF Receive, Forward, FinishCompact, Exit, vars, toolGhosts
<1>6. QED
  BY <1>1, <1>2, <1>3, <1>4, <1>5 DEF Next, Gate

LEMMA CallsShape ==
    ASSUME Shapes, [Next]_vars
    PROVE  calls' \in Seq(Kinds) /\ Len(calls') <= MaxCalls
<1>1. calls \in Seq(Kinds) /\ Len(calls) <= MaxCalls
  BY DEF Shapes
<1>2. ASSUME NEW n \in 1 .. MaxCalls, GateCalls(n)
      PROVE  calls' \in Seq(Kinds) /\ Len(calls') <= MaxCalls
  <2>1. Len(calls) + n <= MaxCalls
    BY <1>2 DEF GateCalls
  <2>2. PICK kinds \in [1 .. n -> Kinds] : calls' = calls \o kinds
    BY <1>2 DEF GateCalls
  <2>3. calls' \in Seq(Kinds) /\ Len(calls') = Len(calls) + n
    BY <2>2, NewCalls
  <2>4. QED
    BY <2>1, <2>3
<1>3. QED
  BY <1>1, <1>2, CallsGrow

LEMMA RunsGrow ==
    ASSUME [Next]_vars
    PROVE  \/ UNCHANGED runs
           \/ \E c \in 1 .. MaxCalls : /\ RunParallel(c) \/ RunSerial(c)
                                       /\ ~cancel
                                       /\ runs' = [runs EXCEPT ![c] = @ + 1]
<1>1. Lap => UNCHANGED runs
  BY DEF Lap, LapCancelled, EnterGate, toolGhosts
<1>2. Gate => UNCHANGED runs
  BY DEF Gate, GateCancelled, GateFails, GateAnswers, GateAnswersWithSkill, GateRepeatsAnId,
     GateCalls, toolGhosts
<1>3. ASSUME NEW c \in 1 .. MaxCalls, RunParallel(c) \/ RunSerial(c)
      PROVE  UNCHANGED runs \/ (~cancel /\ runs' = [runs EXCEPT ![c] = @ + 1])
  BY <1>3 DEF RunParallel, RunSerial, Execute
<1>4. Collect \/ CutSerial \/ StartSerial \/ ToolsCancelled \/ AskUser \/ RoundDone
        => UNCHANGED runs
  BY DEF Collect, CutSerial, StartSerial, ToolsCancelled, AskUser, RoundDone, toolGhosts
<1>5. Handle => UNCHANGED runs
  BY DEF Handle, SendMessage, Cancel, Shutdown, UndoTurn, StartCompact, RespondPermission,
     RespondAsk, DismissAsk, toolGhosts
<1>6. (\E cmd \in Commands : Receive(cmd)) \/ Forward \/ FinishCompact \/ Exit \/ UNCHANGED vars
         => UNCHANGED runs
  BY DEF Receive, Forward, FinishCompact, Exit, vars, toolGhosts
<1>7. QED
  BY <1>1, <1>2, <1>3, <1>4, <1>5, <1>6 DEF Next, Tools

\* What a run of the tool of c leaves.
LEMMA OneMoreRun ==
    ASSUME Shapes, NEW c \in 1 .. MaxCalls, runs' = [runs EXCEPT ![c] = @ + 1]
    PROVE  /\ runs' \in [1 .. MaxCalls -> Nat] /\ runs'[c] = runs[c] + 1
           /\ \A b \in 1 .. MaxCalls : b # c => runs'[b] = runs[b]
  BY DEF Shapes

\* Every variable keeps its shape.
LEMMA ShapesKept ==
    ASSUME Shapes, TurnsExist, [Next]_vars
    PROVE  Shapes' /\ TurnsExist'
<1>1. runs' \in [1 .. MaxCalls -> Nat]
  <2>1. runs \in [1 .. MaxCalls -> Nat]
    BY DEF Shapes
  <2>2. QED
    BY <2>1, RunsGrow, OneMoreRun
<1>2. QED
  BY <1>1, QueueShape, FlagShape, RunShape, WorkShape, SuspendedShape, TimelineShape, CallsShape
     DEF Shapes, TurnsExist, Busy

----------------------------------------------------------------------------
(* The calls that wait, and the runs.                                      *)

CallsAreSafe == WaitsOnce /\ WaitersMayRun /\ NewHaveNotRun /\ RunsOnlyApproved

\* What the steps of the tools make of the admitted calls.
LEMMA ToolsLeave ==
    ASSUME Shapes, NEW c \in 1 .. MaxCalls
    PROVE  /\ RunParallel(c) =>
                 /\ work'.parallel = work.parallel \ {c} /\ work'.serial = work.serial
                 /\ work'.started = work.started /\ work'.finished = work.finished \cup {c}
                 /\ work'.asks = work.asks
           /\ RunSerial(c) =>
                 /\ work'.parallel = work.parallel /\ work'.serial = work.serial
                 /\ work'.started = {} /\ work'.finished = work.finished
                 /\ work'.asks = work.asks
<1>1. work \in Batches
  BY DEF Shapes
<1>2. work = [parallel |-> work.parallel, serial |-> work.serial, started |-> work.started,
              finished |-> work.finished, asks |-> work.asks]
  BY <1>1, BatchFacts
<1>3. QED
  BY <1>1, <1>2 DEF RunParallel, RunSerial, Batches

LEMMA SerialsLeave ==
    ASSUME Shapes
    PROVE  /\ Collect =>
                 /\ work'.parallel = work.parallel /\ work'.serial = work.serial
                 /\ work'.started = work.started /\ work'.finished = {} /\ work'.asks = work.asks
           /\ CutSerial =>
                 /\ work'.parallel = work.parallel /\ work'.serial = {}
                 /\ work'.started = work.started /\ work'.finished = work.finished
                 /\ work'.asks = work.asks
           /\ StartSerial => \E c \in work.serial :
                 /\ work'.parallel = work.parallel /\ work'.serial = work.serial \ {c}
                 /\ work'.started = {c} /\ work'.finished = work.finished
                 /\ work'.asks = work.asks
<1>1. work \in Batches
  BY DEF Shapes
<1>2. work = [parallel |-> work.parallel, serial |-> work.serial, started |-> work.started,
              finished |-> work.finished, asks |-> work.asks]
  BY <1>1, BatchFacts
<1>3. CASE Collect
  BY <1>1, <1>2, <1>3 DEF Collect, CutSerial, StartSerial, SerialsNext, Batches
<1>4. CASE CutSerial
  BY <1>1, <1>2, <1>4 DEF Collect, CutSerial, StartSerial, SerialsNext, Batches
<1>5. CASE StartSerial
  <2>1. Min(work.serial) \in work.serial
    BY <1>1, <1>5, BatchFacts, SmallestIsIn DEF StartSerial, SerialsNext
  <2> DEFINE c == Min(work.serial)
  <2>2. work' = [work EXCEPT !.started = {c}, !.serial = @ \ {c}]
    BY <1>5 DEF StartSerial
  <2>3. c \in work.serial
    BY <2>1
  <2> HIDE DEF c
  <2>4. /\ work'.parallel = work.parallel /\ work'.serial = work.serial \ {c}
        /\ work'.started = {c} /\ work'.finished = work.finished
        /\ work'.asks = work.asks
    BY <1>1, <1>2, <2>2 DEF Batches
  <2>5. ~Collect /\ ~CutSerial
    BY <1>5, <2>3 DEF Collect, CutSerial, StartSerial, SerialsNext
  <2>6. QED
    BY <2>3, <2>4, <2>5
<1>6. QED
  BY <1>3, <1>4, <1>5

LEMMA ApprovedGrows ==
    ASSUME [Next]_vars
    PROVE  approved \subseteq approved'
<1>1. (\E cmd \in Commands : Receive(cmd)) \/ Forward \/ Lap \/ Gate \/ FinishCompact \/ Exit
         \/ UNCHANGED vars => UNCHANGED approved
  BY DEF Receive, Forward, Lap, LapCancelled, EnterGate, Gate, GateCancelled, GateFails, GateAnswers,
     GateAnswersWithSkill, GateRepeatsAnId, GateCalls, FinishCompact, Exit, vars, toolGhosts
<1>2. Tools => UNCHANGED approved
  BY DEF Tools, RunParallel, RunSerial, Collect, CutSerial, StartSerial, ToolsCancelled, AskUser,
     RoundDone, toolGhosts
<1>3. Handle => approved \subseteq approved'
  BY DEF Handle, SendMessage, Cancel, Shutdown, UndoTurn, StartCompact, RespondPermission,
     RespondAsk, DismissAsk, toolGhosts
<1>4. QED
  BY <1>1, <1>2, <1>3 DEF Next

LEMMA MayRunStays ==
    ASSUME NEW c, UNCHANGED calls, UNCHANGED runs, approved \subseteq approved'
    PROVE  (MayRun(c) => MayRun(c)') /\ (MayBeAllowed(c) => MayBeAllowed(c)')
  BY DEF MayRun, MayBeAllowed

\* While no tool runs and no call is added.
LEMMA CallsKept ==
    ASSUME CallsAreSafe, UNCHANGED calls, UNCHANGED runs, approved \subseteq approved',
           WaitsOnce',
           \A c \in Waiting' : MayRun(c) \/ MayRun(c)',
           suspended' # None => /\ \A c \in suspended'.deferred : MayRun(c) \/ MayRun(c)'
                                /\ \A c \in suspended'.perms : MayBeAllowed(c)
    PROVE  CallsAreSafe'
<1>1. WaitersMayRun'
  BY MayRunStays DEF WaitersMayRun
<1>2. NewHaveNotRun'
  BY DEF CallsAreSafe, NewHaveNotRun
<1>3. RunsOnlyApproved'
  BY DEF CallsAreSafe, RunsOnlyApproved
<1>4. QED
  BY <1>1, <1>2, <1>3 DEF CallsAreSafe

\* The steps that give work and suspension up or leave them.
LEMMA QuietCalls ==
    ASSUME CallsAreSafe, UNCHANGED calls, UNCHANGED runs, approved \subseteq approved',
           work' \in {work, NoWork}, suspended' \in {suspended, None}
    PROVE  CallsAreSafe'
<1>1. Waiting' \subseteq Waiting
  BY NoWorkIsBatch DEF Waiting
<1>2. WaitsOnce'
  BY NoWorkIsBatch DEF CallsAreSafe, WaitsOnce, Waiting
<1>3. QED
  BY <1>1, <1>2, CallsKept DEF CallsAreSafe, WaitersMayRun

\* A tool that runs takes its call from those that wait.
LEMMA RunKeepsCalls ==
    ASSUME Shapes, CallsAreSafe, NEW c \in 1 .. MaxCalls, RunParallel(c) \/ RunSerial(c)
    PROVE  CallsAreSafe'
<1>1. /\ WaitsOnce /\ WaitersMayRun /\ NewHaveNotRun /\ RunsOnlyApproved
  BY DEF CallsAreSafe
<1>2. /\ UNCHANGED <<calls, approved, suspended>>
      /\ UNCHANGED runs \/ runs' = [runs EXCEPT ![c] = @ + 1]
      /\ c \in Waiting
  BY DEF RunParallel, RunSerial, Execute, Waiting
<1>3. Waiting' \subseteq Waiting \ {c}
  <2>1. CASE RunParallel(c)
    <3>1. work'.parallel = work.parallel \ {c} /\ work'.serial = work.serial /\ work'.started = work.started
      BY <2>1, ToolsLeave
    <3>2. c \in work.parallel
      BY <2>1 DEF RunParallel
    <3>3. c \notin work.serial /\ c \notin work.started
      BY <1>1, <3>2 DEF WaitsOnce
    <3> QED BY <3>1, <3>3 DEF Waiting
  <2>2. CASE RunSerial(c)
    <3>1. work'.parallel = work.parallel /\ work'.serial = work.serial /\ work'.started = {}
      BY <2>2, ToolsLeave
    <3>2. c \in work.started
      BY <2>2 DEF RunSerial
    <3>3. c \notin work.parallel /\ c \notin work.serial
      BY <1>1, <3>2 DEF WaitsOnce
    <3> QED BY <3>1, <3>3 DEF Waiting
  <2> QED BY <2>1, <2>2
<1>4. WaitsOnce'
  <2>1. /\ work'.parallel \subseteq work.parallel /\ work'.serial = work.serial
        /\ work'.started \subseteq work.started
    BY ToolsLeave
  <2>2. /\ work'.parallel \cap work'.serial = {}
        /\ work'.started \cap (work'.parallel \cup work'.serial) = {}
        /\ \A a, b \in work'.started : a = b
    BY <1>1, <2>1 DEF WaitsOnce
  <2>3. suspended' # None => (suspended'.deferred \cup suspended'.perms) \cap Waiting' = {}
    BY <1>1, <1>2, <1>3 DEF WaitsOnce
  <2> QED BY <2>2, <2>3 DEF WaitsOnce
<1>5. MayRun(c)
  BY <1>1, <1>2 DEF WaitersMayRun
<1>6. suspended # None => c \notin suspended.deferred /\ c \notin suspended.perms
  BY <1>1, <1>2 DEF WaitsOnce
<1>7. /\ \A b \in 1 .. MaxCalls : b # c => runs'[b] = runs[b]
      /\ runs'[c] \in {0, 1}
  <2>1. CASE UNCHANGED runs
    BY <1>5, <2>1 DEF MayRun
  <2>2. CASE runs' = [runs EXCEPT ![c] = @ + 1]
    BY <1>5, <2>2, OneMoreRun DEF MayRun
  <2>3. QED
    BY <1>2, <2>1, <2>2
<1>8. Len(calls) \in Nat /\ Len(calls) <= MaxCalls /\ MaxCalls \in Nat /\ DOMAIN calls = 1 .. Len(calls)
  BY AgentAssumption DEF Shapes
<1>9. \A b : b # c => (MayRun(b) => MayRun(b)') /\ (MayBeAllowed(b) => MayBeAllowed(b)')
  <2> SUFFICES ASSUME NEW b, b # c, b \in 1 .. Len(calls)
               PROVE  (MayRun(b) => MayRun(b)') /\ (MayBeAllowed(b) => MayBeAllowed(b)')
    BY DEF MayRun, MayBeAllowed
  <2>1. runs'[b] = runs[b]
    BY <1>7, <1>8
  <2>2. QED
    BY <1>2, <2>1 DEF MayRun, MayBeAllowed
<1>10. WaitersMayRun'
  BY <1>1, <1>2, <1>3, <1>6, <1>9 DEF WaitersMayRun
<1>11. NewHaveNotRun'
  BY <1>1, <1>2, <1>5, <1>7 DEF NewHaveNotRun, MayRun
<1>12. RunsOnlyApproved'
  <2> SUFFICES ASSUME NEW b \in DOMAIN calls
               PROVE  /\ runs'[b] <= (IF calls[b] \in {"run", "perm"} THEN 1 ELSE 0)
                      /\ calls[b] = "perm" /\ runs'[b] > 0 => b \in approved
    BY <1>2 DEF RunsOnlyApproved
  <2>1. CASE b = c
    <3>1. calls[b] \in {"run", "perm"} /\ (calls[b] = "perm" => b \in approved)
      BY <1>5, <2>1 DEF MayRun
    <3>2. runs'[b] <= 1
      BY <1>7, <2>1
    <3>3. QED
      BY <3>1, <3>2
  <2>2. CASE b # c
    <3>1. runs'[b] = runs[b]
      BY <1>7, <1>8, <2>2
    <3>2. QED
      BY <1>1, <3>1 DEF RunsOnlyApproved
  <2>3. QED
    BY <2>1, <2>2
<1>13. QED
  BY <1>4, <1>10, <1>11, <1>12 DEF CallsAreSafe

\* The calls of an answer are new, of one kind each, and go to the batch or the suspension.
LEMMA GateCallsFacts ==
    ASSUME Shapes, NEW n \in 1 .. MaxCalls, GateCalls(n)
    PROVE  \E new, serial, p, d, a, r :
              /\ new \subseteq Nat /\ new = (Len(calls) + 1) .. (Len(calls) + n) /\ Len(calls') = Len(calls) + n
              /\ new \cap (1 .. Len(calls)) = {} /\ new \subseteq 1 .. Len(calls')
              /\ 1 .. Len(calls') = 1 .. Len(calls) \cup new
              /\ \A c \in 1 .. Len(calls) : calls'[c] = calls[c]
              /\ new = p \cup d \cup a \cup r
              /\ p \cap d = {}
              /\ serial \subseteq p \cup d
              /\ \A c \in p : calls'[c] = "perm"
              /\ \A c \in d : calls'[c] = "run"
              /\ turns' = PushResults(PushAssistant(turns, new), r, "refused")
              /\ \/ /\ p # {} /\ Suspend(p, d, serial, a) /\ UNCHANGED work
                 \/ /\ p = {} /\ pc' = "tools" /\ UNCHANGED suspended
                    /\ work' = Admitted(d \ serial, serial, a)
<1> DEFINE new == (Len(calls) + 1) .. (Len(calls) + n)
<1>1. PICK kinds \in [1 .. n -> Kinds] :
        \E serial \in SUBSET (new \ {Min(new)}) :
           /\ serial \subseteq {c \in new : kinds[c - Len(calls)] = "run"}
                                 \cup {c \in new : kinds[c - Len(calls)] = "perm"}
           /\ calls' = calls \o kinds
           /\ turns' = PushResults(PushAssistant(turns, new),
                                   {c \in new : kinds[c - Len(calls)] = "refused"}, "refused")
           /\ \/ /\ {c \in new : kinds[c - Len(calls)] = "perm"} # {}
                 /\ Suspend({c \in new : kinds[c - Len(calls)] = "perm"},
                            {c \in new : kinds[c - Len(calls)] = "run"}, serial,
                            {c \in new : kinds[c - Len(calls)] = "ask"})
                 /\ UNCHANGED work
              \/ /\ {c \in new : kinds[c - Len(calls)] = "perm"} = {}
                 /\ pc' = "tools" /\ UNCHANGED suspended
                 /\ work' = Admitted({c \in new : kinds[c - Len(calls)] = "run"} \ serial, serial,
                                     {c \in new : kinds[c - Len(calls)] = "ask"})
  BY DEF GateCalls
<1> DEFINE p == {c \in new : kinds[c - Len(calls)] = "perm"}
           d == {c \in new : kinds[c - Len(calls)] = "run"}
           a == {c \in new : kinds[c - Len(calls)] = "ask"}
           r == {c \in new : kinds[c - Len(calls)] = "refused"}
<1>2. PICK serial :
           /\ serial \subseteq d \cup p
           /\ calls' = calls \o kinds
           /\ turns' = PushResults(PushAssistant(turns, new), r, "refused")
           /\ \/ p # {} /\ Suspend(p, d, serial, a) /\ UNCHANGED work
              \/ /\ p = {} /\ pc' = "tools" /\ UNCHANGED suspended
                 /\ work' = Admitted(d \ serial, serial, a)
  BY <1>1
<1>3. /\ n \in Nat /\ Len(calls) \in Nat /\ Len(calls') = Len(calls) + n
      /\ \A c \in 1 .. Len(calls) : calls'[c] = calls[c]
      /\ \A c \in new : calls'[c] = kinds[c - Len(calls)]
  BY <1>2, NewCalls
<1>4. \A c \in new : c - Len(calls) \in 1 .. n
  BY <1>3
<1>5. \A c \in new : kinds[c - Len(calls)] \in Kinds
  BY <1>4
<1>6. new = p \cup d \cup a \cup r /\ p \cap d = {}
  BY <1>5 DEF Kinds
<1>7. \A c \in p : calls'[c] = "perm"
  BY <1>3
<1>8. \A c \in d : calls'[c] = "run"
  BY <1>3
<1>9. /\ new \in SUBSET Nat /\ new \cap (1 .. Len(calls)) = {} /\ new \subseteq 1 .. Len(calls')
      /\ 1 .. Len(calls') = 1 .. Len(calls) \cup new
  BY <1>3
<1>10. new = (Len(calls) + 1) .. (Len(calls) + n)
  OBVIOUS
<1> HIDE DEF new, p, d, a, r
<1> WITNESS new, serial, p, d, a, r
<1>11. QED
  BY <1>2, <1>3, <1>6, <1>7, <1>8, <1>9, <1>10

\* New calls have not run, and the old ones keep their place.
LEMMA NewCallsAreSafe ==
    ASSUME Shapes, CallsAreSafe, NEW n \in 1 .. MaxCalls, GateCalls(n)
    PROVE  CallsAreSafe'
<1>1. PICK new, serial, p, d, a, r :
              /\ new \subseteq Nat /\ new = (Len(calls) + 1) .. (Len(calls) + n) /\ Len(calls') = Len(calls) + n
              /\ new \cap (1 .. Len(calls)) = {} /\ new \subseteq 1 .. Len(calls')
              /\ 1 .. Len(calls') = 1 .. Len(calls) \cup new
              /\ \A c \in 1 .. Len(calls) : calls'[c] = calls[c]
              /\ new = p \cup d \cup a \cup r
              /\ p \cap d = {}
              /\ serial \subseteq p \cup d
              /\ \A c \in p : calls'[c] = "perm"
              /\ \A c \in d : calls'[c] = "run"
              /\ turns' = PushResults(PushAssistant(turns, new), r, "refused")
              /\ \/ /\ p # {} /\ Suspend(p, d, serial, a) /\ UNCHANGED work
                 \/ /\ p = {} /\ pc' = "tools" /\ UNCHANGED suspended
                    /\ work' = Admitted(d \ serial, serial, a)
  BY GateCallsFacts
<1>2. /\ WaitsOnce /\ WaitersMayRun /\ NewHaveNotRun /\ RunsOnlyApproved
  BY DEF CallsAreSafe
<1>3. /\ UNCHANGED <<runs, approved>> /\ Len(calls) + n <= MaxCalls
      /\ Len(calls) \in Nat /\ MaxCalls \in Nat /\ n \in Nat
      /\ DOMAIN calls = 1 .. Len(calls)
  BY AgentAssumption DEF GateCalls, Shapes
<1>4. DOMAIN calls' = 1 .. Len(calls')
  BY CallsShape DEF Next, Gate
<1>5. \A c \in new : c \in 1 .. MaxCalls /\ c > Len(calls)
  BY <1>1, <1>3
<1>6. \A c \in new : runs'[c] = 0
  BY <1>2, <1>3, <1>5 DEF NewHaveNotRun
<1>7. \A c : (MayRun(c) => MayRun(c)') /\ (MayBeAllowed(c) => MayBeAllowed(c)')
  BY <1>1, <1>3 DEF MayRun, MayBeAllowed
<1>8. \A c \in d : MayRun(c)'
  BY <1>1, <1>6 DEF MayRun
<1>9. \A c \in p : MayBeAllowed(c)'
  BY <1>1, <1>6 DEF MayBeAllowed
<1>10. Waiting \cap new = {}
  BY <1>1, <1>2 DEF WaitersMayRun, MayRun
<1>11. suspended # None => (suspended.deferred \cup suspended.perms) \cap new = {}
  BY <1>1, <1>2 DEF WaitersMayRun, MayRun, MayBeAllowed
<1>12. WaitsOnce' /\ WaitersMayRun'
  <2>1. CASE p # {} /\ Suspend(p, d, serial, a) /\ UNCHANGED work
    <3>1. suspended'.perms = p /\ suspended'.deferred = d
      BY <2>1 DEF Suspend
    <3>2. Waiting' = Waiting
      BY <2>1 DEF Waiting
    <3>3. WaitsOnce'
      BY <1>1, <1>2, <1>10, <2>1, <3>1, <3>2 DEF WaitsOnce
    <3>4. WaitersMayRun'
      BY <1>2, <1>7, <1>8, <1>9, <3>1, <3>2 DEF WaitersMayRun
    <3>5. QED
      BY <3>3, <3>4
  <2>2. CASE /\ p = {} /\ pc' = "tools" /\ UNCHANGED suspended
             /\ work' = Admitted(d \ serial, serial, a)
    <3>1. /\ work'.parallel = d \ serial /\ work'.serial = serial /\ work'.started = {}
      BY <2>2 DEF Admitted
    <3>2. Waiting' = d /\ d \subseteq new
      BY <1>1, <2>2, <3>1 DEF Waiting
    <3>3. WaitsOnce'
      BY <1>11, <2>2, <3>1, <3>2 DEF WaitsOnce
    <3>4. WaitersMayRun'
      BY <1>2, <1>7, <1>8, <2>2, <3>2 DEF WaitersMayRun
    <3>5. QED
      BY <3>3, <3>4
  <2>3. QED
    BY <1>1, <2>1, <2>2
<1>13. NewHaveNotRun'
  BY <1>1, <1>2, <1>3 DEF NewHaveNotRun
<1>14. RunsOnlyApproved'
  <2> SUFFICES ASSUME NEW c \in 1 .. Len(calls')
               PROVE  /\ runs'[c] <= (IF calls'[c] \in {"run", "perm"} THEN 1 ELSE 0)
                      /\ calls'[c] = "perm" /\ runs'[c] > 0 => c \in approved'
    BY <1>4 DEF RunsOnlyApproved
  <2>1. CASE c \in new
    BY <1>6, <2>1
  <2>2. CASE c \in 1 .. Len(calls)
    BY <1>1, <1>2, <1>3, <2>2 DEF RunsOnlyApproved
  <2>3. QED
    BY <1>1, <2>1, <2>2
<1>15. QED
  BY <1>12, <1>13, <1>14 DEF CallsAreSafe

\* A call joins those that may run when the user has said yes.
LEMMA PermissionKeepsCalls ==
    ASSUME Shapes, CallsAreSafe, RespondPermission
    PROVE  CallsAreSafe'
<1>0. PICK c : c = Head(inbox).call
  OBVIOUS
<1>1. /\ WaitsOnce /\ WaitersMayRun /\ suspended \in Suspensions \cup {None}
  BY DEF CallsAreSafe, Shapes
<1>2. UNCHANGED calls /\ UNCHANGED runs /\ approved \subseteq approved'
  BY DEF RespondPermission
<1>3. CASE UNCHANGED <<work, suspended>>
  BY <1>2, <1>3, QuietCalls
<1>4. PICK ok \in BOOLEAN :
         \/ UNCHANGED <<work, suspended>>
         \/ Resolve(c, ok) /\ (ok => c \in approved')
  BY <1>0 DEF RespondPermission, engineVars, Allowed
<1>5. \A b : (MayRun(b) => MayRun(b)') /\ (MayBeAllowed(b) => MayBeAllowed(b)')
  BY <1>2, MayRunStays
<1>6. ASSUME NEW d, suspended # None, c \in suspended.perms,
             d = suspended.deferred \cup (IF ok THEN {c} ELSE {}), ok => c \in approved'
      PROVE  /\ \A b \in d : MayRun(b)'
             /\ d \cap Waiting = {} /\ d \subseteq suspended.deferred \cup suspended.perms
  <2>1. MayBeAllowed(c)'
    BY <1>1, <1>5, <1>6 DEF WaitersMayRun
  <2>2. ok => MayRun(c)'
    BY <1>6, <2>1 DEF MayRun, MayBeAllowed
  <2>3. \A b \in suspended.deferred : MayRun(b)'
    BY <1>1, <1>5, <1>6 DEF WaitersMayRun
  <2>4. \A b \in d : MayRun(b)'
    BY <1>6, <2>2, <2>3
  <2>5. d \subseteq suspended.deferred \cup suspended.perms
    BY <1>6
  <2>6. (suspended.deferred \cup suspended.perms) \cap Waiting = {}
    BY <1>1, <1>6 DEF WaitsOnce
  <2>7. QED
    BY <2>4, <2>5, <2>6
<1>7. ASSUME NEW d, suspended # None, c \in suspended.perms,
             d = suspended.deferred \cup (IF ok THEN {c} ELSE {}), ok => c \in approved',
             suspended' = [turn |-> suspended.turn, round |-> suspended.round,
                           perms |-> suspended.perms \ {c}, deferred |-> d,
                           serial |-> suspended.serial, asks |-> suspended.asks],
             UNCHANGED <<pc, run, work>>
      PROVE  CallsAreSafe'
  <2>1. suspended'.perms = suspended.perms \ {c} /\ suspended'.deferred = d
    BY <1>7
  <2>2. Waiting' = Waiting
    BY <1>7 DEF Waiting
  <2>3. /\ \A b \in d : MayRun(b)'
        /\ d \cap Waiting = {} /\ d \subseteq suspended.deferred \cup suspended.perms
    BY <1>6, <1>7
  <2>4. WaitsOnce'
    BY <1>1, <1>7, <2>1, <2>2, <2>3 DEF WaitsOnce
  <2>5. \A b \in Waiting' : MayRun(b)
    BY <1>1, <2>2 DEF WaitersMayRun
  <2>6. \A b \in suspended'.perms : MayBeAllowed(b)
    BY <1>1, <1>7, <2>1 DEF WaitersMayRun
  <2>7. \A b \in suspended'.deferred : MayRun(b)'
    BY <2>1, <2>3
  <2>8. QED
    BY <1>2, <2>4, <2>5, <2>6, <2>7, CallsKept
<1>8. ASSUME NEW d, suspended # None, c \in suspended.perms,
             d = suspended.deferred \cup (IF ok THEN {c} ELSE {}), ok => c \in approved',
             suspended' = None,
             work' = Admitted(d \ suspended.serial, d \cap suspended.serial, suspended.asks)
      PROVE  CallsAreSafe'
  <2>1. /\ work'.parallel = d \ suspended.serial /\ work'.serial = d \cap suspended.serial
        /\ work'.started = {}
    BY <1>8 DEF Admitted
  <2>2. Waiting' = d
    BY <2>1 DEF Waiting
  <2>3. \A b \in Waiting' : MayRun(b)'
    BY <1>6, <1>8, <2>2
  <2>4. WaitsOnce'
    BY <1>8, <2>1 DEF WaitsOnce
  <2>5. QED
    BY <1>2, <1>8, <2>3, <2>4, CallsKept
<1>9. CASE Resolve(c, ok) /\ (ok => c \in approved')
  <2>1. CASE (suspended = None \/ c \notin suspended.perms) /\ UNCHANGED <<pc, run, work, suspended>>
    BY <1>3, <2>1
  <2>2. CASE ~((suspended = None \/ c \notin suspended.perms)
                 /\ UNCHANGED <<pc, run, work, suspended>>)
    <3>1. PICK d :
            /\ suspended # None /\ c \in suspended.perms
            /\ d = suspended.deferred \cup (IF ok THEN {c} ELSE {})
            /\ \/ /\ suspended.perms \ {c} # {}
                  /\ suspended' = [turn |-> suspended.turn, round |-> suspended.round,
                                   perms |-> suspended.perms \ {c}, deferred |-> d,
                                   serial |-> suspended.serial, asks |-> suspended.asks]
                  /\ UNCHANGED <<pc, run, work>>
               \/ /\ suspended.perms \ {c} = {}
                  /\ suspended' = None
                  /\ run' = [turn |-> suspended.turn, round |-> suspended.round,
                             caller |-> "handler"]
                  /\ work' = Admitted(d \ suspended.serial,
                                      d \cap suspended.serial, suspended.asks)
                  /\ pc' = "tools"
      BY <1>1, <1>9, <2>2, ResolveFacts
    <3>2. QED
      BY <1>7, <1>8, <1>9, <3>1
  <2>3. QED
    BY <2>1, <2>2
<1>10. QED
  BY <1>3, <1>4, <1>9

LEMMA CallsAreSafeKept ==
    ASSUME Shapes, CallsAreSafe, [Next]_vars
    PROVE  CallsAreSafe'
<1>1. /\ WaitsOnce /\ WaitersMayRun /\ approved \subseteq approved'
  BY ApprovedGrows DEF CallsAreSafe
<1>2. (\E cmd \in Commands : Receive(cmd)) \/ Forward \/ FinishCompact \/ Exit \/ UNCHANGED vars
        => UNCHANGED <<calls, runs, work, suspended>>
  BY DEF Receive, Forward, FinishCompact, Exit, vars, toolGhosts, engineVars
<1>3. Lap => UNCHANGED <<calls, runs, work>> /\ suspended' \in {suspended, None}
  BY DEF Lap, LapCancelled, EnterGate, Abort, ResetEngines, toolGhosts, engineVars
<1>4. GateCancelled \/ GateFails \/ GateAnswers \/ GateAnswersWithSkill \/ GateRepeatsAnId
        => UNCHANGED <<calls, runs, work>> /\ suspended' \in {suspended, None}
  BY DEF GateCancelled, GateFails, GateAnswers, GateAnswersWithSkill, GateRepeatsAnId, Abort,
     ResetEngines, toolGhosts, engineVars
<1>5. ToolsCancelled \/ RoundDone
        => UNCHANGED <<calls, runs>> /\ work' = NoWork /\ suspended' \in {suspended, None}
  BY DEF ToolsCancelled, RoundDone, Abort, ResetEngines, toolGhosts
<1>6. SendMessage \/ Cancel \/ Shutdown \/ UndoTurn \/ StartCompact \/ DismissAsk
        => UNCHANGED <<calls, runs, work>> /\ suspended' \in {suspended, None}
  BY DEF SendMessage, Cancel, Shutdown, UndoTurn, StartCompact, DismissAsk, ResetEngines,
     toolGhosts, engineVars
<1>7. ASSUME UNCHANGED <<calls, runs>>, work' \in {work, NoWork}, suspended' \in {suspended, None}
      PROVE  CallsAreSafe'
  BY <1>1, <1>7, QuietCalls
<1>8. CASE Collect \/ CutSerial \/ StartSerial
  <2>1. UNCHANGED <<calls, runs, suspended>>
    BY <1>8 DEF Collect, CutSerial, StartSerial, toolGhosts
  <2>2. Waiting' \subseteq Waiting
    BY <1>8, SerialsLeave DEF Waiting
  <2>3. WaitsOnce'
    <3>1. /\ work'.parallel \cap work'.serial = {}
          /\ work'.started \cap (work'.parallel \cup work'.serial) = {}
          /\ \A b, c \in work'.started : b = c
      BY <1>1, <1>8, SerialsLeave DEF WaitsOnce
    <3>2. QED
      BY <1>1, <2>1, <2>2, <3>1 DEF WaitsOnce
  <2>4. QED
    BY <1>1, <2>1, <2>2, <2>3, CallsKept DEF WaitersMayRun
<1>9. CASE AskUser
  <2>1. UNCHANGED <<calls, runs>> /\ work' = NoWork
    BY <1>9 DEF AskUser, toolGhosts
  <2>2. suspended'.perms = {} /\ suspended'.deferred = {}
    BY <1>9 DEF AskUser, Suspend
  <2>3. Waiting' = {} /\ WaitsOnce'
    BY <2>1, <2>2, NoWorkIsBatch DEF Waiting, WaitsOnce
  <2>4. QED
    BY <1>1, <2>1, <2>2, <2>3, CallsKept
<1>10. CASE RespondAsk
  <2>1. UNCHANGED <<calls, runs, work>>
    BY <1>10 DEF RespondAsk, toolGhosts
  <2>2. \/ suspended' \in {suspended, None}
        \/ /\ suspended # None
           /\ suspended' = [suspended EXCEPT !.asks = @ \ {Head(inbox).call}]
    BY <1>10 DEF RespondAsk, ActiveAsk
  <2>3. CASE /\ suspended # None
             /\ suspended' = [suspended EXCEPT !.asks = @ \ {Head(inbox).call}]
    <3>1. suspended \in Suspensions
      BY <2>3 DEF Shapes
    <3>2. suspended'.perms = suspended.perms /\ suspended'.deferred = suspended.deferred
      BY <2>3, <3>1, FewerAsks
    <3>3. Waiting' = Waiting /\ WaitsOnce'
      BY <1>1, <2>1, <2>3, <3>2 DEF Waiting, WaitsOnce
    <3>4. QED
      BY <1>1, <2>1, <2>3, <3>2, <3>3, CallsKept DEF WaitersMayRun
  <2>4. QED
    BY <1>7, <2>1, <2>2, <2>3
<1>11. QED
  BY <1>2, <1>3, <1>4, <1>5, <1>6, <1>7, <1>8, <1>9, <1>10, NewCallsAreSafe, RunKeepsCalls,
     PermissionKeepsCalls DEF Next, Gate, Tools, Handle

----------------------------------------------------------------------------
(* The history, and who answers its open calls.                            *)

HistoryIsWorked == HistoryIsSound /\ OpenIsWorked

LEMMA KnownGrows ==
    ASSUME Shapes, [Next]_vars
    PROVE  Known \subseteq Known'
<1>1. CASE UNCHANGED calls
  BY <1>1 DEF Known
<1>2. ASSUME NEW n \in 1 .. MaxCalls, GateCalls(n)
      PROVE  Known \subseteq Known'
  <2>1. PICK kinds \in [1 .. n -> Kinds] : calls' = calls \o kinds
    BY <1>2 DEF GateCalls
  <2>2. n \in Nat /\ Len(calls) \in Nat /\ Len(calls') = Len(calls) + n
    BY <2>1, NewCalls
  <2>3. 1 .. Len(calls) \subseteq 1 .. Len(calls')
    BY <2>2
  <2>4. QED
    BY <2>3 DEF Known
<1>3. QED
  BY <1>1, <1>2, CallsGrow

LEMMA SoundOfTurns ==
    ASSUME HistoryIsSound
    PROVE  Sound(turns, Known) /\ Tidy(turns, Known)
  BY DEF HistoryIsSound, Sound

\* What is left sound is sound of the calls there are then.
LEMMA LeftSound ==
    ASSUME Known \subseteq Known', Sound(turns', Known)
    PROVE  HistoryIsSound'
<1>1. Sound(turns', Known')
  BY MoreKnown
<1>2. QED
  BY <1>1 DEF HistoryIsSound

\* Nothing is open any more.
LEMMA LeftClosed ==
    ASSUME Known \subseteq Known', Tidy(turns', Known), Open(turns') = {}
    PROVE  HistoryIsWorked'
<1>1. Sound(turns', Known)
  BY ClosedIsSound
<1>2. HistoryIsSound'
  BY <1>1, LeftSound
<1>3. OpenIsWorked'
  BY DEF OpenIsWorked
<1>4. QED
  BY <1>2, <1>3 DEF HistoryIsWorked

\* The loop is back at its queue and no turn waits.
LEMMA LeftIdle ==
    ASSUME Known \subseteq Known', Sound(turns', Known), pc' = "idle", suspended' = None
    PROVE  HistoryIsWorked'
<1>1. HistoryIsSound'
  BY LeftSound
<1>2. OpenIsWorked'
  BY DEF OpenIsWorked
<1>3. QED
  BY <1>1, <1>2 DEF HistoryIsWorked

\* The steps that leave the history, the work and the suspension alone.
LEMMA LeftAlone ==
    ASSUME HistoryIsWorked, Known \subseteq Known', UNCHANGED <<turns, work, suspended>>,
           pc' \in {pc, "stopped"}, pc = "tools" /\ cancel => cancel'
    PROVE  HistoryIsWorked'
<1>1. HistoryIsSound'
  BY LeftSound DEF HistoryIsWorked, HistoryIsSound
<1>2. OpenIsWorked'
  BY DEF OpenIsWorked, HistoryIsWorked, Waiting
<1>3. QED
  BY <1>1, <1>2 DEF HistoryIsWorked

LEMMA Aborted ==
    ASSUME Shapes, HistoryIsWorked, Known \subseteq Known', Abort
    PROVE  HistoryIsWorked'
<1>1. Tidy(turns, Known)
  BY SoundOfTurns DEF HistoryIsWorked
<1>2. Tidy(RemoveIncomplete(turns), Known) /\ Open(RemoveIncomplete(turns)) = {}
  BY <1>1, RemoveIncompleteKeeps
<1>3. Sound(RemoveIncomplete(turns), Known)
  BY <1>2, ClosedIsSound
<1>4. compact # None => compact.keep \in Nat
  BY DEF Shapes
<1>5. compact # None => Sound(Compacted(RemoveIncomplete(turns), compact.keep), Known)
  BY <1>3, <1>4, CompactedKeeps
<1>6. Sound(turns', Known) /\ pc' = "idle" /\ suspended' = None
  BY <1>3, <1>5 DEF Abort, ResetEngines
<1>7. QED
  BY <1>6, LeftIdle

\* After a lap with nothing open, compacted or not.
LEMMA Polled ==
    ASSUME Shapes, Known \subseteq Known', NEW h, Tidy(h, Known), Open(h) = {}, PollCompact(h)
    PROVE  HistoryIsWorked'
<1>1. Sound(h, Known)
  BY ClosedIsSound
<1>2. compact # None => compact.keep \in Nat
  BY DEF Shapes
<1>3. compact # None => /\ Sound(Compacted(h, compact.keep), Known)
                        /\ Open(Compacted(h, compact.keep)) = {}
  BY <1>1, <1>2, CompactedKeeps
<1>4. Sound(turns', Known) /\ Open(turns') = {}
  BY <1>1, <1>3 DEF PollCompact
<1>5. QED
  BY <1>4, LeftClosed DEF Sound

LEMMA LapKeepsHistory ==
    ASSUME Shapes, HistoryIsWorked, Known \subseteq Known', Lap
    PROVE  HistoryIsWorked'
<1>1. CASE LapCancelled
  BY <1>1, Aborted DEF LapCancelled
<1>2. CASE EnterGate
  <2>1. Sound(turns, Known) /\ Open(turns) = {}
    BY <1>2, SoundOfTurns DEF EnterGate, HistoryIsWorked, OpenIsWorked
  <2>2. \A keep \in Keeps : Sound(Compacted(turns, keep), Known) /\ Open(Compacted(turns, keep)) = {}
    BY <2>1, CompactedKeeps DEF Keeps
  <2>3. Sound(turns', Known) /\ Open(turns') = {}
    BY <1>2, <2>1, <2>2 DEF EnterGate
  <2>4. QED
    BY <2>3, LeftClosed DEF Sound
<1>3. QED
  BY <1>1, <1>2 DEF Lap

LEMMA GateKeepsHistory ==
    ASSUME Shapes, HistoryIsWorked, Known \subseteq Known',
           \/ GateCancelled \/ GateFails \/ GateAnswers \/ GateAnswersWithSkill \/ GateRepeatsAnId
    PROVE  HistoryIsWorked'
<1>1. Tidy(turns, Known)
  BY SoundOfTurns DEF HistoryIsWorked
<1>2. CASE GateCancelled
  BY <1>2, Aborted DEF GateCancelled
<1>3. CASE GateFails
  <2>1. Open(turns) = {} /\ UNCHANGED turns
    BY <1>3 DEF GateFails, HistoryIsWorked, OpenIsWorked
  <2>2. QED
    BY <1>1, <2>1, LeftClosed
<1>4. {} \in SUBSET Nat /\ Known \cup {} = Known
  OBVIOUS
<1>5. Tidy(PushAssistant(turns, {}), Known \cup {}) /\ Open(PushAssistant(turns, {})) \subseteq {}
  BY <1>1, <1>4, PushAssistantKeeps
<1>6. Tidy(PushAssistant(turns, {}), Known) /\ Open(PushAssistant(turns, {})) = {}
  BY <1>4, <1>5
<1>7. CASE GateAnswers
  <2>1. turns' = PushAssistant(turns, {})
    BY <1>7 DEF GateAnswers
  <2>2. QED
    BY <1>6, <2>1, LeftClosed
<1>8. CASE GateAnswersWithSkill
  <2>1. PollCompact(PushAssistant(turns, {}))
    BY <1>8 DEF GateAnswersWithSkill, ContinueTurn
  <2>2. QED
    BY <1>6, <2>1, Polled
<1>9. CASE GateRepeatsAnId
  <2> DEFINE own == {MaxCalls + 1}
  <2>1. own \in SUBSET Nat /\ Known \cup own = Known
    BY AgentAssumption DEF Known
  <2>2. turns' = RemoveIncomplete(PushAssistant(turns, own))
    BY <1>9 DEF GateRepeatsAnId
  <2> HIDE DEF own
  <2>3. Tidy(PushAssistant(turns, own), Known \cup own)
    BY <1>1, <2>1, PushAssistantKeeps
  <2>4. Tidy(turns', Known) /\ Open(turns') = {}
    BY <2>1, <2>2, <2>3, RemoveIncompleteKeeps
  <2>5. QED
    BY <2>4, LeftClosed
<1>10. QED
  BY <1>2, <1>3, <1>7, <1>8, <1>9

\* The calls of an answer that are not refused at once are with the batch or the suspension.
LEMMA NewCallsAreWorked ==
    ASSUME Shapes, HistoryIsWorked, Known \subseteq Known', NEW n \in 1 .. MaxCalls, GateCalls(n)
    PROVE  HistoryIsWorked'
<1>1. PICK new, serial, p, d, a, r :
              /\ new \subseteq Nat /\ new = (Len(calls) + 1) .. (Len(calls) + n) /\ Len(calls') = Len(calls) + n
              /\ new \cap (1 .. Len(calls)) = {} /\ new \subseteq 1 .. Len(calls')
              /\ 1 .. Len(calls') = 1 .. Len(calls) \cup new
              /\ \A c \in 1 .. Len(calls) : calls'[c] = calls[c]
              /\ new = p \cup d \cup a \cup r
              /\ p \cap d = {}
              /\ serial \subseteq p \cup d
              /\ \A c \in p : calls'[c] = "perm"
              /\ \A c \in d : calls'[c] = "run"
              /\ turns' = PushResults(PushAssistant(turns, new), r, "refused")
              /\ \/ /\ p # {} /\ Suspend(p, d, serial, a) /\ UNCHANGED work
                 \/ /\ p = {} /\ pc' = "tools" /\ UNCHANGED suspended
                    /\ work' = Admitted(d \ serial, serial, a)
  BY GateCallsFacts
<1>2. Tidy(turns, Known)
  BY SoundOfTurns DEF HistoryIsWorked
<1>3. /\ Len(calls) + n <= MaxCalls /\ Len(calls) \in Nat /\ MaxCalls \in Nat /\ n \in Nat
  BY AgentAssumption DEF GateCalls, Shapes
<1>4. new \cap Known = {}
  BY <1>1, <1>3 DEF Known
<1>5. Known \cup new \subseteq Known'
  BY <1>1 DEF Known
<1> DEFINE h == PushAssistant(turns, new)
<1>6. Tidy(h, Known \cup new) /\ Open(h) \subseteq new /\ OpenAskedOnce(h)
  BY <1>1, <1>2, <1>4, PushAssistantKeeps
<1>7. turns' = PushResults(h, r, "refused")
  BY <1>1
<1> HIDE DEF h
<1>8. Sound(h, Known \cup new) /\ "refused" \in Answers
  BY <1>6 DEF Sound, Answers
<1>9. Sound(turns', Known \cup new) /\ Open(turns') \subseteq Open(h) \ r
  BY <1>7, <1>8, PushResultsKeeps
<1>10. HistoryIsSound'
  <2>1. Sound(turns', Known')
    BY <1>5, <1>9, MoreKnown
  <2>2. QED
    BY <2>1 DEF HistoryIsSound
<1>11. Open(turns') \subseteq p \cup d \cup a
  BY <1>1, <1>6, <1>9
<1>12. CASE p # {} /\ Suspend(p, d, serial, a) /\ UNCHANGED work
  <2>1. /\ suspended'.perms = p /\ suspended'.deferred = d /\ suspended'.asks = a
        /\ pc' = "idle"
    BY <1>12 DEF Suspend
  <2>2. OpenIsWorked'
    BY <1>11, <2>1 DEF OpenIsWorked
  <2>3. QED
    BY <1>10, <2>2 DEF HistoryIsWorked
<1>13. CASE p = {} /\ pc' = "tools" /\ work' = Admitted(d \ serial, serial, a)
  <2>1. work'.parallel = d \ serial /\ work'.serial = serial /\ work'.asks = a
    BY <1>13 DEF Admitted
  <2>2. OpenIsWorked'
    BY <1>1, <1>11, <1>13, <2>1 DEF OpenIsWorked, Waiting
  <2>3. QED
    BY <1>10, <2>2 DEF HistoryIsWorked
<1>14. QED
  BY <1>1, <1>12, <1>13

\* The tools.
LEMMA RunKeepsHistory ==
    ASSUME Shapes, HistoryIsWorked, WaitsOnce, Known \subseteq Known',
           NEW c \in 1 .. MaxCalls, RunParallel(c) \/ RunSerial(c)
    PROVE  HistoryIsWorked'
<1>1. Sound(turns, Known) /\ OpenIsWorked /\ pc = "tools"
  BY SoundOfTurns DEF HistoryIsWorked, RunParallel, RunSerial
<1>2. CASE RunParallel(c)
  <2>1. UNCHANGED <<turns, cancel, pc>>
    BY <1>2 DEF RunParallel
  <2>2. Waiting \cup work.finished \cup work.asks
          \subseteq Waiting' \cup work'.finished \cup work'.asks
    BY <1>2, ToolsLeave DEF Waiting
  <2>3. OpenIsWorked'
    BY <1>1, <2>1, <2>2 DEF OpenIsWorked
  <2>4. HistoryIsSound'
    BY <1>1, <2>1, LeftSound
  <2>5. QED
    BY <2>3, <2>4 DEF HistoryIsWorked
<1>3. CASE RunSerial(c)
  <2>1. UNCHANGED <<cancel, pc>> /\ c \in work.started
    BY <1>3 DEF RunSerial
  <2>2. PICK answer \in Answers : turns' = PushResults(turns, {c}, answer)
    BY <1>3 DEF RunSerial, PushResult, Answers
  <2>3. Sound(turns', Known) /\ Open(turns') \subseteq Open(turns) \ {c}
    BY <1>1, <2>2, PushResultsKeeps
  <2>4. work.started = {c}
    BY <2>1 DEF WaitsOnce
  <2>5. Waiting \cup work.finished \cup work.asks
          \subseteq Waiting' \cup work'.finished \cup work'.asks \cup {c}
    BY <1>3, <2>4, ToolsLeave DEF Waiting
  <2>6. OpenIsWorked'
    BY <1>1, <2>1, <2>3, <2>5 DEF OpenIsWorked
  <2>7. HistoryIsSound'
    BY <2>3, LeftSound
  <2>8. QED
    BY <2>6, <2>7 DEF HistoryIsWorked
<1>4. QED
  BY <1>2, <1>3

LEMMA CollectKeepsHistory ==
    ASSUME Shapes, HistoryIsWorked, Known \subseteq Known', Collect \/ CutSerial \/ StartSerial
    PROVE  HistoryIsWorked'
<1>1. Sound(turns, Known) /\ OpenIsWorked /\ pc = "tools" /\ UNCHANGED <<cancel, pc>>
  BY SoundOfTurns DEF HistoryIsWorked, Collect, CutSerial, StartSerial, SerialsNext
<1>2. "ran" \in Answers
  BY DEF Answers
<1>3. /\ Sound(turns', Known)
      /\ cancel \/ Open(turns') \subseteq Waiting' \cup work'.finished \cup work'.asks
  <2>1. CASE Collect
    <3>1. CASE cancel
      BY <1>1, <2>1, <3>1 DEF Collect
    <3>2. CASE ~cancel
      <4>1. turns' = PushResults(turns, work.finished, "ran")
        BY <2>1, <3>2 DEF Collect
      <4>2. Sound(turns', Known) /\ Open(turns') \subseteq Open(turns) \ work.finished
        BY <1>1, <1>2, <4>1, PushResultsKeeps
      <4>3. Open(turns) \subseteq Waiting \cup work.finished \cup work.asks
        BY <1>1, <3>2 DEF OpenIsWorked
      <4>4. Waiting' = Waiting /\ work'.asks = work.asks
        BY <2>1, SerialsLeave DEF Waiting
      <4>5. QED
        BY <4>2, <4>3, <4>4
    <3>3. QED
      BY <3>1, <3>2
  <2>2. CASE CutSerial
    BY <1>1, <2>2 DEF CutSerial
  <2>3. CASE StartSerial
    <3>1. UNCHANGED turns
      BY <2>3 DEF StartSerial
    <3>4. PICK c \in work.serial :
             /\ work'.parallel = work.parallel /\ work'.serial = work.serial \ {c}
             /\ work'.started = {c} /\ work'.finished = work.finished
             /\ work'.asks = work.asks
      BY <2>3, SerialsLeave
    <3>5. work.started = {}
      BY <2>3 DEF StartSerial, SerialsNext
    <3>2. Waiting \subseteq Waiting' /\ work'.finished = work.finished /\ work'.asks = work.asks
      BY <3>4, <3>5 DEF Waiting
    <3>3. QED
      BY <1>1, <3>1, <3>2 DEF OpenIsWorked
  <2>4. QED
    BY <2>1, <2>2, <2>3
<1>4. HistoryIsSound'
  BY <1>3, LeftSound
<1>5. OpenIsWorked'
  BY <1>1, <1>3 DEF OpenIsWorked
<1>6. QED
  BY <1>4, <1>5 DEF HistoryIsWorked

LEMMA RoundKeepsHistory ==
    ASSUME Shapes, HistoryIsWorked, Known \subseteq Known', ToolsCancelled \/ AskUser \/ RoundDone
    PROVE  HistoryIsWorked'
<1>1. Sound(turns, Known) /\ Tidy(turns, Known) /\ OpenIsWorked
  BY SoundOfTurns DEF HistoryIsWorked
<1>2. CASE ToolsCancelled
  BY <1>2, Aborted DEF ToolsCancelled
<1>3. CASE AskUser \/ RoundDone
  <2>1. ToolsDone /\ ~cancel
    BY <1>3 DEF AskUser, RoundDone
  <2>2. Open(turns) \subseteq work.asks
    BY <1>1, <2>1 DEF OpenIsWorked, ToolsDone, Waiting
  <2>3. CASE AskUser
    <3>1. UNCHANGED turns /\ pc' = "idle" /\ suspended'.asks = work.asks
      BY <2>3 DEF AskUser, Suspend
    <3>2. OpenIsWorked'
      BY <2>2, <3>1 DEF OpenIsWorked
    <3>3. HistoryIsSound'
      BY <1>1, <3>1, LeftSound
    <3>4. QED
      BY <3>2, <3>3 DEF HistoryIsWorked
  <2>4. CASE RoundDone
    <3>1. Open(turns) = {}
      BY <2>2, <2>4 DEF RoundDone
    <3>2. UNCHANGED turns \/ PollCompact(turns)
      BY <2>4 DEF RoundDone, ContinueTurn
    <3>3. CASE UNCHANGED turns
      BY <1>1, <3>1, <3>3, LeftClosed
    <3>4. CASE PollCompact(turns)
      BY <1>1, <3>1, <3>4, Polled
    <3>5. QED
      BY <3>2, <3>3, <3>4
  <2>5. QED
    BY <1>3, <2>3, <2>4
<1>4. QED
  BY <1>2, <1>3

\* The answers of the user.
LEMMA PermissionKeepsHistory ==
    ASSUME Shapes, HistoryIsWorked, Known \subseteq Known', RespondPermission
    PROVE  HistoryIsWorked'
<1>1. PICK c : c = Head(inbox).call
  OBVIOUS
<1>2. /\ Sound(turns, Known) /\ OpenIsWorked /\ suspended \in Suspensions \cup {None}
      /\ pc = "idle"
  BY SoundOfTurns DEF HistoryIsWorked, RespondPermission, Dispatch, Shapes
<1>3. CASE UNCHANGED <<pc, engineVars, turns>>
  BY <1>2, <1>3, LeftAlone DEF engineVars
<1>4. PICK ok \in BOOLEAN :
         \/ UNCHANGED <<pc, engineVars, turns>>
         \/ /\ turns' = IF ok THEN turns ELSE PushResults(turns, {c}, "refused")
            /\ Resolve(c, ok)
  BY <1>1 DEF RespondPermission, PushResult
<1>5. CASE /\ turns' = IF ok THEN turns ELSE PushResults(turns, {c}, "refused")
           /\ Resolve(c, ok)
  <2>1. "refused" \in Answers
    BY DEF Answers
  <2>2. /\ Sound(turns', Known) /\ Open(turns') \subseteq Open(turns)
        /\ ok \/ c \notin Open(turns')
    BY <1>2, <1>5, <2>1, PushResultsKeeps
  <2>3. HistoryIsSound'
    BY <2>2, LeftSound
  <2>4. CASE (suspended = None \/ c \notin suspended.perms) /\ UNCHANGED <<pc, run, work, suspended>>
    <3>1. OpenIsWorked'
      BY <1>2, <2>2, <2>4 DEF OpenIsWorked
    <3>2. QED
      BY <2>3, <3>1 DEF HistoryIsWorked
  <2>5. CASE ~((suspended = None \/ c \notin suspended.perms)
                 /\ UNCHANGED <<pc, run, work, suspended>>)
    <3>1. PICK d :
            /\ suspended # None /\ c \in suspended.perms
            /\ d = suspended.deferred \cup (IF ok THEN {c} ELSE {})
            /\ \/ /\ suspended.perms \ {c} # {}
                  /\ suspended' = [turn |-> suspended.turn, round |-> suspended.round,
                                   perms |-> suspended.perms \ {c}, deferred |-> d,
                                   serial |-> suspended.serial, asks |-> suspended.asks]
                  /\ UNCHANGED <<pc, run, work>>
               \/ /\ suspended.perms \ {c} = {}
                  /\ suspended' = None
                  /\ run' = [turn |-> suspended.turn, round |-> suspended.round,
                             caller |-> "handler"]
                  /\ work' = Admitted(d \ suspended.serial,
                                      d \cap suspended.serial, suspended.asks)
                  /\ pc' = "tools"
      BY <1>2, <1>5, <2>5, ResolveFacts
    <3>2. Open(turns) \subseteq suspended.perms \cup suspended.deferred \cup suspended.asks
      BY <1>2, <3>1 DEF OpenIsWorked
    <3>3. Open(turns') \subseteq (suspended.perms \ {c}) \cup d \cup suspended.asks
      BY <2>2, <3>1, <3>2
    <3>4. CASE /\ suspended' = [turn |-> suspended.turn, round |-> suspended.round,
                                perms |-> suspended.perms \ {c}, deferred |-> d,
                                serial |-> suspended.serial, asks |-> suspended.asks]
               /\ UNCHANGED <<pc, run, work>>
      <4>1. /\ suspended'.perms = suspended.perms \ {c} /\ suspended'.deferred = d
            /\ suspended'.asks = suspended.asks
        BY <3>4
      <4>2. OpenIsWorked'
        BY <1>2, <3>3, <3>4, <4>1 DEF OpenIsWorked
      <4>3. QED
        BY <2>3, <4>2 DEF HistoryIsWorked
    <3>5. CASE /\ suspended.perms \ {c} = {}
               /\ work' = Admitted(d \ suspended.serial,
                                   d \cap suspended.serial, suspended.asks)
               /\ pc' = "tools"
      <4>1. /\ work'.parallel = d \ suspended.serial /\ work'.serial = d \cap suspended.serial
            /\ work'.asks = suspended.asks
        BY <3>5 DEF Admitted
      <4>2. d \subseteq Waiting'
        BY <4>1 DEF Waiting
      <4>3. OpenIsWorked'
        BY <3>3, <3>5, <4>1, <4>2 DEF OpenIsWorked
      <4>4. QED
        BY <2>3, <4>3 DEF HistoryIsWorked
    <3>6. QED
      BY <3>1, <3>4, <3>5
  <2>6. QED
    BY <2>4, <2>5
<1>6. QED
  BY <1>3, <1>4, <1>5

LEMMA AskKeepsHistory ==
    ASSUME Shapes, HistoryIsWorked, DeferredWaitForPermission, Known \subseteq Known', RespondAsk
    PROVE  HistoryIsWorked'
<1>1. PICK c : c = Head(inbox).call
  OBVIOUS
<1>2. /\ Sound(turns, Known) /\ OpenIsWorked /\ suspended \in Suspensions \cup {None}
      /\ pc = "idle" /\ UNCHANGED work
  BY SoundOfTurns DEF HistoryIsWorked, RespondAsk, Dispatch, Shapes
<1>3. CASE UNCHANGED <<pc, run, suspended, turns>>
  BY <1>2, <1>3, LeftAlone
<1>4. CASE /\ ActiveAsk(c)
           /\ turns' = PushResults(turns, {c}, "ran")
           /\ \/ suspended' = [suspended EXCEPT !.asks = @ \ {c}] /\ UNCHANGED <<pc, run>>
              \/ suspended.asks = {c} /\ pc' = "lap"
  <2>1. "ran" \in Answers
    BY DEF Answers
  <2>2. Sound(turns', Known) /\ Open(turns') \subseteq Open(turns) \ {c}
    BY <1>2, <1>4, <2>1, PushResultsKeeps
  <2>3. HistoryIsSound'
    BY <2>2, LeftSound
  <2>4. suspended # None /\ suspended.perms = {} /\ suspended.deferred = {}
    BY <1>4 DEF ActiveAsk, DeferredWaitForPermission
  <2>5. Open(turns') \subseteq suspended.asks \ {c}
    BY <1>2, <2>2, <2>4 DEF OpenIsWorked
  <2>6. CASE suspended' = [suspended EXCEPT !.asks = @ \ {c}] /\ UNCHANGED <<pc, run>>
    <3>1. suspended \in Suspensions
      BY <1>2, <2>4
    <3>2. suspended'.asks = suspended.asks \ {c}
      BY <2>6, <3>1, FewerAsks
    <3>3. OpenIsWorked'
      BY <1>2, <2>5, <2>6, <3>2 DEF OpenIsWorked
    <3>4. QED
      BY <2>3, <3>3 DEF HistoryIsWorked
  <2>7. CASE suspended.asks = {c} /\ pc' = "lap"
    <3>1. Open(turns') = {}
      BY <2>5, <2>7
    <3>2. QED
      BY <2>2, <3>1, LeftClosed DEF Sound
  <2>8. QED
    BY <1>4, <2>6, <2>7
<1>5. QED
  BY <1>1, <1>3, <1>4 DEF RespondAsk, PushResult

LEMMA HandlersKeepHistory ==
    ASSUME Shapes, HistoryIsWorked, Known \subseteq Known',
           SendMessage \/ Cancel \/ Shutdown \/ UndoTurn \/ StartCompact \/ DismissAsk
    PROVE  HistoryIsWorked'
<1>1. Sound(turns, Known) /\ Tidy(turns, Known) /\ pc = "idle"
  BY SoundOfTurns DEF HistoryIsWorked, SendMessage, Cancel, Shutdown, UndoTurn, StartCompact,
     DismissAsk, Dispatch
<1>2. ASSUME UNCHANGED <<turns, work, suspended, pc>>
      PROVE  HistoryIsWorked'
  BY <1>1, <1>2, LeftAlone
<1>3. CASE SendMessage
  <2>1. CASE UNCHANGED <<pc, run, turns, timeline>>
    BY <1>2, <1>3, <2>1 DEF SendMessage
  <2>2. CASE turns' = PushUser(turns, Len(timeline) + 1)
    <3>1. Len(timeline) + 1 \in Nat
      BY DEF Shapes
    <3>2. Tidy(turns', Known) /\ Open(turns') = {}
      BY <1>1, <2>2, <3>1, PushUserKeeps
    <3>3. QED
      BY <3>2, LeftClosed
  <2>3. QED
    BY <1>3, <2>1, <2>2 DEF SendMessage
<1>4. CASE Cancel
  <2>1. UNCHANGED <<turns, pc>> /\ suspended' = None
    BY <1>4 DEF Cancel, ResetEngines
  <2>2. QED
    BY <1>1, <2>1, LeftIdle
<1>5. CASE Shutdown \/ StartCompact
  BY <1>2, <1>5 DEF Shutdown, StartCompact, engineVars
<1>6. CASE UndoTurn
  <2>1. CASE UNCHANGED <<suspended, pending, turns>>
    BY <1>2, <1>6, <2>1 DEF UndoTurn
  <2>2. CASE suspended' = None /\ turns' = Truncate(turns, Head(inbox).turn)
    <3>1. Head(inbox).turn \in Nat
      BY <1>6, DispatchFacts, SentFacts DEF UndoTurn
    <3>2. Sound(turns', Known) /\ UNCHANGED pc
      BY <1>1, <1>6, <2>2, <3>1, TruncateKeeps DEF UndoTurn
    <3>3. QED
      BY <1>1, <2>2, <3>2, LeftIdle
  <2>3. QED
    BY <1>6, <2>1, <2>2 DEF UndoTurn
<1>7. CASE DismissAsk
  <2>1. CASE UNCHANGED <<suspended, turns>>
    BY <1>2, <1>7, <2>1 DEF DismissAsk
  <2>2. CASE turns' = RemoveIncomplete(turns)
    <3>1. Tidy(turns', Known) /\ Open(turns') = {}
      BY <1>1, <2>2, RemoveIncompleteKeeps
    <3>2. QED
      BY <3>1, LeftClosed
  <2>3. QED
    BY <1>7, <2>1, <2>2 DEF DismissAsk
<1>8. QED
  BY <1>3, <1>4, <1>5, <1>6, <1>7

LEMMA HistoryIsWorkedKept ==
    ASSUME Shapes, WaitsOnce, HistoryIsWorked, DeferredWaitForPermission, [Next]_vars
    PROVE  HistoryIsWorked'
<1>1. Known \subseteq Known'
  BY KnownGrows
<1>2. ASSUME NEW cmd, Receive(cmd)
      PROVE  HistoryIsWorked'
  <2>1. UNCHANGED <<turns, work, suspended, pc>> /\ (cancel => cancel')
    BY <1>2 DEF Receive, Raise, engineVars
  <2>2. QED
    BY <1>1, <2>1, LeftAlone
<1>3. CASE Forward \/ Exit \/ UNCHANGED vars
  <2>1. UNCHANGED <<turns, work, suspended, cancel>> /\ pc' \in {pc, "stopped"}
    BY <1>3 DEF Forward, Exit, vars, engineVars
  <2>2. QED
    BY <1>1, <2>1, LeftAlone
<1>4. CASE FinishCompact
  <2>1. /\ Sound(turns, Known) /\ OpenIsWorked /\ UNCHANGED <<pc, suspended>> /\ pc = "idle"
        /\ turns' \in {turns, Compacted(turns, compact.keep)} /\ compact.keep \in Nat
    BY <1>4, SoundOfTurns DEF HistoryIsWorked, FinishCompact, engineVars, Shapes
  <2>2. Sound(turns', Known) /\ Open(turns') = Open(turns)
    BY <2>1, CompactedKeeps
  <2>3. OpenIsWorked'
    BY <2>1, <2>2 DEF OpenIsWorked
  <2>4. QED
    BY <1>1, <2>2, <2>3, LeftSound DEF HistoryIsWorked
<1>5. CASE Lap
  BY <1>1, <1>5, LapKeepsHistory
<1>6. CASE Gate
  BY <1>1, <1>6, GateKeepsHistory, NewCallsAreWorked DEF Gate
<1>7. CASE Tools
  BY <1>1, <1>7, RunKeepsHistory, CollectKeepsHistory, RoundKeepsHistory DEF Tools
<1>8. CASE Handle
  BY <1>1, <1>8, PermissionKeepsHistory, AskKeepsHistory, HandlersKeepHistory DEF Handle
<1>9. QED
  BY <1>2, <1>3, <1>4, <1>5, <1>6, <1>7, <1>8 DEF Next

LEMMA DeferredKept ==
    ASSUME Shapes, DeferredWaitForPermission, [Next]_vars
    PROVE  DeferredWaitForPermission'
<1>1. suspended' \in {suspended, None} => DeferredWaitForPermission'
  BY DEF DeferredWaitForPermission
<1>2. (\E cmd \in Commands : Receive(cmd)) \/ Forward \/ FinishCompact \/ Exit \/ UNCHANGED vars
        => UNCHANGED suspended
  BY DEF Receive, Forward, FinishCompact, Exit, vars, engineVars
<1>3. Lap => suspended' \in {suspended, None}
  BY DEF Lap, LapCancelled, EnterGate, Abort, ResetEngines, engineVars
<1>4. GateCancelled \/ GateFails \/ GateAnswers \/ GateAnswersWithSkill \/ GateRepeatsAnId
        => suspended' \in {suspended, None}
  BY DEF GateCancelled, GateFails, GateAnswers, GateAnswersWithSkill, GateRepeatsAnId, Abort,
     ResetEngines, engineVars
<1>5. ASSUME NEW n \in 1 .. MaxCalls, GateCalls(n)
      PROVE  DeferredWaitForPermission'
  <2>1. PICK new, serial, p, d, a, r :
                /\ new \subseteq Nat /\ new = (Len(calls) + 1) .. (Len(calls) + n) /\ Len(calls') = Len(calls) + n
                /\ new \cap (1 .. Len(calls)) = {} /\ new \subseteq 1 .. Len(calls')
                /\ 1 .. Len(calls') = 1 .. Len(calls) \cup new
                /\ \A c \in 1 .. Len(calls) : calls'[c] = calls[c]
                /\ new = p \cup d \cup a \cup r
                /\ p \cap d = {}
                /\ serial \subseteq p \cup d
                /\ \A c \in p : calls'[c] = "perm"
                /\ \A c \in d : calls'[c] = "run"
                /\ turns' = PushResults(PushAssistant(turns, new), r, "refused")
                /\ \/ /\ p # {} /\ Suspend(p, d, serial, a) /\ UNCHANGED work
                   \/ /\ p = {} /\ pc' = "tools" /\ UNCHANGED suspended
                      /\ work' = Admitted(d \ serial, serial, a)
    BY <1>5, GateCallsFacts
  <2>2. QED
    BY <1>1, <2>1 DEF Suspend, DeferredWaitForPermission
<1>6. CASE AskUser
  BY <1>6 DEF AskUser, Suspend, DeferredWaitForPermission
<1>7. (\E c \in 1 .. MaxCalls : RunParallel(c) \/ RunSerial(c)) \/ Collect \/ CutSerial
        \/ StartSerial \/ ToolsCancelled \/ RoundDone => suspended' \in {suspended, None}
  BY DEF RunParallel, RunSerial, Collect, CutSerial, StartSerial, ToolsCancelled, RoundDone, Abort,
     ResetEngines
<1>8. CASE RespondPermission
  <2>1. PICK c : c = Head(inbox).call
    OBVIOUS
  <2>2. PICK ok \in BOOLEAN : UNCHANGED suspended \/ Resolve(c, ok)
    BY <1>8, <2>1 DEF RespondPermission, engineVars
  <2>3. CASE Resolve(c, ok)
    <3>1. \/ suspended' \in {suspended, None}
          \/ \E d : /\ suspended.perms \ {c} # {}
                    /\ suspended' = [turn |-> suspended.turn, round |-> suspended.round,
                                     perms |-> suspended.perms \ {c}, deferred |-> d,
                                     serial |-> suspended.serial, asks |-> suspended.asks]
      BY <2>3, ResolveFacts DEF Shapes
    <3>2. QED
      BY <1>1, <3>1 DEF DeferredWaitForPermission
  <2>4. QED
    BY <1>1, <2>2, <2>3
<1>9. CASE RespondAsk
  <2>1. \/ suspended' \in {suspended, None}
        \/ /\ suspended # None
           /\ suspended' = [suspended EXCEPT !.asks = @ \ {Head(inbox).call}]
    BY <1>9 DEF RespondAsk, ActiveAsk
  <2>2. CASE /\ suspended # None
             /\ suspended' = [suspended EXCEPT !.asks = @ \ {Head(inbox).call}]
    <3>1. suspended \in Suspensions
      BY <2>2 DEF Shapes
    <3>2. suspended'.perms = suspended.perms /\ suspended'.deferred = suspended.deferred
      BY <2>2, <3>1, FewerAsks
    <3>3. QED
      BY <2>2, <3>2 DEF DeferredWaitForPermission
  <2>3. QED
    BY <1>1, <2>1, <2>2
<1>10. SendMessage \/ Cancel \/ Shutdown \/ UndoTurn \/ StartCompact \/ DismissAsk
         => suspended' \in {suspended, None}
  BY DEF SendMessage, Cancel, Shutdown, UndoTurn, StartCompact, DismissAsk, engineVars, ResetEngines
<1>11. QED
  BY <1>1, <1>2, <1>3, <1>4, <1>5, <1>6, <1>7, <1>8, <1>9, <1>10 DEF Next, Gate, Tools, Handle

----------------------------------------------------------------------------
(* The theorems.                                                           *)

LEMMA InitShapes == Init => Shapes /\ TurnsExist
<1> SUFFICES ASSUME Init PROVE Shapes /\ TurnsExist
  OBVIOUS
<1>1. /\ inbox = <<>> /\ timeline = <<>> /\ calls = <<>>
      /\ arriving = None /\ cancel = FALSE /\ pc = "idle" /\ work = NoWork
      /\ suspended = None /\ compact = None
  BY DEF Init
<1>2. <<>> \in Seq(Sent) /\ <<>> \in Seq({"running", "sealed"}) /\ <<>> \in Seq(Kinds)
      /\ Len(<<>>) = 0
  OBVIOUS
<1>3. MaxCalls \in Nat
  BY AgentAssumption
<1>4. run \in Runs
  BY DEF Init, Runs
<1>5. runs \in [1 .. MaxCalls -> Nat]
  BY DEF Init
<1>6. work \in Batches
  BY <1>1, NoWorkIsBatch
<1>7. calls \in Seq(Kinds) /\ Len(calls) <= MaxCalls
  BY <1>1, <1>2, <1>3
<1>8. QED
  BY <1>1, <1>2, <1>4, <1>5, <1>6, <1>7 DEF Shapes, TurnsExist, Busy

LEMMA InitIInv == Init => IInv
<1> SUFFICES ASSUME Init PROVE IInv
  OBVIOUS
<1>1. Shapes /\ TurnsExist
  BY InitShapes
<1>2. work = NoWork /\ suspended = None /\ calls = <<>> /\ turns = <<>> /\ pc = "idle"
      /\ runs = [c \in 1 .. MaxCalls |-> 0]
  BY DEF Init
<1>3. WaitsOnce /\ WaitersMayRun /\ DeferredWaitForPermission /\ OpenIsWorked
  BY <1>2, NoWorkIsBatch
     DEF WaitsOnce, WaitersMayRun, Waiting, DeferredWaitForPermission, OpenIsWorked
<1>4. NewHaveNotRun /\ RunsOnlyApproved
  BY <1>2 DEF NewHaveNotRun, RunsOnlyApproved
<1>5. turns \in History /\ Len(turns) = 0
  BY <1>2 DEF History
<1>6. Open(turns) = {}
  BY <1>2 DEF Open
<1>7. Sound(turns, Known)
  BY <1>5, <1>6
     DEF Sound, Tidy, AnswersAreOfCalls, SettledBefore, CallsAmong, OpenAskedOnce
<1>8. QED
  BY <1>1, <1>3, <1>4, <1>7 DEF IInv, HistoryIsSound

LEMMA NextIInv ==
    ASSUME IInv, [Next]_vars
    PROVE  IInv'
<1>1. Shapes /\ TurnsExist /\ CallsAreSafe /\ HistoryIsWorked /\ DeferredWaitForPermission
      /\ WaitsOnce
  BY DEF IInv, CallsAreSafe, HistoryIsWorked
<1>2. Shapes' /\ TurnsExist'
  BY <1>1, ShapesKept
<1>3. CallsAreSafe'
  BY <1>1, CallsAreSafeKept
<1>4. HistoryIsWorked'
  BY <1>1, HistoryIsWorkedKept
<1>5. DeferredWaitForPermission'
  BY <1>1, DeferredKept
<1>6. QED
  BY <1>2, <1>3, <1>4, <1>5 DEF IInv, CallsAreSafe, HistoryIsWorked

\* The inductive invariant holds of every reachable state.
THEOREM Invariance == Spec => []IInv
  BY InitIInv, NextIInv, PTL DEF Spec

\* A tool runs at most once, and one that needs a permission only after it was given.
THEOREM ToolsRunOnceAndApproved == Spec => []RunsOnlyApproved
<1>1. IInv => RunsOnlyApproved
  BY DEF IInv
<1>2. QED
  BY <1>1, Invariance, PTL

\* The model is only asked when every call of the history is answered, however the turn got
\* there: messages over a suspended turn, cancels, undos, late answers, compactions.
THEOREM TheModelSeesAnsweredCalls == Spec => []GateSeesAnsweredCalls
<1>1. IInv => GateSeesAnsweredCalls
  BY SoundOfTurns, NoneOpen DEF IInv, OpenIsWorked, GateSeesAnsweredCalls
<1>2. QED
  BY <1>1, Invariance, PTL

\* An interrupt ends the turn: no tool starts, no round follows, and the step that ends the
\* turn leaves it sealed, announced and without an open call.
LEMMA StepEndsTurn ==
    ASSUME IInv, [Next]_vars, Busy, cancel
    PROVE  /\ runs' = runs
           /\ run'.round = run.round
           /\ pc' = "idle" => /\ timeline'[run.turn] = "sealed"
                              /\ run.turn \in ended'
                              /\ CallsAnswered(turns')
<1>1. /\ run.turn \in 1 .. Len(timeline) /\ timeline \in Seq({"running", "sealed"})
      /\ Tidy(turns, Known) /\ Shapes
  BY SoundOfTurns DEF IInv, TurnsExist, Shapes
<1>2. pc # "idle" /\ pc # "stopped"
  BY DEF Busy
<1>3. runs' = runs
  BY RunsGrow
<1>4. CASE LapCancelled \/ GateCancelled \/ ToolsCancelled
  <2>1. Seal(run.turn) /\ Abort /\ UNCHANGED run
    BY <1>4 DEF LapCancelled, GateCancelled, ToolsCancelled
  <2>2. timeline'[run.turn] = "sealed"
    BY <1>1, <2>1 DEF Seal
  <2>3. run.turn \in ended'
    BY <2>1 DEF Abort
  <2>4. Tidy(RemoveIncomplete(turns), Known) /\ Open(RemoveIncomplete(turns)) = {}
    BY <1>1, RemoveIncompleteKeeps
  <2>5. Sound(RemoveIncomplete(turns), Known)
    BY <2>4, ClosedIsSound
  <2>6. compact # None => compact.keep \in Nat
    BY <1>1 DEF Shapes
  <2>7. compact # None => /\ Sound(Compacted(RemoveIncomplete(turns), compact.keep), Known)
                          /\ Open(Compacted(RemoveIncomplete(turns), compact.keep)) = {}
    BY <2>4, <2>5, <2>6, CompactedKeeps
  <2>8. Tidy(turns', Known) /\ Open(turns') = {}
    BY <2>1, <2>4, <2>7 DEF Abort, Sound
  <2>9. CallsAnswered(turns')
    BY <2>8, NoneOpen
  <2>10. QED
    BY <1>3, <2>1, <2>2, <2>3, <2>9
<1>5. CASE UNCHANGED <<run, pc>>
  BY <1>2, <1>3, <1>5
<1>6. \/ LapCancelled \/ GateCancelled \/ ToolsCancelled \/ UNCHANGED <<run, pc>>
  <2>1. ~Handle /\ ~FinishCompact /\ ~Exit
    BY <1>2 DEF Handle, SendMessage, Cancel, Shutdown, UndoTurn, StartCompact, RespondPermission,
       RespondAsk, DismissAsk, Dispatch, FinishCompact, Exit
  <2>2. (\E cmd \in Commands : Receive(cmd)) \/ Forward \/ UNCHANGED vars => UNCHANGED <<run, pc>>
    BY DEF Receive, Forward, vars, engineVars
  <2>3. Lap => LapCancelled
    BY DEF Lap, EnterGate
  <2>4. Gate => GateCancelled
    BY DEF Gate, GateFails, GateAnswers, GateAnswersWithSkill, GateRepeatsAnId, GateCalls
  <2>5. Tools => ToolsCancelled \/ UNCHANGED <<run, pc>>
    BY DEF Tools, RunParallel, RunSerial, Collect, CutSerial, StartSerial, AskUser, RoundDone
  <2>6. QED
    BY <2>1, <2>2, <2>3, <2>4, <2>5 DEF Next
<1>7. QED
  BY <1>4, <1>5, <1>6

THEOREM AnInterruptEndsTheTurn == Spec => InterruptEndsTurn
<1>1. ASSUME IInv, [Next]_vars
      PROVE  [(Busy /\ cancel) =>
                /\ runs' = runs
                /\ run'.round = run.round
                /\ pc' = "idle" => /\ timeline'[run.turn] = "sealed"
                                   /\ run.turn \in ended'
                                   /\ CallsAnswered(turns')]_vars
  BY <1>1, StepEndsTurn
<1>2. QED
  BY <1>1, Invariance, PTL DEF Spec, InterruptEndsTurn

----------------------------------------------------------------------------
(* The request of a lap (GateStream).  Sequences built step by step.       *)

\* h[i] is what is kept of the first i numbers.
PicksUpTo(h, m, text, places) ==
    h = [i \in 0 .. m |-> IF i = 0 THEN <<>>
                          ELSE IF text[i] \in places THEN Append(h[i - 1], text[i]) ELSE h[i - 1]]

LEMMA SomePicks ==
    ASSUME NEW text, NEW places, NEW n \in Nat
    PROVE  \E h : PicksUpTo(h, n, text, places)
<1> DEFINE Stuck == {m \in Nat : \A h : ~PicksUpTo(h, m, text, places)}
<1> SUFFICES ASSUME Stuck # {} PROVE FALSE
  OBVIOUS
<1>1. PICK m \in Stuck : \A k \in Stuck : m <= k
  <2>1. Stuck \in SUBSET Nat
    OBVIOUS
  <2> HIDE DEF Stuck
  <2> QED BY <2>1, SmallestIsIn
<1>2. m # 0
  <2>1. PICK h : h = [i \in 0 .. 0 |-> <<>>]
    OBVIOUS
  <2>2. PicksUpTo(h, 0, text, places)
    BY <2>1 DEF PicksUpTo
  <2> QED BY <1>1, <2>2
<1>3. m - 1 \in Nat /\ m - 1 < m /\ m \in Nat
  BY <1>1, <1>2
<1>4. PICK h : PicksUpTo(h, m - 1, text, places)
  BY <1>1, <1>3
<1>5. PICK g : g = [i \in 0 .. m |-> IF i = 0 THEN <<>>
                        ELSE IF text[i] \in places THEN Append(h[i - 1], text[i]) ELSE h[i - 1]]
  OBVIOUS
<1>6. \A i \in 0 .. m - 1 : g[i] = h[i]
  <2> HIDE DEF Stuck
  <2> SUFFICES ASSUME NEW i \in 0 .. m - 1 PROVE g[i] = h[i]
    OBVIOUS
  <2>1. i \in 0 .. m
    BY <1>3
  <2>2. g[i] = IF i = 0 THEN <<>>
               ELSE IF text[i] \in places THEN Append(h[i - 1], text[i]) ELSE h[i - 1]
    BY <1>5, <2>1
  <2>3. h[i] = IF i = 0 THEN <<>>
               ELSE IF text[i] \in places THEN Append(h[i - 1], text[i]) ELSE h[i - 1]
    BY <1>4 DEF PicksUpTo
  <2> QED BY <2>2, <2>3
<1>7. \A i \in 0 .. m : i # 0 => g[i - 1] = h[i - 1]
  <2> HIDE DEF Stuck
  <2> QED BY <1>3, <1>6
<1>8. PicksUpTo(g, m, text, places)
  BY <1>5, <1>7 DEF PicksUpTo
<1> QED BY <1>1, <1>8

LEMMA AmongIsPicks ==
    ASSUME NEW text, NEW places, Len(text) \in Nat
    PROVE  \E h : PicksUpTo(h, Len(text), text, places) /\ Among(text, places) = h[Len(text)]
<1> DEFINE P(h) == PicksUpTo(h, Len(text), text, places)
           r == CHOOSE h : P(h)
<1>1. PICK h : P(h)
  BY SomePicks
<1>2. Among(text, places) = r[Len(text)]
  BY DEF Among, PicksUpTo
<1> HIDE DEF P
<1>3. P(r)
  BY <1>1
<1> QED BY <1>2, <1>3 DEF P

\* Texts that begin alike are kept alike.
LEMMA PicksAgree ==
    ASSUME NEW S, NEW text \in Seq(S), NEW other \in Seq(S), NEW places, NEW targets,
           NEW n \in Nat, NEW m \in Nat, n <= m, n <= Len(text), n <= Len(other),
           NEW h, NEW g,
           PicksUpTo(h, n, text, places), PicksUpTo(g, m, other, targets),
           \A i \in 1 .. n : text[i] = other[i] /\ (text[i] \in places <=> other[i] \in targets)
    PROVE  h[n] = g[n] /\ h[n] \in Seq(S)
<1> DEFINE Right(k) == h[k] = g[k] /\ h[k] \in Seq(S)
           Wrong == {k \in 0 .. n : ~Right(k)}
<1>1. Wrong = {}
  <2> SUFFICES ASSUME Wrong # {} PROVE FALSE
    OBVIOUS
  <2> HIDE DEF Right
  <2>1. PICK k \in Wrong : \A j \in Wrong : k <= j
    <3>1. Wrong \in SUBSET Nat
      OBVIOUS
    <3> HIDE DEF Wrong
    <3> QED BY <3>1, SmallestIsIn
  <2>2. k \in 0 .. n /\ k \in 0 .. m /\ ~Right(k)
    BY <2>1
  <2>3. k # 0
    <3>1. h[0] = <<>> /\ g[0] = <<>>
      BY DEF PicksUpTo
    <3>2. <<>> \in Seq(S)
      BY EmptySeq
    <3> QED BY <2>2, <3>1, <3>2 DEF Right
  <2>4. k - 1 \in 0 .. n /\ ~(k <= k - 1) /\ k \in 1 .. n /\ k \in 1 .. Len(text)
    BY <2>2, <2>3
  <2>5. Right(k - 1)
    BY <2>1, <2>4
  <2>6. h[k] = IF text[k] \in places THEN Append(h[k - 1], text[k]) ELSE h[k - 1]
    BY <2>2, <2>3 DEF PicksUpTo
  <2>7. g[k] = IF other[k] \in targets THEN Append(g[k - 1], other[k]) ELSE g[k - 1]
    BY <2>2, <2>3 DEF PicksUpTo
  <2>8. PICK q : q = h[k - 1]
    OBVIOUS
  <2>9. q = g[k - 1] /\ q \in Seq(S)
    BY <2>5, <2>8 DEF Right
  <2>10. text[k] \in S /\ text[k] = other[k] /\ (text[k] \in places <=> other[k] \in targets)
    <3> HIDE DEF Wrong
    <3> QED BY <2>4, ElementOfSeq
  <2>11. PICK x \in S : x = text[k]
    BY <2>10
  <2>12. Append(q, x) \in Seq(S)
    BY <2>9
  <2>13. h[k] = g[k] /\ h[k] \in Seq(S)
    BY <2>6, <2>7, <2>8, <2>9, <2>10, <2>11, <2>12
  <2> QED BY <2>2, <2>13 DEF Right
<1>2. n \in 0 .. n
  OBVIOUS
<1> QED BY <1>1, <1>2

LEMMA AmongTyped ==
    ASSUME NEW S, NEW text \in Seq(S), NEW places
    PROVE  Among(text, places) \in Seq(S)
<1>1. PICK N \in Nat : N = Len(text)
  OBVIOUS
<1>2. PICK h : PicksUpTo(h, N, text, places) /\ Among(text, places) = h[N]
  BY <1>1, AmongIsPicks
<1> QED BY <1>1, <1>2, PicksAgree

LEMMA AmongNothing ==
    ASSUME NEW places
    PROVE  Among(<<>>, places) = <<>>
<1>1. PICK h : PicksUpTo(h, 0, <<>>, places) /\ Among(<<>>, places) = h[0]
  BY AmongIsPicks
<1> QED BY <1>1 DEF PicksUpTo

\* Only what is in the text matters of the places.
LEMMA AmongSame ==
    ASSUME NEW S, NEW text \in Seq(S), NEW places, NEW targets,
           \A x \in S : x \in places <=> x \in targets
    PROVE  Among(text, places) = Among(text, targets)
<1>1. PICK N \in Nat : N = Len(text)
  OBVIOUS
<1>2. PICK h : PicksUpTo(h, N, text, places) /\ Among(text, places) = h[N]
  BY <1>1, AmongIsPicks
<1>3. PICK g : PicksUpTo(g, N, text, targets) /\ Among(text, targets) = g[N]
  BY <1>1, AmongIsPicks
<1>4. \A i \in 1 .. N : text[i] = text[i] /\ (text[i] \in places <=> text[i] \in targets)
  BY <1>1, ElementOfSeq
<1>5. h[N] = g[N]
  BY <1>1, <1>2, <1>3, <1>4, PicksAgree
<1> QED BY <1>2, <1>3, <1>5

LEMMA AmongAppend ==
    ASSUME NEW S, NEW text \in Seq(S), NEW places, NEW x \in S
    PROVE  Among(Append(text, x), places) =
             IF x \in places THEN Append(Among(text, places), x) ELSE Among(text, places)
<1>1. PICK N \in Nat : N = Len(text)
  OBVIOUS
<1>2. PICK t \in Seq(S) : t = Append(text, x)
  <2>1. Append(text, x) \in Seq(S)
    OBVIOUS
  <2> QED BY <2>1
<1>3. Len(t) = N + 1 /\ t[N + 1] = x
  BY <1>1, <1>2
<1>4. \A i \in 1 .. N : t[i] = text[i]
  BY <1>1, <1>2
<1>5. N + 1 \in Nat /\ N <= N + 1 /\ N + 1 \in 0 .. N + 1 /\ N + 1 # 0 /\ N + 1 - 1 = N
  OBVIOUS
<1>6. PICK h : PicksUpTo(h, N, text, places) /\ Among(text, places) = h[N]
  BY <1>1, AmongIsPicks
<1>7. PICK g : PicksUpTo(g, N + 1, t, places) /\ Among(t, places) = g[N + 1]
  BY <1>3, <1>5, AmongIsPicks
<1>8. g[N + 1] = IF t[N + 1] \in places THEN Append(g[N], t[N + 1]) ELSE g[N]
  <2>1. \A i \in 0 .. N + 1 : i # 0 =>
          g[i] = IF t[i] \in places THEN Append(g[i - 1], t[i]) ELSE g[i - 1]
    BY <1>7 DEF PicksUpTo
  <2>2. g[N + 1] = IF t[N + 1] \in places THEN Append(g[N + 1 - 1], t[N + 1]) ELSE g[N + 1 - 1]
    BY <1>5, <2>1
  <2> QED BY <1>5, <2>2
<1>9. h[N] = g[N]
  <2>1. \A i \in 1 .. N : text[i] = t[i] /\ (text[i] \in places <=> t[i] \in places)
    BY <1>4
  <2> QED BY <1>1, <1>3, <1>5, <1>6, <1>7, <2>1, PicksAgree
<1> QED BY <1>2, <1>3, <1>6, <1>7, <1>8, <1>9

\* h[i] is the first i sequences, one behind the other.
Behind(s, t) == s \o t

FlatUpTo(h, m, seqs) ==
    h = [i \in 1 .. m |-> IF i = 1 THEN seqs[i] ELSE Behind(h[i - 1], seqs[i])]

LEMMA SomeFlat ==
    ASSUME NEW seqs, NEW n \in Nat
    PROVE  \E h : FlatUpTo(h, n, seqs)
<1> DEFINE Stuck == {m \in Nat : \A h : ~FlatUpTo(h, m, seqs)}
<1> SUFFICES ASSUME Stuck # {} PROVE FALSE
  OBVIOUS
<1>1. PICK m \in Stuck : \A k \in Stuck : m <= k
  <2>1. Stuck \in SUBSET Nat
    OBVIOUS
  <2> HIDE DEF Stuck
  <2> QED BY <2>1, SmallestIsIn
<1>2. m # 0
  <2>1. PICK h : h = [i \in 1 .. 0 |-> seqs[i]]
    OBVIOUS
  <2>2. FlatUpTo(h, 0, seqs)
    BY <2>1 DEF FlatUpTo
  <2> QED BY <1>1, <2>2
<1>3. m - 1 \in Nat /\ m - 1 < m /\ m \in Nat
  BY <1>1, <1>2
<1>4. PICK h : FlatUpTo(h, m - 1, seqs)
  BY <1>1, <1>3
<1>5. PICK g : g = [i \in 1 .. m |-> IF i = 1 THEN seqs[i] ELSE Behind(h[i - 1], seqs[i])]
  OBVIOUS
<1>6. \A i \in 1 .. m - 1 : g[i] = h[i]
  <2> HIDE DEF Stuck
  <2> SUFFICES ASSUME NEW i \in 1 .. m - 1 PROVE g[i] = h[i]
    OBVIOUS
  <2>1. i \in 1 .. m
    BY <1>3
  <2>2. g[i] = IF i = 1 THEN seqs[i] ELSE Behind(h[i - 1], seqs[i])
    BY <1>5, <2>1
  <2>3. h[i] = IF i = 1 THEN seqs[i] ELSE Behind(h[i - 1], seqs[i])
    BY <1>4 DEF FlatUpTo
  <2> QED BY <2>2, <2>3
<1>7. \A i \in 1 .. m : i # 1 => g[i - 1] = h[i - 1]
  <2> SUFFICES ASSUME NEW i \in 1 .. m, i # 1 PROVE g[i - 1] = h[i - 1]
    OBVIOUS
  <2>1. i - 1 \in 1 .. m - 1
    BY <1>3
  <2> HIDE DEF Stuck
  <2> QED BY <1>6, <2>1
<1>8. FlatUpTo(g, m, seqs)
  BY <1>5, <1>7 DEF FlatUpTo
<1> QED BY <1>1, <1>8

LEMMA FlattenIsFlat ==
    ASSUME NEW seqs, Len(seqs) \in Nat, Len(seqs) # 0
    PROVE  \E h : FlatUpTo(h, Len(seqs), seqs) /\ FlattenSeq(seqs) = h[Len(seqs)]
<1> DEFINE P(h) == FlatUpTo(h, Len(seqs), seqs)
           r == CHOOSE h : P(h)
<1>1. PICK h : P(h)
  BY SomeFlat
<1>2. FlattenSeq(seqs) = r[Len(seqs)]
  BY DEF FlattenSeq, FlatUpTo, Behind
<1> HIDE DEF P
<1>3. P(r)
  BY <1>1
<1> QED BY <1>2, <1>3 DEF P

LEMMA FlatAgree ==
    ASSUME NEW S, NEW seqs \in Seq(Seq(S)), NEW other,
           NEW n \in Nat, NEW m \in Nat, n <= m, n <= Len(seqs),
           NEW h, NEW g, FlatUpTo(h, n, seqs), FlatUpTo(g, m, other),
           \A i \in 1 .. n : seqs[i] = other[i]
    PROVE  \A i \in 1 .. n : h[i] = g[i] /\ h[i] \in Seq(S)
<1> DEFINE Right(k) == h[k] = g[k] /\ h[k] \in Seq(S)
           Wrong == {k \in 1 .. n : ~Right(k)}
<1> SUFFICES ASSUME Wrong # {} PROVE FALSE
  OBVIOUS
<1> HIDE DEF Right
<1>1. PICK k \in Wrong : \A j \in Wrong : k <= j
  <2>1. Wrong \in SUBSET Nat
    OBVIOUS
  <2> HIDE DEF Wrong
  <2> QED BY <2>1, SmallestIsIn
<1>2. k \in 1 .. n /\ k \in 1 .. m /\ k \in 1 .. Len(seqs) /\ ~Right(k)
  BY <1>1
<1>3. seqs[k] = other[k] /\ seqs[k] \in Seq(S)
  <2> HIDE DEF Wrong
  <2>1. seqs[k] \in Seq(S)
    BY <1>2, ElementOfSeq
  <2> QED BY <1>2, <2>1
<1>4. h[k] = IF k = 1 THEN seqs[k] ELSE Behind(h[k - 1], seqs[k])
  BY <1>2 DEF FlatUpTo
<1>5. g[k] = IF k = 1 THEN other[k] ELSE Behind(g[k - 1], other[k])
  BY <1>2 DEF FlatUpTo
<1>6. CASE k = 1
  BY <1>2, <1>3, <1>4, <1>5, <1>6 DEF Right
<1>7. CASE k # 1
  <2>1. k - 1 \in 1 .. n /\ ~(k <= k - 1)
    BY <1>2, <1>7
  <2>2. Right(k - 1)
    BY <1>1, <2>1
  <2>3. PICK p, q : p = h[k - 1] /\ q = seqs[k]
    OBVIOUS
  <2>4. p = g[k - 1] /\ p \in Seq(S) /\ q \in Seq(S) /\ q = other[k]
    BY <1>3, <2>2, <2>3 DEF Right
  <2>5. p \o q \in Seq(S)
    BY <2>4, ConcatProperties
  <2>6. h[k] = p \o q /\ g[k] = p \o q
    BY <1>4, <1>5, <1>7, <2>3, <2>4 DEF Behind
  <2> QED BY <1>2, <2>5, <2>6 DEF Right
<1> QED BY <1>6, <1>7

LEMMA FlattenNothing == FlattenSeq(<<>>) = <<>>
  BY DEF FlattenSeq

LEMMA FlattenTyped ==
    ASSUME NEW S, NEW seqs \in Seq(Seq(S))
    PROVE  FlattenSeq(seqs) \in Seq(S)
<1>1. PICK N \in Nat : N = Len(seqs)
  OBVIOUS
<1>2. CASE N = 0
  BY <1>1, <1>2, FlattenNothing, EmptySeq
<1>3. CASE N # 0
  <2>1. PICK h : FlatUpTo(h, N, seqs) /\ FlattenSeq(seqs) = h[N]
    BY <1>1, <1>3, FlattenIsFlat
  <2>2. \A i \in 1 .. N : h[i] = h[i] /\ h[i] \in Seq(S)
    BY <1>1, <2>1, FlatAgree
  <2> QED BY <1>3, <2>1, <2>2
<1> QED BY <1>2, <1>3

LEMMA FlattenAppend ==
    ASSUME NEW S, NEW seqs \in Seq(Seq(S)), NEW x \in Seq(S)
    PROVE  FlattenSeq(Append(seqs, x)) = FlattenSeq(seqs) \o x
<1>1. PICK N \in Nat : N = Len(seqs)
  OBVIOUS
<1>2. PICK t : t = Append(seqs, x)
  OBVIOUS
<1>3. Len(t) = N + 1 /\ t[N + 1] = x
  BY <1>1, <1>2
<1>4. \A i \in 1 .. N : seqs[i] = t[i]
  BY <1>1, <1>2
<1>5. N + 1 \in Nat /\ N <= N + 1 /\ N + 1 \in 1 .. N + 1 /\ N + 1 # 0 /\ N + 1 - 1 = N
  OBVIOUS
<1>6. PICK g : FlatUpTo(g, N + 1, t) /\ FlattenSeq(t) = g[N + 1]
  BY <1>3, <1>5, FlattenIsFlat
<1>7. g[N + 1] = IF N + 1 = 1 THEN t[N + 1] ELSE Behind(g[N], t[N + 1])
  <2>1. \A i \in 1 .. N + 1 : g[i] = IF i = 1 THEN t[i] ELSE Behind(g[i - 1], t[i])
    BY <1>6 DEF FlatUpTo
  <2>2. g[N + 1] = IF N + 1 = 1 THEN t[N + 1] ELSE Behind(g[N + 1 - 1], t[N + 1])
    BY <1>5, <2>1
  <2> QED BY <1>5, <2>2
<1>8. CASE N = 0
  <2>1. seqs = <<>>
    BY <1>1, <1>8, EmptySeq
  <2>2. FlattenSeq(t) = x
    BY <1>3, <1>6, <1>7, <1>8
  <2> QED BY <1>2, <2>1, <2>2, FlattenNothing, ConcatEmptySeq
<1>9. CASE N # 0
  <2>1. PICK h : FlatUpTo(h, N, seqs) /\ FlattenSeq(seqs) = h[N]
    BY <1>1, <1>9, FlattenIsFlat
  <2>2. \A i \in 1 .. N : h[i] = g[i] /\ h[i] \in Seq(S)
    <3>1. FlatUpTo(h, N, seqs) /\ FlatUpTo(g, N + 1, t) /\ N <= Len(seqs)
      BY <1>1, <1>6, <2>1
    <3>2. PICK u : u = seqs
      OBVIOUS
    <3>3. u \in Seq(Seq(S)) /\ FlatUpTo(h, N, u) /\ N <= Len(u) /\ \A i \in 1 .. N : u[i] = t[i]
      BY <1>4, <3>1, <3>2
    <3> HIDE <1>2, <1>6
    <3> QED BY <1>5, <3>1, <3>3, FlatAgree
  <2>3. h[N] = g[N]
    BY <1>9, <2>2
  <2>4. N + 1 # 1
    BY <1>9
  <2> QED BY <1>2, <1>3, <1>6, <1>7, <2>1, <2>3, <2>4 DEF Behind
<1> QED BY <1>8, <1>9

----------------------------------------------------------------------------
(* What is known of the lap that listens.                                  *)

StreamKinds == {"Text", "Reasoning"}
StreamIds == StreamKinds \X Nat
CallIds == {"native", "dsml", "xml"} \X Nat

Blocks ==
    [id : StreamIds \cup CallIds, kind : StreamKinds \cup {"Tool"}, text : Seq(Nat), sealed : BOOLEAN]
CallsOfMessage == [id : CallIds, args : {"whole", "null"}]
Message == [text : Seq(Nat), reasoning : Seq(Nat), calls : Seq(CallsOfMessage)]
Active == [id : StreamIds, kind : StreamKinds]

Laps ==
    [content : Seq(Nat), reasoning : Seq(Nat), calls : Seq(CallsOfMessage),
     active : {Nothing} \cup Active, segment : Nat,
     tools : SUBSET CallIds, error : BOOLEAN, step : {Nothing} \cup Message,
     blocks : Seq(Blocks), sealed : BOOLEAN, turn : {"Running", "Cancelled", "Failed"}]

HasBlock(blocks, id) == \E k \in 1 .. Len(blocks) : blocks[k].id = id

EachOnce(blocks) ==
    \A j, k \in 1 .. Len(blocks) : blocks[j].id = blocks[k].id => j = k

\* The blocks of the stream are numbered, and the next number is free.
NumbersBelow(blocks, n) ==
    \A k \in 1 .. Len(blocks) : blocks[k].id \in StreamIds => blocks[k].id[2] < n

\* The other blocks are those of the calls, and nothing is written to them.
CallsInBlocks(blocks, ids) ==
    /\ \A id \in ids : HasBlock(blocks, id)
    /\ \A k \in 1 .. Len(blocks) : blocks[k].id \in CallIds =>
         blocks[k].id \in ids /\ blocks[k].kind = "Tool" /\ blocks[k].text = <<>>

\* Exactly these are open.
OpenAre(blocks, ids) ==
    \A k \in 1 .. Len(blocks) : ~blocks[k].sealed <=> blocks[k].id \in ids

\* The block that is written to is the last one.
LastIsActive(l) ==
    l.active # Nothing =>
        /\ Len(l.blocks) # 0
        /\ l.blocks[Len(l.blocks)].id = l.active.id
        /\ l.blocks[Len(l.blocks)].kind = l.active.kind

Fits(l) ==
    /\ EachOnce(l.blocks)
    /\ NumbersBelow(l.blocks, l.segment)
    /\ CallsInBlocks(l.blocks, l.tools)
    /\ OpenAre(l.blocks, ActiveIds(l) \cup l.tools)
    /\ LastIsActive(l)

TextShown(blocks, kind) ==
    FlattenSeq([k \in DOMAIN blocks |-> IF blocks[k].kind = kind THEN blocks[k].text ELSE <<>>])

LEMMA BlockFacts ==
    ASSUME NEW b \in Blocks
    PROVE  /\ b.id \in StreamIds \cup CallIds
           /\ b.kind \in StreamKinds \cup {"Tool"}
           /\ b.text \in Seq(Nat)
           /\ b.sealed \in BOOLEAN
  BY DEF Blocks

LEMMA BlockMade ==
    ASSUME NEW id \in StreamIds \cup CallIds, NEW kind \in StreamKinds \cup {"Tool"},
           NEW text \in Seq(Nat), NEW closed \in BOOLEAN
    PROVE  [id |-> id, kind |-> kind, text |-> text, sealed |-> closed] \in Blocks
  BY DEF Blocks

LEMMA BlockSealed ==
    ASSUME NEW b \in Blocks, NEW closed \in BOOLEAN
    PROVE  LET c == [b EXCEPT !.sealed = closed]
           IN  c \in Blocks /\ c.id = b.id /\ c.kind = b.kind /\ c.text = b.text /\ c.sealed = closed
  BY DEF Blocks

LEMMA BlockWritten ==
    ASSUME NEW b \in Blocks, NEW text \in Seq(Nat)
    PROVE  LET c == [b EXCEPT !.text = text]
           IN  c \in Blocks /\ c.id = b.id /\ c.kind = b.kind /\ c.text = text /\ c.sealed = b.sealed
  BY DEF Blocks

LEMMA KindsDiffer == StreamIds \cap CallIds = {} /\ "Tool" \notin StreamKinds
  BY DEF StreamIds, CallIds, StreamKinds

LEMMA NothingIsNone ==
    /\ Nothing \notin Active
    /\ Nothing \notin Message
  BY DEF Nothing, Active, Message

LEMMA ActiveFacts ==
    ASSUME NEW a \in Active
    PROVE  a.id \in StreamIds /\ a.kind \in StreamKinds
  BY DEF Active

LEMMA LapFacts ==
    ASSUME NEW l \in Laps
    PROVE  /\ l.content \in Seq(Nat) /\ l.reasoning \in Seq(Nat) /\ l.calls \in Seq(CallsOfMessage)
           /\ l.active \in {Nothing} \cup Active /\ l.segment \in Nat
           /\ l.tools \in SUBSET CallIds /\ l.error \in BOOLEAN
           /\ l.step \in {Nothing} \cup Message
           /\ l.blocks \in Seq(Blocks) /\ l.sealed \in BOOLEAN
           /\ l.turn \in {"Running", "Cancelled", "Failed"}
  BY DEF Laps

\* A block that is not there yet is opened behind the others.
LEMMA OpenBlockFacts ==
    ASSUME NEW blocks \in Seq(Blocks), NEW id \in StreamIds \cup CallIds,
           NEW kind \in StreamKinds \cup {"Tool"}
    PROVE  /\ OpenBlock(blocks, id, kind) \in Seq(Blocks)
           /\ HasBlock(blocks, id) => OpenBlock(blocks, id, kind) = blocks
           /\ ~HasBlock(blocks, id) =>
                \E b \in Blocks : /\ b.id = id /\ b.kind = kind /\ b.text = <<>> /\ ~b.sealed
                                  /\ OpenBlock(blocks, id, kind) = Append(blocks, b)
<1>1. DOMAIN blocks = 1 .. Len(blocks)
  OBVIOUS
<1>2. PICK b : b = [id |-> id, kind |-> kind, text |-> <<>>, sealed |-> FALSE]
  OBVIOUS
<1>3. b.id = id /\ b.kind = kind /\ b.text = <<>> /\ ~b.sealed
  BY <1>2
<1>4. b \in Blocks
  BY <1>2, BlockMade, EmptySeq
<1>5. Append(blocks, b) \in Seq(Blocks)
  BY <1>4
<1>6. OpenBlock(blocks, id, kind) = IF HasBlock(blocks, id) THEN blocks ELSE Append(blocks, b)
  BY <1>1, <1>2 DEF OpenBlock, HasBlock
<1> QED BY <1>3, <1>4, <1>5, <1>6

\* Sealing changes nothing else.
LEMMA SealBlocksFacts ==
    ASSUME NEW blocks \in Seq(Blocks), NEW ids
    PROVE  /\ SealBlocks(blocks, ids) \in Seq(Blocks)
           /\ Len(SealBlocks(blocks, ids)) = Len(blocks)
           /\ \A k \in 1 .. Len(blocks) :
                /\ SealBlocks(blocks, ids)[k].id = blocks[k].id
                /\ SealBlocks(blocks, ids)[k].kind = blocks[k].kind
                /\ SealBlocks(blocks, ids)[k].text = blocks[k].text
                /\ SealBlocks(blocks, ids)[k].sealed <=> (blocks[k].sealed \/ blocks[k].id \in ids)
<1>1. PICK N \in Nat : N = Len(blocks)
  OBVIOUS
<1>2. DOMAIN blocks = 1 .. N
  BY <1>1
<1>3. PICK s : s = SealBlocks(blocks, ids)
  OBVIOUS
<1>4. s = [k \in 1 .. N |-> [blocks[k] EXCEPT !.sealed = @ \/ blocks[k].id \in ids]]
  BY <1>2, <1>3 DEF SealBlocks
<1>5. \A k \in 1 .. N : /\ s[k] \in Blocks /\ s[k].id = blocks[k].id /\ s[k].kind = blocks[k].kind
                        /\ s[k].text = blocks[k].text
                        /\ s[k].sealed <=> (blocks[k].sealed \/ blocks[k].id \in ids)
  <2> TAKE k \in 1 .. N
  <2>1. PICK b \in Blocks : b = blocks[k]
    <3>1. blocks[k] \in Blocks
      BY <1>1, ElementOfSeq
    <3> QED BY <3>1
  <2>2. PICK closed \in BOOLEAN : closed = (b.sealed \/ b.id \in ids)
    <3>1. (b.sealed \/ b.id \in ids) \in BOOLEAN
      OBVIOUS
    <3> QED BY <3>1
  <2>3. s[k] = [b EXCEPT !.sealed = closed]
    BY <1>4, <2>1, <2>2
  <2>4. PICK c : c = [b EXCEPT !.sealed = closed]
    OBVIOUS
  <2>5. c \in Blocks /\ c.id = b.id /\ c.kind = b.kind /\ c.text = b.text /\ c.sealed = closed
    BY <2>4, BlockSealed
  <2> QED BY <2>1, <2>2, <2>3, <2>4, <2>5
<1>6. s \in Seq(Blocks) /\ Len(s) = N
  <2>1. s \in [1 .. N -> Blocks]
    BY <1>4, <1>5
  <2> QED BY <1>1, <1>4, <2>1
<1> QED BY <1>1, <1>3, <1>5, <1>6

\* A piece goes to the open block of that name.
LEMMA AppendTextFacts ==
    ASSUME NEW blocks \in Seq(Blocks), NEW id, NEW n \in Nat
    PROVE  /\ AppendText(blocks, id, n) \in Seq(Blocks)
           /\ Len(AppendText(blocks, id, n)) = Len(blocks)
           /\ \A k \in 1 .. Len(blocks) :
                /\ AppendText(blocks, id, n)[k].id = blocks[k].id
                /\ AppendText(blocks, id, n)[k].kind = blocks[k].kind
                /\ AppendText(blocks, id, n)[k].sealed = blocks[k].sealed
                /\ AppendText(blocks, id, n)[k].text =
                     IF blocks[k].id = id /\ ~blocks[k].sealed THEN Append(blocks[k].text, n)
                     ELSE blocks[k].text
<1>1. PICK N \in Nat : N = Len(blocks)
  OBVIOUS
<1>2. DOMAIN blocks = 1 .. N
  BY <1>1
<1>3. PICK s : s = AppendText(blocks, id, n)
  OBVIOUS
<1>4. s = [k \in 1 .. N |-> IF blocks[k].id = id /\ ~blocks[k].sealed
                            THEN [blocks[k] EXCEPT !.text = Append(@, n)] ELSE blocks[k]]
  BY <1>2, <1>3 DEF AppendText
<1>5. \A k \in 1 .. N : /\ s[k] \in Blocks /\ s[k].id = blocks[k].id /\ s[k].kind = blocks[k].kind
                        /\ s[k].sealed = blocks[k].sealed
                        /\ s[k].text = IF blocks[k].id = id /\ ~blocks[k].sealed
                                       THEN Append(blocks[k].text, n) ELSE blocks[k].text
  <2> TAKE k \in 1 .. N
  <2>1. PICK b \in Blocks : b = blocks[k]
    <3>1. blocks[k] \in Blocks
      BY <1>1, ElementOfSeq
    <3> QED BY <3>1
  <2>2. CASE b.id = id /\ ~b.sealed
    <3>1. PICK text \in Seq(Nat) : text = Append(b.text, n)
      <4>1. b.text \in Seq(Nat)
        BY BlockFacts
      <4>2. Append(b.text, n) \in Seq(Nat)
        BY <4>1
      <4> QED BY <4>2
    <3>2. s[k] = [b EXCEPT !.text = text]
      BY <1>4, <2>1, <2>2, <3>1
    <3>3. PICK c : c = [b EXCEPT !.text = text]
      OBVIOUS
    <3>4. c \in Blocks /\ c.id = b.id /\ c.kind = b.kind /\ c.text = text /\ c.sealed = b.sealed
      BY <3>3, BlockWritten
    <3> QED BY <2>1, <2>2, <3>1, <3>2, <3>3, <3>4
  <2>3. CASE ~(b.id = id /\ ~b.sealed)
    <3>1. s[k] = b
      BY <1>4, <2>1, <2>3
    <3> QED BY <2>1, <2>3, <3>1
  <2> QED BY <2>2, <2>3
<1>6. s \in Seq(Blocks) /\ Len(s) = N
  <2>1. s \in [1 .. N -> Blocks]
    BY <1>4, <1>5
  <2> QED BY <1>1, <1>4, <2>1
<1> QED BY <1>1, <1>3, <1>5, <1>6

----------------------------------------------------------------------------
(* What is shown.                                                          *)

TextsOf(blocks, kind) ==
    [k \in DOMAIN blocks |-> IF blocks[k].kind = kind THEN blocks[k].text ELSE <<>>]

Alike(blocks, other) ==
    /\ Len(other) = Len(blocks)
    /\ \A k \in 1 .. Len(blocks) : /\ other[k].id = blocks[k].id /\ other[k].kind = blocks[k].kind
                                   /\ other[k].text = blocks[k].text

LEMMA TextsFacts ==
    ASSUME NEW blocks \in Seq(Blocks), NEW kind
    PROVE  /\ TextsOf(blocks, kind) \in Seq(Seq(Nat))
           /\ Len(TextsOf(blocks, kind)) = Len(blocks)
           /\ \A k \in 1 .. Len(blocks) : TextsOf(blocks, kind)[k] =
                IF blocks[k].kind = kind THEN blocks[k].text ELSE <<>>
<1>1. PICK N \in Nat : N = Len(blocks)
  OBVIOUS
<1>2. PICK s : s = TextsOf(blocks, kind)
  OBVIOUS
<1>3. s = [k \in 1 .. N |-> IF blocks[k].kind = kind THEN blocks[k].text ELSE <<>>]
  BY <1>1, <1>2 DEF TextsOf
<1>4. \A k \in 1 .. N : s[k] \in Seq(Nat)
  <2> TAKE k \in 1 .. N
  <2>1. blocks[k] \in Blocks
    BY <1>1, ElementOfSeq
  <2>2. blocks[k].text \in Seq(Nat)
    BY <2>1, BlockFacts
  <2> QED BY <1>3, <2>2, EmptySeq
<1>5. s \in [1 .. N -> Seq(Nat)]
  BY <1>3, <1>4
<1>6. s \in Seq(Seq(Nat)) /\ Len(s) = N
  BY <1>1, <1>3, <1>5
<1> QED BY <1>1, <1>2, <1>3, <1>6

LEMMA ShownIsTexts ==
    ASSUME NEW blocks, NEW kind
    PROVE  TextShown(blocks, kind) = FlattenSeq(TextsOf(blocks, kind))
  BY DEF TextShown, TextsOf

LEMMA ShownTyped ==
    ASSUME NEW blocks \in Seq(Blocks), NEW kind
    PROVE  TextShown(blocks, kind) \in Seq(Nat)
  BY TextsFacts, ShownIsTexts, FlattenTyped

LEMMA ShownAlike ==
    ASSUME NEW blocks \in Seq(Blocks), NEW other \in Seq(Blocks), Alike(blocks, other), NEW kind
    PROVE  TextShown(other, kind) = TextShown(blocks, kind)
<1>1. PICK N \in Nat : N = Len(blocks)
  OBVIOUS
<1>2. PICK s, t : s = TextsOf(blocks, kind) /\ t = TextsOf(other, kind)
  OBVIOUS
<1>3. s \in Seq(Seq(Nat)) /\ t \in Seq(Seq(Nat)) /\ Len(s) = N /\ Len(t) = N
  BY <1>1, <1>2, TextsFacts DEF Alike
<1>4. \A k \in 1 .. N : s[k] = IF blocks[k].kind = kind THEN blocks[k].text ELSE <<>>
  BY <1>1, <1>2, TextsFacts
<1>5. \A k \in 1 .. N : t[k] = IF other[k].kind = kind THEN other[k].text ELSE <<>>
  BY <1>1, <1>2, TextsFacts DEF Alike
<1>6. \A k \in 1 .. N : s[k] = t[k]
  BY <1>1, <1>4, <1>5 DEF Alike
<1>7. s = t
  BY <1>3, <1>6, SeqEqual
<1> QED BY <1>2, <1>7, ShownIsTexts

LEMMA ShownNothing == \A kind : TextShown(<<>>, kind) = <<>>
<1> TAKE kind
<1>1. TextsOf(<<>>, kind) = <<>>
  BY DEF TextsOf
<1> QED BY <1>1, ShownIsTexts, FlattenNothing

\* A new block shows nothing yet.
LEMMA ShownOpened ==
    ASSUME NEW blocks \in Seq(Blocks), NEW b \in Blocks, b.text = <<>>, NEW kind
    PROVE  TextShown(Append(blocks, b), kind) = TextShown(blocks, kind)
<1>1. PICK N \in Nat : N = Len(blocks)
  OBVIOUS
<1>2. PICK c : c = Append(blocks, b)
  OBVIOUS
<1>3. c \in Seq(Blocks) /\ Len(c) = N + 1 /\ c[N + 1] = b /\ \A k \in 1 .. N : c[k] = blocks[k]
  BY <1>1, <1>2
<1>4. PICK s, t : s = TextsOf(blocks, kind) /\ t = TextsOf(c, kind)
  OBVIOUS
<1>5. s \in Seq(Seq(Nat)) /\ Len(s) = N
      /\ \A k \in 1 .. N : s[k] = IF blocks[k].kind = kind THEN blocks[k].text ELSE <<>>
  BY <1>1, <1>4, TextsFacts
<1>6. t \in Seq(Seq(Nat)) /\ Len(t) = N + 1
      /\ \A k \in 1 .. N + 1 : t[k] = IF c[k].kind = kind THEN c[k].text ELSE <<>>
  <2>1. t \in Seq(Seq(Nat)) /\ Len(t) = Len(c)
        /\ \A k \in 1 .. Len(c) : t[k] = IF c[k].kind = kind THEN c[k].text ELSE <<>>
    <3>1. c \in Seq(Blocks)
      BY <1>3
    <3> HIDE <1>1
    <3> QED BY <1>4, <3>1, TextsFacts
  <2> QED BY <1>3, <2>1
<1>7. PICK x \in Seq(Nat) : x = <<>>
  BY EmptySeq
<1>8. PICK u : u = Append(s, x)
  OBVIOUS
<1>9. u \in Seq(Seq(Nat)) /\ Len(u) = N + 1 /\ u[N + 1] = x /\ \A k \in 1 .. N : u[k] = s[k]
  BY <1>5, <1>7, <1>8
<1>10. \A k \in 1 .. N + 1 : t[k] = u[k]
  <2> TAKE k \in 1 .. N + 1
  <2>1. CASE k = N + 1
    BY <1>3, <1>6, <1>7, <1>9, <2>1
  <2>2. CASE k # N + 1
    <3>1. k \in 1 .. N
      BY <2>2
    <3> QED BY <1>3, <1>5, <1>6, <1>9, <3>1
  <2> QED BY <2>1, <2>2
<1>11. t = u
  BY <1>6, <1>9, <1>10, SeqEqual
<1>12. FlattenSeq(u) = FlattenSeq(s) \o x
  BY <1>5, <1>7, <1>8, FlattenAppend
<1>13. FlattenSeq(s) \o x = FlattenSeq(s)
  <2>1. FlattenSeq(s) \in Seq(Nat)
    BY <1>5, FlattenTyped
  <2> QED BY <1>7, <2>1, ConcatEmptySeq
<1> QED BY <1>2, <1>4, <1>11, <1>12, <1>13, ShownIsTexts

LEMMA ConcatAppend ==
    ASSUME NEW p \in Seq(Nat), NEW q \in Seq(Nat), NEW n \in Nat
    PROVE  p \o Append(q, n) = Append(p \o q, n)
<1>1. PICK L \in Nat, M \in Nat : L = Len(p) /\ M = Len(q)
  OBVIOUS
<1>2. PICK r \in Seq(Nat) : r = Append(q, n)
  <2>1. Append(q, n) \in Seq(Nat)
    OBVIOUS
  <2> QED BY <2>1
<1>3. Len(r) = M + 1 /\ r[M + 1] = n /\ \A i \in 1 .. M : r[i] = q[i]
  BY <1>1, <1>2
<1>4. PICK s, t : s = p \o r /\ t = p \o q
  OBVIOUS
<1>5. s \in Seq(Nat) /\ Len(s) = L + M + 1
      /\ \A i \in 1 .. L + M + 1 : s[i] = IF i <= L THEN p[i] ELSE r[i - L]
  <2>1. s \in Seq(Nat) /\ Len(s) = Len(p) + Len(r)
        /\ \A i \in 1 .. Len(p) + Len(r) : s[i] = IF i <= Len(p) THEN p[i] ELSE r[i - Len(p)]
    BY <1>4, ConcatProperties
  <2>2. Len(p) + Len(r) = L + M + 1
    BY <1>1, <1>3
  <2> QED BY <1>1, <2>1, <2>2
<1>6. t \in Seq(Nat) /\ Len(t) = L + M
      /\ \A i \in 1 .. L + M : t[i] = IF i <= L THEN p[i] ELSE q[i - L]
  <2>1. t \in Seq(Nat) /\ Len(t) = Len(p) + Len(q)
        /\ \A i \in 1 .. Len(p) + Len(q) : t[i] = IF i <= Len(p) THEN p[i] ELSE q[i - Len(p)]
    BY <1>4, ConcatProperties
  <2> QED BY <1>1, <2>1
<1>7. PICK u : u = Append(t, n)
  OBVIOUS
<1>8. u \in Seq(Nat) /\ Len(u) = L + M + 1 /\ u[L + M + 1] = n /\ \A i \in 1 .. L + M : u[i] = t[i]
  <2>1. PICK N \in Nat : N = Len(t)
    BY <1>6
  <2>2. t \in Seq(Nat)
    BY <1>6
  <2>4. u \in Seq(Nat)
    BY <1>7, <2>2
  <2>5. Len(u) = N + 1 /\ u[N + 1] = n /\ \A i \in 1 .. N : u[i] = t[i]
    BY <1>7, <2>1, <2>2
  <2>3. N = L + M
    BY <1>6, <2>1
  <2> QED BY <2>3, <2>4, <2>5
<1>9. \A i \in 1 .. L + M + 1 : s[i] = u[i]
  <2> TAKE i \in 1 .. L + M + 1
  <2>1. CASE i = L + M + 1
    <3>1. ~(i <= L) /\ i - L = M + 1
      BY <2>1
    <3> QED BY <1>3, <1>5, <1>8, <2>1, <3>1
  <2>2. CASE i # L + M + 1
    <3>1. i \in 1 .. L + M
      BY <2>2
    <3>2. CASE i <= L
      BY <1>5, <1>6, <1>8, <3>1, <3>2
    <3>3. CASE ~(i <= L)
      <4>1. i - L \in 1 .. M
        BY <3>1, <3>3
      <4>2. r[i - L] = q[i - L]
        BY <1>3, <4>1
      <4> QED BY <1>5, <1>6, <1>8, <3>1, <3>3, <4>2
    <3> QED BY <3>2, <3>3
  <2> QED BY <2>1, <2>2
<1>10. s = u
  BY <1>5, <1>8, <1>9, SeqEqual
<1> QED BY <1>2, <1>4, <1>7, <1>10

\* The last block has one more piece.
Written(blocks, other, n) ==
    /\ Len(blocks) # 0 /\ Len(other) = Len(blocks)
    /\ \A k \in 1 .. Len(blocks) :
         /\ other[k].kind = blocks[k].kind
         /\ other[k].text = IF k = Len(blocks) THEN Append(blocks[k].text, n) ELSE blocks[k].text

\* A piece written to the last block is shown behind all others.
LEMMA ShownWritten ==
    ASSUME NEW blocks \in Seq(Blocks), NEW other \in Seq(Blocks), NEW n \in Nat, NEW kind,
           Written(blocks, other, n)
    PROVE  TextShown(other, kind) =
             IF blocks[Len(blocks)].kind = kind THEN Append(TextShown(blocks, kind), n)
             ELSE TextShown(blocks, kind)
<1>1. PICK N \in Nat \ {0} : N = Len(blocks)
  BY DEF Written
<1>2. \A k \in 1 .. N : /\ other[k].kind = blocks[k].kind
                        /\ other[k].text = IF k = N THEN Append(blocks[k].text, n) ELSE blocks[k].text
  BY <1>1 DEF Written
<1>3. Len(other) = N
  BY <1>1 DEF Written
<1>4. PICK s, t : s = TextsOf(blocks, kind) /\ t = TextsOf(other, kind)
  OBVIOUS
<1>5. s \in Seq(Seq(Nat)) /\ Len(s) = N
      /\ \A k \in 1 .. N : s[k] = IF blocks[k].kind = kind THEN blocks[k].text ELSE <<>>
  BY <1>1, <1>4, TextsFacts
<1>6. t \in Seq(Seq(Nat)) /\ Len(t) = N
      /\ \A k \in 1 .. N : t[k] = IF other[k].kind = kind THEN other[k].text ELSE <<>>
  <2>1. t \in Seq(Seq(Nat)) /\ Len(t) = Len(other)
        /\ \A k \in 1 .. Len(other) : t[k] = IF other[k].kind = kind THEN other[k].text ELSE <<>>
    BY <1>4, TextsFacts
  <2> QED BY <1>3, <2>1
<1>7. CASE blocks[N].kind # kind
  <2>1. \A k \in 1 .. N : s[k] = t[k]
    BY <1>2, <1>5, <1>6, <1>7
  <2>2. s = t
    BY <1>5, <1>6, <2>1, SeqEqual
  <2> QED BY <1>1, <1>4, <1>7, <2>2, ShownIsTexts
<1>8. CASE blocks[N].kind = kind
  <2>1. PICK M \in Nat : M = N - 1
    OBVIOUS
  <2>2. N = M + 1 /\ N \in 1 .. N
    BY <2>1
  <2>3. PICK f : f = SubSeq(s, 1, M)
    OBVIOUS
  <2>4. f \in Seq(Seq(Nat)) /\ Len(f) = M /\ \A k \in 1 .. M : f[k] = s[k]
    BY <1>5, <2>2, <2>3
  <2>5. PICK x \in Seq(Nat) : x = s[N]
    <3>1. s[N] \in Seq(Nat)
      BY <1>5, <2>2
    <3> QED BY <3>1
  <2>6. PICK y \in Seq(Nat) : y = Append(x, n)
    <3>1. Append(x, n) \in Seq(Nat)
      OBVIOUS
    <3> QED BY <3>1
  <2>7. t[N] = y
    BY <1>2, <1>5, <1>6, <1>8, <2>2, <2>5, <2>6
  <2>8. \A k \in 1 .. M : t[k] = f[k]
    <3> TAKE k \in 1 .. M
    <3>1. k \in 1 .. N /\ k # N
      BY <2>2
    <3> QED BY <1>2, <1>5, <1>6, <2>4, <3>1
  <2>9. PICK a, c : a = Append(f, x) /\ c = Append(f, y)
    OBVIOUS
  <2>10. a \in Seq(Seq(Nat)) /\ Len(a) = N /\ a[N] = x /\ \A k \in 1 .. M : a[k] = f[k]
    BY <2>2, <2>4, <2>9
  <2>11. c \in Seq(Seq(Nat)) /\ Len(c) = N /\ c[N] = y /\ \A k \in 1 .. M : c[k] = f[k]
    BY <2>2, <2>4, <2>9
  <2>12. \A k \in 1 .. N : k = N \/ k \in 1 .. M
    BY <2>2
  <2>13. s = a
    <3>1. \A k \in 1 .. N : s[k] = a[k]
      BY <2>4, <2>5, <2>10, <2>12
    <3> QED BY <1>5, <2>10, <3>1, SeqEqual
  <2>14. t = c
    <3>1. \A k \in 1 .. N : t[k] = c[k]
      BY <2>7, <2>8, <2>11, <2>12
    <3> QED BY <1>6, <2>11, <3>1, SeqEqual
  <2>15. PICK F : F = FlattenSeq(f)
    OBVIOUS
  <2>16. F \in Seq(Nat)
    BY <2>4, <2>15, FlattenTyped
  <2>17. FlattenSeq(a) = F \o x /\ FlattenSeq(c) = F \o y
    BY <2>4, <2>9, <2>15, FlattenAppend
  <2>18. F \o y = Append(F \o x, n)
    BY <2>6, <2>16, ConcatAppend
  <2> QED BY <1>1, <1>4, <1>8, <2>13, <2>14, <2>17, <2>18, ShownIsTexts
<1> QED BY <1>1, <1>7, <1>8

----------------------------------------------------------------------------
(* What the lap does at an event of the gate.                              *)

SameElse(l, m) ==
    /\ m.content = l.content /\ m.reasoning = l.reasoning /\ m.calls = l.calls
    /\ m.error = l.error /\ m.step = l.step /\ m.sealed = l.sealed /\ m.turn = l.turn

SameShown(l, m) == \A kind : TextShown(m.blocks, kind) = TextShown(l.blocks, kind)

LEMMA AppendedBlock ==
    ASSUME NEW blocks \in Seq(Blocks), NEW b \in Blocks, ~HasBlock(blocks, b.id), ~b.sealed,
           NEW c, c = Append(blocks, b)
    PROVE  /\ c \in Seq(Blocks) /\ Len(c) = Len(blocks) + 1 /\ c[Len(c)] = b
           /\ EachOnce(blocks) => EachOnce(c)
           /\ \A id : HasBlock(c, id) <=> HasBlock(blocks, id) \/ id = b.id
           /\ \A ids : OpenAre(blocks, ids) => OpenAre(c, ids \cup {b.id})
           /\ \A k \in 1 .. Len(c) : c[k] = b \/ (k \in 1 .. Len(blocks) /\ c[k] = blocks[k])
<1>1. PICK N \in Nat : N = Len(blocks)
  OBVIOUS
<1>2. c \in Seq(Blocks)
  OBVIOUS
<1>3. Len(c) = N + 1 /\ c[N + 1] = b /\ \A k \in 1 .. N : c[k] = blocks[k]
  BY <1>1
<1>4. \A k \in 1 .. N + 1 : k = N + 1 \/ k \in 1 .. N
  OBVIOUS
<1>5. \A k \in 1 .. N : blocks[k].id # b.id
  BY <1>1 DEF HasBlock
<1>6. EachOnce(blocks) => EachOnce(c)
  <2> SUFFICES ASSUME EachOnce(blocks), NEW j \in 1 .. N + 1, NEW k \in 1 .. N + 1, c[j].id = c[k].id
               PROVE  j = k
    BY <1>3 DEF EachOnce
  <2>1. CASE j = N + 1 /\ k = N + 1
    BY <2>1
  <2>2. CASE j \in 1 .. N /\ k \in 1 .. N
    <3>1. blocks[j].id = blocks[k].id
      BY <1>3, <2>2
    <3> QED BY <1>1, <2>2, <3>1 DEF EachOnce
  <2>3. CASE j = N + 1 /\ k \in 1 .. N
    BY <1>3, <1>5, <2>3
  <2>4. CASE j \in 1 .. N /\ k = N + 1
    BY <1>3, <1>5, <2>4
  <2> QED BY <1>4, <2>1, <2>2, <2>3, <2>4
<1>7. \A id : HasBlock(c, id) <=> HasBlock(blocks, id) \/ id = b.id
  <2> TAKE id
  <2>1. HasBlock(c, id) <=> \E k \in 1 .. N + 1 : c[k].id = id
    BY <1>3 DEF HasBlock
  <2>2. HasBlock(blocks, id) <=> \E k \in 1 .. N : blocks[k].id = id
    BY <1>1 DEF HasBlock
  <2>3. \A k \in 1 .. N : k \in 1 .. N + 1
    OBVIOUS
  <2>4. N + 1 \in 1 .. N + 1
    OBVIOUS
  <2> QED BY <1>3, <1>4, <2>1, <2>2, <2>3, <2>4
<1>8. \A ids : OpenAre(blocks, ids) => OpenAre(c, ids \cup {b.id})
  <2> SUFFICES ASSUME NEW ids, OpenAre(blocks, ids), NEW k \in 1 .. N + 1
               PROVE  ~c[k].sealed <=> c[k].id \in ids \cup {b.id}
    BY <1>3 DEF OpenAre
  <2>1. CASE k = N + 1
    BY <1>3, <2>1
  <2>2. CASE k \in 1 .. N
    <3>1. c[k] = blocks[k] /\ blocks[k].id # b.id
      BY <1>3, <1>5, <2>2
    <3>2. ~blocks[k].sealed <=> blocks[k].id \in ids
      BY <1>1, <2>2 DEF OpenAre
    <3> QED BY <3>1, <3>2
  <2> QED BY <1>4, <2>1, <2>2
<1>9. \A k \in 1 .. Len(c) : c[k] = b \/ (k \in 1 .. Len(blocks) /\ c[k] = blocks[k])
  BY <1>1, <1>3, <1>4
<1>10. Len(c) = Len(blocks) + 1 /\ c[Len(c)] = b
  BY <1>1, <1>3
<1> QED BY <1>2, <1>6, <1>7, <1>8, <1>9, <1>10

LEMMA SealActiveFields ==
    ASSUME NEW l \in Laps
    PROVE  LET m == SealActive(l) IN
           /\ m \in Laps /\ m.active = Nothing
           /\ m.blocks = SealBlocks(l.blocks, ActiveIds(l))
           /\ m.segment = l.segment /\ m.tools = l.tools /\ SameElse(l, m)
<1>1. l.blocks \in Seq(Blocks)
  BY LapFacts
<1>2. PICK s \in Seq(Blocks) : s = SealBlocks(l.blocks, ActiveIds(l))
  <2>1. SealBlocks(l.blocks, ActiveIds(l)) \in Seq(Blocks)
    BY <1>1, SealBlocksFacts
  <2> QED BY <2>1
<1>3. PICK m : m = SealActive(l)
  OBVIOUS
<1>4. m = [l EXCEPT !.active = Nothing, !.blocks = s]
  BY <1>2, <1>3 DEF SealActive
<1>5. m \in Laps
  BY <1>4 DEF Laps
<1>6. /\ m.active = Nothing /\ m.blocks = s
      /\ m.segment = l.segment /\ m.tools = l.tools /\ SameElse(l, m)
  BY <1>4 DEF Laps, SameElse
<1> QED BY <1>2, <1>3, <1>5, <1>6

\* The active block is closed, and nothing else happens.
LEMMA SealActiveFits ==
    ASSUME NEW l \in Laps, Fits(l), NEW m, m = SealActive(l)
    PROVE  /\ m \in Laps /\ Fits(m) /\ m.active = Nothing
           /\ OpenAre(m.blocks, l.tools)
           /\ Alike(l.blocks, m.blocks) /\ SameShown(l, m)
           /\ m.segment = l.segment /\ m.tools = l.tools /\ SameElse(l, m)
<1>1. /\ m \in Laps /\ m.active = Nothing
      /\ m.blocks = SealBlocks(l.blocks, ActiveIds(l))
      /\ m.segment = l.segment /\ m.tools = l.tools /\ SameElse(l, m)
  BY SealActiveFields
<1>2. PICK s \in Seq(Blocks), t \in Seq(Blocks), tools \in SUBSET CallIds, active \in {ActiveIds(l)} :
         s = l.blocks /\ t = m.blocks /\ tools = l.tools /\ active = ActiveIds(l)
  <2>1. l.blocks \in Seq(Blocks) /\ m.blocks \in Seq(Blocks) /\ l.tools \in SUBSET CallIds
    BY <1>1, LapFacts
  <2> QED BY <2>1
<1>3. PICK N \in Nat : N = Len(s)
  OBVIOUS
<1>4. /\ Len(t) = N
      /\ \A k \in 1 .. N : /\ t[k].id = s[k].id /\ t[k].kind = s[k].kind /\ t[k].text = s[k].text
                           /\ t[k].sealed <=> (s[k].sealed \/ s[k].id \in active)
  BY <1>1, <1>2, <1>3, SealBlocksFacts
<1>5. Alike(s, t)
  BY <1>3, <1>4 DEF Alike
<1>6. active \cap tools = {}
  <2>1. l.active \in {Nothing} \cup Active
    BY LapFacts
  <2>2. active \subseteq StreamIds
    BY <1>2, <2>1, ActiveFacts, NothingIsNone DEF ActiveIds
  <2> QED BY <2>2, KindsDiffer
<1>7. EachOnce(s) /\ NumbersBelow(s, l.segment) /\ CallsInBlocks(s, tools)
      /\ OpenAre(s, active \cup tools)
  BY <1>2 DEF Fits
<1>8. EachOnce(t)
  BY <1>3, <1>4, <1>7 DEF EachOnce
<1>9. NumbersBelow(t, l.segment)
  BY <1>3, <1>4, <1>7 DEF NumbersBelow
<1>10. CallsInBlocks(t, tools)
  <2>1. \A id : HasBlock(s, id) => HasBlock(t, id)
    BY <1>3, <1>4 DEF HasBlock
  <2>2. \A k \in 1 .. N : t[k].id \in CallIds =>
           t[k].id \in tools /\ t[k].kind = "Tool" /\ t[k].text = <<>>
    BY <1>3, <1>4, <1>7 DEF CallsInBlocks
  <2> QED BY <1>4, <1>7, <2>1, <2>2 DEF CallsInBlocks
<1>11. OpenAre(t, tools)
  <2> SUFFICES ASSUME NEW k \in 1 .. N PROVE ~t[k].sealed <=> t[k].id \in tools
    BY <1>4 DEF OpenAre
  <2>1. ~s[k].sealed <=> s[k].id \in active \cup tools
    BY <1>3, <1>7 DEF OpenAre
  <2> QED BY <1>4, <1>6, <2>1
<1>12. ActiveIds(m) \cup m.tools = tools /\ LastIsActive(m)
  BY <1>1, <1>2 DEF ActiveIds, LastIsActive
<1>13. Fits(m)
  BY <1>1, <1>2, <1>8, <1>9, <1>10, <1>11, <1>12 DEF Fits
<1>14. SameShown(l, m)
  BY <1>2, <1>5, ShownAlike DEF SameShown
<1> QED BY <1>1, <1>2, <1>5, <1>11, <1>13, <1>14

\* Whatever is written has an open block of its kind, behind all others.
LEMMA EnsureFits ==
    ASSUME NEW l \in Laps, Fits(l), NEW kind \in StreamKinds, NEW m, m = EnsureStreamBlock(l, kind)
    PROVE  /\ m \in Laps /\ Fits(m) /\ m.active \in Active /\ m.active.kind = kind
           /\ SameShown(l, m) /\ m.tools = l.tools /\ SameElse(l, m)
<1>1. CASE l.active # Nothing /\ l.active.kind = kind
  <2>1. m = l
    BY <1>1 DEF EnsureStreamBlock
  <2>2. l.active \in Active
    BY <1>1, LapFacts
  <2> QED BY <1>1, <2>1, <2>2 DEF SameShown, SameElse
<1>2. CASE ~(l.active # Nothing /\ l.active.kind = kind)
  <2>1. PICK r : r = SealActive(l)
    OBVIOUS
  <2>2. /\ r \in Laps /\ Fits(r) /\ r.active = Nothing
        /\ OpenAre(r.blocks, l.tools)
        /\ Alike(l.blocks, r.blocks) /\ SameShown(l, r)
        /\ r.segment = l.segment /\ r.tools = l.tools /\ SameElse(l, r)
    BY <2>1, SealActiveFits
  <2>3. PICK n \in Nat, s \in Seq(Blocks) : n = l.segment /\ s = r.blocks
    <3>1. l.segment \in Nat /\ r.blocks \in Seq(Blocks)
      BY <2>2, LapFacts
    <3> QED BY <3>1
  <2>4. PICK id \in StreamIds : id = <<kind, n>>
    <3>1. <<kind, n>> \in StreamIds
      BY DEF StreamIds
    <3> QED BY <3>1
  <2>5. id[2] = n
    BY <2>4
  <2>6. PICK a \in Active : a = [id |-> id, kind |-> kind]
    <3>1. [id |-> id, kind |-> kind] \in Active
      BY DEF Active
    <3> QED BY <3>1
  <2>7. a.id = id /\ a.kind = kind
    BY <2>6
  <2>8. EachOnce(s) /\ NumbersBelow(s, n) /\ CallsInBlocks(s, l.tools) /\ OpenAre(s, l.tools)
    BY <2>2, <2>3 DEF Fits
  <2>9. ~HasBlock(s, id)
    <3> SUFFICES ASSUME NEW k \in 1 .. Len(s), s[k].id = id PROVE FALSE
      BY DEF HasBlock
    <3>1. s[k].id[2] < n
      BY <2>8 DEF NumbersBelow
    <3> QED BY <2>5, <3>1
  <2>10. PICK b \in Blocks : /\ b.id = id /\ b.kind = kind /\ b.text = <<>> /\ ~b.sealed
                             /\ OpenBlock(s, id, kind) = Append(s, b)
    <3>1. id \in StreamIds \cup CallIds /\ kind \in StreamKinds \cup {"Tool"}
      OBVIOUS
    <3> QED BY <2>9, <3>1, OpenBlockFacts
  <2>11. PICK t \in Seq(Blocks) : t = Append(s, b)
    <3>1. Append(s, b) \in Seq(Blocks)
      OBVIOUS
    <3> QED BY <3>1
  <2>12. m = [r EXCEPT !.blocks = t, !.segment = n + 1, !.active = a]
    <3>1. r.segment = n
      BY <2>2, <2>3
    <3>2. m = [SealActive(l) EXCEPT !.blocks = OpenBlock(@, <<kind, l.segment>>, kind), !.segment = @ + 1,
                             !.active = [id |-> <<kind, l.segment>>, kind |-> kind]]
      BY <1>2 DEF EnsureStreamBlock
    <3>3. m = [r EXCEPT !.blocks = OpenBlock(@, id, kind), !.segment = @ + 1, !.active = a]
      BY <2>1, <2>3, <2>4, <2>6, <3>2
    <3>4. OpenBlock(r.blocks, id, kind) = t
      BY <2>3, <2>10, <2>11
    <3> QED BY <3>1, <3>3, <3>4
  <2>13. /\ m \in Laps /\ m.blocks = t /\ m.segment = n + 1 /\ m.active = a
         /\ m.tools = r.tools /\ SameElse(r, m)
    <3>1. n + 1 \in Nat
      OBVIOUS
    <3>2. r \in Laps
      BY <2>2
    <3>3. m \in Laps
      BY <2>12, <3>1, <3>2 DEF Laps
    <3>4. m.blocks = t /\ m.segment = n + 1 /\ m.active = a /\ m.tools = r.tools
      BY <2>12, <3>2 DEF Laps
    <3>5. SameElse(r, m)
      BY <2>12, <3>2 DEF Laps, SameElse
    <3> QED BY <3>3, <3>4, <3>5
  <2>14. /\ Len(t) = Len(s) + 1 /\ t[Len(t)] = b /\ EachOnce(t)
         /\ \A x : HasBlock(t, x) <=> HasBlock(s, x) \/ x = id
         /\ OpenAre(t, l.tools \cup {id})
         /\ \A k \in 1 .. Len(t) : t[k] = b \/ (k \in 1 .. Len(s) /\ t[k] = s[k])
    <3>1. ~HasBlock(s, b.id) /\ ~b.sealed /\ t = Append(s, b)
      BY <2>9, <2>10, <2>11
    <3>2. Len(t) = Len(s) + 1 /\ t[Len(t)] = b
      BY <3>1, AppendedBlock
    <3>6. EachOnce(s) => EachOnce(t)
      BY <3>1, AppendedBlock
    <3>7. \A x : HasBlock(t, x) <=> HasBlock(s, x) \/ x = b.id
      BY <3>1, AppendedBlock
    <3>3. \A ids : OpenAre(s, ids) => OpenAre(t, ids \cup {b.id})
      BY <3>1, AppendedBlock
    <3>4. \A k \in 1 .. Len(t) : t[k] = b \/ (k \in 1 .. Len(s) /\ t[k] = s[k])
      BY <3>1, AppendedBlock
    <3>5. OpenAre(t, l.tools \cup {id})
      BY <2>8, <2>10, <3>3
    <3> QED BY <2>8, <2>10, <3>2, <3>4, <3>5, <3>6, <3>7
  <2>15. NumbersBelow(t, n + 1)
    <3> SUFFICES ASSUME NEW k \in 1 .. Len(t), t[k].id \in StreamIds PROVE t[k].id[2] < n + 1
      BY DEF NumbersBelow
    <3>1. CASE t[k] = b
      BY <2>5, <2>10, <3>1
    <3>2. CASE k \in 1 .. Len(s) /\ t[k] = s[k]
      <4>1. s[k].id[2] < n
        BY <2>8, <3>2 DEF NumbersBelow
      <4>2. s[k].id[2] \in Nat
        BY <3>2 DEF StreamIds
      <4> QED BY <3>2, <4>1, <4>2
    <3> QED BY <2>14, <3>1, <3>2
  <2>16. CallsInBlocks(t, l.tools)
    <3>1. \A x \in l.tools : HasBlock(t, x)
      BY <2>8, <2>14 DEF CallsInBlocks
    <3>2. \A k \in 1 .. Len(t) : t[k].id \in CallIds =>
             t[k].id \in l.tools /\ t[k].kind = "Tool" /\ t[k].text = <<>>
      BY <2>8, <2>10, <2>14, KindsDiffer DEF CallsInBlocks
    <3> QED BY <3>1, <3>2 DEF CallsInBlocks
  <2>17. OpenAre(t, ActiveIds(m) \cup m.tools)
    <3>1. ActiveIds(m) = {id}
      BY <2>7, <2>13, NothingIsNone DEF ActiveIds
    <3>2. ActiveIds(m) \cup m.tools = l.tools \cup {id}
      BY <2>2, <2>13, <3>1
    <3> QED BY <2>14, <3>2
  <2>18. LastIsActive(m)
    <3>1. Len(t) # 0
      BY <2>3, <2>14
    <3> QED BY <2>7, <2>10, <2>13, <2>14, <3>1 DEF LastIsActive
  <2>19. Fits(m)
    BY <2>2, <2>13, <2>14, <2>15, <2>16, <2>17, <2>18 DEF Fits
  <2>20. SameShown(l, m)
    <3>1. \A x : TextShown(t, x) = TextShown(s, x)
      BY <2>10, <2>11, ShownOpened
    <3> QED BY <2>2, <2>3, <2>13, <3>1 DEF SameShown
  <2>21. SameElse(l, m)
    BY <2>2, <2>13 DEF SameElse
  <2> QED BY <2>2, <2>7, <2>13, <2>19, <2>20, <2>21
<1> QED BY <1>1, <1>2

SameCalls(l, m) ==
    m.tools = l.tools /\ m.calls = l.calls /\ m.error = l.error /\ m.step = l.step
    /\ m.sealed = l.sealed /\ m.turn = l.turn

\* A piece is shown once, behind what is shown of its kind, unless the turn is cancelled.
LEMMA DeltaFits ==
    ASSUME NEW l \in Laps, Fits(l), NEW n \in Nat, NEW kind \in StreamKinds, NEW m, m = Delta(l, n, kind)
    PROVE  /\ m \in Laps /\ Fits(m) /\ SameCalls(l, m)
           /\ ~cancelled => \A k \in StreamKinds :
                TextShown(m.blocks, k) = IF k = kind THEN Append(TextShown(l.blocks, k), n)
                                         ELSE TextShown(l.blocks, k)
<1>1. CASE cancelled
  <2>1. m = l
    BY <1>1 DEF Delta
  <2> QED BY <1>1, <2>1 DEF SameCalls
<1>2. CASE ~cancelled
  <2>1. PICK r : r = EnsureStreamBlock(l, kind)
    OBVIOUS
  <2>2. /\ r \in Laps /\ Fits(r) /\ r.active \in Active /\ r.active.kind = kind
        /\ SameShown(l, r) /\ r.tools = l.tools /\ SameElse(l, r)
    BY <2>1, EnsureFits
  <2>3. PICK s \in Seq(Blocks), id \in StreamIds : s = r.blocks /\ id = r.active.id
    <3>1. r.blocks \in Seq(Blocks) /\ r.active.id \in StreamIds
      BY <2>2, LapFacts, ActiveFacts
    <3> QED BY <3>1
  <2>4. PICK t : t = AppendText(s, id, n)
    OBVIOUS
  <2>5. PICK N \in Nat : N = Len(s)
    OBVIOUS
  <2>6. /\ t \in Seq(Blocks) /\ Len(t) = N
        /\ \A k \in 1 .. N :
             /\ t[k].id = s[k].id /\ t[k].kind = s[k].kind /\ t[k].sealed = s[k].sealed
             /\ t[k].text = IF s[k].id = id /\ ~s[k].sealed THEN Append(s[k].text, n) ELSE s[k].text
    BY <2>4, <2>5, AppendTextFacts
  <2>7. PICK content \in Seq(Nat), reasoning \in Seq(Nat) :
           /\ content = IF kind = "Text" THEN Append(r.content, n) ELSE r.content
           /\ reasoning = IF kind = "Reasoning" THEN Append(r.reasoning, n) ELSE r.reasoning
    <3>1. r.content \in Seq(Nat) /\ r.reasoning \in Seq(Nat)
      BY <2>2, LapFacts
    <3>2. Append(r.content, n) \in Seq(Nat) /\ Append(r.reasoning, n) \in Seq(Nat)
      BY <3>1
    <3> QED BY <3>1, <3>2
  <2>8. m = [r EXCEPT !.content = content, !.reasoning = reasoning, !.blocks = t]
    <3>1. m = [r EXCEPT !.content = IF kind = "Text" THEN Append(@, n) ELSE @,
                        !.reasoning = IF kind = "Reasoning" THEN Append(@, n) ELSE @,
                        !.blocks = AppendText(@, r.active.id, n)]
      BY <1>2, <2>1 DEF Delta
    <3> QED BY <2>3, <2>4, <2>7, <3>1
  <2>9. /\ m \in Laps /\ m.blocks = t /\ m.active = r.active /\ m.segment = r.segment
        /\ m.tools = r.tools /\ m.calls = r.calls
        /\ m.error = r.error /\ m.step = r.step /\ m.sealed = r.sealed /\ m.turn = r.turn
    <3>1. r \in Laps /\ t \in Seq(Blocks)
      BY <2>2, <2>6
    <3>2. m \in Laps
      BY <2>8, <3>1 DEF Laps
    <3>3. /\ m.blocks = t /\ m.active = r.active /\ m.segment = r.segment
          /\ m.tools = r.tools /\ m.calls = r.calls
      BY <2>8, <3>1 DEF Laps
    <3>4. m.error = r.error /\ m.step = r.step /\ m.sealed = r.sealed /\ m.turn = r.turn
      BY <2>8, <3>1 DEF Laps
    <3> QED BY <3>2, <3>3, <3>4
  <2>10. SameCalls(l, m)
    BY <2>2, <2>9 DEF SameCalls, SameElse
  <2>11. /\ EachOnce(s) /\ NumbersBelow(s, r.segment) /\ CallsInBlocks(s, r.tools)
         /\ OpenAre(s, ActiveIds(r) \cup r.tools)
         /\ N # 0 /\ s[N].id = id /\ s[N].kind = kind
    <3>1. r.active # Nothing
      BY <2>2, NothingIsNone
    <3> QED BY <2>2, <2>3, <2>5, <3>1 DEF Fits, LastIsActive
  <2>12. EachOnce(t)
    BY <2>5, <2>6, <2>11 DEF EachOnce
  <2>13. NumbersBelow(t, r.segment)
    BY <2>5, <2>6, <2>11 DEF NumbersBelow
  <2>14. CallsInBlocks(t, r.tools)
    <3>1. \A x : HasBlock(s, x) => HasBlock(t, x)
      BY <2>5, <2>6 DEF HasBlock
    <3>2. \A k \in 1 .. N : t[k].id \in CallIds =>
             t[k].id \in r.tools /\ t[k].kind = "Tool" /\ t[k].text = <<>>
      <4> SUFFICES ASSUME NEW k \in 1 .. N, t[k].id \in CallIds
                   PROVE  t[k].id \in r.tools /\ t[k].kind = "Tool" /\ t[k].text = <<>>
        OBVIOUS
      <4>1. s[k].id \in CallIds /\ s[k].id # id
        BY <2>6, KindsDiffer
      <4>2. s[k].id \in r.tools /\ s[k].kind = "Tool" /\ s[k].text = <<>>
        BY <2>5, <2>11, <4>1 DEF CallsInBlocks
      <4> QED BY <2>6, <4>1, <4>2
    <3> QED BY <2>6, <2>11, <3>1, <3>2 DEF CallsInBlocks
  <2>15. OpenAre(t, ActiveIds(r) \cup r.tools)
    BY <2>5, <2>6, <2>11 DEF OpenAre
  <2>16. ActiveIds(m) = ActiveIds(r)
    BY <2>9 DEF ActiveIds
  <2>17. LastIsActive(m)
    <3>1. N \in 1 .. N
      BY <2>11
    <3>2. t[N].id = id /\ t[N].kind = kind
      BY <2>6, <2>11, <3>1
    <3> QED BY <2>2, <2>3, <2>6, <2>9, <2>11, <3>2 DEF LastIsActive
  <2>18. Fits(m)
    BY <2>9, <2>12, <2>13, <2>14, <2>15, <2>16, <2>17 DEF Fits
  <2>19. \A k \in 1 .. N : t[k].text = IF k = N THEN Append(s[k].text, n) ELSE s[k].text
    <3> TAKE k \in 1 .. N
    <3>1. N \in 1 .. N
      BY <2>11
    <3>2. s[k].id = id <=> k = N
      BY <2>5, <2>11, <3>1 DEF EachOnce
    <3>3. ~s[N].sealed
      <4>1. ActiveIds(r) = {id}
        BY <2>2, <2>3, NothingIsNone DEF ActiveIds
      <4> QED BY <2>5, <2>11, <3>1, <4>1 DEF OpenAre
    <3>4. t[k].text = IF s[k].id = id /\ ~s[k].sealed THEN Append(s[k].text, n) ELSE s[k].text
      BY <2>6
    <3> QED BY <3>2, <3>3, <3>4
  <2>20. \A k \in StreamKinds :
            TextShown(m.blocks, k) = IF k = kind THEN Append(TextShown(l.blocks, k), n)
                                     ELSE TextShown(l.blocks, k)
    <3> TAKE k \in StreamKinds
    <3>1. TextShown(t, k) = IF s[N].kind = k THEN Append(TextShown(s, k), n) ELSE TextShown(s, k)
      <4>1. t \in Seq(Blocks) /\ Len(t) = Len(s) /\ Len(s) # 0
        BY <2>5, <2>6, <2>11
      <4>2. \A j \in 1 .. Len(s) :
              /\ t[j].kind = s[j].kind
              /\ t[j].text = IF j = Len(s) THEN Append(s[j].text, n) ELSE s[j].text
        BY <2>5, <2>6, <2>19
      <4>3. Written(s, t, n)
        BY <4>1, <4>2 DEF Written
      <4> QED BY <2>5, <4>1, <4>3, ShownWritten
    <3>2. TextShown(s, k) = TextShown(l.blocks, k)
      BY <2>2, <2>3 DEF SameShown
    <3> QED BY <2>9, <2>11, <3>1, <3>2
  <2> QED BY <1>2, <2>9, <2>10, <2>18, <2>20
<1> QED BY <1>1, <1>2

\* The first sign of a call opens its block.
LEMMA ProgressFits ==
    ASSUME NEW l \in Laps, Fits(l), NEW id \in CallIds, NEW m, m = Progress(l, id)
    PROVE  /\ m \in Laps /\ Fits(m) /\ SameShown(l, m)
           /\ m.tools = l.tools \cup {id} /\ SameElse(l, m)
<1>1. PICK r : r = SealActive(l)
  OBVIOUS
<1>2. /\ r \in Laps /\ Fits(r) /\ r.active = Nothing
      /\ OpenAre(r.blocks, l.tools)
      /\ Alike(l.blocks, r.blocks) /\ SameShown(l, r)
      /\ r.segment = l.segment /\ r.tools = l.tools /\ SameElse(l, r)
  BY <1>1, SealActiveFits
<1>3. CASE id \in l.tools
  <2>1. m = r
    BY <1>1, <1>3 DEF Progress
  <2> QED BY <1>2, <1>3, <2>1
<1>4. CASE id \notin l.tools
  <2>1. PICK s \in Seq(Blocks), tools \in SUBSET CallIds : s = r.blocks /\ tools = r.tools
    <3>1. r.blocks \in Seq(Blocks) /\ r.tools \in SUBSET CallIds
      BY <1>2, LapFacts
    <3> QED BY <3>1
  <2>2. /\ EachOnce(s) /\ NumbersBelow(s, r.segment) /\ CallsInBlocks(s, tools) /\ OpenAre(s, tools)
    BY <1>2, <2>1 DEF Fits
  <2>3. ~HasBlock(s, id)
    BY <1>2, <1>4, <2>1, <2>2 DEF HasBlock, CallsInBlocks
  <2>4. PICK b \in Blocks : /\ b.id = id /\ b.kind = "Tool" /\ b.text = <<>> /\ ~b.sealed
                            /\ OpenBlock(s, id, "Tool") = Append(s, b)
    <3>1. id \in StreamIds \cup CallIds /\ "Tool" \in StreamKinds \cup {"Tool"}
      OBVIOUS
    <3> QED BY <2>3, <3>1, OpenBlockFacts
  <2>5. PICK t \in Seq(Blocks) : t = Append(s, b)
    <3>1. Append(s, b) \in Seq(Blocks)
      OBVIOUS
    <3> QED BY <3>1
  <2>6. m = [r EXCEPT !.tools = @ \cup {id}, !.blocks = t]
    <3>1. m = [r EXCEPT !.tools = @ \cup {id}, !.blocks = OpenBlock(@, id, "Tool")]
      BY <1>1, <1>2, <1>4 DEF Progress
    <3> QED BY <2>1, <2>4, <2>5, <3>1
  <2>7. PICK more \in SUBSET CallIds : more = tools \cup {id}
    OBVIOUS
  <2>8. m = [r EXCEPT !.tools = more, !.blocks = t]
    BY <2>1, <2>6, <2>7
  <2>9. /\ m \in Laps /\ m.tools = more /\ m.blocks = t /\ m.active = r.active
        /\ m.segment = r.segment /\ SameElse(r, m)
    <3>1. r \in Laps
      BY <1>2
    <3>2. m \in Laps
      BY <2>8, <3>1 DEF Laps
    <3>3. m.tools = more /\ m.blocks = t /\ m.active = r.active /\ m.segment = r.segment
      BY <2>8, <3>1 DEF Laps
    <3>4. SameElse(r, m)
      BY <2>8, <3>1 DEF Laps, SameElse
    <3> QED BY <3>2, <3>3, <3>4
  <2>10. ~HasBlock(s, b.id) /\ ~b.sealed /\ t = Append(s, b)
    BY <2>3, <2>4, <2>5
  <2>11. EachOnce(s) => EachOnce(t)
    BY <2>10, AppendedBlock
  <2>12. \A x : HasBlock(t, x) <=> HasBlock(s, x) \/ x = b.id
    BY <2>10, AppendedBlock
  <2>13. \A ids : OpenAre(s, ids) => OpenAre(t, ids \cup {b.id})
    BY <2>10, AppendedBlock
  <2>14. \A k \in 1 .. Len(t) : t[k] = b \/ (k \in 1 .. Len(s) /\ t[k] = s[k])
    BY <2>10, AppendedBlock
  <2>15. NumbersBelow(t, r.segment)
    BY <2>2, <2>4, <2>14, KindsDiffer DEF NumbersBelow
  <2>16. CallsInBlocks(t, more)
    <3>1. \A x \in more : HasBlock(t, x)
      BY <2>2, <2>4, <2>7, <2>12 DEF CallsInBlocks
    <3>2. \A k \in 1 .. Len(t) : t[k].id \in CallIds =>
             t[k].id \in more /\ t[k].kind = "Tool" /\ t[k].text = <<>>
      BY <2>2, <2>4, <2>7, <2>14 DEF CallsInBlocks
    <3> QED BY <3>1, <3>2 DEF CallsInBlocks
  <2>17. OpenAre(t, ActiveIds(m) \cup m.tools)
    <3>1. ActiveIds(m) = {}
      BY <1>2, <2>9 DEF ActiveIds
    <3>2. ActiveIds(m) \cup m.tools = tools \cup {b.id}
      BY <2>4, <2>7, <2>9, <3>1
    <3> QED BY <2>2, <2>13, <3>2
  <2>18. LastIsActive(m)
    BY <1>2, <2>9 DEF LastIsActive
  <2>19. Fits(m)
    BY <2>2, <2>9, <2>11, <2>15, <2>16, <2>17, <2>18 DEF Fits
  <2>20. SameShown(l, m)
    <3>1. \A x : TextShown(t, x) = TextShown(s, x)
      BY <2>4, <2>5, ShownOpened
    <3> QED BY <1>2, <2>1, <2>9, <3>1 DEF SameShown
  <2>21. SameElse(l, m)
    BY <1>2, <2>9 DEF SameElse
  <2> QED BY <1>2, <2>1, <2>7, <2>9, <2>19, <2>20, <2>21
<1> QED BY <1>3, <1>4

\* A message takes the place of what was collected; the blocks stay.
LEMMA DoneFits ==
    ASSUME NEW l \in Laps, Fits(l), NEW text \in Seq(Nat), NEW reasoning \in Seq(Nat),
           NEW found \in Seq(CallsOfMessage), NEW m, m = Done(l, text, reasoning, found)
    PROVE  /\ m \in Laps /\ Fits(m) /\ m.blocks = l.blocks /\ m.tools = l.tools
           /\ m.content = text /\ m.reasoning = reasoning
           /\ m.calls = (IF found = <<>> THEN l.calls ELSE found)
           /\ m.error = l.error /\ m.step = l.step /\ m.sealed = l.sealed /\ m.turn = l.turn
<1>1. PICK kept \in Seq(CallsOfMessage) : kept = IF found = <<>> THEN l.calls ELSE found
  <2>1. l.calls \in Seq(CallsOfMessage)
    BY LapFacts
  <2> QED BY <2>1
<1>2. m = [l EXCEPT !.content = text, !.reasoning = reasoning, !.calls = kept]
  BY <1>1 DEF Done
<1>3. m \in Laps
  BY <1>2 DEF Laps
<1>4. /\ m.blocks = l.blocks /\ m.tools = l.tools /\ m.active = l.active /\ m.segment = l.segment
      /\ m.content = text /\ m.reasoning = reasoning /\ m.calls = kept
  BY <1>2 DEF Laps
<1>5. m.error = l.error /\ m.step = l.step /\ m.sealed = l.sealed /\ m.turn = l.turn
  BY <1>2 DEF Laps
<1>6. ActiveIds(m) = ActiveIds(l)
  BY <1>4 DEF ActiveIds
<1>7. Fits(m)
  BY <1>4, <1>6 DEF Fits, LastIsActive
<1> QED BY <1>1, <1>3, <1>4, <1>5, <1>7

----------------------------------------------------------------------------
(* The end of the lap.                                                     *)

\* h[i] is the blocks with those of the first i calls.
OpenedUpTo(h, m, blocks, asked) ==
    h = [i \in 0 .. m |-> IF i = 0 THEN blocks ELSE OpenBlock(h[i - 1], asked[i].id, "Tool")]

LEMMA SomeOpened ==
    ASSUME NEW blocks, NEW asked, NEW n \in Nat
    PROVE  \E h : OpenedUpTo(h, n, blocks, asked)
<1> DEFINE Stuck == {m \in Nat : \A h : ~OpenedUpTo(h, m, blocks, asked)}
<1> SUFFICES ASSUME Stuck # {} PROVE FALSE
  OBVIOUS
<1>1. PICK m \in Stuck : \A k \in Stuck : m <= k
  <2>1. Stuck \in SUBSET Nat
    OBVIOUS
  <2> HIDE DEF Stuck
  <2> QED BY <2>1, SmallestIsIn
<1>2. m # 0
  <2>1. PICK h : h = [i \in 0 .. 0 |-> blocks]
    OBVIOUS
  <2>2. OpenedUpTo(h, 0, blocks, asked)
    BY <2>1 DEF OpenedUpTo
  <2> QED BY <1>1, <2>2
<1>3. m - 1 \in Nat /\ m - 1 < m /\ m \in Nat
  BY <1>1, <1>2
<1>4. PICK h : OpenedUpTo(h, m - 1, blocks, asked)
  BY <1>1, <1>3
<1>5. PICK g : g = [i \in 0 .. m |-> IF i = 0 THEN blocks ELSE OpenBlock(h[i - 1], asked[i].id, "Tool")]
  OBVIOUS
<1>6. \A i \in 0 .. m - 1 : g[i] = h[i]
  <2> HIDE DEF Stuck
  <2> SUFFICES ASSUME NEW i \in 0 .. m - 1 PROVE g[i] = h[i]
    OBVIOUS
  <2>1. i \in 0 .. m
    BY <1>3
  <2>2. g[i] = IF i = 0 THEN blocks ELSE OpenBlock(h[i - 1], asked[i].id, "Tool")
    BY <1>5, <2>1
  <2>3. h[i] = IF i = 0 THEN blocks ELSE OpenBlock(h[i - 1], asked[i].id, "Tool")
    BY <1>4 DEF OpenedUpTo
  <2> QED BY <2>2, <2>3
<1>7. \A i \in 0 .. m : i # 0 => g[i - 1] = h[i - 1]
  <2> HIDE DEF Stuck
  <2> QED BY <1>3, <1>6
<1>8. OpenedUpTo(g, m, blocks, asked)
  BY <1>5, <1>7 DEF OpenedUpTo
<1> QED BY <1>1, <1>8

LEMMA OpenAllIsOpened ==
    ASSUME NEW blocks, NEW asked, Len(asked) \in Nat
    PROVE  \E h : OpenedUpTo(h, Len(asked), blocks, asked) /\ OpenAll(blocks, asked) = h[Len(asked)]
<1> DEFINE P(h) == OpenedUpTo(h, Len(asked), blocks, asked)
           r == CHOOSE h : P(h)
<1>1. PICK h : P(h)
  BY SomeOpened
<1>2. OpenAll(blocks, asked) = r[Len(asked)]
  BY DEF OpenAll, OpenedUpTo
<1> HIDE DEF P
<1>3. P(r)
  BY <1>1
<1> QED BY <1>2, <1>3 DEF P

\* What opening the blocks of the first n calls leaves of the blocks.
Opened(s, blocks, ids, opened) ==
    /\ s \in Seq(Blocks)
    /\ \A kind : TextShown(s, kind) = TextShown(blocks, kind)
    /\ \A id : HasBlock(s, id) <=> HasBlock(blocks, id) \/ id \in opened
    /\ OpenAre(s, ids \cup opened)

LEMMA OneMoreOpened ==
    ASSUME NEW blocks, NEW ids, NEW opened, NEW s, Opened(s, blocks, ids, opened),
           NEW id \in CallIds, HasBlock(blocks, id) => id \in ids,
           NEW t, t = OpenBlock(s, id, "Tool")
    PROVE  Opened(t, blocks, ids, opened \cup {id})
<1>1. s \in Seq(Blocks)
  BY DEF Opened
<1>2. id \in StreamIds \cup CallIds /\ "Tool" \in StreamKinds \cup {"Tool"}
  OBVIOUS
<1>3. CASE HasBlock(s, id)
  <2>1. t = s
    BY <1>1, <1>2, <1>3, OpenBlockFacts
  <2>2. id \in ids \/ id \in opened
    BY <1>3 DEF Opened
  <2>3. ids \cup opened = ids \cup (opened \cup {id})
    BY <2>2
  <2>4. OpenAre(t, ids \cup (opened \cup {id}))
    BY <2>1, <2>3 DEF Opened
  <2>5. \A x : HasBlock(t, x) <=> HasBlock(blocks, x) \/ x \in opened \cup {id}
    BY <1>3, <2>1 DEF Opened
  <2> QED BY <2>1, <2>4, <2>5 DEF Opened
<1>4. CASE ~HasBlock(s, id)
  <2>1. PICK b \in Blocks : /\ b.id = id /\ b.kind = "Tool" /\ b.text = <<>> /\ ~b.sealed
                            /\ OpenBlock(s, id, "Tool") = Append(s, b)
    BY <1>1, <1>2, <1>4, OpenBlockFacts
  <2>2. ~HasBlock(s, b.id) /\ ~b.sealed /\ t = Append(s, b)
    BY <1>4, <2>1
  <2>3. t \in Seq(Blocks)
    BY <1>1, <2>2, AppendedBlock
  <2>4. \A x : HasBlock(t, x) <=> HasBlock(s, x) \/ x = b.id
    BY <1>1, <2>2, AppendedBlock
  <2>5. \A is : OpenAre(s, is) => OpenAre(t, is \cup {b.id})
    BY <1>1, <2>2, AppendedBlock
  <2>6. OpenAre(t, ids \cup (opened \cup {id}))
    <3>1. OpenAre(t, (ids \cup opened) \cup {b.id})
      BY <2>5 DEF Opened
    <3>2. (ids \cup opened) \cup {b.id} = ids \cup (opened \cup {id})
      BY <2>1
    <3> QED BY <3>1, <3>2
  <2>7. \A x : HasBlock(t, x) <=> HasBlock(blocks, x) \/ x \in opened \cup {id}
    <3> TAKE x
    <3>1. HasBlock(t, x) <=> HasBlock(s, x) \/ x = id
      BY <2>1, <2>4
    <3>2. HasBlock(s, x) <=> HasBlock(blocks, x) \/ x \in opened
      BY DEF Opened
    <3> QED BY <3>1, <3>2
  <2>8. \A kind : TextShown(t, kind) = TextShown(blocks, kind)
    <3> TAKE kind
    <3>1. TextShown(Append(s, b), kind) = TextShown(s, kind)
      BY <1>1, <2>1, ShownOpened
    <3>2. TextShown(t, kind) = TextShown(Append(s, b), kind)
      BY <2>2
    <3>3. TextShown(s, kind) = TextShown(blocks, kind)
      BY DEF Opened
    <3> QED BY <3>1, <3>2, <3>3
  <2> QED BY <2>3, <2>6, <2>7, <2>8 DEF Opened
<1> QED BY <1>3, <1>4

LEMMA OpenAllFacts ==
    ASSUME NEW blocks \in Seq(Blocks), NEW asked \in Seq(CallsOfMessage), NEW ids,
           OpenAre(blocks, ids),
           \A id \in CallIds : HasBlock(blocks, id) => id \in ids
    PROVE  Opened(OpenAll(blocks, asked), blocks, ids, IdsOf(asked))
<1>1. PICK N \in Nat : N = Len(asked)
  OBVIOUS
<1>2. PICK h : OpenedUpTo(h, N, blocks, asked) /\ OpenAll(blocks, asked) = h[N]
  BY <1>1, OpenAllIsOpened
<1> DEFINE First(i) == {asked[j].id : j \in 1 .. i}
           Right(i) == Opened(h[i], blocks, ids, First(i))
           Wrong == {i \in 0 .. N : ~Right(i)}
<1>3. Wrong = {}
  <2> SUFFICES ASSUME Wrong # {} PROVE FALSE
    OBVIOUS
  <2> HIDE DEF Right
  <2>1. PICK i \in Wrong : \A k \in Wrong : i <= k
    <3>1. Wrong \in SUBSET Nat
      OBVIOUS
    <3> HIDE DEF Wrong
    <3> QED BY <3>1, SmallestIsIn
  <2>2. i \in 0 .. N /\ ~Right(i)
    BY <2>1
  <2>3. CASE i = 0
    <3>1. h[0] = blocks
      BY <1>2, <2>2, <2>3 DEF OpenedUpTo
    <3>2. First(0) = {}
      OBVIOUS
    <3>3. ids \cup {} = ids
      OBVIOUS
    <3>4. Opened(blocks, blocks, ids, {})
      BY <3>3 DEF Opened
    <3> QED BY <2>2, <2>3, <3>1, <3>2, <3>4 DEF Right
  <2>4. CASE i # 0
    <3>1. i - 1 \in 0 .. N /\ ~(i <= i - 1) /\ i \in 1 .. N
      BY <2>2, <2>4
    <3>2. Right(i - 1)
      BY <2>1, <3>1
    <3>3. h[i] = OpenBlock(h[i - 1], asked[i].id, "Tool")
      BY <1>2, <2>2, <2>4 DEF OpenedUpTo
    <3>4. PICK id \in CallIds : id = asked[i].id
      <4>1. asked[i] \in CallsOfMessage
        BY <1>1, <3>1, ElementOfSeq
      <4>2. asked[i].id \in CallIds
        BY <4>1 DEF CallsOfMessage
      <4> QED BY <4>2
    <3>5. First(i) = First(i - 1) \cup {id}
      <4>1. \A j \in 1 .. i : j = i \/ j \in 1 .. i - 1
        BY <3>1
      <4>2. \A j \in 1 .. i - 1 : j \in 1 .. i
        BY <3>1
      <4>3. i \in 1 .. i
        BY <3>1
      <4> QED BY <3>4, <4>1, <4>2, <4>3
    <3>6. PICK s, opened : s = h[i - 1] /\ opened = First(i - 1)
      OBVIOUS
    <3>7. Opened(s, blocks, ids, opened)
      BY <3>2, <3>6 DEF Right
    <3>8. PICK t : t = h[i]
      OBVIOUS
    <3>9. t = OpenBlock(s, id, "Tool")
      BY <3>3, <3>4, <3>6, <3>8
    <3>10. Opened(t, blocks, ids, opened \cup {id})
      BY <3>7, <3>9, OneMoreOpened
    <3> HIDE DEF First
    <3> QED BY <2>2, <3>5, <3>6, <3>8, <3>10 DEF Right
  <2> QED BY <2>3, <2>4
<1>4. Right(N)
  <2>1. N \in 0 .. N
    BY <1>1
  <2> HIDE DEF Right
  <2> QED BY <1>3, <2>1
<1>5. First(N) = IdsOf(asked)
  BY <1>1 DEF IdsOf
<1> QED BY <1>2, <1>4, <1>5

\* The open blocks are known from their names.
LEMMA OpenSet ==
    ASSUME NEW blocks \in Seq(Blocks), NEW ids, OpenAre(blocks, ids),
           \A id \in ids : HasBlock(blocks, id)
    PROVE  {blocks[k].id : k \in {j \in DOMAIN blocks : ~blocks[j].sealed}} = ids
<1>1. PICK N \in Nat : N = Len(blocks)
  OBVIOUS
<1>2. DOMAIN blocks = 1 .. N
  BY <1>1
<1>3. \A k \in 1 .. N : ~blocks[k].sealed <=> blocks[k].id \in ids
  BY <1>1 DEF OpenAre
<1>4. \A id \in ids : \E k \in 1 .. N : blocks[k].id = id
  BY <1>1 DEF HasBlock
<1> QED BY <1>2, <1>3, <1>4

LEMMA NoneIsOpen ==
    ASSUME NEW blocks \in Seq(Blocks), OpenAre(blocks, {})
    PROVE  AllSealed(blocks)
<1>1. DOMAIN blocks = 1 .. Len(blocks)
  OBVIOUS
<1> QED BY <1>1 DEF OpenAre, AllSealed

\* Sealing takes names from the open ones.
LEMMA SealedAre ==
    ASSUME NEW blocks \in Seq(Blocks), NEW ids, NEW more, OpenAre(blocks, ids)
    PROVE  OpenAre(SealBlocks(blocks, more), ids \ more)
<1>1. PICK N \in Nat, s \in {SealBlocks(blocks, more)} : N = Len(blocks)
  OBVIOUS
<1>2. s = SealBlocks(blocks, more)
  BY <1>1
<1>3. Len(s) = N /\ \A k \in 1 .. N : /\ s[k].id = blocks[k].id
                                      /\ s[k].sealed <=> (blocks[k].sealed \/ blocks[k].id \in more)
  BY <1>1, <1>2, SealBlocksFacts
<1>4. \A k \in 1 .. N : ~blocks[k].sealed <=> blocks[k].id \in ids
  BY <1>1 DEF OpenAre
<1>5. OpenAre(s, ids \ more)
  BY <1>3, <1>4 DEF OpenAre
<1> QED BY <1>2, <1>5

----------------------------------------------------------------------------
(* What the provider has sent, and what is kept of it.                     *)

Pieces ==
    [type : {"text", "tag", "dsml", "xml", "fragment", "item"},
     kind : StreamKinds \cup {"none"}, of : Nat]

Gates ==
    [text : Seq(Nat), reasoning : Seq(Nat), thinking : BOOLEAN, calls : Seq(Nat), names : SUBSET Names]

OfKindIn(s, kind) == Among([n \in DOMAIN s |-> n], {n \in DOMAIN s : s[n].kind = kind})
OfTypeIn(s, text, type) == Among(text, {n \in DOMAIN s : s[n].type = type})
FragmentsIn(s, i) == {n \in DOMAIN s : s[n] = Piece("fragment", "none", i)}

LEMMA PieceFacts ==
    ASSUME NEW p \in Pieces
    PROVE  /\ p.type \in {"text", "tag", "dsml", "xml", "fragment", "item"}
           /\ p.kind \in StreamKinds \cup {"none"} /\ p.of \in Nat
  BY DEF Pieces

LEMMA PieceMade ==
    ASSUME NEW type \in {"text", "tag", "dsml", "xml", "fragment", "item"},
           NEW kind \in StreamKinds \cup {"none"}, NEW i \in Nat
    PROVE  /\ Piece(type, kind, i) \in Pieces
           /\ Piece(type, kind, i).type = type /\ Piece(type, kind, i).kind = kind
           /\ Piece(type, kind, i).of = i
  BY DEF Piece, Pieces

LEMMA GateFacts ==
    ASSUME NEW g \in Gates
    PROVE  /\ g.text \in Seq(Nat) /\ g.reasoning \in Seq(Nat) /\ g.thinking \in BOOLEAN
           /\ g.calls \in Seq(Nat) /\ g.names \in SUBSET Names
  BY DEF Gates

LEMMA SentFactsOf ==
    ASSUME NEW s \in Seq(Pieces), NEW p \in Pieces, NEW u, u = Append(s, p)
    PROVE  /\ u \in Seq(Pieces) /\ Len(u) = Len(s) + 1
           /\ DOMAIN s = 1 .. Len(s) /\ DOMAIN u = 1 .. Len(s) + 1
           /\ u[Len(s) + 1] = p /\ \A n \in 1 .. Len(s) : u[n] = s[n]
<1>1. u \in Seq(Pieces)
  OBVIOUS
<1>2. PICK N \in Nat : N = Len(s)
  OBVIOUS
<1>3. DOMAIN s = 1 .. N
  BY <1>2
<1>4. Len(u) = N + 1 /\ u[N + 1] = p /\ \A n \in 1 .. N : u[n] = s[n]
  BY <1>2
<1>5. DOMAIN u = 1 .. N + 1
  BY <1>1, <1>4
<1> QED BY <1>1, <1>2, <1>3, <1>4, <1>5

\* A piece is the last of its kind.
LEMMA KindGrows ==
    ASSUME NEW s \in Seq(Pieces), NEW p \in Pieces, NEW kind
    PROVE  OfKindIn(Append(s, p), kind) = IF p.kind = kind THEN Append(OfKindIn(s, kind), Len(s) + 1)
                               ELSE OfKindIn(s, kind)
<1>0. PICK u : u = Append(s, p)
  OBVIOUS
<1>1. PICK N \in Nat : N = Len(s)
  OBVIOUS
<1>2. DOMAIN s = 1 .. N /\ DOMAIN u = 1 .. N + 1
      /\ u[N + 1] = p /\ \A n \in 1 .. N : u[n] = s[n]
  BY <1>0, <1>1, SentFactsOf
<1>3. PICK a, b : a = [n \in 1 .. N |-> n] /\ b = [n \in 1 .. N + 1 |-> n]
  OBVIOUS
<1>4. a \in Seq(1 .. N) /\ a \in Seq(1 .. N + 1) /\ Len(a) = N /\ b \in Seq(1 .. N + 1) /\ Len(b) = N + 1
  <2>1. a \in Seq(1 .. N) /\ Len(a) = N
    BY <1>3
  <2>2. a \in [1 .. N -> 1 .. N + 1]
    BY <1>3
  <2>3. a \in Seq(1 .. N + 1)
    BY <2>2
  <2>4. b \in Seq(1 .. N + 1) /\ Len(b) = N + 1
    BY <1>3
  <2> QED BY <2>1, <2>3, <2>4
<1>5. PICK x \in 1 .. N + 1 : x = N + 1
  OBVIOUS
<1>6. b = Append(a, x)
  <2>1. PICK c : c = Append(a, x)
    OBVIOUS
  <2>2. c \in Seq(1 .. N + 1)
    BY <1>4, <1>5, <2>1
  <2>3. Len(c) = N + 1 /\ c[N + 1] = N + 1 /\ \A n \in 1 .. N : c[n] = a[n]
    BY <1>4, <1>5, <2>1
  <2>4. \A n \in 1 .. N + 1 : b[n] = c[n]
    <3> TAKE n \in 1 .. N + 1
    <3>1. b[n] = n
      BY <1>3
    <3>2. CASE n = N + 1
      BY <2>3, <3>1, <3>2
    <3>3. CASE n # N + 1
      <4>1. n \in 1 .. N
        BY <3>3
      <4>2. a[n] = n
        BY <1>3, <4>1
      <4> QED BY <2>3, <3>1, <4>1, <4>2
    <3> QED BY <3>2, <3>3
  <2>5. b = c
    BY <1>4, <2>2, <2>3, <2>4, SeqEqual
  <2> QED BY <2>1, <2>5
<1>7. PICK P, Q : P = {n \in 1 .. N : s[n].kind = kind} /\ Q = {n \in 1 .. N + 1 : u[n].kind = kind}
  OBVIOUS
<1>8. OfKindIn(s, kind) = Among(a, P)
  BY <1>2, <1>3, <1>7 DEF OfKindIn
<1>9. OfKindIn(u, kind) = Among(b, Q)
  BY <1>2, <1>3, <1>7 DEF OfKindIn
<1>10. Among(b, Q) = IF x \in Q THEN Append(Among(a, Q), x) ELSE Among(a, Q)
  BY <1>4, <1>6, AmongAppend
<1>11. \A n \in 1 .. N : n \in P <=> n \in Q
  BY <1>2, <1>7
<1>12. Among(a, P) = Among(a, Q)
  <2>1. a \in Seq(1 .. N)
    BY <1>4
  <2>2. \A n \in 1 .. N : n \in P <=> n \in Q
    BY <1>11
  <2> HIDE <1>4, <1>11
  <2> QED BY <2>1, <2>2, AmongSame
<1>13. x \in Q <=> p.kind = kind
  BY <1>2, <1>5, <1>7
<1> QED BY <1>0, <1>1, <1>5, <1>8, <1>9, <1>10, <1>12, <1>13

\* What is said of a text does not change when more is sent.
LEMMA TypeStays ==
    ASSUME NEW s \in Seq(Pieces), NEW p \in Pieces,
           NEW text \in Seq(1 .. Len(s)), NEW type
    PROVE  OfTypeIn(Append(s, p), text, type) = OfTypeIn(s, text, type)
<1>0. PICK u : u = Append(s, p)
  OBVIOUS
<1>1. PICK N \in Nat : N = Len(s)
  OBVIOUS
<1>2. DOMAIN s = 1 .. N /\ DOMAIN u = 1 .. N + 1 /\ \A n \in 1 .. N : u[n] = s[n]
  BY <1>0, <1>1, SentFactsOf
<1>3. PICK P, Q : P = {n \in 1 .. N : s[n].type = type} /\ Q = {n \in 1 .. N + 1 : u[n].type = type}
  OBVIOUS
<1>4. OfTypeIn(s, text, type) = Among(text, P) /\ OfTypeIn(u, text, type) = Among(text, Q)
  BY <1>2, <1>3 DEF OfTypeIn
<1>5. \A n \in 1 .. N : n \in P <=> n \in Q
  BY <1>2, <1>3
<1>6. Among(text, P) = Among(text, Q)
  BY <1>1, <1>5, AmongSame
<1> QED BY <1>0, <1>4, <1>6

LEMMA TypeGrows ==
    ASSUME NEW s \in Seq(Pieces), NEW p \in Pieces,
           NEW text \in Seq(1 .. Len(s)), NEW type
    PROVE  OfTypeIn(Append(s, p), Append(text, Len(s) + 1), type) =
             IF p.type = type THEN Append(OfTypeIn(s, text, type), Len(s) + 1)
             ELSE OfTypeIn(s, text, type)
<1>0. PICK u : u = Append(s, p)
  OBVIOUS
<1>1. PICK N \in Nat : N = Len(s)
  OBVIOUS
<1>2. DOMAIN u = 1 .. N + 1 /\ u[N + 1] = p
  BY <1>0, <1>1, SentFactsOf
<1>3. PICK Q : Q = {n \in 1 .. N + 1 : u[n].type = type}
  OBVIOUS
<1>4. PICK x \in 1 .. N + 1 : x = N + 1
  OBVIOUS
<1>5. text \in Seq(1 .. N + 1)
  <2>1. 1 .. N \subseteq 1 .. N + 1
    OBVIOUS
  <2> QED BY <1>1, <2>1, SeqMonotonic
<1>6. OfTypeIn(u, text, type) = Among(text, Q) /\ OfTypeIn(u, Append(text, x), type) = Among(Append(text, x), Q)
  BY <1>2, <1>3 DEF OfTypeIn
<1>7. Among(Append(text, x), Q) = IF x \in Q THEN Append(Among(text, Q), x) ELSE Among(text, Q)
  BY <1>5, AmongAppend
<1>8. x \in Q <=> p.type = type
  BY <1>2, <1>3, <1>4
<1>9. OfTypeIn(u, text, type) = OfTypeIn(s, text, type)
  <2>1. DOMAIN s = 1 .. N /\ \A n \in 1 .. N : u[n] = s[n]
    BY <1>0, <1>1, SentFactsOf
  <2>2. PICK P : P = {n \in 1 .. N : s[n].type = type}
    OBVIOUS
  <2>3. OfTypeIn(s, text, type) = Among(text, P)
    BY <2>1, <2>2 DEF OfTypeIn
  <2>4. \A n \in 1 .. N : n \in P <=> n \in Q
    BY <1>3, <2>1, <2>2
  <2>5. Among(text, P) = Among(text, Q)
    BY <1>1, <2>4, AmongSame
  <2> QED BY <1>6, <2>3, <2>5
<1> QED BY <1>0, <1>1, <1>4, <1>6, <1>7, <1>8, <1>9

----------------------------------------------------------------------------
(* The inductive invariant.                                                *)

GateShapes ==
    /\ api \in {"openai", "responses"} /\ cancelled \in BOOLEAN
    /\ phase \in {"post", "wait", "poll", "read", "return", "over"}
    /\ sent \in Seq(Pieces) /\ gate \in Gates /\ lap \in Laps

\* Every piece is kept once and in order.
AnswerKept == gate.text = OfKindIn(sent, "Text") /\ gate.reasoning = OfKindIn(sent, "Reasoning")

\* A name was shown because of a call in the text.
NamesCounted ==
    /\ IsFiniteSet(gate.names)
    /\ Cardinality(gate.names) <= Len(OfTypeIn(sent, gate.text, "dsml"))
    /\ api = "responses" => gate.names = {}

\* A call has all of its fragments that were sent.
CallsCounted ==
    /\ \A i \in Nat \ {0} :
         /\ Cardinality(FragmentsIn(sent, i)) =
              IF api = "openai" /\ i \in 1 .. Len(gate.calls) THEN gate.calls[i] ELSE 0
         /\ Piece("item", "none", i) \in ToSet(sent) <=> api = "responses" /\ i \in 1 .. Len(gate.calls)
    /\ \A i \in 1 .. Len(gate.calls) : api = "responses" => gate.calls[i] = Fragments

\* A block that was opened at the first sign of a call is that of a call of the message to come.
ToolsKnown ==
    \A id \in lap.tools :
        \/ \E i \in 1 .. Len(gate.calls) : id = Native(i)
        \/ \E k \in Nat : k < Cardinality(gate.names) /\ id = Marked("dsml", k)

FoundCalls ==
    IF api = "openai" THEN Merge(NativeCalls, MarkedCalls(gate.text, "dsml")) ELSE NativeCalls
FoundText ==
    IF api = "responses" THEN gate.text ELSE Among(gate.text, DOMAIN sent \ PlacesOf("dsml"))

Collecting == phase \notin {"return", "over"} => lap.calls = <<>> /\ ~lap.error
Fitting == phase # "over" => Fits(lap) /\ lap.step = Nothing /\ lap.turn = "Running" /\ ToolsKnown
Showing ==
    phase # "over" /\ ~cancelled =>
        TextShown(lap.blocks, "Text") = gate.text /\ TextShown(lap.blocks, "Reasoning") = gate.reasoning
Returning ==
    phase = "return" /\ ~lap.error =>
        lap.calls = FoundCalls /\ lap.content = FoundText /\ lap.reasoning = gate.reasoning

GateOngoing == AnswerKept /\ NamesCounted /\ CallsCounted /\ Collecting /\ Fitting /\ Showing /\ Returning

GateInv == GateShapes /\ GateOngoing /\ RoundCloses /\ MessageIsWhatWasShown /\ CallsAsSent

LEMMA FragmentsFinite ==
    ASSUME NEW s \in Seq(Pieces), NEW i
    PROVE  IsFiniteSet(FragmentsIn(s, i)) /\ FragmentsIn(s, i) \subseteq 1 .. Len(s)
<1>1. FragmentsIn(s, i) \subseteq 1 .. Len(s)
  BY DEF FragmentsIn
<1>2. Len(s) \in Nat
  OBVIOUS
<1>3. IsFiniteSet(1 .. Len(s))
  BY <1>2, FS_Interval
<1> QED BY <1>1, <1>3, FS_Subset

LEMMA FragmentsGrow ==
    ASSUME NEW s \in Seq(Pieces), NEW p \in Pieces, NEW i
    PROVE  /\ p = Piece("fragment", "none", i) =>
                Cardinality(FragmentsIn(Append(s, p), i)) = Cardinality(FragmentsIn(s, i)) + 1
           /\ p # Piece("fragment", "none", i) => FragmentsIn(Append(s, p), i) = FragmentsIn(s, i)
<1>0. PICK u : u = Append(s, p)
  OBVIOUS
<1>1. PICK N \in Nat : N = Len(s)
  OBVIOUS
<1>2. DOMAIN s = 1 .. N /\ DOMAIN u = 1 .. N + 1 /\ u[N + 1] = p /\ \A n \in 1 .. N : u[n] = s[n]
  BY <1>0, <1>1, SentFactsOf
<1>3. \A n \in 1 .. N + 1 : n = N + 1 \/ n \in 1 .. N
  OBVIOUS
<1>4. N + 1 \in 1 .. N + 1 /\ \A n \in 1 .. N : n \in 1 .. N + 1
  OBVIOUS
<1>5. PICK x : x = Piece("fragment", "none", i)
  OBVIOUS
<1>6. PICK F, G : F = FragmentsIn(s, i) /\ G = FragmentsIn(u, i)
  OBVIOUS
<1>7. F = {n \in 1 .. N : s[n] = x} /\ G = {n \in 1 .. N + 1 : u[n] = x}
  BY <1>2, <1>5, <1>6 DEF FragmentsIn
<1>8. p = x => G = F \cup {N + 1}
  BY <1>2, <1>3, <1>4, <1>7
<1>9. p # x => G = F
  BY <1>2, <1>3, <1>4, <1>7
<1>10. N + 1 \notin F
  BY <1>7
<1>11. IsFiniteSet(F)
  BY <1>6, FragmentsFinite
<1>12. Cardinality(F \cup {N + 1}) = Cardinality(F) + 1
  BY <1>10, <1>11, FS_AddElement
<1> QED BY <1>0, <1>5, <1>6, <1>8, <1>9, <1>12

LEMMA SetGrows ==
    ASSUME NEW s \in Seq(Pieces), NEW p \in Pieces
    PROVE  ToSet(Append(s, p)) = ToSet(s) \cup {p}
<1>0. PICK u : u = Append(s, p)
  OBVIOUS
<1>1. PICK N \in Nat : N = Len(s)
  OBVIOUS
<1>2. DOMAIN s = 1 .. N /\ DOMAIN u = 1 .. N + 1 /\ u[N + 1] = p /\ \A n \in 1 .. N : u[n] = s[n]
  BY <1>0, <1>1, SentFactsOf
<1>3. \A n \in 1 .. N + 1 : n = N + 1 \/ n \in 1 .. N
  OBVIOUS
<1>4. N + 1 \in 1 .. N + 1 /\ \A n \in 1 .. N : n \in 1 .. N + 1
  OBVIOUS
<1>5. ToSet(s) = {s[n] : n \in 1 .. N} /\ ToSet(u) = {u[n] : n \in 1 .. N + 1}
  BY <1>2 DEF ToSet
<1> QED BY <1>0, <1>2, <1>3, <1>4, <1>5

LEMMA KindTyped ==
    ASSUME NEW s \in Seq(Pieces), NEW kind
    PROVE  OfKindIn(s, kind) \in Seq(1 .. Len(s))
<1>1. PICK N \in Nat : N = Len(s)
  OBVIOUS
<1>2. DOMAIN s = 1 .. N
  BY <1>1
<1>3. PICK a : a = [n \in 1 .. N |-> n]
  OBVIOUS
<1>4. a \in Seq(1 .. N)
  BY <1>3
<1>5. OfKindIn(s, kind) = Among(a, {n \in DOMAIN s : s[n].kind = kind})
  BY <1>2, <1>3 DEF OfKindIn
<1> QED BY <1>1, <1>4, <1>5, AmongTyped

LEMMA NamesOf ==
    /\ \A i : Native(i)[1] = "native" /\ Native(i)[2] = i
    /\ \A flavour, i : Marked(flavour, i)[1] = flavour /\ Marked(flavour, i)[2] = i
    /\ \A i \in Nat : Native(i) \in CallIds
    /\ \A flavour \in {"dsml", "xml"}, i \in Nat : Marked(flavour, i) \in CallIds
<1>1. \A i : Native(i)[1] = "native" /\ Native(i)[2] = i
  BY DEF Native
<1>2. \A flavour, i : Marked(flavour, i)[1] = flavour /\ Marked(flavour, i)[2] = i
  BY DEF Marked
<1>3. \A i \in Nat : Native(i) \in CallIds
  BY DEF Native, CallIds
<1>4. \A flavour \in {"dsml", "xml"}, i \in Nat : Marked(flavour, i) \in CallIds
  BY DEF Marked, CallIds
<1> QED BY <1>1, <1>2, <1>3, <1>4

\* The sequences of the module are those of the lemmas.
LEMMA SameSequences ==
    ASSUME GateShapes
    PROVE  /\ \A type : OfType(gate.text, type) = OfTypeIn(sent, gate.text, type)
           /\ \A kind : SentOf(kind) = OfKindIn(sent, kind)
           /\ \A kind : Shown(kind) = TextShown(lap.blocks, kind)
           /\ \A i : {n \in DOMAIN sent : sent[n] = Piece("fragment", "none", i)} = FragmentsIn(sent, i)
<1>1. \A type : OfType(gate.text, type) = OfTypeIn(sent, gate.text, type)
  BY DEF OfType, OfTypeIn, PlacesOf
<1>2. \A kind : SentOf(kind) = OfKindIn(sent, kind)
  BY DEF SentOf, OfKindIn
<1>3. \A kind : Shown(kind) = TextShown(lap.blocks, kind)
  BY DEF Shown, TextShown
<1>4. \A i : {n \in DOMAIN sent : sent[n] = Piece("fragment", "none", i)} = FragmentsIn(sent, i)
  BY DEF FragmentsIn
<1> QED BY <1>1, <1>2, <1>3, <1>4

----------------------------------------------------------------------------
(* A step that reads.                                                      *)

LEMMA ReadKeeps ==
    ASSUME GateInv, phase = "read", NEW p \in Pieces, Send(p),
           gate' \in Gates, lap' \in Laps, Fits(lap'),
           lap'.calls = lap.calls, lap'.error = lap.error, lap'.step = lap.step, lap'.turn = lap.turn,
           AnswerKept', NamesCounted', CallsCounted', ToolsKnown', Showing'
    PROVE  GateInv'
<1>1. /\ sent' = Append(sent, p) /\ phase' = "poll" /\ api' = api /\ cancelled' = cancelled
  BY DEF Send
<1>2. GateShapes'
  <2>1. Append(sent, p) \in Seq(Pieces)
    BY DEF GateInv, GateShapes
  <2>2. api \in {"openai", "responses"} /\ cancelled \in BOOLEAN
    BY DEF GateInv, GateShapes
  <2> QED BY <1>1, <2>1, <2>2 DEF GateShapes
<1>3. lap.calls = <<>> /\ ~lap.error /\ lap.step = Nothing /\ lap.turn = "Running"
  BY DEF GateInv, GateOngoing, Collecting, Fitting
<1>4. Collecting' /\ Fitting' /\ Returning'
  <2>1. lap'.calls = <<>> /\ ~lap'.error /\ lap'.step = Nothing /\ lap'.turn = "Running"
    BY <1>3
  <2> QED BY <1>1, <2>1 DEF Collecting, Fitting, Returning
<1>5. RoundCloses'
  BY <1>1 DEF RoundCloses
<1>6. ~Answered'
  BY <1>3 DEF Answered
<1>7. MessageIsWhatWasShown' /\ CallsAsSent'
  BY <1>6 DEF MessageIsWhatWasShown, CallsAsSent
<1> QED BY <1>2, <1>4, <1>5, <1>7 DEF GateInv, GateOngoing

\* What is true while the answer is read.
LEMMA Reading ==
    ASSUME GateInv, phase = "read"
    PROVE  /\ GateShapes /\ AnswerKept /\ NamesCounted /\ CallsCounted /\ ToolsKnown
           /\ sent \in Seq(Pieces) /\ gate \in Gates /\ lap \in Laps /\ Fits(lap)
           /\ ~cancelled => TextShown(lap.blocks, "Text") = gate.text
                            /\ TextShown(lap.blocks, "Reasoning") = gate.reasoning
           /\ Number = Len(sent) + 1 /\ Number \in Nat
<1>1. sent \in Seq(Pieces)
  BY DEF GateInv, GateShapes
<1>2. Len(sent) \in Nat
  BY <1>1
<1>3. Number = Len(sent) + 1 /\ Number \in Nat
  BY <1>2 DEF Number
<1> QED BY <1>3 DEF GateInv, GateShapes, GateOngoing, Fitting, Showing

LEMMA KeptFacts ==
    ASSUME NEW g \in Gates, NEW n \in Nat, NEW kind \in StreamKinds, NEW k, k = Kept(g, n, kind)
    PROVE  /\ k \in Gates /\ k.calls = g.calls /\ k.names = g.names /\ k.thinking = g.thinking
           /\ k.text = (IF kind = "Text" THEN Append(g.text, n) ELSE g.text)
           /\ k.reasoning = (IF kind = "Reasoning" THEN Append(g.reasoning, n) ELSE g.reasoning)
<1>1. g.text \in Seq(Nat) /\ g.reasoning \in Seq(Nat)
  BY GateFacts
<1>2. PICK t \in Seq(Nat), r \in Seq(Nat) : t = Append(g.text, n) /\ r = Append(g.reasoning, n)
  <2>1. Append(g.text, n) \in Seq(Nat) /\ Append(g.reasoning, n) \in Seq(Nat)
    BY <1>1
  <2> QED BY <2>1
<1>3. CASE kind = "Text"
  <2>1. k = [g EXCEPT !.text = t]
    BY <1>2, <1>3 DEF Kept
  <2>2. k \in Gates /\ k.calls = g.calls /\ k.names = g.names /\ k.thinking = g.thinking
        /\ k.text = t /\ k.reasoning = g.reasoning
    BY <2>1 DEF Gates
  <2> QED BY <1>2, <1>3, <2>2
<1>4. CASE kind = "Reasoning"
  <2>1. k = [g EXCEPT !.reasoning = r]
    BY <1>2, <1>4 DEF Kept
  <2>2. k \in Gates /\ k.calls = g.calls /\ k.names = g.names /\ k.thinking = g.thinking
        /\ k.text = g.text /\ k.reasoning = r
    BY <2>1 DEF Gates
  <2> QED BY <1>2, <1>4, <2>2
<1> QED BY <1>3, <1>4 DEF StreamKinds

LEMMA CountsStay ==
    ASSUME sent \in Seq(Pieces), CallsCounted, NEW p \in Pieces, p.type \notin {"fragment", "item"},
           sent' = Append(sent, p), api' = api, gate'.calls = gate.calls
    PROVE  CallsCounted'
<1>1. PICK u : u = sent'
  OBVIOUS
<1>2. u = Append(sent, p)
  BY <1>1
<1>3. \A i \in Nat \ {0} : FragmentsIn(u, i) = FragmentsIn(sent, i)
  <2> TAKE i \in Nat \ {0}
  <2>1. Piece("fragment", "none", i).type = "fragment"
    BY DEF Piece
  <2>2. p # Piece("fragment", "none", i)
    BY <2>1
  <2>3. PICK s \in Seq(Pieces) : s = sent
    OBVIOUS
  <2>4. u = Append(s, p)
    BY <1>2, <2>3
  <2>5. FragmentsIn(Append(s, p), i) = FragmentsIn(s, i)
    BY <2>2, FragmentsGrow
  <2> QED BY <2>3, <2>4, <2>5
<1>4. \A i \in Nat \ {0} : Piece("item", "none", i) \in ToSet(u) <=> Piece("item", "none", i) \in ToSet(sent)
  <2> TAKE i \in Nat \ {0}
  <2>0. Piece("item", "none", i).type = "item"
    BY DEF Piece
  <2>1. p # Piece("item", "none", i)
    BY <2>0
  <2>2. ToSet(u) = ToSet(sent) \cup {p}
    BY <1>2, SetGrows
  <2> QED BY <2>1, <2>2
<1>5. \A i \in Nat \ {0} :
        /\ Cardinality(FragmentsIn(sent, i)) =
             IF api = "openai" /\ i \in 1 .. Len(gate.calls) THEN gate.calls[i] ELSE 0
        /\ Piece("item", "none", i) \in ToSet(sent) <=> api = "responses" /\ i \in 1 .. Len(gate.calls)
  BY DEF CallsCounted
<1>6. \A i \in 1 .. Len(gate.calls) : api = "responses" => gate.calls[i] = Fragments
  BY DEF CallsCounted
<1> QED BY <1>1, <1>3, <1>4, <1>5, <1>6 DEF CallsCounted

\* The kept answer after a piece of text or reasoning, and what is shown of it.
LEMMA TextIsKept ==
    ASSUME GateInv, phase = "read", NEW p \in Pieces, NEW kind \in StreamKinds, p.kind = kind,
           NEW g, g = Kept(gate, Number, kind),
           NEW m, m = Delta(lap, Number, kind)
    PROVE  /\ g \in Gates /\ g.calls = gate.calls /\ g.names = gate.names
           /\ g.text = OfKindIn(Append(sent, p), "Text") /\ g.reasoning = OfKindIn(Append(sent, p), "Reasoning")
           /\ m \in Laps /\ Fits(m) /\ SameCalls(lap, m)
           /\ ~cancelled => TextShown(m.blocks, "Text") = g.text
                            /\ TextShown(m.blocks, "Reasoning") = g.reasoning
           /\ Len(OfTypeIn(Append(sent, p), g.text, "dsml")) =
                IF kind = "Text" /\ p.type = "dsml" THEN Len(OfTypeIn(sent, gate.text, "dsml")) + 1
                ELSE Len(OfTypeIn(sent, gate.text, "dsml"))
<1>0. PICK u : u = Append(sent, p)
  OBVIOUS
<1>1. /\ AnswerKept /\ sent \in Seq(Pieces) /\ gate \in Gates /\ lap \in Laps /\ Fits(lap)
      /\ Number = Len(sent) + 1 /\ Number \in Nat
  BY Reading
<1>2. ~cancelled => TextShown(lap.blocks, "Text") = gate.text
                    /\ TextShown(lap.blocks, "Reasoning") = gate.reasoning
  BY Reading
<1>3. PICK n \in Nat : n = Number
  BY <1>1
<1>4. n = Len(sent) + 1 /\ g = Kept(gate, n, kind) /\ m = Delta(lap, n, kind)
  BY <1>1, <1>3
<1>15. PICK s \in Seq(Pieces) : s = sent
  BY <1>1
<1>16. u = Append(s, p) /\ n = Len(s) + 1
  BY <1>0, <1>4, <1>15
<1>5. /\ g \in Gates /\ g.calls = gate.calls /\ g.names = gate.names
      /\ g.text = (IF kind = "Text" THEN Append(gate.text, n) ELSE gate.text)
      /\ g.reasoning = (IF kind = "Reasoning" THEN Append(gate.reasoning, n) ELSE gate.reasoning)
  BY <1>1, <1>4, KeptFacts
<1>6. "Text" \in StreamKinds /\ "Reasoning" \in StreamKinds /\ "Text" # "Reasoning"
  BY DEF StreamKinds
<1>7. g.text = OfKindIn(u, "Text")
  <2>1. OfKindIn(u, "Text") = IF kind = "Text" THEN Append(OfKindIn(sent, "Text"), n) ELSE OfKindIn(sent, "Text")
    <3>1. \A k : OfKindIn(Append(s, p), k) =
                     IF p.kind = k THEN Append(OfKindIn(s, k), Len(s) + 1) ELSE OfKindIn(s, k)
      BY KindGrows
    <3> QED BY <1>15, <1>16, <3>1
  <2> QED BY <1>1, <1>5, <2>1 DEF AnswerKept
<1>8. g.reasoning = OfKindIn(u, "Reasoning")
  <2>1. OfKindIn(u, "Reasoning") = IF kind = "Reasoning" THEN Append(OfKindIn(sent, "Reasoning"), n)
                                   ELSE OfKindIn(sent, "Reasoning")
    <3>1. \A k : OfKindIn(Append(s, p), k) =
                     IF p.kind = k THEN Append(OfKindIn(s, k), Len(s) + 1) ELSE OfKindIn(s, k)
      BY KindGrows
    <3> QED BY <1>15, <1>16, <3>1
  <2> QED BY <1>1, <1>5, <2>1 DEF AnswerKept
<1>9. m \in Laps /\ Fits(m) /\ SameCalls(lap, m)
  BY <1>1, <1>4, DeltaFits
<1>10. ~cancelled => \A k \in StreamKinds :
          TextShown(m.blocks, k) = IF k = kind THEN Append(TextShown(lap.blocks, k), n)
                                   ELSE TextShown(lap.blocks, k)
  BY <1>1, <1>4, DeltaFits
<1>11. ~cancelled => TextShown(m.blocks, "Text") = g.text /\ TextShown(m.blocks, "Reasoning") = g.reasoning
  BY <1>2, <1>5, <1>6, <1>10
<1>12. gate.text \in Seq(1 .. Len(sent))
  BY <1>1, KindTyped DEF AnswerKept
<1>13. CASE kind = "Text"
  <2>1. OfTypeIn(u, g.text, "dsml") = IF p.type = "dsml" THEN Append(OfTypeIn(sent, gate.text, "dsml"), n)
                                      ELSE OfTypeIn(sent, gate.text, "dsml")
    <3>1. PICK t \in Seq(1 .. Len(s)) : t = gate.text
      BY <1>12, <1>15
    <3>2. OfTypeIn(Append(s, p), Append(t, Len(s) + 1), "dsml") =
            IF p.type = "dsml" THEN Append(OfTypeIn(s, t, "dsml"), Len(s) + 1) ELSE OfTypeIn(s, t, "dsml")
      BY TypeGrows
    <3>3. g.text = Append(t, Len(s) + 1)
      BY <1>5, <1>13, <1>16, <3>1
    <3> QED BY <1>15, <1>16, <3>1, <3>2, <3>3
  <2>2. PICK q \in Seq(1 .. Len(sent)) : q = OfTypeIn(sent, gate.text, "dsml")
    BY <1>12, AmongTyped DEF OfTypeIn
  <2>3. Len(Append(q, n)) = Len(q) + 1
    OBVIOUS
  <2> QED BY <1>0, <1>5, <1>7, <1>8, <1>9, <1>11, <1>13, <2>1, <2>2, <2>3
<1>14. CASE kind # "Text"
  <2>1. OfTypeIn(u, g.text, "dsml") = OfTypeIn(sent, gate.text, "dsml")
    <3>1. PICK t \in Seq(1 .. Len(s)) : t = gate.text
      BY <1>12, <1>15
    <3>2. OfTypeIn(Append(s, p), t, "dsml") = OfTypeIn(s, t, "dsml")
      BY TypeStays
    <3> QED BY <1>5, <1>14, <1>15, <1>16, <3>1, <3>2
  <2> QED BY <1>0, <1>5, <1>7, <1>8, <1>9, <1>11, <1>14, <2>1
<1> QED BY <1>13, <1>14

LEMMA PlainText ==
    ASSUME GateInv, phase = "read", NEW p \in Pieces, p.type \notin {"fragment", "item"},
           NEW kind \in StreamKinds, p.kind = kind, Send(p),
           gate' = Kept(gate, Number, kind), lap' = Delta(lap, Number, kind)
    PROVE  GateInv'
<1>1. sent' = Append(sent, p) /\ api' = api /\ cancelled' = cancelled
  BY DEF Send
<1>2. PICK u, g, m : u = Append(sent, p) /\ g = Kept(gate, Number, kind) /\ m = Delta(lap, Number, kind)
  OBVIOUS
<1>3. sent' = u /\ gate' = g /\ lap' = m
  BY <1>1, <1>2
<1>4. u = Append(sent, p)
  BY <1>2
<1>5. g = Kept(gate, Number, kind)
  BY <1>2
<1>6. m = Delta(lap, Number, kind)
  BY <1>2
<1>7. /\ g \in Gates /\ g.calls = gate.calls /\ g.names = gate.names
      /\ g.text = OfKindIn(u, "Text") /\ g.reasoning = OfKindIn(u, "Reasoning")
      /\ m \in Laps /\ Fits(m) /\ SameCalls(lap, m)
      /\ ~cancelled => TextShown(m.blocks, "Text") = g.text
                       /\ TextShown(m.blocks, "Reasoning") = g.reasoning
      /\ Len(OfTypeIn(u, g.text, "dsml")) =
           IF kind = "Text" /\ p.type = "dsml" THEN Len(OfTypeIn(sent, gate.text, "dsml")) + 1
           ELSE Len(OfTypeIn(sent, gate.text, "dsml"))
  <2>1. /\ g \in Gates /\ g.calls = gate.calls /\ g.names = gate.names
        /\ g.text = OfKindIn(Append(sent, p), "Text") /\ g.reasoning = OfKindIn(Append(sent, p), "Reasoning")
    BY <1>5, TextIsKept
  <2>2. m \in Laps /\ Fits(m) /\ SameCalls(lap, m)
    BY <1>6, TextIsKept
  <2>3. ~cancelled => TextShown(m.blocks, "Text") = g.text /\ TextShown(m.blocks, "Reasoning") = g.reasoning
    BY <1>5, <1>6, TextIsKept
  <2>4. Len(OfTypeIn(Append(sent, p), g.text, "dsml")) =
           IF kind = "Text" /\ p.type = "dsml" THEN Len(OfTypeIn(sent, gate.text, "dsml")) + 1
           ELSE Len(OfTypeIn(sent, gate.text, "dsml"))
    BY <1>5, TextIsKept
  <2> QED BY <1>4, <2>1, <2>2, <2>3, <2>4
<1>8. /\ NamesCounted /\ CallsCounted /\ ToolsKnown /\ sent \in Seq(Pieces) /\ AnswerKept
  BY Reading
<1>9. CallsCounted'
  BY <1>1, <1>3, <1>7, <1>8, CountsStay
<1>10. AnswerKept'
  BY <1>3, <1>7 DEF AnswerKept
<1>11. NamesCounted'
  <2>1. PICK c \in Nat, d \in Nat : c = Cardinality(gate.names) /\ d = Len(OfTypeIn(sent, gate.text, "dsml"))
    <3>1. Cardinality(gate.names) \in Nat
      BY <1>8, FS_CardinalityType DEF NamesCounted
    <3>2. OfTypeIn(sent, gate.text, "dsml") \in Seq(1 .. Len(sent))
      BY <1>8, KindTyped, AmongTyped DEF OfTypeIn, AnswerKept
    <3>3. Len(OfTypeIn(sent, gate.text, "dsml")) \in Nat
      BY <3>2
    <3> QED BY <3>1, <3>3
  <2>2. c <= d
    BY <1>8, <2>1 DEF NamesCounted
  <2>3. c <= Len(OfTypeIn(u, g.text, "dsml"))
    BY <1>7, <2>1, <2>2
  <2> QED BY <1>1, <1>3, <1>7, <1>8, <2>1, <2>3 DEF NamesCounted
<1>12. ToolsKnown'
  BY <1>3, <1>7, <1>8 DEF ToolsKnown, SameCalls
<1>13. Showing'
  BY <1>1, <1>3, <1>7 DEF Showing
<1>14. gate' \in Gates /\ lap' \in Laps /\ Fits(lap')
  BY <1>3, <1>7
<1>15. lap'.calls = lap.calls /\ lap'.error = lap.error /\ lap'.step = lap.step /\ lap'.turn = lap.turn
  BY <1>3, <1>7 DEF SameCalls
<1> QED BY <1>9, <1>10, <1>11, <1>12, <1>13, <1>14, <1>15, ReadKeeps

LEMMA KindIsOne == TextKind \in StreamKinds /\ "Reasoning" \in StreamKinds /\ "Text" \in StreamKinds
  BY DEF TextKind, StreamKinds

LEMMA ReadTextKeeps ==
    ASSUME GateInv, ReadText
    PROVE  GateInv'
<1>1. PICK p, kind : p = Piece("text", kind, 0) /\ kind = TextKind
  OBVIOUS
<1>2. kind \in StreamKinds
  BY <1>1, KindIsOne
<1>3. p \in Pieces /\ p.type = "text" /\ p.kind = kind
  BY <1>1, <1>2 DEF Piece, Pieces
<1>4. phase = "read" /\ Send(p) /\ gate' = Kept(gate, Number, kind) /\ lap' = Delta(lap, Number, kind)
  BY <1>1 DEF ReadText, Send
<1> QED BY <1>2, <1>3, <1>4, PlainText

LEMMA ReadReasoningKeeps ==
    ASSUME GateInv, ReadReasoning
    PROVE  GateInv'
<1>1. PICK p, kind : p = Piece("text", kind, 0) /\ kind = "Reasoning"
  OBVIOUS
<1>2. kind \in StreamKinds
  BY <1>1, KindIsOne
<1>3. p \in Pieces /\ p.type = "text" /\ p.kind = kind
  BY <1>1, <1>2 DEF Piece, Pieces
<1>4. phase = "read" /\ Send(p) /\ gate' = Kept(gate, Number, kind) /\ lap' = Delta(lap, Number, kind)
  BY <1>1 DEF ReadReasoning, Send
<1> QED BY <1>2, <1>3, <1>4, PlainText

\* A piece that is no text leaves what is shown and kept of the text.
LEMMA NoText ==
    ASSUME GateInv, phase = "read", NEW p \in Pieces, p.kind = "none", Send(p),
           gate' \in Gates, gate'.text = gate.text, gate'.reasoning = gate.reasoning,
           gate'.names = gate.names,
           lap' \in Laps, Fits(lap'), SameShown(lap, lap'),
           lap'.calls = lap.calls, lap'.error = lap.error, lap'.step = lap.step, lap'.turn = lap.turn,
           CallsCounted', ToolsKnown'
    PROVE  GateInv'
<1>1. sent' = Append(sent, p) /\ api' = api /\ cancelled' = cancelled
  BY DEF Send
<1>2. AnswerKept /\ NamesCounted /\ sent \in Seq(Pieces)
  BY Reading
<1>3. ~cancelled => TextShown(lap.blocks, "Text") = gate.text
                    /\ TextShown(lap.blocks, "Reasoning") = gate.reasoning
  BY Reading
<1>4. PICK s \in Seq(Pieces) : s = sent
  BY <1>2
<1>5. AnswerKept'
  <2>1. \A k : p.kind # k => OfKindIn(Append(s, p), k) = OfKindIn(s, k)
    BY KindGrows
  <2>2. "none" # "Text" /\ "none" # "Reasoning"
    OBVIOUS
  <2>3. OfKindIn(Append(s, p), "Text") = OfKindIn(s, "Text")
        /\ OfKindIn(Append(s, p), "Reasoning") = OfKindIn(s, "Reasoning")
    BY <2>1, <2>2
  <2> QED BY <1>1, <1>2, <1>4, <2>3 DEF AnswerKept
<1>6. NamesCounted'
  <2>1. PICK t \in Seq(1 .. Len(s)) : t = gate.text
    BY <1>2, <1>4, KindTyped DEF AnswerKept
  <2>2. OfTypeIn(Append(s, p), t, "dsml") = OfTypeIn(s, t, "dsml")
    BY TypeStays
  <2> QED BY <1>1, <1>2, <1>4, <2>1, <2>2 DEF NamesCounted
<1>7. Showing'
  BY <1>1, <1>3 DEF Showing, SameShown
<1> QED BY <1>5, <1>6, <1>7, ReadKeeps

LEMMA ReadTagKeeps ==
    ASSUME GateInv, ReadTag
    PROVE  GateInv'
<1>1. PICK p : p = Piece("tag", "none", 0)
  OBVIOUS
<1>2. p \in Pieces /\ p.type = "tag" /\ p.kind = "none"
  BY <1>1 DEF Piece, Pieces
<1>3. phase = "read" /\ Send(p) /\ gate' = [gate EXCEPT !.thinking = ~@] /\ lap' = lap
  BY <1>1 DEF ReadTag, Send
<1>4. sent' = Append(sent, p) /\ api' = api
  BY <1>3 DEF Send
<1>5. CallsCounted /\ ToolsKnown /\ sent \in Seq(Pieces) /\ gate \in Gates /\ lap \in Laps /\ Fits(lap)
  BY <1>3, Reading
<1>6. /\ gate' \in Gates /\ gate'.text = gate.text /\ gate'.reasoning = gate.reasoning
      /\ gate'.calls = gate.calls /\ gate'.names = gate.names
  BY <1>3, <1>5 DEF Gates
<1>7. CallsCounted'
  BY <1>2, <1>4, <1>5, <1>6, CountsStay
<1>8. ToolsKnown'
  BY <1>3, <1>5, <1>6 DEF ToolsKnown
<1>9. lap' \in Laps /\ Fits(lap') /\ SameShown(lap, lap')
      /\ lap'.calls = lap.calls /\ lap'.error = lap.error /\ lap'.step = lap.step /\ lap'.turn = lap.turn
  BY <1>3, <1>5 DEF SameShown
<1> QED BY <1>2, <1>3, <1>6, <1>7, <1>8, <1>9, NoText

LEMMA ReadMarkupKeeps ==
    ASSUME GateInv, NEW flavour \in Markup, NEW name \in Names, ReadMarkup(flavour, name)
    PROVE  GateInv'
<1>1. PICK p, kind : p = Piece(flavour, kind, 0) /\ kind = TextKind
  OBVIOUS
<1>2. kind \in StreamKinds
  BY <1>1, KindIsOne
<1>3. p \in Pieces /\ p.type = flavour /\ p.kind = kind /\ flavour \in {"dsml", "xml"}
  BY <1>1, <1>2 DEF Piece, Pieces, Markup
<1>4. phase = "read" /\ Send(p)
  BY <1>1 DEF ReadMarkup, Send
<1>5. CASE ~(api = "openai" /\ flavour = "dsml" /\ kind = "Text" /\ name \notin gate.names)
  <2>1. gate' = Kept(gate, Number, kind) /\ lap' = Delta(lap, Number, kind)
    BY <1>1, <1>5 DEF ReadMarkup
  <2> QED BY <1>2, <1>3, <1>4, <2>1, PlainText
<1>6. CASE api = "openai" /\ flavour = "dsml" /\ kind = "Text" /\ name \notin gate.names
  <2>1. PICK c : c = Cardinality(gate.names)
    OBVIOUS
  <2>2. PICK g : g = Kept(gate, Number, kind)
    OBVIOUS
  <2>3. PICK m : m = Delta(lap, Number, kind)
    OBVIOUS
  <2>4. gate' = [g EXCEPT !.names = @ \cup {name}] /\ lap' = Progress(m, Marked("dsml", c))
    BY <1>1, <1>6, <2>1, <2>2, <2>3 DEF ReadMarkup
  <2>5. sent' = Append(sent, p) /\ api' = api /\ cancelled' = cancelled
    BY <1>4 DEF Send
  <2>6. NamesCounted /\ CallsCounted /\ ToolsKnown /\ sent \in Seq(Pieces) /\ AnswerKept
    BY <1>4, Reading
  <2>7. /\ g \in Gates /\ g.calls = gate.calls /\ g.names = gate.names
        /\ g.text = OfKindIn(Append(sent, p), "Text") /\ g.reasoning = OfKindIn(Append(sent, p), "Reasoning")
    BY <1>2, <1>3, <1>4, <2>2, TextIsKept
  <2>8. m \in Laps /\ Fits(m) /\ SameCalls(lap, m)
    BY <1>2, <1>3, <1>4, <2>3, TextIsKept
  <2>9. ~cancelled => TextShown(m.blocks, "Text") = g.text /\ TextShown(m.blocks, "Reasoning") = g.reasoning
    BY <1>2, <1>3, <1>4, <2>2, <2>3, TextIsKept
  <2>10. Len(OfTypeIn(Append(sent, p), g.text, "dsml")) = Len(OfTypeIn(sent, gate.text, "dsml")) + 1
    <3>1. Len(OfTypeIn(Append(sent, p), g.text, "dsml")) =
            IF kind = "Text" /\ p.type = "dsml" THEN Len(OfTypeIn(sent, gate.text, "dsml")) + 1
            ELSE Len(OfTypeIn(sent, gate.text, "dsml"))
      BY <1>2, <1>3, <1>4, <2>2, TextIsKept
    <3> QED BY <1>3, <1>6, <3>1
  <2>11. PICK more \in SUBSET Names : more = gate.names \cup {name}
    <3>1. gate.names \in SUBSET Names
      BY <1>4, Reading, GateFacts
    <3> QED BY <3>1
  <2>12. gate' = [g EXCEPT !.names = more]
    BY <2>4, <2>7, <2>11
  <2>13. /\ gate' \in Gates /\ gate'.text = g.text /\ gate'.reasoning = g.reasoning
         /\ gate'.calls = g.calls /\ gate'.names = more
    BY <2>7, <2>12 DEF Gates
  <2>14. IsFiniteSet(more) /\ Cardinality(more) = c + 1 /\ c \in Nat
    BY <1>6, <2>1, <2>6, <2>11, FS_AddElement, FS_CardinalityType DEF NamesCounted
  <2>15. PICK id \in CallIds : id = Marked("dsml", c)
    BY <2>14, NamesOf
  <2>16. PICK r : r = Progress(m, id)
    OBVIOUS
  <2>17. /\ r \in Laps /\ Fits(r) /\ SameShown(m, r)
         /\ r.tools = m.tools \cup {id} /\ SameElse(m, r)
    BY <2>8, <2>16, ProgressFits
  <2>18. lap' = r
    BY <2>4, <2>15, <2>16
  <2>19. AnswerKept'
    BY <2>5, <2>7, <2>13 DEF AnswerKept
  <2>20. NamesCounted'
    <3>1. PICK d \in Nat : d = Len(OfTypeIn(sent, gate.text, "dsml"))
      <4>1. OfTypeIn(sent, gate.text, "dsml") \in Seq(1 .. Len(sent))
        BY <2>6, KindTyped, AmongTyped DEF OfTypeIn, AnswerKept
      <4>2. Len(OfTypeIn(sent, gate.text, "dsml")) \in Nat
        BY <4>1
      <4> QED BY <4>2
    <3>2. c <= d
      BY <2>1, <2>6, <3>1 DEF NamesCounted
    <3>3. c + 1 <= d + 1
      BY <2>14, <3>2
    <3>4. OfTypeIn(sent', gate'.text, "dsml") = OfTypeIn(Append(sent, p), g.text, "dsml")
      BY <2>5, <2>13
    <3>5. Cardinality(gate'.names) <= Len(OfTypeIn(sent', gate'.text, "dsml"))
      BY <2>10, <2>13, <2>14, <3>1, <3>3, <3>4
    <3>6. IsFiniteSet(gate'.names) /\ api' # "responses"
      BY <1>6, <2>5, <2>13, <2>14
    <3> QED BY <3>5, <3>6 DEF NamesCounted
  <2>21. CallsCounted'
    <3>1. p.type \notin {"fragment", "item"} /\ gate'.calls = gate.calls
      BY <1>3, <2>7, <2>13
    <3> QED BY <1>3, <2>5, <2>6, <3>1, CountsStay
  <2>22. ToolsKnown'
    <3> SUFFICES ASSUME NEW x \in lap'.tools
                 PROVE  \/ \E i \in 1 .. Len(gate'.calls) : x = Native(i)
                        \/ \E k \in Nat : k < Cardinality(gate'.names) /\ x = Marked("dsml", k)
      BY DEF ToolsKnown
    <3>1. c < Cardinality(gate'.names) /\ gate'.calls = gate.calls
      BY <2>7, <2>13, <2>14
    <3>2. CASE x = id
      BY <2>14, <2>15, <3>1, <3>2
    <3>3. CASE x \in lap.tools
      <4>1. CASE \E i \in 1 .. Len(gate.calls) : x = Native(i)
        BY <3>1, <4>1
      <4>2. CASE \E k \in Nat : k < c /\ x = Marked("dsml", k)
        <5>1. PICK k \in Nat : k < c /\ x = Marked("dsml", k)
          BY <4>2
        <5>2. k < Cardinality(gate'.names)
          BY <2>13, <2>14, <5>1
        <5> QED BY <5>1, <5>2
      <4> QED BY <2>1, <2>6, <3>3, <4>1, <4>2 DEF ToolsKnown
    <3>4. x = id \/ x \in lap.tools
      BY <2>8, <2>17, <2>18 DEF SameCalls
    <3> QED BY <3>2, <3>3, <3>4
  <2>23. Showing'
    BY <2>5, <2>9, <2>13, <2>17, <2>18 DEF Showing, SameShown
  <2>24. lap' \in Laps /\ Fits(lap')
    BY <2>17, <2>18
  <2>25. lap'.calls = lap.calls /\ lap'.error = lap.error /\ lap'.step = lap.step /\ lap'.turn = lap.turn
    BY <2>8, <2>17, <2>18 DEF SameCalls, SameElse
  <2> QED BY <1>3, <1>4, <2>13, <2>19, <2>20, <2>21, <2>22, <2>23, <2>24, <2>25, ReadKeeps
<1> QED BY <1>5, <1>6

\* The block of a call is opened with its first piece; later pieces find it.
LEMMA CallIsKnown ==
    ASSUME GateInv, phase = "read", NEW i \in Nat \ {0}, NEW cs, gate'.calls = cs,
           gate'.names = gate.names, lap' = Progress(lap, Native(i)),
           \A j \in 1 .. Len(gate.calls) : j \in 1 .. Len(cs), i \in 1 .. Len(cs)
    PROVE  /\ lap' \in Laps /\ Fits(lap') /\ SameShown(lap, lap')
           /\ lap'.calls = lap.calls /\ lap'.error = lap.error /\ lap'.step = lap.step /\ lap'.turn = lap.turn
           /\ ToolsKnown'
<1>1. ToolsKnown /\ lap \in Laps /\ Fits(lap)
  BY Reading
<1>2. PICK id \in CallIds : id = Native(i)
  BY NamesOf
<1>3. PICK r : r = Progress(lap, id)
  OBVIOUS
<1>4. lap' = r
  BY <1>2, <1>3
<1>5. /\ r \in Laps /\ Fits(r) /\ SameShown(lap, r)
      /\ r.tools = lap.tools \cup {id} /\ SameElse(lap, r)
  BY <1>1, <1>3, ProgressFits
<1>6. ToolsKnown'
  <2> SUFFICES ASSUME NEW x \in lap'.tools
               PROVE  \/ \E j \in 1 .. Len(gate'.calls) : x = Native(j)
                      \/ \E k \in Nat : k < Cardinality(gate'.names) /\ x = Marked("dsml", k)
    BY DEF ToolsKnown
  <2>1. CASE x = id
    BY <1>2, <2>1
  <2>2. CASE x \in lap.tools
    BY <1>1, <2>2 DEF ToolsKnown
  <2> QED BY <1>4, <1>5, <2>1, <2>2
<1>7. lap'.calls = lap.calls /\ lap'.error = lap.error /\ lap'.step = lap.step /\ lap'.turn = lap.turn
  BY <1>4, <1>5 DEF SameElse
<1> QED BY <1>4, <1>5, <1>6, <1>7

LEMMA ReadFragmentKeeps ==
    ASSUME GateInv, NEW i \in 1 .. MaxToolCalls, ReadFragment(i)
    PROVE  GateInv'
<1>1. i \in Nat \ {0}
  BY GateAssumption
<1>2. PICK p : p = Piece("fragment", "none", i)
  OBVIOUS
<1>3. p \in Pieces /\ p.type = "fragment" /\ p.kind = "none"
  BY <1>1, <1>2 DEF Piece, Pieces
<1>4. phase = "read" /\ Send(p) /\ api = "openai" /\ lap' = Progress(lap, Native(i))
  BY <1>2 DEF ReadFragment, Send
<1>5. sent' = Append(sent, p) /\ api' = api
  BY <1>4 DEF Send
<1>6. CallsCounted /\ sent \in Seq(Pieces) /\ gate \in Gates
  BY <1>4, Reading
<1>7. PICK old \in Seq(Nat) : old = gate.calls
  BY <1>6, GateFacts
<1>8. PICK L \in Nat : L = Len(old)
  OBVIOUS
<1>9. DOMAIN old = 1 .. L
  BY <1>8
<1>10. PICK cs \in Seq(Nat) :
          /\ cs = IF i \in 1 .. L THEN [old EXCEPT ![i] = @ + 1] ELSE Append(old, 1)
          /\ \A j \in Nat \ {0} : j \in 1 .. Len(cs) <=> j \in 1 .. L \/ j = i
          /\ cs[i] = (IF i \in 1 .. L THEN old[i] ELSE 0) + 1
          /\ \A j \in 1 .. L : j # i => cs[j] = old[j]
  <2>1. CASE i \in 1 .. L
    <3>1. PICK e \in Nat : e = old[i] + 1
      <4>1. old[i] \in Nat
        BY <1>8, <2>1, ElementOfSeq
      <4>2. old[i] + 1 \in Nat
        BY <4>1
      <4> QED BY <4>2
    <3>2. PICK cs : cs = [old EXCEPT ![i] = e]
      OBVIOUS
    <3>3. cs \in Seq(Nat) /\ Len(cs) = L /\ \A j \in 1 .. L : cs[j] = IF j = i THEN e ELSE old[j]
      BY <1>8, <2>1, <3>2, ExceptSeq
    <3>4. cs = [old EXCEPT ![i] = @ + 1]
      BY <3>1, <3>2
    <3> QED BY <2>1, <3>1, <3>3, <3>4
  <2>2. CASE i \notin 1 .. L
    <3>1. i = L + 1
      BY <1>7, <1>8, <1>9, <2>2 DEF ReadFragment
    <3>2. PICK cs : cs = Append(old, 1)
      OBVIOUS
    <3>3. cs \in Seq(Nat)
      BY <3>2
    <3>4. Len(cs) = L + 1 /\ cs[L + 1] = 1 /\ \A j \in 1 .. L : cs[j] = old[j]
      BY <1>8, <3>2
    <3>5. \A j \in Nat \ {0} : j \in 1 .. Len(cs) <=> j \in 1 .. L \/ j = i
      BY <3>1, <3>4
    <3>6. cs[i] = (IF i \in 1 .. L THEN old[i] ELSE 0) + 1
      BY <2>2, <3>1, <3>4
    <3>7. cs = IF i \in 1 .. L THEN [old EXCEPT ![i] = @ + 1] ELSE Append(old, 1)
      BY <2>2, <3>2
    <3>8. \A j \in 1 .. L : j # i => cs[j] = old[j]
      BY <3>4
    <3> HIDE <3>1, <3>2
    <3> QED BY <3>3, <3>5, <3>6, <3>7, <3>8
  <2> QED BY <2>1, <2>2
<1>11. gate' = [gate EXCEPT !.calls = cs]
  <2>1. gate' = [gate EXCEPT !.calls = OneMore(gate.calls, i)]
    BY DEF ReadFragment
  <2>2. OneMore(gate.calls, i) = cs
    BY <1>7, <1>9, <1>10 DEF OneMore
  <2> QED BY <2>1, <2>2
<1>12. /\ gate' \in Gates /\ gate'.text = gate.text /\ gate'.reasoning = gate.reasoning
       /\ gate'.names = gate.names /\ gate'.calls = cs
  BY <1>6, <1>11 DEF Gates
<1>13. PICK s \in Seq(Pieces) : s = sent
  BY <1>6
<1>14. \A j \in Nat \ {0} :
         Cardinality(FragmentsIn(s, j)) = IF j \in 1 .. L THEN old[j] ELSE 0
  BY <1>4, <1>6, <1>7, <1>8, <1>13 DEF CallsCounted
<1>15. \A j \in Nat \ {0} :
         Cardinality(FragmentsIn(Append(s, p), j)) = IF j \in 1 .. Len(cs) THEN cs[j] ELSE 0
  <2> TAKE j \in Nat \ {0}
  <2>1. CASE j = i
    <3>1. Cardinality(FragmentsIn(Append(s, p), i)) = Cardinality(FragmentsIn(s, i)) + 1
      BY <1>2, <1>3, FragmentsGrow
    <3>2. Cardinality(FragmentsIn(s, i)) = IF i \in 1 .. L THEN old[i] ELSE 0
      BY <1>1, <1>14
    <3> QED BY <1>1, <1>10, <2>1, <3>1, <3>2
  <2>2. CASE j # i
    <3>1. Piece("fragment", "none", j).of = j /\ p.of = i
      BY <1>2 DEF Piece
    <3>2. p # Piece("fragment", "none", j)
      BY <2>2, <3>1
    <3>3. FragmentsIn(Append(s, p), j) = FragmentsIn(s, j)
      BY <1>3, <3>2, FragmentsGrow
    <3> QED BY <1>10, <1>14, <2>2, <3>3
  <2> QED BY <2>1, <2>2
<1>16. \A j \in Nat \ {0} : Piece("item", "none", j) \notin ToSet(Append(s, p))
  <2> TAKE j \in Nat \ {0}
  <2>1. Piece("item", "none", j).type = "item"
    BY DEF Piece
  <2>2. p # Piece("item", "none", j)
    BY <1>3, <2>1
  <2>3. Piece("item", "none", j) \notin ToSet(s)
    BY <1>4, <1>6, <1>13 DEF CallsCounted
  <2>4. ToSet(Append(s, p)) = ToSet(s) \cup {p}
    BY <1>3, SetGrows
  <2> QED BY <2>2, <2>3, <2>4
<1>17. CallsCounted'
  <2>1. sent' = Append(s, p) /\ api' = "openai" /\ gate'.calls = cs /\ "openai" # "responses"
    BY <1>4, <1>5, <1>12, <1>13
  <2> QED BY <1>15, <1>16, <2>1 DEF CallsCounted
<1>18. /\ \A j \in 1 .. Len(gate.calls) : j \in 1 .. Len(cs)
       /\ i \in 1 .. Len(cs)
  BY <1>1, <1>7, <1>8, <1>10
<1>19. /\ lap' \in Laps /\ Fits(lap') /\ SameShown(lap, lap')
       /\ lap'.calls = lap.calls /\ lap'.error = lap.error /\ lap'.step = lap.step /\ lap'.turn = lap.turn
       /\ ToolsKnown'
  BY <1>1, <1>4, <1>12, <1>18, CallIsKnown
<1> QED BY <1>3, <1>4, <1>12, <1>17, <1>19, NoText

LEMMA ReadItemKeeps ==
    ASSUME GateInv, ReadItem
    PROVE  GateInv'
<1>1. phase = "read" /\ api = "responses"
  BY DEF ReadItem, Send
<1>2. CallsCounted /\ sent \in Seq(Pieces) /\ gate \in Gates
  BY <1>1, Reading
<1>3. PICK old \in Seq(Nat) : old = gate.calls
  BY <1>2, GateFacts
<1>4. PICK L \in Nat : L = Len(old)
  OBVIOUS
<1>5. PICK i \in Nat \ {0} : i = L + 1
  OBVIOUS
<1>6. PICK p : p = Piece("item", "none", i)
  OBVIOUS
<1>7. p \in Pieces /\ p.type = "item" /\ p.kind = "none" /\ p.of = i
  BY <1>6 DEF Piece, Pieces
<1>8. Send(p) /\ lap' = Progress(lap, Native(i))
  BY <1>3, <1>4, <1>5, <1>6 DEF ReadItem
<1>9. sent' = Append(sent, p) /\ api' = api
  BY <1>8 DEF Send
<1>10. PICK cs : cs = Append(old, Fragments)
  OBVIOUS
<1>11. cs \in Seq(Nat)
  BY <1>10, GateAssumption
<1>12. Len(cs) = i /\ cs[i] = Fragments /\ \A j \in 1 .. L : cs[j] = old[j]
  BY <1>4, <1>5, <1>10
<1>13. \A j \in Nat : j \in 1 .. i <=> j \in 1 .. L \/ j = i
  BY <1>5
<1>14. gate' = [gate EXCEPT !.calls = cs]
  BY <1>3, <1>10 DEF ReadItem
<1>15. /\ gate' \in Gates /\ gate'.text = gate.text /\ gate'.reasoning = gate.reasoning
       /\ gate'.names = gate.names /\ gate'.calls = cs
  BY <1>2, <1>11, <1>14 DEF Gates
<1>16. PICK s \in Seq(Pieces) : s = sent
  BY <1>2
<1>17. /\ \A j \in Nat \ {0} : Cardinality(FragmentsIn(s, j)) = 0
       /\ \A j \in Nat \ {0} : Piece("item", "none", j) \in ToSet(s) <=> j \in 1 .. L
       /\ \A j \in 1 .. L : old[j] = Fragments
  BY <1>1, <1>2, <1>3, <1>4, <1>16 DEF CallsCounted
<1>18. \A j \in Nat \ {0} : Cardinality(FragmentsIn(Append(s, p), j)) = 0
  <2> TAKE j \in Nat \ {0}
  <2>1. Piece("fragment", "none", j).type = "fragment"
    BY DEF Piece
  <2>2. p # Piece("fragment", "none", j)
    BY <1>7, <2>1
  <2>3. FragmentsIn(Append(s, p), j) = FragmentsIn(s, j)
    BY <1>7, <2>2, FragmentsGrow
  <2> QED BY <1>17, <2>3
<1>19. \A j \in Nat \ {0} : Piece("item", "none", j) \in ToSet(Append(s, p)) <=> j \in 1 .. i
  <2> TAKE j \in Nat \ {0}
  <2>1. ToSet(Append(s, p)) = ToSet(s) \cup {p}
    BY <1>7, SetGrows
  <2>2. Piece("item", "none", j) = p <=> j = i
    <3>1. Piece("item", "none", j).of = j
      BY DEF Piece
    <3> QED BY <1>6, <1>7, <3>1
  <2> QED BY <1>13, <1>17, <2>1, <2>2
<1>20. \A j \in 1 .. i : cs[j] = Fragments
  BY <1>12, <1>13, <1>17
<1>21. CallsCounted'
  <2>1. sent' = Append(s, p) /\ api' = "responses" /\ gate'.calls = cs /\ "openai" # "responses"
    BY <1>1, <1>9, <1>15, <1>16
  <2> QED BY <1>12, <1>18, <1>19, <1>20, <2>1 DEF CallsCounted
<1>22. /\ \A j \in 1 .. Len(gate.calls) : j \in 1 .. Len(cs)
       /\ i \in 1 .. Len(cs)
  BY <1>3, <1>4, <1>5, <1>12
<1>23. /\ lap' \in Laps /\ Fits(lap') /\ SameShown(lap, lap')
       /\ lap'.calls = lap.calls /\ lap'.error = lap.error /\ lap'.step = lap.step /\ lap'.turn = lap.turn
       /\ ToolsKnown'
  BY <1>1, <1>8, <1>15, <1>22, CallIsKnown
<1> QED BY <1>1, <1>7, <1>8, <1>15, <1>21, <1>23, NoText

----------------------------------------------------------------------------
(* A step that reads nothing.                                              *)

LEMMA GiveUpFacts ==
    ASSUME NEW l \in Laps, Fits(l), NEW m, m = [l EXCEPT !.error = TRUE]
    PROVE  /\ m \in Laps /\ Fits(m) /\ m.error /\ m.tools = l.tools /\ m.blocks = l.blocks
           /\ m.step = l.step /\ m.turn = l.turn
<1>1. /\ m \in Laps /\ m.error /\ m.tools = l.tools /\ m.blocks = l.blocks
      /\ m.step = l.step /\ m.turn = l.turn /\ m.active = l.active /\ m.segment = l.segment
  BY DEF Laps
<1>2. ActiveIds(m) = ActiveIds(l)
  BY <1>1 DEF ActiveIds
<1>3. LastIsActive(l) => LastIsActive(m)
  BY <1>1 DEF LastIsActive
<1>4. Fits(m)
  BY <1>1, <1>2, <1>3 DEF Fits
<1> QED BY <1>1, <1>4

LEMMA AnswerStays ==
    ASSUME UNCHANGED <<api, sent, gate>>
    PROVE  /\ AnswerKept => AnswerKept'
           /\ NamesCounted => NamesCounted'
           /\ CallsCounted => CallsCounted'
           /\ FoundCalls' = FoundCalls /\ FoundText' = FoundText
<1>1. AnswerKept => AnswerKept'
  BY DEF AnswerKept
<1>2. NamesCounted => NamesCounted'
  BY DEF NamesCounted
<1>3. CallsCounted => CallsCounted'
  BY DEF CallsCounted
<1>4. FoundCalls' = FoundCalls
  BY DEF FoundCalls, NativeCalls, MarkedCalls, OfType, PlacesOf
<1>5. FoundText' = FoundText
  BY DEF FoundText, PlacesOf
<1> QED BY <1>1, <1>2, <1>3, <1>4, <1>5

LEMMA QuietKeeps ==
    ASSUME GateInv, UNCHANGED <<api, sent, gate>>, cancelled' = cancelled \/ cancelled' = TRUE,
           \/ phase # "over" /\ phase' = phase /\ lap' = lap
           \/ phase \notin {"return", "over"} /\ phase' \in {"post", "wait", "poll", "read"} /\ lap' = lap
           \/ phase \notin {"return", "over"} /\ phase' = "return" /\ lap' = GiveUp
    PROVE  GateInv'
<1>1. /\ AnswerKept /\ NamesCounted /\ CallsCounted /\ Collecting /\ Returning
      /\ lap \in Laps /\ Fits(lap) /\ lap.step = Nothing /\ lap.turn = "Running" /\ ToolsKnown
      /\ ~cancelled => TextShown(lap.blocks, "Text") = gate.text
                       /\ TextShown(lap.blocks, "Reasoning") = gate.reasoning
      /\ api \in {"openai", "responses"} /\ cancelled \in BOOLEAN /\ sent \in Seq(Pieces) /\ gate \in Gates
      /\ phase \in {"post", "wait", "poll", "read", "return", "over"}
  BY DEF GateInv, GateShapes, GateOngoing, Fitting, Showing
<1>2. AnswerKept' /\ NamesCounted' /\ CallsCounted'
  BY <1>1, AnswerStays
<1>3. PICK g : g = [lap EXCEPT !.error = TRUE]
  OBVIOUS
<1>4. /\ g \in Laps /\ Fits(g) /\ g.error /\ g.tools = lap.tools /\ g.blocks = lap.blocks
      /\ g.step = lap.step /\ g.turn = lap.turn
  BY <1>1, <1>3, GiveUpFacts
<1>5. lap' = lap \/ lap' = g
  BY <1>3 DEF GiveUp
<1>6. /\ lap' \in Laps /\ Fits(lap') /\ lap'.tools = lap.tools /\ lap'.blocks = lap.blocks
      /\ lap'.step = Nothing /\ lap'.turn = "Running"
  BY <1>1, <1>4, <1>5
<1>7. phase' # "over"
  OBVIOUS
<1>8. ToolsKnown'
  BY <1>1, <1>6 DEF ToolsKnown
<1>9. Fitting' /\ Showing'
  <2>1. ~cancelled' => ~cancelled
    OBVIOUS
  <2> QED BY <1>1, <1>6, <1>8, <2>1 DEF Fitting, Showing
<1>10. phase' \notin {"return", "over"} => lap'.calls = <<>> /\ ~lap'.error
  BY <1>1 DEF Collecting
<1>11. Collecting'
  BY <1>10 DEF Collecting
<1>12. phase' = "return" /\ ~lap'.error =>
         lap'.calls = FoundCalls /\ lap'.content = FoundText /\ lap'.reasoning = gate.reasoning
  BY <1>1, <1>3, <1>4 DEF Returning, GiveUp
<1>13. Returning'
  BY <1>12, AnswerStays DEF Returning
<1>14. GateShapes'
  BY <1>1, <1>6 DEF GateShapes
<1>15. ~Answered'
  BY <1>6 DEF Answered
<1>16. RoundCloses' /\ MessageIsWhatWasShown' /\ CallsAsSent'
  BY <1>7, <1>15 DEF RoundCloses, MessageIsWhatWasShown, CallsAsSent
<1> QED BY <1>2, <1>9, <1>11, <1>13, <1>14, <1>16 DEF GateInv, GateOngoing

LEMMA PostingKeeps ==
    ASSUME GateInv, PostCancelled \/ Post \/ WaitEnds \/ Poll \/ RaiseCancel \/ Broken
    PROVE  GateInv'
<1>1. CASE PostCancelled
  BY <1>1, QuietKeeps DEF PostCancelled, Return, Stay
<1>2. CASE Post
  BY <1>2, QuietKeeps DEF Post, Return, Stay
<1>3. CASE WaitEnds
  BY <1>3, QuietKeeps DEF WaitEnds, Return, Stay
<1>4. CASE Poll
  BY <1>4, QuietKeeps DEF Poll, Return, Stay
<1>5. CASE RaiseCancel
  BY <1>5, QuietKeeps DEF RaiseCancel
<1>6. CASE Broken
  BY <1>6, QuietKeeps DEF Broken, Return, Stay
<1> QED BY <1>1, <1>2, <1>3, <1>4, <1>5, <1>6

----------------------------------------------------------------------------
(* The calls of a message.                                                 *)

\* Only numbers of the places are kept.
LEMMA AmongWithin ==
    ASSUME NEW S, NEW text \in Seq(S), NEW places
    PROVE  Among(text, places) \in Seq(S \cap places)
<1>1. PICK N \in Nat : N = Len(text)
  OBVIOUS
<1>2. PICK h : PicksUpTo(h, N, text, places) /\ Among(text, places) = h[N]
  BY <1>1, AmongIsPicks
<1> DEFINE Right(k) == h[k] \in Seq(S \cap places)
           Wrong == {k \in 0 .. N : ~Right(k)}
<1>3. Wrong = {}
  <2> SUFFICES ASSUME Wrong # {} PROVE FALSE
    OBVIOUS
  <2> HIDE DEF Right
  <2>1. PICK k \in Wrong : \A j \in Wrong : k <= j
    <3>1. Wrong \in SUBSET Nat
      OBVIOUS
    <3> HIDE DEF Wrong
    <3> QED BY <3>1, SmallestIsIn
  <2>2. k \in 0 .. N /\ ~Right(k)
    BY <2>1
  <2>3. k # 0
    <3>1. h[0] = <<>>
      BY <1>2 DEF PicksUpTo
    <3>2. <<>> \in Seq(S \cap places)
      BY EmptySeq
    <3> QED BY <2>2, <3>1, <3>2 DEF Right
  <2>4. k - 1 \in 0 .. N /\ ~(k <= k - 1) /\ k \in 1 .. N
    BY <2>2, <2>3
  <2>5. Right(k - 1)
    BY <2>1, <2>4
  <2>6. h[k] = IF text[k] \in places THEN Append(h[k - 1], text[k]) ELSE h[k - 1]
    BY <1>2, <2>2, <2>3 DEF PicksUpTo
  <2>7. PICK q \in Seq(S \cap places) : q = h[k - 1]
    BY <2>5 DEF Right
  <2>8. text[k] \in S
    <3> HIDE DEF Wrong
    <3> QED BY <1>1, <2>4, ElementOfSeq
  <2>9. CASE text[k] \in places
    <3>1. PICK x \in S \cap places : x = text[k]
      BY <2>8, <2>9
    <3>2. Append(q, x) \in Seq(S \cap places)
      OBVIOUS
    <3> QED BY <2>2, <2>6, <2>7, <2>9, <3>1, <3>2 DEF Right
  <2>10. CASE text[k] \notin places
    BY <2>2, <2>6, <2>7, <2>10 DEF Right
  <2> QED BY <2>9, <2>10
<1>4. Right(N)
  <2>1. N \in 0 .. N
    BY <1>1
  <2> HIDE DEF Right
  <2> QED BY <1>3, <2>1
<1> QED BY <1>2, <1>4

\* What was taken out of a text is not in it.
LEMMA TakenOut ==
    ASSUME NEW S, NEW text \in Seq(S), NEW places, NEW others, S \cap places \cap others = {}
    PROVE  Among(Among(text, places), others) = <<>>
<1>1. PICK q \in Seq(S \cap places) : q = Among(text, places)
  BY AmongWithin
<1>2. Among(q, others) \in Seq((S \cap places) \cap others)
  BY AmongWithin
<1>3. Among(q, others) \in Seq({})
  BY <1>2
<1>4. PICK r \in Seq({}) : r = Among(q, others)
  BY <1>3
<1>5. r = <<>>
  <2>1. SUFFICES ASSUME r # <<>> PROVE FALSE
    OBVIOUS
  <2>2. 1 \in 1 .. Len(r)
    BY <2>1
  <2>3. r[1] \in {}
    BY <2>2, ElementOfSeq
  <2> QED BY <2>3
<1> QED BY <1>1, <1>4, <1>5

\* To keep the places of a set first changes nothing of what is kept of a smaller one.
LEMMA AmongTwice ==
    ASSUME NEW S, NEW text \in Seq(S), NEW places, NEW others, S \cap others \subseteq places
    PROVE  Among(Among(text, places), others) = Among(text, others)
<1>1. PICK N \in Nat : N = Len(text)
  OBVIOUS
<1>2. PICK h : PicksUpTo(h, N, text, places) /\ Among(text, places) = h[N]
  BY <1>1, AmongIsPicks
<1>3. PICK g : PicksUpTo(g, N, text, others) /\ Among(text, others) = g[N]
  BY <1>1, AmongIsPicks
<1> DEFINE Right(k) == h[k] \in Seq(S) /\ Among(h[k], others) = g[k]
           Wrong == {k \in 0 .. N : ~Right(k)}
<1>4. Wrong = {}
  <2> SUFFICES ASSUME Wrong # {} PROVE FALSE
    OBVIOUS
  <2> HIDE DEF Right
  <2>1. PICK k \in Wrong : \A j \in Wrong : k <= j
    <3>1. Wrong \in SUBSET Nat
      OBVIOUS
    <3> HIDE DEF Wrong
    <3> QED BY <3>1, SmallestIsIn
  <2>2. k \in 0 .. N /\ ~Right(k)
    BY <2>1
  <2>3. k # 0
    <3>1. h[0] = <<>> /\ g[0] = <<>>
      BY <1>2, <1>3 DEF PicksUpTo
    <3>2. <<>> \in Seq(S) /\ Among(<<>>, others) = <<>>
      BY EmptySeq, AmongNothing
    <3> QED BY <2>2, <3>1, <3>2 DEF Right
  <2>4. k - 1 \in 0 .. N /\ ~(k <= k - 1) /\ k \in 1 .. N
    BY <2>2, <2>3
  <2>5. Right(k - 1)
    BY <2>1, <2>4
  <2>6. /\ h[k] = IF text[k] \in places THEN Append(h[k - 1], text[k]) ELSE h[k - 1]
        /\ g[k] = IF text[k] \in others THEN Append(g[k - 1], text[k]) ELSE g[k - 1]
    BY <1>2, <1>3, <2>2, <2>3 DEF PicksUpTo
  <2>7. PICK q \in Seq(S) : q = h[k - 1] /\ Among(q, others) = g[k - 1]
    BY <2>5 DEF Right
  <2>8. PICK x \in S : x = text[k]
    <3>1. text[k] \in S
      <4> HIDE DEF Wrong
      <4> QED BY <1>1, <2>4, ElementOfSeq
    <3> QED BY <3>1
  <2>9. CASE x \in places
    <3>1. PICK r \in Seq(S) : r = Append(q, x)
      <4>1. Append(q, x) \in Seq(S)
        OBVIOUS
      <4> QED BY <4>1
    <3>2. Among(Append(q, x), others) =
            IF x \in others THEN Append(Among(q, others), x) ELSE Among(q, others)
      BY AmongAppend
    <3>3. h[k] = r
      BY <2>6, <2>7, <2>8, <2>9, <3>1
    <3>4. g[k] = Among(r, others)
      BY <2>6, <2>7, <2>8, <3>1, <3>2
    <3> QED BY <2>2, <3>3, <3>4 DEF Right
  <2>10. CASE x \notin places
    <3>1. x \notin others
      BY <2>10
    <3> QED BY <2>2, <2>6, <2>7, <2>8, <2>10, <3>1 DEF Right
  <2> QED BY <2>9, <2>10
<1>5. Right(N)
  <2>1. N \in 0 .. N
    BY <1>1
  <2> HIDE DEF Right
  <2> QED BY <1>4, <2>1
<1> QED BY <1>2, <1>3, <1>5

LEMMA CallFacts ==
    ASSUME NEW id \in CallIds, NEW args \in {"whole", "null"}
    PROVE  /\ [id |-> id, args |-> args] \in CallsOfMessage
           /\ [id |-> id, args |-> args].id = id /\ [id |-> id, args |-> args].args = args
           /\ \A c \in CallsOfMessage : c.id = id /\ c.args = args => c = [id |-> id, args |-> args]
  BY DEF CallsOfMessage

LEMMA NativeFacts ==
    ASSUME gate \in Gates
    PROVE  /\ NativeCalls \in Seq(CallsOfMessage)
           /\ Len(NativeCalls) = Len(gate.calls)
           /\ \A i \in 1 .. Len(gate.calls) :
                NativeCalls[i].id = Native(i) /\ NativeCalls[i].args = Arguments(gate.calls[i])
<1>1. PICK old \in Seq(Nat) : old = gate.calls
  BY GateFacts
<1>2. PICK N \in Nat : N = Len(old)
  OBVIOUS
<1>3. DOMAIN old = 1 .. N
  BY <1>2
<1>4. PICK s : s = NativeCalls
  OBVIOUS
<1>5. s = [i \in 1 .. N |-> [id |-> Native(i), args |-> Arguments(old[i])]]
  BY <1>1, <1>3, <1>4 DEF NativeCalls
<1>6. \A i \in 1 .. N : /\ s[i] \in CallsOfMessage
                        /\ s[i].id = Native(i) /\ s[i].args = Arguments(old[i])
  <2> TAKE i \in 1 .. N
  <2>1. PICK id \in CallIds : id = Native(i)
    BY NamesOf
  <2>2. PICK args \in {"whole", "null"} : args = Arguments(old[i])
    BY DEF Arguments
  <2>3. s[i] = [id |-> id, args |-> args]
    BY <1>5, <2>1, <2>2
  <2>4. s[i] \in CallsOfMessage /\ s[i].id = id /\ s[i].args = args
    BY <2>3 DEF CallsOfMessage
  <2> QED BY <2>1, <2>2, <2>4
<1>7. s \in [1 .. N -> CallsOfMessage]
  BY <1>5, <1>6
<1>8. s \in Seq(CallsOfMessage) /\ Len(s) = N
  BY <1>7
<1> QED BY <1>1, <1>2, <1>4, <1>6, <1>8

LEMMA MarkedFacts ==
    ASSUME NEW text, NEW flavour \in {"dsml", "xml"}, NEW S, OfType(text, flavour) \in Seq(S)
    PROVE  /\ MarkedCalls(text, flavour) \in Seq(CallsOfMessage)
           /\ Len(MarkedCalls(text, flavour)) = Len(OfType(text, flavour))
           /\ \A k \in 1 .. Len(OfType(text, flavour)) :
                MarkedCalls(text, flavour)[k].id = Marked(flavour, k - 1)
<1>1. PICK found \in Seq(S) : found = OfType(text, flavour)
  OBVIOUS
<1>2. PICK N \in Nat : N = Len(found)
  OBVIOUS
<1>3. DOMAIN found = 1 .. N
  BY <1>2
<1>4. PICK s : s = MarkedCalls(text, flavour)
  OBVIOUS
<1>5. s = [k \in 1 .. N |-> [id |-> Marked(flavour, k - 1), args |-> "whole"]]
  BY <1>1, <1>3, <1>4 DEF MarkedCalls
<1>6. \A k \in 1 .. N : s[k] \in CallsOfMessage /\ s[k].id = Marked(flavour, k - 1)
  <2> TAKE k \in 1 .. N
  <2>1. k - 1 \in Nat
    OBVIOUS
  <2>2. PICK id \in CallIds : id = Marked(flavour, k - 1)
    BY <2>1, NamesOf
  <2>3. PICK args \in {"whole", "null"} : args = "whole"
    OBVIOUS
  <2>4. s[k] = [id |-> id, args |-> args]
    BY <1>5, <2>2, <2>3
  <2>5. s[k] \in CallsOfMessage /\ s[k].id = id
    BY <2>4 DEF CallsOfMessage
  <2> QED BY <2>2, <2>5
<1>7. s \in [1 .. N -> CallsOfMessage]
  BY <1>5, <1>6
<1>8. s \in Seq(CallsOfMessage) /\ Len(s) = N
  BY <1>7
<1> QED BY <1>1, <1>2, <1>4, <1>6, <1>8

\* The calls of a message: first those of the provider, then those of one kind of markup.
Lined(found, old, D, flavour) ==
    /\ found \in Seq(CallsOfMessage) /\ D \in Nat
    /\ Len(found) = Len(old) + D
    /\ \A k \in 1 .. Len(old) : found[k].id = Native(k) /\ found[k].args = Arguments(old[k])
    /\ \A k \in 1 .. D : found[Len(old) + k].id = Marked(flavour, k - 1)

LEMMA FoundFacts ==
    ASSUME GateShapes, AnswerKept
    PROVE  /\ FoundText \in Seq(Nat)
           /\ Lined(FoundCalls, gate.calls,
                    IF api = "openai" THEN Len(OfTypeIn(sent, gate.text, "dsml")) ELSE 0, "dsml")
<1>1. sent \in Seq(Pieces) /\ gate \in Gates /\ api \in {"openai", "responses"}
  BY DEF GateShapes
<1>2. gate.text \in Seq(1 .. Len(sent)) /\ gate.text \in Seq(Nat)
  BY <1>1, KindTyped, GateFacts DEF AnswerKept
<1>3. FoundText \in Seq(Nat)
  <2>1. Among(gate.text, DOMAIN sent \ PlacesOf("dsml")) \in Seq(Nat)
    BY <1>2, AmongTyped
  <2> QED BY <1>2, <2>1 DEF FoundText
<1>4. PICK a, b : a = NativeCalls /\ b = MarkedCalls(gate.text, "dsml")
  OBVIOUS
<1>5. PICK old \in Seq(Nat) : old = gate.calls
  BY <1>1, GateFacts
<1>6. PICK L \in Nat : L = Len(old)
  OBVIOUS
<1>7. PICK marks \in Seq(1 .. Len(sent)) : marks = OfTypeIn(sent, gate.text, "dsml")
  BY <1>2, AmongTyped DEF OfTypeIn
<1>8. PICK M \in Nat : M = Len(marks)
  OBVIOUS
<1>9. /\ a \in Seq(CallsOfMessage) /\ Len(a) = L
      /\ \A i \in 1 .. L : a[i].id = Native(i) /\ a[i].args = Arguments(old[i])
  BY <1>1, <1>4, <1>5, <1>6, NativeFacts
<1>10. /\ b \in Seq(CallsOfMessage) /\ Len(b) = M
       /\ \A k \in 1 .. M : b[k].id = Marked("dsml", k - 1)
  <2>1. OfType(gate.text, "dsml") = marks
    BY <1>7, SameSequences
  <2> QED BY <1>4, <1>8, <2>1, MarkedFacts
<1>11. CASE api = "responses"
  <2>1. FoundCalls = a
    BY <1>4, <1>11 DEF FoundCalls
  <2>2. Lined(a, old, 0, "dsml")
    BY <1>6, <1>9 DEF Lined
  <2> QED BY <1>3, <1>5, <1>11, <2>1, <2>2
<1>12. CASE api = "openai"
  <2>1. FoundCalls = a \o b
    BY <1>4, <1>12 DEF FoundCalls, Merge
  <2>2. PICK c : c = a \o b
    OBVIOUS
  <2>3. /\ c \in Seq(CallsOfMessage) /\ Len(c) = L + M
        /\ \A k \in 1 .. L + M : c[k] = IF k <= L THEN a[k] ELSE b[k - L]
    <3>1. /\ a \o b \in Seq(CallsOfMessage)
          /\ Len(a \o b) = Len(a) + Len(b)
          /\ \A k \in 1 .. Len(a) + Len(b) : (a \o b)[k] = IF k <= Len(a) THEN a[k] ELSE b[k - Len(a)]
      BY <1>9, <1>10, ConcatProperties
    <3> HIDE <2>2
    <3>2. Len(c) = L + M /\ c \in Seq(CallsOfMessage)
      BY <1>9, <1>10, <2>2, <3>1
    <3>3. \A k \in 1 .. L + M : c[k] = IF k <= L THEN a[k] ELSE b[k - L]
      BY <1>9, <1>10, <2>2, <3>1
    <3> QED BY <3>2, <3>3
  <2>4. \A k \in 1 .. L : c[k].id = Native(k) /\ c[k].args = Arguments(old[k])
    <3> TAKE k \in 1 .. L
    <3>1. k \in 1 .. L + M /\ k <= L
      OBVIOUS
    <3> QED BY <1>9, <2>3, <3>1
  <2>5. \A k \in 1 .. M : c[L + k].id = Marked("dsml", k - 1)
    <3> TAKE k \in 1 .. M
    <3>1. L + k \in 1 .. L + M /\ ~(L + k <= L) /\ L + k - L = k
      OBVIOUS
    <3>2. c[L + k] = b[k]
      BY <2>3, <3>1
    <3> QED BY <1>10, <3>2
  <2>6. Lined(c, old, M, "dsml")
    BY <1>6, <2>3, <2>4, <2>5 DEF Lined
  <2> QED BY <1>3, <1>5, <1>7, <1>8, <1>12, <2>1, <2>2, <2>6
<1> QED BY <1>1, <1>11, <1>12

----------------------------------------------------------------------------
(* The end of the stream, and a lap that ends the turn.                    *)

LEMMA StreamEndsKeeps ==
    ASSUME GateInv, StreamEnds
    PROVE  GateInv'
<1>1. /\ phase = "read" /\ phase' = "return" /\ UNCHANGED <<api, sent, gate, cancelled>>
      /\ lap' = IF api = "openai" THEN OpenaiMessage(lap) ELSE ResponsesMessage(lap)
  BY DEF StreamEnds, Return, Stay
<1>2. /\ GateShapes /\ AnswerKept /\ NamesCounted /\ CallsCounted /\ ToolsKnown
      /\ gate \in Gates /\ lap \in Laps /\ Fits(lap)
      /\ ~cancelled => TextShown(lap.blocks, "Text") = gate.text
                       /\ TextShown(lap.blocks, "Reasoning") = gate.reasoning
  BY <1>1, Reading
<1>3. lap.calls = <<>> /\ ~lap.error /\ lap.step = Nothing /\ lap.turn = "Running"
  BY <1>1 DEF GateInv, GateOngoing, Collecting, Fitting
<1>4. PICK text \in Seq(Nat), reasoning \in Seq(Nat), found \in Seq(CallsOfMessage) :
         text = FoundText /\ reasoning = gate.reasoning /\ found = FoundCalls
  <2>1. FoundText \in Seq(Nat) /\ FoundCalls \in Seq(CallsOfMessage)
    BY <1>2, FoundFacts DEF Lined
  <2>2. gate.reasoning \in Seq(Nat)
    BY <1>2, GateFacts
  <2> QED BY <2>1, <2>2
<1>5. PICK m : m = Done(lap, text, reasoning, found)
  OBVIOUS
<1>6. lap' = m
  <2>1. api \in {"openai", "responses"}
    BY <1>2 DEF GateShapes
  <2> QED BY <1>1, <1>4, <1>5, <2>1 DEF OpenaiMessage, ResponsesMessage, FoundText, FoundCalls
<1>7. /\ m \in Laps /\ Fits(m) /\ m.blocks = lap.blocks /\ m.tools = lap.tools
      /\ m.content = text /\ m.reasoning = reasoning
      /\ m.calls = (IF found = <<>> THEN lap.calls ELSE found)
      /\ m.error = lap.error /\ m.step = lap.step /\ m.sealed = lap.sealed /\ m.turn = lap.turn
  BY <1>2, <1>5, DoneFits
<1>8. AnswerKept' /\ NamesCounted' /\ CallsCounted' /\ FoundCalls' = FoundCalls /\ FoundText' = FoundText
  BY <1>1, <1>2, AnswerStays
<1>9. GateShapes'
  BY <1>1, <1>2, <1>6, <1>7 DEF GateShapes
<1>10. ToolsKnown'
  BY <1>1, <1>2, <1>6, <1>7 DEF ToolsKnown
<1>11. Collecting' /\ Fitting' /\ Showing'
  BY <1>1, <1>2, <1>3, <1>6, <1>7, <1>10 DEF Collecting, Fitting, Showing
<1>12. Returning'
  BY <1>1, <1>3, <1>4, <1>6, <1>7, <1>8 DEF Returning
<1>13. ~Answered'
  BY <1>3, <1>6, <1>7 DEF Answered
<1>14. RoundCloses' /\ MessageIsWhatWasShown' /\ CallsAsSent'
  BY <1>1, <1>13 DEF RoundCloses, MessageIsWhatWasShown, CallsAsSent
<1> QED BY <1>8, <1>9, <1>11, <1>12, <1>14 DEF GateInv, GateOngoing

\* Of an ended lap only its results are claimed.
LEMMA OverIsOver ==
    ASSUME GateInv, phase' = "over", UNCHANGED <<api, sent, gate, cancelled>>, lap' \in Laps,
           RoundCloses', MessageIsWhatWasShown', CallsAsSent'
    PROVE  GateInv'
<1>1. AnswerKept /\ NamesCounted /\ CallsCounted /\ GateShapes
  BY DEF GateInv, GateOngoing
<1>2. AnswerKept' /\ NamesCounted' /\ CallsCounted'
  BY <1>1, AnswerStays
<1>3. GateShapes'
  BY <1>1 DEF GateShapes
<1>4. Collecting' /\ Fitting' /\ Showing' /\ Returning'
  BY DEF Collecting, Fitting, Showing, Returning
<1> QED BY <1>2, <1>3, <1>4 DEF GateInv, GateOngoing

\* Everything is sealed at once, and the turn with it.
LEMMA SealTerminalKeeps ==
    ASSUME GateInv, phase = "return", phase' = "over", UNCHANGED <<api, sent, gate, cancelled>>,
           NEW state \in {"Cancelled", "Failed"}, lap' = SealTerminal(lap, state)
    PROVE  GateInv'
<1>1. lap \in Laps /\ Fits(lap) /\ lap.step = Nothing
  BY DEF GateInv, GateShapes, GateOngoing, Fitting
<1>2. PICK blocks \in Seq(Blocks), ids \in {ActiveIds(lap) \cup lap.tools} :
         blocks = lap.blocks /\ ids = ActiveIds(lap) \cup lap.tools
  BY <1>1, LapFacts
<1>3. PICK b : b = SealBlocks(blocks, ids)
  OBVIOUS
<1>4. b \in Seq(Blocks)
  BY <1>3, SealBlocksFacts
<1>5. OpenAre(blocks, ids)
  BY <1>1, <1>2 DEF Fits
<1>6. OpenAre(b, {})
  <2>1. OpenAre(b, ids \ ids)
    BY <1>3, <1>5, SealedAre
  <2>2. ids \ ids = {}
    OBVIOUS
  <2> QED BY <2>1, <2>2
<1>7. AllSealed(b)
  BY <1>4, <1>6, NoneIsOpen
<1>8. PICK done \in BOOLEAN : done = (b # <<>> /\ AllSealed(b))
  OBVIOUS
<1>9. lap' = [lap EXCEPT !.blocks = b, !.sealed = done, !.turn = state]
  BY <1>2, <1>3, <1>7, <1>8 DEF SealTerminal
<1>10. lap' \in Laps /\ lap'.blocks = b /\ lap'.turn = state /\ lap'.step = Nothing
  BY <1>1, <1>4, <1>9 DEF Laps
<1>11. {b[k].id : k \in {j \in DOMAIN b : ~b[j].sealed}} = {}
  BY <1>4, <1>6, OpenSet
<1>12. ~Answered'
  BY <1>10 DEF Answered
<1>13. RoundCloses'
  BY <1>10, <1>11, <1>12 DEF RoundCloses
<1>14. MessageIsWhatWasShown' /\ CallsAsSent'
  BY <1>12 DEF MessageIsWhatWasShown, CallsAsSent
<1> QED BY <1>10, <1>13, <1>14, OverIsOver

LEMMA EndsKeep ==
    ASSUME GateInv, LapIsCancelled \/ LapFails
    PROVE  GateInv'
<1>1. CASE LapIsCancelled
  BY <1>1, SealTerminalKeeps DEF LapIsCancelled, Stay
<1>2. CASE LapFails
  BY <1>2, SealTerminalKeeps DEF LapFails, Stay
<1> QED BY <1>1, <1>2

----------------------------------------------------------------------------
(* An answered lap.                                                        *)

\* How many calls of markup there are, of how many in the text.
MarkupCounted(D, flavour) ==
    /\ flavour = "dsml" =>
         /\ Len(gate.calls) + D > 0
         /\ D = IF api = "responses" /\ Len(gate.calls) > 0 THEN 0
                ELSE Len(OfTypeIn(sent, gate.text, "dsml"))
    /\ flavour = "xml" =>
         /\ Len(gate.calls) = 0 /\ Len(OfTypeIn(sent, gate.text, "dsml")) = 0
         /\ D = Len(OfTypeIn(sent, gate.text, "xml"))

\* The calls that will run, and of which kind those of the markup are.
LEMMA ParsedFacts ==
    ASSUME GateInv, phase = "return", ~lap.error
    PROVE  \E D \in Nat, flavour \in {"dsml", "xml"} :
              /\ Lined(Parsed, gate.calls, D, flavour)
              /\ MarkupCounted(D, flavour)
              /\ api = "openai" =>
                   Len(OfTypeIn(sent, gate.text, "dsml")) = IF flavour = "dsml" THEN D ELSE 0
              /\ api = "responses" => Cardinality(gate.names) = 0
<1>1. /\ GateShapes /\ AnswerKept /\ NamesCounted
      /\ lap.calls = FoundCalls /\ lap.content = FoundText
      /\ sent \in Seq(Pieces) /\ gate \in Gates /\ api \in {"openai", "responses"}
  BY DEF GateInv, GateOngoing, GateShapes, Returning
<1>2. api = "responses" => Cardinality(gate.names) = 0
  <2>1. Cardinality({}) = 0
    BY FS_EmptySet
  <2> QED BY <1>1, <2>1 DEF NamesCounted
<1>3. gate.text \in Seq(1 .. Len(sent))
  BY <1>1, KindTyped DEF AnswerKept
<1>4. PICK M \in Nat : M = Len(OfTypeIn(sent, gate.text, "dsml"))
  <2>1. OfTypeIn(sent, gate.text, "dsml") \in Seq(1 .. Len(sent))
    BY <1>3, AmongTyped DEF OfTypeIn
  <2>2. Len(OfTypeIn(sent, gate.text, "dsml")) \in Nat
    BY <2>1
  <2> QED BY <2>2
<1>5. PICK D \in Nat : D = IF api = "openai" THEN M ELSE 0
  OBVIOUS
<1>6. PICK found \in Seq(CallsOfMessage), old \in Seq(Nat) : found = FoundCalls /\ old = gate.calls
  <2>1. FoundCalls \in Seq(CallsOfMessage)
    BY <1>1, FoundFacts DEF Lined
  <2> QED BY <1>1, <2>1, GateFacts
<1>7. Lined(found, old, D, "dsml")
  BY <1>1, <1>4, <1>5, <1>6, FoundFacts
<1>8. CASE found # <<>>
  <2>1. Parsed = found
    BY <1>1, <1>6, <1>8 DEF Parsed
  <2>2. Len(old) + D > 0
    <3>1. Len(found) > 0
      BY <1>8
    <3> QED BY <1>7, <3>1 DEF Lined
  <2>3. MarkupCounted(D, "dsml")
    <3>1. PICK c \in Nat : c = Len(gate.calls) /\ c = Len(old)
      BY <1>6
    <3>2. D = IF api = "responses" /\ c > 0 THEN 0 ELSE M
      BY <1>1, <1>5, <2>2, <3>1
    <3> QED BY <1>4, <2>2, <3>1, <3>2 DEF MarkupCounted
  <2> QED BY <1>2, <1>4, <1>5, <1>6, <1>7, <2>1, <2>3
<1>9. CASE found = <<>>
  <2>1. Len(old) = 0 /\ D = 0
    <3>1. Len(old) \in Nat /\ Len(found) = 0
      BY <1>9
    <3> QED BY <1>7, <3>1 DEF Lined
  <2>2. PICK text \in Seq(Nat) : text = FoundText
    BY <1>1, FoundFacts
  <2>3. PICK dsml \in Seq(CallsOfMessage), n \in Nat :
           /\ dsml = MarkedCalls(text, "dsml") /\ Len(dsml) = n /\ n = Len(OfType(text, "dsml"))
           /\ \A k \in 1 .. n : dsml[k].id = Marked("dsml", k - 1)
    <3>1. OfType(text, "dsml") \in Seq(Nat)
      BY AmongTyped DEF OfType
    <3>2. Len(OfType(text, "dsml")) \in Nat
      BY <3>1
    <3> QED BY <3>1, <3>2, MarkedFacts
  <2>4. PICK xml \in Seq(CallsOfMessage), r \in Nat :
           /\ xml = MarkedCalls(text, "xml") /\ Len(xml) = r /\ r = Len(OfType(text, "xml"))
           /\ \A k \in 1 .. r : xml[k].id = Marked("xml", k - 1)
    <3>1. OfType(text, "xml") \in Seq(Nat)
      BY AmongTyped DEF OfType
    <3>2. Len(OfType(text, "xml")) \in Nat
      BY <3>1
    <3> QED BY <3>1, <3>2, MarkedFacts
  <2>5. Parsed = IF dsml # <<>> THEN dsml ELSE xml
    BY <1>1, <1>6, <1>9, <2>2, <2>3, <2>4 DEF Parsed
  <2>6. CASE dsml # <<>>
    <3>1. api # "openai"
      <4> SUFFICES ASSUME api = "openai" PROVE FALSE
        OBVIOUS
      <4> DEFINE S == 1 .. Len(sent)
                 places == DOMAIN sent \ PlacesOf("dsml")
      <4>1. S \cap places \cap PlacesOf("dsml") = {}
        OBVIOUS
      <4>2. text = Among(gate.text, places)
        BY <2>2 DEF FoundText
      <4> HIDE DEF S, places
      <4>3. gate.text \in Seq(S)
        BY <1>3 DEF S
      <4>4. Among(Among(gate.text, places), PlacesOf("dsml")) = <<>>
        BY <4>1, <4>3, TakenOut
      <4>5. OfType(text, "dsml") = <<>>
        BY <4>2, <4>4 DEF OfType
      <4>6. n = 0
        BY <2>3, <4>5
      <4> QED BY <2>3, <2>6, <4>6
    <3>2. Lined(dsml, old, n, "dsml")
      <4>1. Len(dsml) = Len(old) + n
        BY <2>1, <2>3
      <4>2. \A k \in 1 .. Len(old) : FALSE
        BY <2>1
      <4>3. \A k \in 1 .. n : Len(old) + k = k
        BY <2>1
      <4> QED BY <2>3, <4>1, <4>2, <4>3 DEF Lined
    <3>3. MarkupCounted(n, "dsml")
      <4>1. text = gate.text
        BY <1>1, <2>2, <3>1 DEF FoundText
      <4>2. n = M
        BY <1>4, <2>3, <4>1 DEF OfType, OfTypeIn, PlacesOf
      <4>3. Len(gate.calls) = 0
        BY <1>6, <2>1
      <4>4. n > 0
        BY <2>3, <2>6
      <4> QED BY <1>4, <4>2, <4>3, <4>4 DEF MarkupCounted
    <3> QED BY <1>2, <1>6, <2>5, <2>6, <3>1, <3>2, <3>3
  <2>7. CASE dsml = <<>>
    <3>1. Lined(xml, old, r, "xml")
      <4>1. Len(xml) = Len(old) + r
        BY <2>1, <2>4
      <4>2. \A k \in 1 .. Len(old) : FALSE
        BY <2>1
      <4>3. \A k \in 1 .. r : Len(old) + k = k
        BY <2>1
      <4> QED BY <2>4, <4>1, <4>2, <4>3 DEF Lined
    <3>2. api = "openai" => M = 0
      BY <1>5, <2>1
    <3>3. M = 0
      <4>1. CASE api = "responses"
        <5>1. text = gate.text
          BY <2>2, <4>1 DEF FoundText
        <5>2. n = M
          BY <1>4, <2>3, <5>1 DEF OfType, OfTypeIn, PlacesOf
        <5> QED BY <2>3, <2>7, <5>2
      <4> QED BY <1>1, <3>2, <4>1
    <3>4. OfType(text, "xml") = OfTypeIn(sent, gate.text, "xml")
      <4> DEFINE S == 1 .. Len(sent)
                 places == DOMAIN sent \ PlacesOf("dsml")
      <4>1. OfType(gate.text, "xml") = OfTypeIn(sent, gate.text, "xml")
        BY <1>1, SameSequences
      <4>2. CASE api = "responses"
        <5>1. text = gate.text
          BY <2>2, <4>2 DEF FoundText
        <5> QED BY <4>1, <5>1
      <4>3. CASE api = "openai"
        <5>1. S \cap PlacesOf("xml") \subseteq places
          BY DEF PlacesOf
        <5>2. text = Among(gate.text, places)
          BY <2>2, <4>3 DEF FoundText
        <5> HIDE DEF S, places
        <5>3. gate.text \in Seq(S)
          BY <1>3 DEF S
        <5>4. Among(Among(gate.text, places), PlacesOf("xml")) = Among(gate.text, PlacesOf("xml"))
          BY <5>1, <5>3, AmongTwice
        <5>5. OfType(text, "xml") = OfType(gate.text, "xml")
          BY <5>2, <5>4 DEF OfType
        <5> QED BY <4>1, <5>5
      <4> QED BY <1>1, <4>2, <4>3
    <3>5. MarkupCounted(r, "xml")
      <4>1. Len(gate.calls) = 0
        BY <1>6, <2>1
      <4>2. r = Len(OfTypeIn(sent, gate.text, "xml"))
        BY <2>4, <3>4
      <4> QED BY <1>4, <3>3, <4>1, <4>2 DEF MarkupCounted
    <3> QED BY <1>2, <1>4, <1>6, <2>5, <2>7, <3>1, <3>2, <3>5
  <2> QED BY <2>6, <2>7
<1> QED BY <1>8, <1>9

\* No block was opened for a call that will not run.
LEMMA ToolsAreCalls ==
    ASSUME GateInv, phase = "return", ~lap.error
    PROVE  Parsed \in Seq(CallsOfMessage) /\ lap.tools \subseteq IdsOf(Parsed)
<1>1. PICK D \in Nat, flavour \in {"dsml", "xml"} :
         /\ Lined(Parsed, gate.calls, D, flavour)
         /\ MarkupCounted(D, flavour)
         /\ api = "openai" =>
              Len(OfTypeIn(sent, gate.text, "dsml")) = IF flavour = "dsml" THEN D ELSE 0
         /\ api = "responses" => Cardinality(gate.names) = 0
  BY ParsedFacts
<1>2. /\ ToolsKnown /\ NamesCounted /\ gate \in Gates /\ api \in {"openai", "responses"}
  BY DEF GateInv, GateShapes, GateOngoing, Fitting
<1>3. PICK old \in Seq(Nat), found \in Seq(CallsOfMessage) : old = gate.calls /\ found = Parsed
  BY <1>1, <1>2, GateFacts DEF Lined
<1>4. PICK L \in Nat : L = Len(old)
  OBVIOUS
<1>5. /\ Len(found) = L + D
      /\ \A k \in 1 .. L : found[k].id = Native(k)
      /\ \A k \in 1 .. D : found[L + k].id = Marked(flavour, k - 1)
  BY <1>1, <1>3, <1>4 DEF Lined
<1>6. DOMAIN found = 1 .. L + D
  BY <1>5
<1>7. \A k \in 1 .. L + D : found[k].id \in IdsOf(found)
  BY <1>6 DEF IdsOf
<1>8. ASSUME NEW x \in lap.tools PROVE x \in IdsOf(found)
  <2>1. CASE \E i \in 1 .. L : x = Native(i)
    <3>1. PICK i \in 1 .. L : x = Native(i)
      BY <2>1
    <3>2. i \in 1 .. L + D
      OBVIOUS
    <3> QED BY <1>5, <1>7, <3>1, <3>2
  <2>2. CASE \E k \in Nat : k < Cardinality(gate.names) /\ x = Marked("dsml", k)
    <3>1. PICK k \in Nat : k < Cardinality(gate.names) /\ x = Marked("dsml", k)
      BY <2>2
    <3>2. PICK c \in Nat : c = Cardinality(gate.names)
      BY <1>2, FS_CardinalityType DEF NamesCounted
    <3>3. api = "openai"
      BY <1>1, <1>2, <3>1, <3>2
    <3>4. c <= IF flavour = "dsml" THEN D ELSE 0
      BY <1>1, <1>2, <3>2, <3>3 DEF NamesCounted
    <3>5. flavour = "dsml" /\ k + 1 \in 1 .. D /\ k + 1 - 1 = k
      BY <3>1, <3>2, <3>4
    <3>6. PICK n \in 1 .. D : n = k + 1
      BY <3>5
    <3>7. PICK place \in 1 .. L + D : place = L + n
      OBVIOUS
    <3>8. found[L + n].id = Marked(flavour, n - 1)
      BY <1>5
    <3>9. n - 1 = k
      BY <3>6
    <3>10. found[place].id \in IdsOf(found)
      BY <1>7
    <3> HIDE <1>5, <1>7
    <3> QED BY <3>1, <3>5, <3>7, <3>8, <3>9, <3>10
  <2>3. (\E i \in 1 .. L : x = Native(i)) \/ \E k \in Nat : k < Cardinality(gate.names) /\ x = Marked("dsml", k)
    BY <1>2, <1>3, <1>4 DEF ToolsKnown
  <2> QED BY <2>1, <2>2, <2>3
<1> QED BY <1>3, <1>8

\* The lap after it has found its calls.
LEMMA AnsweredLap ==
    ASSUME GateInv, LapAnswered
    PROVE  /\ lap' \in Laps
           /\ lap'.step = [text |-> lap.content, reasoning |-> lap.reasoning, calls |-> Parsed]
           /\ lap'.step # Nothing
           /\ SameShown(lap, lap')
           /\ {lap'.blocks[k].id : k \in {j \in DOMAIN lap'.blocks : ~lap'.blocks[j].sealed}} = IdsOf(Parsed)
           /\ Parsed = <<>> /\ lap'.blocks # <<>> => lap'.sealed
<1>1. phase = "return" /\ ~cancelled /\ ~lap.error
  BY DEF LapAnswered
<1>2. lap \in Laps /\ Fits(lap)
  BY <1>1 DEF GateInv, GateShapes, GateOngoing, Fitting
<1>3. PICK asked \in Seq(CallsOfMessage) : asked = Parsed /\ lap.tools \subseteq IdsOf(asked)
  BY <1>1, ToolsAreCalls
<1>4. PICK blocks \in Seq(Blocks), tools \in SUBSET CallIds, acts \in {ActiveIds(lap)} :
         blocks = lap.blocks /\ acts = ActiveIds(lap) /\ tools = lap.tools
  BY <1>2, LapFacts
<1>5. acts \subseteq StreamIds
  <2>1. lap.active \in {Nothing} \cup Active
    BY <1>2, LapFacts
  <2> QED BY <1>4, <2>1, ActiveFacts DEF ActiveIds
<1>6. PICK ids : ids = acts \cup tools
  OBVIOUS
<1>7. OpenAre(blocks, ids) /\ CallsInBlocks(blocks, tools)
  BY <1>2, <1>4, <1>6 DEF Fits
<1>8. \A id \in CallIds : HasBlock(blocks, id) => id \in ids
  BY <1>6, <1>7 DEF CallsInBlocks, HasBlock
<1>9. PICK b : b = OpenAll(blocks, asked)
  OBVIOUS
<1>10. PICK new : new = IdsOf(asked)
  OBVIOUS
<1>11. new \subseteq CallIds
  <2>1. DOMAIN asked = 1 .. Len(asked)
    OBVIOUS
  <2>2. \A k \in 1 .. Len(asked) : asked[k] \in CallsOfMessage
    BY ElementOfSeq
  <2> QED BY <1>10, <2>1, <2>2 DEF IdsOf, CallsOfMessage
<1>12. Opened(b, blocks, ids, new)
  BY <1>7, <1>8, <1>9, <1>10, OpenAllFacts
<1>13. /\ b \in Seq(Blocks) /\ OpenAre(b, ids \cup new)
       /\ \A kind : TextShown(b, kind) = TextShown(blocks, kind)
       /\ \A id \in new : HasBlock(b, id)
  BY <1>12 DEF Opened
<1>14. PICK c : c = SealBlocks(b, acts)
  OBVIOUS
<1>15. /\ c \in Seq(Blocks) /\ Len(c) = Len(b)
       /\ \A k \in 1 .. Len(b) : c[k].id = b[k].id /\ c[k].kind = b[k].kind /\ c[k].text = b[k].text
  BY <1>13, <1>14, SealBlocksFacts
<1>16. OpenAre(c, new)
  <2>1. OpenAre(c, (ids \cup new) \ acts)
    BY <1>13, <1>14, SealedAre
  <2>2. (ids \cup new) \ acts = new
    BY <1>3, <1>4, <1>5, <1>6, <1>10, <1>11, KindsDiffer
  <2> QED BY <2>1, <2>2
<1>17. \A id \in new : HasBlock(c, id)
  BY <1>13, <1>15 DEF HasBlock
<1>18. \A kind : TextShown(c, kind) = TextShown(b, kind)
  <2>1. Alike(b, c)
    BY <1>15 DEF Alike
  <2> QED BY <1>13, <1>15, <2>1, ShownAlike
<1>19. PICK m : m = OpenMissing(lap, asked)
  OBVIOUS
<1>20. m = [lap EXCEPT !.tools = tools \cup new, !.blocks = b]
  BY <1>4, <1>9, <1>10, <1>19 DEF OpenMissing
<1>21. /\ m \in Laps /\ m.tools = tools \cup new /\ m.blocks = b /\ m.active = lap.active
  <2>1. tools \cup new \in SUBSET CallIds
    BY <1>11
  <2> QED BY <1>2, <1>13, <1>20, <2>1 DEF Laps
<1>22. ActiveIds(m) = acts
  BY <1>4, <1>21 DEF ActiveIds
<1>23. PICK l : l = SealActive(m)
  OBVIOUS
<1>24. l \in Laps /\ l.blocks = c
  <2>1. l \in Laps /\ l.blocks = SealBlocks(m.blocks, ActiveIds(m))
    BY <1>21, <1>23, SealActiveFields
  <2> QED BY <1>14, <1>21, <1>22, <2>1
<1>25. PICK content \in Seq(Nat), reasoning \in Seq(Nat) : content = lap.content /\ reasoning = lap.reasoning
  BY <1>2, LapFacts
<1>26. PICK step : step = [text |-> content, reasoning |-> reasoning, calls |-> asked]
  OBVIOUS
<1>27. step \in Message
  BY <1>26 DEF Message
<1>28. PICK done \in BOOLEAN : done = (asked = <<>> /\ c # <<>> /\ AllSealed(c))
  OBVIOUS
<1>29. lap' = [l EXCEPT !.step = step, !.sealed = done]
  <2>1. lap' = [l EXCEPT !.step = [text |-> lap.content, reasoning |-> lap.reasoning, calls |-> asked],
                         !.sealed = asked = <<>> /\ l.blocks # <<>> /\ AllSealed(l.blocks)]
    BY <1>3, <1>19, <1>23 DEF LapAnswered
  <2> QED BY <1>24, <1>25, <1>26, <1>28, <2>1
<1>30. lap' \in Laps /\ lap'.step = step /\ lap'.sealed = done /\ lap'.blocks = c
  BY <1>24, <1>27, <1>29 DEF Laps
<1>31. lap'.step = [text |-> lap.content, reasoning |-> lap.reasoning, calls |-> Parsed]
  BY <1>3, <1>25, <1>26, <1>30
<1>32. lap'.step # Nothing
  BY <1>27, <1>30, NothingIsNone
<1>33. SameShown(lap, lap')
  BY <1>4, <1>13, <1>18, <1>30 DEF SameShown
<1>34. {c[k].id : k \in {j \in DOMAIN c : ~c[j].sealed}} = new
  BY <1>15, <1>16, <1>17, OpenSet
<1>35. asked = <<>> /\ c # <<>> => done
  <2>1. asked = <<>> => new = {}
    BY <1>10 DEF IdsOf
  <2>2. new = {} => AllSealed(c)
    BY <1>15, <1>16, NoneIsOpen
  <2> QED BY <1>28, <2>1, <2>2
<1> QED BY <1>3, <1>10, <1>30, <1>31, <1>32, <1>33, <1>34, <1>35

\* A call is whole when the gate has all of it.
LEMMA WholeIs ==
    ASSUME GateShapes, CallsCounted, NEW i \in Nat \ {0}
    PROVE  Whole(i) <=> i \in 1 .. Len(gate.calls) /\ gate.calls[i] = Fragments
<1>1. api \in {"openai", "responses"} /\ Fragments # 0
  BY GateAssumption DEF GateShapes
<1>2. PICK c, q : c = Cardinality(FragmentsIn(sent, i)) /\ q = (Piece("item", "none", i) \in ToSet(sent))
  OBVIOUS
<1>3. Whole(i) <=> c = Fragments \/ Piece("item", "none", i) \in ToSet(sent)
  BY <1>2, SameSequences DEF Whole
<1>4. c = IF api = "openai" /\ i \in 1 .. Len(gate.calls) THEN gate.calls[i] ELSE 0
  BY <1>2 DEF CallsCounted
<1>5. Piece("item", "none", i) \in ToSet(sent) <=> api = "responses" /\ i \in 1 .. Len(gate.calls)
  BY DEF CallsCounted
<1>6. \A j \in 1 .. Len(gate.calls) : api = "responses" => gate.calls[j] = Fragments
  BY DEF CallsCounted
<1>7. CASE api = "openai"
  BY <1>1, <1>3, <1>4, <1>5, <1>7
<1>8. CASE api = "responses"
  BY <1>1, <1>3, <1>4, <1>5, <1>6, <1>8
<1> QED BY <1>1, <1>7, <1>8

\* What the line of the calls says of them.
OneIdEach(found) == \A j, k \in DOMAIN found : found[j].id = found[k].id => j = k
WholeAreFull(found, old) ==
    \A i \in Nat \ {0} :
      [id |-> Native(i), args |-> "whole"] \in ToSet(found) <=> i \in 1 .. Len(old) /\ old[i] = Fragments
NativeAscend(found) ==
    \A i \in Nat : \A j, k \in DOMAIN found :
      found[j].id = Native(i) /\ found[k].id[1] = "native" /\ j < k => found[k].id[2] > i
OfKindAre(found, kind) == Cardinality({k \in DOMAIN found : found[k].id[1] = kind})
KindsAreFound(found, L, D, flavour) ==
    /\ OfKindAre(found, "native") = L
    /\ \A kind \in {"dsml", "xml"} : OfKindAre(found, kind) = IF kind = flavour THEN D ELSE 0

LEMMA LinedCalls ==
    ASSUME NEW old \in Seq(Nat), NEW found, NEW D \in Nat, NEW flavour \in {"dsml", "xml"},
           Lined(found, old, D, flavour)
    PROVE  /\ OneIdEach(found) /\ WholeAreFull(found, old)
           /\ NativeAscend(found) /\ KindsAreFound(found, Len(old), D, flavour)
<1> USE DEF OneIdEach, WholeAreFull, NativeAscend
<1>1. PICK L \in Nat : L = Len(old)
  OBVIOUS
<1>2. /\ found \in Seq(CallsOfMessage) /\ Len(found) = L + D
      /\ \A k \in 1 .. L : found[k].id = Native(k) /\ found[k].args = Arguments(old[k])
      /\ \A k \in 1 .. D : found[L + k].id = Marked(flavour, k - 1)
  BY <1>1 DEF Lined
<1>3. DOMAIN found = 1 .. L + D
  BY <1>2
<1>4. \A k \in 1 .. L + D : k \in 1 .. L \/ (k - L \in 1 .. D /\ k = L + (k - L))
  OBVIOUS
<1>5. \A k \in 1 .. L : found[k].id[1] = "native" /\ found[k].id[2] = k
  BY <1>2, NamesOf
<1>6. \A k \in 1 .. L + D : k \notin 1 .. L => found[k].id[1] = flavour /\ found[k].id[2] = k - L - 1
  <2> SUFFICES ASSUME NEW k \in 1 .. L + D, k \notin 1 .. L
               PROVE  found[k].id[1] = flavour /\ found[k].id[2] = k - L - 1
    OBVIOUS
  <2>1. PICK n \in 1 .. D : n = k - L /\ k = L + n
    BY <1>4
  <2>2. found[k].id = Marked(flavour, n - 1)
    BY <1>2, <2>1
  <2> QED BY <2>1, <2>2, NamesOf
<1>7. flavour # "native" /\ (flavour = "dsml" \/ flavour = "xml")
  OBVIOUS
<1>8. \A j, k \in DOMAIN found : found[j].id = found[k].id => j = k
  <2> SUFFICES ASSUME NEW j \in 1 .. L + D, NEW k \in 1 .. L + D, found[j].id = found[k].id
               PROVE  j = k
    BY <1>3
  <2>1. CASE j \in 1 .. L /\ k \in 1 .. L
    BY <1>5, <2>1
  <2>2. CASE j \notin 1 .. L /\ k \notin 1 .. L
    BY <1>6, <2>2
  <2>3. CASE j \in 1 .. L /\ k \notin 1 .. L
    BY <1>5, <1>6, <1>7, <2>3
  <2>4. CASE j \notin 1 .. L /\ k \in 1 .. L
    BY <1>5, <1>6, <1>7, <2>4
  <2> QED BY <2>1, <2>2, <2>3, <2>4
<1>9. \A i \in Nat \ {0} :
        [id |-> Native(i), args |-> "whole"] \in ToSet(found) <=> i \in 1 .. L /\ old[i] = Fragments
  <2> TAKE i \in Nat \ {0}
  <2>1. PICK w : w = [id |-> Native(i), args |-> "whole"]
    OBVIOUS
  <2>2. w.id = Native(i) /\ w.args = "whole"
    BY <2>1
  <2>3. ToSet(found) = {found[k] : k \in 1 .. L + D}
    BY <1>3 DEF ToSet
  <2>4. ASSUME w \in ToSet(found) PROVE i \in 1 .. L /\ old[i] = Fragments
    <3>1. PICK k \in 1 .. L + D : w = found[k]
      BY <2>3, <2>4
    <3>2. found[k].id[1] = "native" /\ found[k].id[2] = i
      BY <2>2, <3>1, NamesOf
    <3>3. k \in 1 .. L
      BY <1>6, <1>7, <3>2
    <3>4. k = i
      BY <1>5, <3>2, <3>3
    <3>5. Arguments(old[i]) = "whole"
      BY <1>2, <2>2, <3>1, <3>3, <3>4
    <3>6. old[i] = Fragments
      BY <3>5 DEF Arguments
    <3> QED BY <3>3, <3>4, <3>6
  <2>5. ASSUME i \in 1 .. L, old[i] = Fragments PROVE w \in ToSet(found)
    <3>1. found[i].id = Native(i) /\ found[i].args = "whole"
      BY <1>2, <2>5 DEF Arguments
    <3>2. i \in 1 .. L + D
      BY <2>5
    <3>3. found[i] \in CallsOfMessage
      BY <1>2, <3>2, ElementOfSeq
    <3>4. found[i] = [id |-> Native(i), args |-> "whole"]
      BY <3>1, <3>3 DEF CallsOfMessage
    <3> QED BY <2>1, <2>3, <3>2, <3>4
  <2> QED BY <2>1, <2>4, <2>5
<1>10. \A i \in Nat : \A j, k \in DOMAIN found :
         found[j].id = Native(i) /\ found[k].id[1] = "native" /\ j < k => found[k].id[2] > i
  <2> SUFFICES ASSUME NEW i \in Nat, NEW j \in 1 .. L + D, NEW k \in 1 .. L + D,
                      found[j].id = Native(i), found[k].id[1] = "native", j < k
               PROVE  found[k].id[2] > i
    BY <1>3
  <2>1. found[j].id[1] = "native" /\ found[j].id[2] = i
    BY NamesOf
  <2>2. j \in 1 .. L /\ k \in 1 .. L
    BY <1>6, <1>7, <2>1
  <2>3. found[j].id[2] = j /\ found[k].id[2] = k
    BY <1>5, <2>2
  <2> QED BY <2>1, <2>3
<1>11. OfKindAre(found, "native") = L
  <2>1. PICK of : of = {k \in 1 .. L + D : found[k].id[1] = "native"}
    OBVIOUS
  <2>2. of = 1 .. L
    <3>1. \A k \in 1 .. L + D : found[k].id[1] = "native" <=> k \in 1 .. L
      BY <1>5, <1>6, <1>7
    <3> QED BY <2>1, <3>1
  <2>3. Cardinality(1 .. L) = L
    <3>1. 1 \in Int /\ L \in Int
      OBVIOUS
    <3>2. Cardinality(1 .. L) = IF 1 > L THEN 0 ELSE L - 1 + 1
      BY <3>1, FS_Interval
    <3> QED BY <3>2
  <2> QED BY <1>3, <2>1, <2>2, <2>3 DEF OfKindAre
<1>12. ASSUME NEW kind \in {"dsml", "xml"}
       PROVE  OfKindAre(found, kind) = IF kind = flavour THEN D ELSE 0
  <2>1. PICK of : of = {k \in 1 .. L + D : found[k].id[1] = kind}
    OBVIOUS
  <2>2. kind # "native"
    OBVIOUS
  <2>3. CASE kind = flavour
    <3>1. \A k \in 1 .. L + D : found[k].id[1] = kind <=> k \notin 1 .. L
      BY <1>5, <1>6, <2>2, <2>3
    <3>2. of = L + 1 .. L + D
      BY <2>1, <3>1
    <3>3. Cardinality(L + 1 .. L + D) = D
      <4>1. L + 1 \in Int /\ L + D \in Int
        OBVIOUS
      <4>2. Cardinality(L + 1 .. L + D) = IF L + 1 > L + D THEN 0 ELSE L + D - (L + 1) + 1
        BY <4>1, FS_Interval
      <4> QED BY <4>2
    <3> QED BY <1>3, <2>1, <2>3, <3>2, <3>3 DEF OfKindAre
  <2>4. CASE kind # flavour
    <3>1. \A k \in 1 .. L + D : found[k].id[1] # kind
      BY <1>5, <1>6, <2>2, <2>4
    <3>2. of = {}
      BY <2>1, <3>1
    <3> QED BY <1>3, <2>1, <2>4, <3>2, FS_EmptySet DEF OfKindAre
  <2> QED BY <2>3, <2>4
<1>13. KindsAreFound(found, Len(old), D, flavour)
  BY <1>1, <1>11, <1>12 DEF KindsAreFound
<1> QED BY <1>1, <1>3, <1>8, <1>9, <1>10, <1>13

LEMMA LapAnsweredKeeps ==
    ASSUME GateInv, LapAnswered
    PROVE  GateInv'
<1>1. /\ phase = "return" /\ ~cancelled /\ ~lap.error /\ phase' = "over"
      /\ UNCHANGED <<api, sent, gate, cancelled>>
  BY DEF LapAnswered, Stay
<1>2. /\ GateShapes /\ AnswerKept /\ CallsCounted
      /\ lap.content = FoundText /\ lap.reasoning = gate.reasoning
      /\ TextShown(lap.blocks, "Text") = gate.text /\ TextShown(lap.blocks, "Reasoning") = gate.reasoning
      /\ gate \in Gates
  BY <1>1 DEF GateInv, GateShapes, GateOngoing, Returning, Showing
<1>3. /\ lap' \in Laps
      /\ lap'.step = [text |-> lap.content, reasoning |-> lap.reasoning, calls |-> Parsed]
      /\ lap'.step # Nothing
      /\ SameShown(lap, lap')
      /\ {lap'.blocks[k].id : k \in {j \in DOMAIN lap'.blocks : ~lap'.blocks[j].sealed}} = IdsOf(Parsed)
      /\ Parsed = <<>> /\ lap'.blocks # <<>> => lap'.sealed
  BY AnsweredLap
<1>4. lap'.step.text = FoundText /\ lap'.step.reasoning = gate.reasoning /\ lap'.step.calls = Parsed
  BY <1>2, <1>3
<1>5. Answered'
  BY <1>3 DEF Answered
<1>6. RoundCloses'
  BY <1>3, <1>4, <1>5 DEF RoundCloses
<1>7. \A kind : Shown(kind)' = TextShown(lap'.blocks, kind)
  BY DEF Shown, TextShown
<1>8. Shown("Text")' = gate.text /\ Shown("Reasoning")' = gate.reasoning
  BY <1>2, <1>3, <1>7 DEF SameShown
<1>9. SentOf("Text")' = gate.text /\ SentOf("Reasoning")' = gate.reasoning
  <2>1. SentOf("Text")' = SentOf("Text") /\ SentOf("Reasoning")' = SentOf("Reasoning")
    BY <1>1 DEF SentOf
  <2> QED BY <1>2, <2>1, SameSequences DEF AnswerKept
<1>10. MessageIsWhatWasShown'
  <2>1. PlacesOf("dsml")' = PlacesOf("dsml")
    BY <1>1 DEF PlacesOf
  <2>2. lap'.step.text = IF api' = "responses" THEN gate.text
                         ELSE Among(gate.text, DOMAIN sent' \ PlacesOf("dsml")')
    BY <1>1, <1>4, <2>1 DEF FoundText
  <2> QED BY <1>4, <1>8, <1>9, <2>2 DEF MessageIsWhatWasShown
<1>11. PICK D \in Nat, flavour \in {"dsml", "xml"} :
         /\ Lined(Parsed, gate.calls, D, flavour)
         /\ MarkupCounted(D, flavour)
         /\ api = "openai" =>
              Len(OfTypeIn(sent, gate.text, "dsml")) = IF flavour = "dsml" THEN D ELSE 0
         /\ api = "responses" => Cardinality(gate.names) = 0
  BY <1>1, ParsedFacts
<1>12. PICK old \in Seq(Nat), found \in {Parsed} : old = gate.calls /\ found = Parsed
  BY <1>2, GateFacts
<1>13. Lined(found, old, D, flavour)
  BY <1>11, <1>12
<1>lined. /\ OneIdEach(found) /\ WholeAreFull(found, old)
          /\ NativeAscend(found) /\ KindsAreFound(found, Len(old), D, flavour)
  BY <1>13, LinedCalls
<1>14. \A j, k \in DOMAIN found : found[j].id = found[k].id => j = k
  BY <1>lined DEF OneIdEach
<1>15. \A i \in Nat \ {0} :
         [id |-> Native(i), args |-> "whole"] \in ToSet(found) <=> i \in 1 .. Len(old) /\ old[i] = Fragments
  BY <1>lined DEF WholeAreFull
<1>16. \A i \in Nat : \A j, k \in DOMAIN found :
         found[j].id = Native(i) /\ found[k].id[1] = "native" /\ j < k => found[k].id[2] > i
  BY <1>lined DEF NativeAscend
<1>17. /\ OfKindAre(found, "native") = Len(old)
       /\ OfKindAre(found, "dsml") = IF flavour = "dsml" THEN D ELSE 0
       /\ OfKindAre(found, "xml") = IF flavour = "xml" THEN D ELSE 0
  BY <1>lined DEF KindsAreFound
<1>18. \A i \in 1 .. MaxToolCalls : i \in Nat \ {0}
  BY GateAssumption
<1>19. \A i \in 1 .. MaxToolCalls :
         Whole(i)' <=> [id |-> Native(i), args |-> "whole"] \in ToSet(found)
  <2> TAKE i \in 1 .. MaxToolCalls
  <2>1. Whole(i)' <=> Whole(i)
    BY <1>1 DEF Whole
  <2>2. Whole(i) <=> i \in 1 .. Len(gate.calls) /\ gate.calls[i] = Fragments
    BY <1>2, <1>18, WholeIs
  <2> QED BY <1>12, <1>15, <1>18, <2>1, <2>2
<1>20. /\ CallsOf("dsml")' = IF api' = "responses" /\ CallsOf("native")' > 0 THEN 0 ELSE InText("dsml")'
       /\ CallsOf("xml")' = IF CallsOf("native")' + CallsOf("dsml")' > 0 THEN 0 ELSE InText("xml")'
  <2>1. \A flavour_ : InText(flavour_)' = Len(OfTypeIn(sent, gate.text, flavour_))
    BY <1>1, <1>8 DEF InText, OfType, OfTypeIn, PlacesOf
  <2>2. lap'.step.calls = found
    BY <1>4, <1>12
  <2>3. \A kind : CallsOf(kind)' = OfKindAre(found, kind)
    BY <2>2 DEF CallsOf, OfKindAre
  <2>4. PICK N \in Nat : N = Len(old) /\ N = Len(gate.calls)
    BY <1>12
  <2>5. PICK M, X : M = InText("dsml")' /\ X = InText("xml")'
    OBVIOUS
  <2>6. /\ CallsOf("native")' = N
        /\ CallsOf("dsml")' = IF flavour = "dsml" THEN D ELSE 0
        /\ CallsOf("xml")' = IF flavour = "xml" THEN D ELSE 0
    BY <1>17, <2>3, <2>4
  <2>7. /\ flavour = "dsml" => N + D > 0 /\ D = IF api = "responses" /\ N > 0 THEN 0 ELSE M
        /\ flavour = "xml" => N = 0 /\ M = 0 /\ D = X
    BY <1>11, <2>1, <2>4, <2>5 DEF MarkupCounted
  <2>8. CASE flavour = "dsml"
    BY <1>1, <2>5, <2>6, <2>7, <2>8
  <2>9. CASE flavour = "xml"
    BY <1>1, <2>5, <2>6, <2>7, <2>9
  <2> QED BY <2>8, <2>9
<1>21. CallsAsSent'
  <2>1. lap'.step.calls = found
    BY <1>4, <1>12
  <2> QED BY <1>14, <1>16, <1>18, <1>19, <1>20, <2>1 DEF CallsAsSent
<1> QED BY <1>1, <1>3, <1>6, <1>10, <1>21, OverIsOver

LEMMA GateNextKeeps ==
    ASSUME GateInv, [GateNext]_gateVars
    PROVE  GateInv'
<1>1. CASE UNCHANGED gateVars
  <2>1. UNCHANGED <<api, phase, cancelled, sent, gate, lap>>
    BY <1>1 DEF gateVars
  <2>2. CASE phase # "over"
    BY <2>1, <2>2, QuietKeeps
  <2>3. CASE phase = "over"
    <3>1. RoundCloses' /\ MessageIsWhatWasShown' /\ CallsAsSent'
      <4>1. RoundCloses /\ MessageIsWhatWasShown /\ CallsAsSent
        BY DEF GateInv
      <4>2. RoundCloses'
        BY <2>1, <4>1 DEF RoundCloses, Answered
      <4>3. MessageIsWhatWasShown'
        BY <2>1, <4>1 DEF MessageIsWhatWasShown, Answered, Shown, SentOf, PlacesOf
      <4>4. CallsAsSent'
        BY <2>1, <4>1 DEF CallsAsSent, CallsOf, InText, Answered, Whole, Shown, OfType, PlacesOf
      <4> QED BY <4>2, <4>3, <4>4
    <3>2. lap' \in Laps
      BY <2>1 DEF GateInv, GateShapes
    <3> QED BY <2>1, <2>3, <3>1, <3>2, OverIsOver
  <2> QED BY <2>2, <2>3
<1>2. CASE PostCancelled \/ Post \/ WaitEnds \/ Poll \/ RaiseCancel \/ Broken
  BY <1>2, PostingKeeps
<1>3. CASE ReadText
  BY <1>3, ReadTextKeeps
<1>4. CASE ReadReasoning
  BY <1>4, ReadReasoningKeeps
<1>5. CASE ReadTag
  BY <1>5, ReadTagKeeps
<1>6. CASE ReadItem
  BY <1>6, ReadItemKeeps
<1>7. CASE StreamEnds
  BY <1>7, StreamEndsKeeps
<1>8. CASE \E flavour \in Markup, name \in Names : ReadMarkup(flavour, name)
  BY <1>8, ReadMarkupKeeps
<1>9. CASE \E i \in 1 .. MaxToolCalls : ReadFragment(i)
  BY <1>9, ReadFragmentKeeps
<1>10. CASE LapIsCancelled \/ LapFails
  BY <1>10, EndsKeep
<1>11. CASE LapAnswered
  BY <1>11, LapAnsweredKeeps
<1> QED BY <1>1, <1>2, <1>3, <1>4, <1>5, <1>6, <1>7, <1>8, <1>9, <1>10, <1>11 DEF GateNext

LEMMA GateInitHolds ==
    ASSUME GateInit
    PROVE  GateInv
<1>1. /\ api \in {"openai", "responses"} /\ phase = "post" /\ cancelled = FALSE /\ sent = <<>>
      /\ gate = [text |-> <<>>, reasoning |-> <<>>, thinking |-> FALSE, calls |-> <<>>, names |-> {}]
  BY DEF GateInit
<1>2. /\ lap.content = <<>> /\ lap.reasoning = <<>> /\ lap.calls = <<>> /\ lap.active = Nothing
      /\ lap.segment = 0 /\ lap.tools = {} /\ ~lap.error /\ lap.step = Nothing
      /\ lap.blocks = <<>> /\ lap.turn = "Running"
  BY DEF GateInit
<1>3. lap \in Laps
  <2>1. <<>> \in Seq(Nat) /\ <<>> \in Seq(CallsOfMessage) /\ <<>> \in Seq(Blocks)
    BY EmptySeq
  <2> QED BY <2>1 DEF GateInit, Laps
<1>4. gate \in Gates
  <2>1. <<>> \in Seq(Nat)
    BY EmptySeq
  <2> QED BY <1>1, <2>1 DEF Gates
<1>5. GateShapes
  <2>1. <<>> \in Seq(Pieces)
    BY EmptySeq
  <2> QED BY <1>1, <1>3, <1>4, <2>1 DEF GateShapes
<1>6. Len(<<>>) = 0 /\ DOMAIN <<>> = {} /\ 1 .. 0 = {}
  OBVIOUS
<1>7. AnswerKept
  <2>1. PICK none : none = [n \in DOMAIN sent |-> n]
    OBVIOUS
  <2>2. none = <<>>
    <3>1. DOMAIN sent = 1 .. 0
      BY <1>1
    <3>2. none = [n \in 1 .. 0 |-> n]
      BY <2>1, <3>1
    <3>3. none \in Seq(Nat) /\ Len(none) = 0
      BY <3>2
    <3> QED BY <3>3
  <2>3. \A kind : OfKindIn(sent, kind) = <<>>
    BY <2>1, <2>2, AmongNothing DEF OfKindIn
  <2> QED BY <1>1, <2>3 DEF AnswerKept
<1>8. NamesCounted
  <2>1. IsFiniteSet({}) /\ Cardinality({}) = 0
    BY FS_EmptySet
  <2>2. OfTypeIn(sent, gate.text, "dsml") = <<>>
    BY <1>1, AmongNothing DEF OfTypeIn
  <2>3. Len(OfTypeIn(sent, gate.text, "dsml")) = 0
    BY <2>2
  <2> QED BY <1>1, <2>1, <2>3 DEF NamesCounted
<1>9. CallsCounted
  <2>1. gate.calls = <<>> /\ Len(gate.calls) = 0
    BY <1>1
  <2>2. \A i : FragmentsIn(sent, i) = {}
    BY <1>1 DEF FragmentsIn
  <2>3. ToSet(sent) = {}
    BY <1>1 DEF ToSet
  <2>4. \A i : Cardinality(FragmentsIn(sent, i)) = 0
    BY <2>2, FS_EmptySet
  <2> QED BY <2>1, <2>3, <2>4 DEF CallsCounted
<1>10. Fits(lap) /\ ToolsKnown
  <2>1. \A k \in 1 .. Len(lap.blocks) : FALSE
    BY <1>2
  <2>2. ActiveIds(lap) = {}
    BY <1>2 DEF ActiveIds
  <2>3. Fits(lap)
    BY <1>2, <2>1, <2>2 DEF Fits, EachOnce, NumbersBelow, CallsInBlocks, OpenAre, LastIsActive
  <2> QED BY <1>2, <2>3 DEF ToolsKnown
<1>11. Collecting /\ Fitting /\ Returning
  BY <1>1, <1>2, <1>10 DEF Collecting, Fitting, Returning
<1>12. Showing
  BY <1>1, <1>2, ShownNothing DEF Showing
<1>13. RoundCloses /\ MessageIsWhatWasShown /\ CallsAsSent
  BY <1>1, <1>2 DEF RoundCloses, MessageIsWhatWasShown, CallsAsSent, Answered
<1> QED BY <1>5, <1>7, <1>8, <1>9, <1>11, <1>12, <1>13 DEF GateInv, GateOngoing

LEMMA GateSafe == GateSpec => []GateInv
<1>1. GateInit => GateInv
  BY GateInitHolds
<1>2. GateInv /\ [GateNext]_gateVars => GateInv'
  BY GateNextKeeps
<1> QED BY <1>1, <1>2, PTL DEF GateSpec

\* Of a request to a model provider, for any number of pieces, calls and retries, and an answer
\* whose markup is complete (one that ends inside of it leaves the block that was opened at its
\* first tag): when the lap that listens is over, the timeline can go on.  A turn that ends is
\* sealed with all that is in it; otherwise exactly the blocks of the calls that will run are
\* open (engine_turn.rs).
THEOREM RoundClosesTheorem == GateSpec => []RoundCloses
<1>1. GateInv => RoundCloses
  BY DEF GateInv
<1> QED BY <1>1, GateSafe, PTL

\* The history gets the text and the reasoning the user has read: every piece the provider sent,
\* once and in order, and only the markup of recognised calls is taken out (openai.rs, util).
THEOREM MessageIsWhatWasShownTheorem == GateSpec => []MessageIsWhatWasShown
<1>1. GateInv => MessageIsWhatWasShown
  BY DEF GateInv
<1> QED BY <1>1, GateSafe, PTL

\* Every call the provider completed as fragments or as an item is in the message, once, in its
\* order and with whole arguments, however fragments are mixed and wherever the stream ends.  Of
\* the calls in the text every one is there of the kind that counts, and none of any other: the
\* kind openai.rs takes up itself, or else, beside no other call, the first kind there is (util).
THEOREM CallsAsSentTheorem == GateSpec => []CallsAsSent
<1>1. GateInv => CallsAsSent
  BY DEF GateInv
<1> QED BY <1>1, GateSafe, PTL
==============================================================================
