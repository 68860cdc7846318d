------------------------ MODULE SessionProjectionProofs ------------------------
(***************************************************************************)
(* The session as daemon and shell believe it, for any sets of calls and   *)
(* any bounds: the registry seals only what a dead worker left, work is    *)
(* seen as work, and the prompts a worker waits for reach the shell.       *)
(***************************************************************************)
EXTENDS SessionProjection, FiniteSetTheorems, SequenceTheorems, TLAPS

----------------------------------------------------------------------------
(* What the variables are.                                                 *)

Ids == Nat \cup Calls \cup {NoCall}
Events == [type : EventTypes, id : Ids]
Rounds == [permissions : SUBSET Calls, approved : SUBSET Calls, asks : Seq(Calls),
           calls : SUBSET Calls]
Workers == [alive : BOOLEAN, stage : {"idle", "busy", "waiting"}, turn : Nat, round : Rounds,
            compacting : BOOLEAN]
Commands == [kind : {"message", "permission", "ask", "cancel"}, id : Ids, yes : BOOLEAN, n : Nat]
Readers == [pc : {"read", "observe", "ended"}, generation : Nat, event : Events \cup {None}]
Registries == [pc : {"free", "write", "join", "spawn", "seal"}, command : Commands \cup {None},
               seals : Seq(Channels), found : SUBSET Ids]
Bootstraps == [seals : Seq(Channels), found : SUBSET Ids]
States == {"Starting", "Idle", "Working", "WaitingUser", "Disconnected"}
Activities == [generation : Nat, state : States, turn : Ids]
Shells == [streaming : BOOLEAN, permissions : Seq(Ids), ask : Ids]
Counts == [turns : Nat, clicks : Nat, faults : Nat, calls : SUBSET Calls]

\* Of calls, only those that were made are spoken about.
CallTypes == {"PermissionRequested", "ToolFinished", "AskRequested", "AskResolved"}
Told(made) == {e \in Events : e.type \in CallTypes => e.id \in made}
OnChannel(channel, made) == {e \in Told(made) : ChannelOf(e.type) = channel}
Projections(made) == [turn : Ids, permission : made \cup {NoCall}, ask : made \cup {NoCall}]
\* What a seal has found is of a channel of calls, or a turn.
FindsMade(s, made) ==
    /\ s.seals = <<>> => s.found = {}
    /\ s.seals # <<>> /\ Head(s.seals) # "conversation" => s.found \subseteq made

WorkerTyped == worker \in Workers /\ pipe \in Seq(Told(used.calls))
ReaderTyped == reader \in Readers /\ (reader.pc = "observe" => reader.event \in Events)
DaemonTyped ==
    /\ registry \in Registries /\ FindsMade(registry, used.calls)
    /\ bootstrap \in Bootstraps /\ FindsMade(bootstrap, used.calls)
    /\ projection \in Projections(used.calls) /\ activity \in Activities
WireTyped ==
    /\ DOMAIN wire = Channels /\ wire = [c \in Channels |-> wire[c]]
    /\ \A c \in Channels : wire[c] \in Seq(OnChannel(c, used.calls))
ShellTyped == shell \in Shells /\ commands \subseteq Commands /\ used \in Counts

Typed == WorkerTyped /\ ReaderTyped /\ DaemonTyped /\ WireTyped /\ ShellTyped

----------------------------------------------------------------------------
(* Sequences of events.                                                    *)

In(e, s) == \E i \in DOMAIN s : s[i] = e
NoneOf(s, T) == \A k \in DOMAIN s : s[k].type \notin T
\* The last event of s that has a type of T is e.
LastOf(s, T, e) == \E j \in DOMAIN s : s[j] = e /\ \A k \in DOMAIN s : k > j => s[k].type \notin T

\* Where the elements of a concatenation come from.
LEMMA ConcatElements ==
    ASSUME NEW S, NEW s \in Seq(S), NEW t \in Seq(S)
    PROVE  /\ DOMAIN s = 1 .. Len(s) /\ DOMAIN t = 1 .. Len(t)
           /\ Len(s) \in Nat /\ Len(t) \in Nat
           /\ DOMAIN (s \o t) = 1 .. Len(s) + Len(t)
           /\ \A i \in 1 .. Len(s) : (s \o t)[i] = s[i]
           /\ \A i \in 1 .. Len(t) : (s \o t)[i + Len(s)] = t[i]
<1>1. s \o t \in Seq(S) /\ Len(s \o t) = Len(s) + Len(t)
  BY ConcatProperties
<1>2. \A i \in 1 .. Len(s) : (s \o t)[i] = s[i]
  BY ConcatProperties
<1>3. \A i \in 1 .. Len(t) : (s \o t)[i + Len(s)] = t[i]
  BY ConcatProperties
<1>4. DOMAIN (s \o t) = 1 .. Len(s) + Len(t)
  BY <1>1
<1> QED BY <1>1, <1>2, <1>3, <1>4

\* An event is in a concatenation when it is in one of the parts.
LEMMA InConcat ==
    ASSUME NEW S, NEW s \in Seq(S), NEW t \in Seq(S), NEW e
    PROVE  In(e, s \o t) <=> In(e, s) \/ In(e, t)
<1> DEFINE w == s \o t
<1>1. /\ DOMAIN s = 1 .. Len(s) /\ DOMAIN t = 1 .. Len(t)
      /\ Len(s) \in Nat /\ Len(t) \in Nat
      /\ DOMAIN w = 1 .. Len(s) + Len(t)
  BY ConcatElements
<1>2. \A i \in 1 .. Len(s) : w[i] = s[i]
  BY ConcatElements
<1>3. \A i \in 1 .. Len(t) : w[i + Len(s)] = t[i]
  BY ConcatElements
<1> HIDE DEF w
<1>4. ASSUME In(e, w) PROVE In(e, s) \/ In(e, t)
  <2>1. PICK i \in 1 .. Len(s) + Len(t) : w[i] = e
    BY <1>1, <1>4 DEF In
  <2>2. CASE i <= Len(s)
    BY <2>1, <2>2, <1>2 DEF In
  <2>3. CASE i > Len(s)
    <3>1. i - Len(s) \in 1 .. Len(t) /\ (i - Len(s)) + Len(s) = i
      BY <2>1, <2>3
    <3>2. t[i - Len(s)] = e
      BY <3>1, <2>1, <1>3
    <3> QED BY <3>1, <3>2 DEF In
  <2> QED BY <2>1, <2>2, <2>3
<1>5. ASSUME In(e, s) PROVE In(e, w)
  BY <1>1, <1>2, <1>5 DEF In
<1>6. ASSUME In(e, t) PROVE In(e, w)
  <2>1. PICK i \in 1 .. Len(t) : t[i] = e
    BY <1>6 DEF In
  <2>2. i + Len(s) \in 1 .. Len(s) + Len(t) /\ w[i + Len(s)] = e
    BY <2>1, <1>3
  <2> QED BY <2>2, <1>1 DEF In
<1> QED BY <1>4, <1>5, <1>6 DEF w

\* None has a type of T when none in either part has.
LEMMA NoneOfConcat ==
    ASSUME NEW S, NEW s \in Seq(S), NEW t \in Seq(S), NEW T
    PROVE  NoneOf(s \o t, T) <=> NoneOf(s, T) /\ NoneOf(t, T)
<1> DEFINE w == s \o t
<1>1. /\ DOMAIN s = 1 .. Len(s) /\ DOMAIN t = 1 .. Len(t)
      /\ Len(s) \in Nat /\ Len(t) \in Nat
      /\ DOMAIN w = 1 .. Len(s) + Len(t)
  BY ConcatElements
<1>2. \A i \in 1 .. Len(s) : w[i] = s[i]
  BY ConcatElements
<1>3. \A i \in 1 .. Len(t) : w[i + Len(s)] = t[i]
  BY ConcatElements
<1> HIDE DEF w
<1>4. ASSUME NoneOf(s, T), NoneOf(t, T), NEW i \in 1 .. Len(s) + Len(t)
      PROVE  w[i].type \notin T
  <2>1. CASE i <= Len(s)
    BY <2>1, <1>2, <1>4 DEF NoneOf
  <2>2. CASE i > Len(s)
    <3>1. i - Len(s) \in 1 .. Len(t) /\ (i - Len(s)) + Len(s) = i
      BY <2>2
    <3>2. w[i] = t[i - Len(s)]
      BY <3>1, <1>3
    <3> QED BY <3>1, <3>2, <1>4 DEF NoneOf
  <2> QED BY <2>1, <2>2
<1>5. ASSUME NoneOf(w, T) PROVE NoneOf(s, T)
  BY <1>1, <1>2, <1>5 DEF NoneOf
<1>6. ASSUME NoneOf(w, T), NEW i \in 1 .. Len(t) PROVE t[i].type \notin T
  <2>1. i + Len(s) \in 1 .. Len(s) + Len(t) /\ w[i + Len(s)] = t[i]
    BY <1>3
  <2> QED BY <2>1, <1>1, <1>6 DEF NoneOf
<1> QED BY <1>1, <1>4, <1>5, <1>6 DEF NoneOf, w

\* The last one of a concatenation is that of the second part, if that has one.
LEMMA LastOfConcat ==
    ASSUME NEW S, NEW s \in Seq(S), NEW t \in Seq(S), NEW T, NEW e
    PROVE  LastOf(s \o t, T, e) <=> LastOf(t, T, e) \/ (NoneOf(t, T) /\ LastOf(s, T, e))
<1> DEFINE w == s \o t
<1>1. /\ DOMAIN s = 1 .. Len(s) /\ DOMAIN t = 1 .. Len(t)
      /\ Len(s) \in Nat /\ Len(t) \in Nat
      /\ DOMAIN w = 1 .. Len(s) + Len(t)
  BY ConcatElements
<1>2. \A i \in 1 .. Len(s) : w[i] = s[i]
  BY ConcatElements
<1>3. \A i \in 1 .. Len(t) : w[i + Len(s)] = t[i]
  BY ConcatElements
<1> HIDE DEF w
<1>4. ASSUME LastOf(w, T, e)
      PROVE  LastOf(t, T, e) \/ (NoneOf(t, T) /\ LastOf(s, T, e))
  <2>1. PICK j \in 1 .. Len(s) + Len(t) : /\ w[j] = e
            /\ \A k \in 1 .. Len(s) + Len(t) : k > j => w[k].type \notin T
    BY <1>1, <1>4 DEF LastOf
  <2>2. CASE j <= Len(s)
    <3>1. s[j] = e /\ \A k \in 1 .. Len(s) : k > j => s[k].type \notin T
      BY <2>1, <2>2, <1>2
    <3>2. ASSUME NEW k \in 1 .. Len(t) PROVE t[k].type \notin T
      <4>1. k + Len(s) \in 1 .. Len(s) + Len(t) /\ k + Len(s) > j
        BY <2>2
      <4> QED BY <4>1, <2>1, <1>3
    <3> QED BY <3>1, <3>2, <2>2 DEF LastOf, NoneOf
  <2>3. CASE j > Len(s)
    <3>1. j - Len(s) \in 1 .. Len(t) /\ (j - Len(s)) + Len(s) = j
      BY <2>3
    <3>2. t[j - Len(s)] = e
      BY <3>1, <2>1, <1>3
    <3>3. ASSUME NEW k \in 1 .. Len(t), k > j - Len(s) PROVE t[k].type \notin T
      <4>1. k + Len(s) \in 1 .. Len(s) + Len(t) /\ k + Len(s) > j
        BY <3>3
      <4> QED BY <4>1, <2>1, <1>3
    <3> QED BY <3>1, <3>2, <3>3 DEF LastOf
  <2> QED BY <2>2, <2>3
<1>5. ASSUME LastOf(t, T, e) PROVE LastOf(w, T, e)
  <2>1. PICK j \in 1 .. Len(t) : /\ t[j] = e
            /\ \A k \in 1 .. Len(t) : k > j => t[k].type \notin T
    BY <1>5 DEF LastOf
  <2>2. j + Len(s) \in 1 .. Len(s) + Len(t) /\ w[j + Len(s)] = e
    BY <2>1, <1>3
  <2>3. ASSUME NEW k \in 1 .. Len(s) + Len(t), k > j + Len(s) PROVE w[k].type \notin T
    <3>1. k - Len(s) \in 1 .. Len(t) /\ k - Len(s) > j /\ (k - Len(s)) + Len(s) = k
      BY <2>3
    <3>2. w[k] = t[k - Len(s)]
      BY <3>1, <1>3
    <3> QED BY <3>1, <3>2, <2>1
  <2> QED BY <2>2, <2>3, <1>1 DEF LastOf
<1>6. ASSUME NoneOf(t, T), LastOf(s, T, e) PROVE LastOf(w, T, e)
  <2>1. PICK j \in 1 .. Len(s) : /\ s[j] = e
            /\ \A k \in 1 .. Len(s) : k > j => s[k].type \notin T
    BY <1>6 DEF LastOf
  <2>2. j \in 1 .. Len(s) + Len(t) /\ w[j] = e
    BY <2>1, <1>2
  <2>3. ASSUME NEW k \in 1 .. Len(s) + Len(t), k > j PROVE w[k].type \notin T
    <3>1. CASE k <= Len(s)
      BY <3>1, <2>3, <2>1, <1>2
    <3>2. CASE k > Len(s)
      <4>1. k - Len(s) \in 1 .. Len(t) /\ (k - Len(s)) + Len(s) = k
        BY <3>2
      <4>2. w[k] = t[k - Len(s)]
        BY <4>1, <1>3
      <4> QED BY <4>1, <4>2, <1>6 DEF NoneOf
    <3> QED BY <3>1, <3>2
  <2> QED BY <2>2, <2>3, <1>1 DEF LastOf
<1> QED BY <1>4, <1>5, <1>6 DEF w

\* The same of one event.
LEMMA OfOne ==
    ASSUME NEW f, NEW e, NEW T
    PROVE  /\ In(e, <<f>>) <=> f = e
           /\ NoneOf(<<f>>, T) <=> f.type \notin T
           /\ LastOf(<<f>>, T, e) <=> f = e
BY DEF In, NoneOf, LastOf

\* A sequence is its first element and the others; Append adds one at the end.
LEMMA HeadAndTail ==
    ASSUME NEW S, NEW s \in Seq(S)
    PROVE  /\ s # <<>> => Head(s) \in S /\ Tail(s) \in Seq(S) /\ s = <<Head(s)>> \o Tail(s)
           /\ \A e \in S : Append(s, e) = s \o <<e>> /\ Append(s, e) \in Seq(S)
<1>1. ASSUME s # <<>> PROVE Head(s) \in S /\ Tail(s) \in Seq(S) /\ s = <<Head(s)>> \o Tail(s)
  <2>1. Head(s) \in S /\ Tail(s) \in Seq(S) /\ Len(Tail(s)) = Len(s) - 1 /\ Len(s) \in Nat \ {0}
    BY <1>1, HeadTailProperties, EmptySeq
  <2>2. Head(s) = s[1] /\ \A i \in 1 .. Len(Tail(s)) : Tail(s)[i] = s[i + 1]
    BY <1>1, HeadTailProperties
  <2>3. <<Head(s)>> \in Seq(S) /\ Len(<<Head(s)>>) = 1 /\ <<Head(s)>>[1] = Head(s)
    BY <2>1
  <2>4. <<Head(s)>> \o Tail(s) \in Seq(S) /\ Len(<<Head(s)>> \o Tail(s)) = Len(s)
    BY <2>1, <2>3, ConcatProperties
  <2>5. ASSUME NEW i \in 1 .. Len(s) PROVE s[i] = (<<Head(s)>> \o Tail(s))[i]
    <3>1. CASE i = 1
      BY <3>1, <2>1, <2>2, <2>3, ConcatProperties
    <3>2. CASE i # 1
      <4>1. i - 1 \in 1 .. Len(Tail(s)) /\ (i - 1) + 1 = i
        BY <3>2, <2>1
      <4>2. (<<Head(s)>> \o Tail(s))[(i - 1) + Len(<<Head(s)>>)] = Tail(s)[i - 1]
        BY <4>1, <2>1, <2>3, ConcatProperties
      <4>3. Tail(s)[i - 1] = s[i]
        BY <4>1, <2>2
      <4> QED BY <4>1, <4>2, <4>3, <2>3
    <3> QED BY <3>1, <3>2
  <2> QED BY <2>1, <2>4, <2>5, SeqEqual
<1>2. ASSUME NEW e \in S PROVE Append(s, e) = s \o <<e>> /\ Append(s, e) \in Seq(S)
  BY AppendIsConcat, AppendProperties
<1> QED BY <1>1, <1>2

----------------------------------------------------------------------------
(* What the worker says.                                                   *)

LEMMA Constants ==
    /\ Permissions \cap Asks = {} /\ NoCall \notin Calls /\ IsFiniteSet(Calls)
    /\ MaxTurns \in Nat /\ MaxClicks \in Nat /\ MaxFaults \in Nat
    /\ Permissions \subseteq Calls /\ Asks \subseteq Calls
BY SessionAssumption DEF Calls

LEMMA EventIsTyped ==
    ASSUME NEW type \in EventTypes, NEW id \in Ids
    PROVE  E(type, id) \in Events /\ E(type, id).type = type /\ E(type, id).id = id
BY DEF E, Events

\* What was told stays so when more calls are made.
LEMMA ToldGrows ==
    ASSUME NEW made, NEW more, made \subseteq more
    PROVE  /\ Told(made) \subseteq Told(more) /\ Told(made) \subseteq Events
           /\ Seq(Told(made)) \subseteq Seq(Told(more)) /\ Seq(Told(made)) \subseteq Seq(Events)
           /\ \A c \in Channels : /\ Seq(OnChannel(c, made)) \subseteq Seq(OnChannel(c, more))
                                  /\ Seq(OnChannel(c, made)) \subseteq Seq(Told(made))
                                  /\ Seq(OnChannel(c, made)) \subseteq Seq(Events)
           /\ Projections(made) \subseteq Projections(more)
           /\ \A s : FindsMade(s, made) => FindsMade(s, more)
<1>1. Told(made) \subseteq Told(more) /\ Told(made) \subseteq Events
  BY DEF Told
<1>2. ASSUME NEW c \in Channels
      PROVE  /\ OnChannel(c, made) \subseteq OnChannel(c, more)
             /\ OnChannel(c, made) \subseteq Told(made)
  BY <1>1 DEF OnChannel
<1>3. \A A, B : A \subseteq B => Seq(A) \subseteq Seq(B)
  OBVIOUS
<1>4. Projections(made) \subseteq Projections(more)
  BY DEF Projections
<1>5. \A s : FindsMade(s, made) => FindsMade(s, more)
  BY DEF FindsMade
<1>6. Seq(Told(made)) \subseteq Seq(Told(more)) /\ Seq(Told(made)) \subseteq Seq(Events)
  BY <1>1, <1>3
<1>7. ASSUME NEW c \in Channels
      PROVE  /\ Seq(OnChannel(c, made)) \subseteq Seq(OnChannel(c, more))
             /\ Seq(OnChannel(c, made)) \subseteq Seq(Told(made))
             /\ Seq(OnChannel(c, made)) \subseteq Seq(Events)
  BY <1>1, <1>2, <1>3
<1> QED BY <1>1, <1>4, <1>5, <1>6, <1>7

\* The calls of a round in an order, each once.
LEMMA OrdersAreSequences ==
    ASSUME NEW P \in SUBSET Calls, NEW s \in SetToSeqs(P)
    PROVE  s \in Seq(P) /\ s \in Seq(Calls) /\ ToSet(s) \subseteq P /\ IsInjective(s)
<1>1. IsFiniteSet(P)
  BY Constants, FS_Subset
<1>2. Cardinality(P) \in Nat
  BY <1>1, FS_CardinalityType
<1>3. s \in [1 .. Cardinality(P) -> P] /\ \A i, j \in 1 .. Cardinality(P) : i # j => s[i] # s[j]
  BY DEF SetToSeqs
<1> QED BY <1>2, <1>3 DEF ToSet, IsInjective

\* The results of a set of calls, announced in some order.
LEMMA FinishedEvents ==
    ASSUME NEW P \in SUBSET Calls
    PROVE  /\ Finished(P) \in Seq(Told(P))
           /\ \A i \in DOMAIN Finished(P) :
                 Finished(P)[i].type = "ToolFinished" /\ Finished(P)[i].id \in P
<1>1. IsFiniteSet(P)
  BY Constants, FS_Subset
<1>2. Cardinality(P) \in Nat /\ ExistsBijection(1 .. Cardinality(P), P)
  BY <1>1, FS_CardinalityType
<1>3. PICK f \in [1 .. Cardinality(P) -> P] : IsInjective(f)
  BY <1>2 DEF ExistsBijection, Bijection, Injection
<1>4. SetToSeq(P) \in [1 .. Cardinality(P) -> P]
  BY <1>3 DEF SetToSeq
<1> DEFINE order == SetToSeq(P)
<1> HIDE DEF order
<1>5. order \in [1 .. Cardinality(P) -> P]
  BY <1>4 DEF order
<1>6. Finished(P) = [i \in 1 .. Cardinality(P) |-> E("ToolFinished", order[i])]
  BY <1>5 DEF Finished, order
<1>7. \A i \in 1 .. Cardinality(P) :
         /\ E("ToolFinished", order[i]) \in Told(P)
         /\ E("ToolFinished", order[i]).type = "ToolFinished"
         /\ E("ToolFinished", order[i]).id \in P
  BY <1>5 DEF E, Told, Events, EventTypes, Ids
<1> QED BY <1>2, <1>6, <1>7

\* The permissions of a round, asked for one after the other.
Requests(permissions) == [i \in DOMAIN permissions |-> E("PermissionRequested", permissions[i])]

LEMMA RequestEvents ==
    ASSUME NEW s \in Seq(Calls)
    PROVE  /\ Requests(s) \in Seq(Told(ToSet(s)))
           /\ \A i \in DOMAIN Requests(s) :
                 Requests(s)[i].type = "PermissionRequested" /\ Requests(s)[i].id \in ToSet(s)
           /\ \A p \in ToSet(s) : In(E("PermissionRequested", p), Requests(s))
<1>1. Len(s) \in Nat /\ DOMAIN s = 1 .. Len(s)
  OBVIOUS
<1>2. \A i \in 1 .. Len(s) :
         /\ E("PermissionRequested", s[i]) \in Told(ToSet(s))
         /\ E("PermissionRequested", s[i]).type = "PermissionRequested"
         /\ E("PermissionRequested", s[i]).id \in ToSet(s)
  BY <1>1 DEF E, Told, Events, EventTypes, Ids, ToSet
<1>3. Requests(s) \in Seq(Told(ToSet(s)))
  BY <1>1, <1>2 DEF Requests
<1>4. \A p \in ToSet(s) : In(E("PermissionRequested", p), Requests(s))
  BY <1>1 DEF Requests, ToSet, In
<1> QED BY <1>1, <1>2, <1>3, <1>4 DEF Requests

----------------------------------------------------------------------------
(* The invariant.                                                          *)

\* A worker that lives is the one the registry has, and its reader is believed; only
\* such a worker has a turn.
WorkersAreSound ==
    /\ worker.alive => instance /\ reader.generation = activity.generation
    /\ worker.stage # "idle" => worker.alive /\ worker.turn # 0
    /\ registry.pc \in {"join", "spawn"} => ~instance

\* Only a suspended turn has a round, with something to decide; its calls were made.
RoundIsSound ==
    /\ worker.stage # "waiting" => worker.round = NoRound
    /\ worker.stage = "waiting" => worker.round.permissions # {} \/ worker.round.asks # <<>>
    /\ worker.round.permissions \subseteq worker.round.calls
    /\ worker.round.approved \subseteq worker.round.calls
    /\ ToSet(worker.round.asks) \subseteq worker.round.calls
    /\ worker.round.calls \subseteq used.calls
    /\ IsInjective(worker.round.asks)

\* Events not yet observed, those that say whether a turn runs, and the turn's start
\* as the last of them.
Pending == IF reader.pc = "observe" THEN <<reader.event>> \o pipe ELSE pipe
Boundaries == {"Ready", "TurnStarted", "TurnEnded"}

\* The tracker knows of the turn, or the last boundary it will observe is its start.
WorkIsAnnounced ==
    worker.stage # "idle" =>
        \/ LastOf(Pending, Boundaries, E("TurnStarted", worker.turn))
        \/ /\ NoneOf(Pending, Boundaries)
           /\ activity.turn = worker.turn /\ activity.state \in {"Working", "WaitingUser"}

\* What the shell will hear of a channel, in this order.
Coming(channel) == wire[channel] \o pipe

\* A permission that is waited for will be asked for or is shown, and no result of
\* its call is on the way.
PermissionIsComing(p) ==
    /\ ~In(E("ToolFinished", p), Coming("tool"))
    /\ In(E("PermissionRequested", p), Coming("tool")) \/ p \in ToSet(shell.permissions)

PermissionsAreComing == \A p \in worker.round.permissions : p \in swept \/ PermissionIsComing(p)

\* No question of the round is resolved behind the worker's back.
AsksAreOpen ==
    \A a \in ToSet(worker.round.asks) :
        a \in swept \/ ~In(E("AskResolved", a), Coming("control"))

\* The question that is waited for is the last one the shell will hear of.
AskIsComing(a) ==
    \/ LastOf(Coming("control"), {"AskRequested"}, E("AskRequested", a))
    \/ NoneOf(Coming("control"), {"AskRequested"}) /\ shell.ask = a

ActiveAskIsComing ==
    worker.stage = "waiting" /\ worker.round.permissions = {} =>
        Head(worker.round.asks) \in swept \/ AskIsComing(Head(worker.round.asks))

IInv == /\ Typed /\ WorkersAreSound /\ SealsOnlyOrphans /\ RoundIsSound /\ WorkIsAnnounced
        /\ PermissionsAreComing /\ AsksAreOpen /\ ActiveAskIsComing

----------------------------------------------------------------------------
(* The steps of the worker, by what they do.                               *)

\* It says something, and nobody else does anything.
Says(evs) ==
    /\ worker.alive /\ worker'.alive /\ worker' \in Workers
    /\ used' \in Counts /\ used.calls \subseteq used'.calls
    /\ evs \in Seq(Told(used'.calls)) /\ pipe' = pipe \o evs
    /\ \/ worker.stage # "idle"
       \/ inbox # <<>>
       \/ inbox' = inbox /\ worker'.stage = worker.stage
    /\ UNCHANGED <<reader, daemonVars, projection, activity, wire, shell, commands, swept>>

\* The event types of a step.
Only(evs, T) == \A i \in DOMAIN evs : evs[i].type \in T

Starts(evs) ==
    /\ Says(evs) /\ worker.stage = "idle" /\ inbox # <<>> /\ UNCHANGED used.calls
    /\ worker'.stage = "busy" /\ worker'.turn # 0 /\ worker'.round = worker.round
    /\ evs = <<E("TurnStarted", worker'.turn)>>

Ends(evs) ==
    /\ Says(evs)
    /\ worker.stage # "idle" \/ inbox # <<>>
    /\ worker'.stage = "idle" /\ worker'.round = NoRound

Suspends(evs) ==
    /\ Says(evs) /\ worker.stage = "busy" /\ worker'.stage = "waiting"
    /\ worker'.turn = worker.turn
    /\ worker'.round.permissions # {} \/ worker'.round.asks # <<>>
    /\ worker'.round.permissions \subseteq worker'.round.calls /\ worker'.round.approved = {}
    /\ ToSet(worker'.round.asks) \subseteq worker'.round.calls
    /\ worker'.round.calls \subseteq used'.calls /\ worker'.round.calls \cap used.calls = {}
    /\ IsInjective(worker'.round.asks)
    /\ Only(evs, {"PermissionRequested", "AskRequested"})
    /\ \A p \in worker'.round.permissions : In(E("PermissionRequested", p), evs)
    /\ worker'.round.permissions = {} => evs = <<E("AskRequested", Head(worker'.round.asks))>>

\* At most a permission is noted that is not the last one.
Notes(evs) ==
    /\ Says(evs) /\ worker'.stage = worker.stage /\ worker'.turn = worker.turn
    /\ UNCHANGED used.calls
    /\ worker'.round.permissions \subseteq worker.round.permissions
    /\ worker'.round.permissions = {} => worker.round.permissions = {}
    /\ worker'.round.approved \subseteq worker.round.approved \cup worker.round.permissions
    /\ worker'.round.asks = worker.round.asks /\ worker'.round.calls = worker.round.calls
    /\ worker.stage # "waiting" => worker'.round = worker.round
    /\ Only(evs, {"CompactStarted", "CompactFinished", "Rejected"})

\* All is decided: the turn goes on.
Resumes(evs) ==
    /\ Says(evs) /\ worker.stage = "waiting" /\ worker'.stage = "busy"
    /\ worker'.turn = worker.turn /\ worker'.round = NoRound
    /\ Only(evs, {"ToolFinished", "AskResolved"})

\* The next question, after events that resolve none of those left.
AsksNext(evs) ==
    /\ Says(evs) /\ worker.stage = "waiting" /\ worker'.stage = "waiting"
    /\ worker'.turn = worker.turn /\ UNCHANGED used.calls
    /\ worker'.round.permissions = {} /\ worker'.round.asks # <<>>
    /\ worker'.round.approved = worker.round.approved /\ worker'.round.calls = worker.round.calls
    /\ ToSet(worker'.round.asks) \subseteq ToSet(worker.round.asks)
    /\ IsInjective(worker'.round.asks)
    /\ \E before \in Seq(Told(used.calls)) :
          /\ Only(before, {"ToolFinished", "AskResolved"})
          /\ \A a \in ToSet(worker'.round.asks) : ~In(E("AskResolved", a), before)
          /\ evs = before \o <<E("AskRequested", Head(worker'.round.asks))>>

WorkerSteps ==
    \E evs : Starts(evs) \/ Ends(evs) \/ Suspends(evs) \/ Notes(evs) \/ Resumes(evs) \/ AsksNext(evs)

\* An event that says nothing of a call can always be told.
LEMMA PlainEvent ==
    ASSUME NEW type \in EventTypes \ CallTypes, NEW id \in Ids, NEW made
    PROVE  <<E(type, id)>> \in Seq(Told(made))
<1>1. E(type, id) \in Told(made)
  BY EventIsTyped DEF Told
<1> QED BY <1>1

LEMMA CallEvent ==
    ASSUME NEW type \in EventTypes, NEW made \in SUBSET Calls, NEW id \in made
    PROVE  <<E(type, id)>> \in Seq(Told(made))
<1>1. id \in Ids
  BY DEF Ids
<1>2. E(type, id) \in Told(made)
  BY <1>1, EventIsTyped DEF Told
<1> QED BY <1>2

LEMMA ToSetEmpty ==
    ASSUME NEW S, NEW s \in Seq(S)
    PROVE  /\ ToSet(s) = {} <=> s = <<>>
           /\ s # <<>> => Head(s) \in ToSet(s) /\ ToSet(Tail(s)) \subseteq ToSet(s)
<1>1. CASE s = <<>>
  BY <1>1 DEF ToSet
<1>2. CASE s # <<>>
  <2>1. Len(s) \in Nat \ {0} /\ DOMAIN s = 1 .. Len(s)
    BY <1>2, EmptySeq
  <2>2. Head(s) = s[1] /\ Tail(s) \in Seq(S) /\ Len(Tail(s)) = Len(s) - 1
    BY <1>2, HeadTailProperties
  <2>3. \A i \in 1 .. Len(Tail(s)) : Tail(s)[i] = s[i + 1]
    BY <1>2, HeadTailProperties
  <2>4. s[1] \in ToSet(s)
    BY <2>1 DEF ToSet
  <2>5. ASSUME NEW i \in 1 .. Len(Tail(s)) PROVE Tail(s)[i] \in ToSet(s)
    <3>1. i + 1 \in DOMAIN s
      BY <2>1, <2>2
    <3> QED BY <3>1, <2>3 DEF ToSet
  <2>6. DOMAIN Tail(s) = 1 .. Len(Tail(s))
    BY <2>2
  <2>7. ToSet(Tail(s)) \subseteq ToSet(s)
    BY <2>5, <2>6 DEF ToSet
  <2> QED BY <1>2, <2>2, <2>4, <2>7
<1> QED BY <1>1, <1>2

LEMMA NoRoundTyped == NoRound \in Rounds
BY EmptySeq DEF NoRound, Rounds

LEMMA StartTurnStep ==
    ASSUME Typed, StartTurn
    PROVE  \E evs : Starts(evs)
<1> USE DEF Typed, WorkerTyped, ShellTyped
<1> DEFINE t == used.turns + 1
           evs == <<E("TurnStarted", t)>>
<1>1. used \in Counts /\ used' = [used EXCEPT !.turns = @ + 1]
  BY DEF StartTurn
<1>2. used' \in Counts /\ used'.calls = used.calls /\ t \in Nat \ {0}
  BY <1>1 DEF Counts
<1>3. worker \in Workers /\ worker' = [worker EXCEPT !.stage = "busy", !.turn = t]
  BY DEF StartTurn
<1>4. /\ worker' \in Workers /\ worker'.alive = worker.alive /\ worker'.stage = "busy"
      /\ worker'.turn = t /\ worker'.round = worker.round
  BY <1>2, <1>3 DEF Workers
<1>5. evs \in Seq(Told(used'.calls))
  <2>1. t \in Ids /\ "TurnStarted" \in EventTypes \ CallTypes
    BY <1>2 DEF Ids, EventTypes, CallTypes
  <2> QED BY <2>1, PlainEvent
<1>6. /\ worker.alive /\ worker.stage = "idle" /\ inbox # <<>> /\ pipe' = pipe \o evs
      /\ UNCHANGED <<reader, daemonVars, projection, activity, wire, shell, commands, swept>>
  BY DEF StartTurn, Work, Receive, Emit
<1>7. Says(evs)
  BY <1>2, <1>4, <1>5, <1>6 DEF Says
<1> QED BY <1>2, <1>4, <1>6, <1>7 DEF Starts

LEMMA EndTurnStep ==
    ASSUME Typed, RoundIsSound, EndTurn
    PROVE  \E evs : Ends(evs)
<1> USE DEF Typed, WorkerTyped, ShellTyped
<1> DEFINE evs == <<E("TurnEnded", worker.turn)>>
<1>1. worker \in Workers /\ worker' = [worker EXCEPT !.stage = "idle", !.turn = 0]
  BY DEF EndTurn
<1>2. /\ worker' \in Workers /\ worker'.alive = worker.alive /\ worker'.stage = "idle"
      /\ worker'.round = worker.round
  BY <1>1 DEF Workers
<1>3. evs \in Seq(Told(used.calls))
  <2>1. worker.turn \in Ids /\ "TurnEnded" \in EventTypes \ CallTypes
    BY <1>1 DEF Workers, Ids, EventTypes, CallTypes
  <2> QED BY <2>1, PlainEvent
<1>4. /\ worker.alive /\ worker.stage = "busy" /\ pipe' = pipe \o evs /\ used' = used
      /\ UNCHANGED <<reader, daemonVars, projection, activity, wire, shell, commands, swept>>
  BY DEF EndTurn, Work, Emit
<1>5. worker.round = NoRound
  BY <1>4 DEF RoundIsSound
<1>6. Says(evs)
  BY <1>2, <1>3, <1>4 DEF Says
<1> QED BY <1>2, <1>4, <1>5, <1>6 DEF Ends

LEMMA CancelStep ==
    ASSUME Typed, Cancel
    PROVE  \E evs : Ends(evs)
<1> USE DEF Typed, WorkerTyped, ShellTyped
<1> DEFINE evs == <<E("TurnEnded", worker.turn)>>
<1>1. worker \in Workers /\ worker' = [worker EXCEPT !.stage = "idle", !.turn = 0, !.round = NoRound]
  BY DEF Cancel
<1>2. /\ worker' \in Workers /\ worker'.alive = worker.alive /\ worker'.stage = "idle"
      /\ worker'.round = NoRound
  BY <1>1, NoRoundTyped DEF Workers
<1>3. evs \in Seq(Told(used.calls))
  <2>1. worker.turn \in Ids /\ "TurnEnded" \in EventTypes \ CallTypes
    BY <1>1 DEF Workers, Ids, EventTypes, CallTypes
  <2> QED BY <2>1, PlainEvent
<1>4. /\ worker.alive /\ inbox # <<>> /\ pipe' = pipe \o evs /\ used' = used
      /\ UNCHANGED <<reader, daemonVars, projection, activity, wire, shell, commands, swept>>
  BY DEF Cancel, Work, Emit, Receive
<1>5. Says(evs)
  BY <1>2, <1>3, <1>4 DEF Says
<1> QED BY <1>2, <1>4, <1>5 DEF Ends

LEMMA CompactStep ==
    ASSUME Typed, Compact
    PROVE  \E evs : Notes(evs)
<1> USE DEF Typed, WorkerTyped, ShellTyped
<1>1. PICK type \in {"CompactStarted", "CompactFinished"}, flag \in BOOLEAN :
         /\ worker' = [worker EXCEPT !.compacting = flag]
         /\ pipe' = pipe \o <<E(type, NoCall)>>
         /\ used' = used \/ CountClick
  BY DEF Compact, Emit
<1> DEFINE evs == <<E(type, NoCall)>>
<1>2. worker \in Workers /\ used \in Counts
  OBVIOUS
<1>3. /\ worker' \in Workers /\ worker'.alive = worker.alive /\ worker'.stage = worker.stage
      /\ worker'.turn = worker.turn /\ worker'.round = worker.round
  BY <1>1, <1>2 DEF Workers
<1>4. used' \in Counts /\ used'.calls = used.calls
  BY <1>1, <1>2 DEF Counts, CountClick
<1>5. evs \in Seq(Told(used'.calls)) /\ Only(evs, {"CompactStarted", "CompactFinished", "Rejected"})
  <2>1. NoCall \in Ids /\ type \in EventTypes \ CallTypes
    BY DEF Ids, EventTypes, CallTypes
  <2> QED BY <2>1, PlainEvent DEF Only, E
<1>6. /\ worker.alive /\ inbox' = inbox
      /\ UNCHANGED <<reader, daemonVars, projection, activity, wire, shell, commands, swept>>
  BY DEF Compact, Work
<1>7. Says(evs)
  BY <1>1, <1>3, <1>4, <1>5, <1>6 DEF Says
<1>8. worker.round \in Rounds
  BY <1>2 DEF Workers
<1> QED BY <1>3, <1>4, <1>5, <1>7, <1>8 DEF Notes, Rounds

LEMMA SuspendStep ==
    ASSUME Typed, NEW P \in SUBSET Permissions, NEW A \in SUBSET Asks,
           NEW permissions \in SetToSeqs(P), NEW asks \in SetToSeqs(A), Suspend(permissions, asks)
    PROVE  \E evs : Suspends(evs)
<1> USE DEF Typed, WorkerTyped, ShellTyped
<1> DEFINE ps == ToSet(permissions)
           as == ToSet(asks)
           evs == IF permissions # <<>> THEN Requests(permissions)
                  ELSE <<E("AskRequested", Head(asks))>>
<1>1. /\ permissions \in Seq(Calls) /\ asks \in Seq(Calls) /\ IsInjective(asks)
      /\ ps \subseteq Calls /\ as \subseteq Calls
  BY OrdersAreSequences, Constants
<1>2. /\ worker \in Workers /\ used \in Counts
      /\ worker' = [worker EXCEPT !.stage = "waiting",
                       !.round = [permissions |-> ps, approved |-> {}, asks |-> asks,
                                  calls |-> ps \cup as]]
      /\ used' = [used EXCEPT !.calls = @ \cup ps \cup as]
  BY DEF Suspend
<1>3. [permissions |-> ps, approved |-> {}, asks |-> asks, calls |-> ps \cup as] \in Rounds
  BY <1>1 DEF Rounds
<1>4. /\ worker' \in Workers /\ worker'.alive = worker.alive /\ worker'.stage = "waiting"
      /\ worker'.turn = worker.turn
      /\ worker'.round = [permissions |-> ps, approved |-> {}, asks |-> asks, calls |-> ps \cup as]
  BY <1>2, <1>3 DEF Workers
<1>5. used' \in Counts /\ used'.calls = used.calls \cup ps \cup as
  BY <1>1, <1>2 DEF Counts
<1>6. /\ worker.alive /\ worker.stage = "busy" /\ pipe' = pipe \o evs
      /\ ps \cup as # {} /\ (ps \cup as) \cap used.calls = {}
      /\ UNCHANGED <<reader, daemonVars, projection, activity, wire, shell, commands, swept>>
  BY DEF Suspend, Work, Emit, Requests
<1>7. (ps = {} <=> permissions = <<>>) /\ (as = {} <=> asks = <<>>)
  BY <1>1, ToSetEmpty
<1>8. /\ evs \in Seq(Told(used'.calls)) /\ Only(evs, {"PermissionRequested", "AskRequested"})
      /\ \A p \in ps : In(E("PermissionRequested", p), evs)
      /\ ps = {} => evs = <<E("AskRequested", Head(asks))>>
  <2>1. CASE permissions # <<>>
    <3>1. evs = Requests(permissions) /\ ps \subseteq used'.calls
      BY <2>1, <1>5
    <3>2. Requests(permissions) \in Seq(Told(used'.calls))
      BY <3>1, <1>1, RequestEvents, ToldGrows
    <3> QED BY <3>1, <3>2, <1>1, <1>7, <2>1, RequestEvents DEF Only
  <2>2. CASE permissions = <<>>
    <3>1. evs = <<E("AskRequested", Head(asks))>> /\ Head(asks) \in used'.calls
      BY <2>2, <1>1, <1>5, <1>6, <1>7 DEF ToSet
    <3>2. evs \in Seq(Told(used'.calls))
      BY <3>1, <1>5, CallEvent DEF EventTypes, Counts
    <3> QED BY <3>1, <3>2, <2>2, <1>7 DEF Only, E
  <2> QED BY <2>1, <2>2
<1> HIDE DEF evs, ps, as
<1>9. Says(evs)
  BY <1>4, <1>5, <1>6, <1>8 DEF Says
<1>10. /\ worker'.round.permissions = ps /\ worker'.round.approved = {}
       /\ worker'.round.asks = asks /\ worker'.round.calls = ps \cup as
  BY <1>4
<1>11. ps # {} \/ asks # <<>>
  BY <1>6, <1>7
<1>12. as = ToSet(asks)
  BY DEF as
<1> QED BY <1>1, <1>4, <1>5, <1>6, <1>8, <1>9, <1>10, <1>11, <1>12 DEF Suspends

\* The last decision of a step: the results of the round, or the next question.
LEMMA GoOnStep ==
    ASSUME Typed, RoundIsSound, worker.alive, worker.stage = "waiting", used' = used,
           UNCHANGED <<reader, daemonVars, projection, activity, wire, shell, commands, swept>>,
           NEW before \in Seq(Told(used.calls)), Only(before, {"ToolFinished", "AskResolved"}),
           NEW asks \in Seq(Calls), IsInjective(asks), ToSet(asks) \subseteq ToSet(worker.round.asks),
           \A a \in ToSet(asks) : ~In(E("AskResolved", a), before),
           GoOn(before, asks)
    PROVE  \E evs : Resumes(evs) \/ AsksNext(evs)
<1> USE DEF Typed, WorkerTyped, ShellTyped
<1>1. worker \in Workers /\ used \in Counts /\ worker.round \in Rounds
  BY DEF Workers
<1>2. CASE asks = <<>>
  <2> DEFINE done == Finished(worker.round.calls)
             evs == before \o done
  <2>1. worker' = [worker EXCEPT !.stage = "busy", !.round = NoRound] /\ pipe' = pipe \o evs
    BY <1>2 DEF GoOn, Emit
  <2>2. /\ worker' \in Workers /\ worker'.alive = worker.alive /\ worker'.stage = "busy"
        /\ worker'.turn = worker.turn /\ worker'.round = NoRound
    BY <1>1, <2>1, NoRoundTyped DEF Workers
  <2>3. worker.round.calls \subseteq used.calls /\ worker.round.calls \in SUBSET Calls
    BY <1>1 DEF RoundIsSound, Rounds
  <2>4. done \in Seq(Told(used.calls)) /\ Only(done, {"ToolFinished", "AskResolved"})
    BY <2>3, FinishedEvents, ToldGrows DEF Only
  <2> HIDE DEF done
  <2>5. evs \in Seq(Told(used.calls))
    BY <2>4, ConcatProperties
  <2>6. Only(evs, {"ToolFinished", "AskResolved"})
    BY <2>4, ConcatElements, ConcatProperties DEF Only
  <2> HIDE DEF evs
  <2>7. Says(evs)
    BY <1>1, <2>1, <2>2, <2>5 DEF Says
  <2> QED BY <2>2, <2>6, <2>7 DEF Resumes
<1>3. CASE asks # <<>>
  <2> DEFINE evs == before \o <<E("AskRequested", Head(asks))>>
  <2>1. worker' = [worker EXCEPT !.round.asks = asks, !.round.permissions = {}] /\ pipe' = pipe \o evs
    BY <1>3 DEF GoOn, Emit
  <2>2. worker' = [worker EXCEPT !.round = [worker.round EXCEPT !.asks = asks, !.permissions = {}]]
    BY <1>1, <2>1 DEF Workers, Rounds
  <2>3. /\ worker' \in Workers /\ worker'.alive = worker.alive /\ worker'.stage = worker.stage
        /\ worker'.turn = worker.turn
        /\ worker'.round = [worker.round EXCEPT !.asks = asks, !.permissions = {}]
    BY <1>1, <2>2 DEF Workers, Rounds
  <2>4. /\ worker'.round.asks = asks /\ worker'.round.permissions = {}
        /\ worker'.round.approved = worker.round.approved /\ worker'.round.calls = worker.round.calls
    BY <1>1, <2>3 DEF Rounds
  <2>5. Head(asks) \in used.calls
    BY <1>3, ToSetEmpty DEF RoundIsSound
  <2>6. <<E("AskRequested", Head(asks))>> \in Seq(Told(used.calls))
    BY <1>1, <2>5, CallEvent DEF EventTypes, Counts
  <2>7. evs \in Seq(Told(used.calls))
    BY <2>6, ConcatProperties
  <2>8. \E b \in Seq(Told(used.calls)) :
          /\ Only(b, {"ToolFinished", "AskResolved"})
          /\ \A a \in ToSet(worker'.round.asks) : ~In(E("AskResolved", a), b)
          /\ evs = b \o <<E("AskRequested", Head(worker'.round.asks))>>
    BY <2>4
  <2> HIDE DEF evs
  <2>9. Says(evs)
    BY <1>1, <2>1, <2>3, <2>7 DEF Says
  <2> QED BY <1>3, <2>3, <2>4, <2>8, <2>9 DEF AsksNext
<1> QED BY <1>2, <1>3

\* An answer that is refused.
LEMMA RefuseStep ==
    ASSUME Typed, worker.alive, inbox # <<>>, used' = used, Refuse,
           UNCHANGED <<reader, daemonVars, projection, activity, wire, shell, commands, swept>>
    PROVE  \E evs : Notes(evs)
<1> USE DEF Typed, WorkerTyped, ShellTyped
<1> DEFINE evs == <<E("Rejected", NoCall)>>
<1>1. worker' = worker /\ pipe' = pipe \o evs
  BY DEF Refuse, Emit
<1>2. evs \in Seq(Told(used.calls)) /\ Only(evs, {"CompactStarted", "CompactFinished", "Rejected"})
  <2>1. NoCall \in Ids /\ "Rejected" \in EventTypes \ CallTypes
    BY DEF Ids, EventTypes, CallTypes
  <2> QED BY <2>1, PlainEvent DEF Only, E
<1>3. Says(evs)
  BY <1>1, <1>2 DEF Says
<1> QED BY <1>1, <1>2, <1>3 DEF Notes

LEMMA RespondPermissionStep ==
    ASSUME Typed, RoundIsSound, RespondPermission
    PROVE  \E evs : Notes(evs) \/ Resumes(evs) \/ AsksNext(evs)
<1> USE DEF Typed, WorkerTyped, ShellTyped
<1> DEFINE call == Head(inbox).id
           left == worker.round.permissions \ {call}
           approved == worker.round.approved \cup (IF Head(inbox).yes THEN {call} ELSE {})
<1>1. worker \in Workers /\ used \in Counts /\ worker.round \in Rounds
  BY DEF Workers
<1>2. /\ worker.alive /\ inbox # <<>> /\ used' = used
      /\ UNCHANGED <<reader, daemonVars, projection, activity, wire, shell, commands, swept>>
  BY DEF RespondPermission, Work, Receive
<1>3. IF call \notin worker.round.permissions THEN Refuse
      ELSE IF left # {}
      THEN /\ worker' = [worker EXCEPT !.round.permissions = left, !.round.approved = approved]
           /\ UNCHANGED pipe
      ELSE GoOn(Finished(approved), worker.round.asks)
  BY DEF RespondPermission
<1> HIDE DEF call
<1>4. CASE call \notin worker.round.permissions
  <2>1. Refuse
    BY <1>3, <1>4
  <2> QED BY <1>2, <2>1, RefuseStep
<1>5. CASE call \in worker.round.permissions
  <2>1. worker.stage = "waiting"
    BY <1>5 DEF RoundIsSound, NoRound
  <2>2. approved \subseteq worker.round.calls /\ approved \in SUBSET Calls /\ call \in Calls
    BY <1>1, <1>5 DEF RoundIsSound, Rounds
  <2> HIDE DEF approved
  <2>3. CASE left # {}
    <3>1. /\ worker' = [worker EXCEPT !.round =
                 [worker.round EXCEPT !.permissions = left, !.approved = approved]]
          /\ pipe' = pipe
      BY <1>1, <1>3, <1>5, <2>3 DEF Workers, Rounds
    <3>2. /\ worker' \in Workers /\ worker'.alive = worker.alive /\ worker'.stage = worker.stage
          /\ worker'.turn = worker.turn
          /\ worker'.round = [worker.round EXCEPT !.permissions = left, !.approved = approved]
      BY <1>1, <2>2, <3>1 DEF Workers, Rounds
    <3>3. /\ worker'.round.permissions = left /\ worker'.round.approved = approved
          /\ worker'.round.asks = worker.round.asks /\ worker'.round.calls = worker.round.calls
      BY <1>1, <3>2 DEF Rounds
    <3>4. /\ <<>> \in Seq(Told(used.calls)) /\ pipe' = pipe \o <<>>
          /\ Only(<<>>, {"CompactStarted", "CompactFinished", "Rejected"})
      BY <3>1, EmptySeq, ConcatEmptySeq DEF Only
    <3>5. Says(<<>>)
      BY <1>1, <1>2, <3>2, <3>4 DEF Says
    <3>6. approved \subseteq worker.round.approved \cup worker.round.permissions
      BY <1>5 DEF approved
    <3>7. Notes(<<>>)
      BY <1>2, <2>1, <2>3, <3>2, <3>3, <3>4, <3>5, <3>6 DEF Notes
    <3> QED BY <3>7
  <2>4. CASE left = {}
    <3>1. GoOn(Finished(approved), worker.round.asks)
      BY <1>3, <1>5, <2>4
    <3>2. approved \subseteq used.calls
      BY <2>2 DEF RoundIsSound
    <3> DEFINE before == Finished(approved)
    <3>3. /\ before \in Seq(Told(used.calls)) /\ Only(before, {"ToolFinished"})
      BY <2>2, <3>2, FinishedEvents, ToldGrows DEF Only
    <3>4. /\ Only(before, {"ToolFinished", "AskResolved"})
          /\ \A a : ~In(E("AskResolved", a), before)
      BY <3>3 DEF Only, In, E
    <3>5. worker.round.asks \in Seq(Calls) /\ IsInjective(worker.round.asks)
      BY <1>1 DEF Rounds, RoundIsSound
    <3> HIDE DEF before
    <3>6. GoOn(before, worker.round.asks)
      BY <3>1 DEF before
    <3> QED BY <1>2, <2>1, <3>3, <3>4, <3>5, <3>6, GoOnStep
  <2> QED BY <2>3, <2>4
<1> QED BY <1>4, <1>5

LEMMA RespondAskStep ==
    ASSUME Typed, RoundIsSound, RespondAsk
    PROVE  \E evs : Notes(evs) \/ Ends(evs) \/ Resumes(evs) \/ AsksNext(evs)
<1> USE DEF Typed, WorkerTyped, ShellTyped
<1> DEFINE call == Head(inbox).id
<1>1. worker \in Workers /\ used \in Counts /\ worker.round \in Rounds
  BY DEF Workers
<1>2. /\ worker.alive /\ inbox # <<>> /\ used' = used
      /\ UNCHANGED <<reader, daemonVars, projection, activity, wire, shell, commands, swept>>
  BY DEF RespondAsk, Work, Receive
<1>3. IF ~IsActiveAsk(call) THEN Refuse
      ELSE IF Head(inbox).yes THEN GoOn(<<E("AskResolved", call)>>, Tail(worker.round.asks))
      ELSE /\ worker' = [worker EXCEPT !.stage = "idle", !.turn = 0, !.round = NoRound]
           /\ Emit(<<E("AskResolved", call), E("TurnEnded", worker.turn)>>)
  BY DEF RespondAsk
<1> HIDE DEF call
<1>4. CASE ~IsActiveAsk(call)
  BY <1>2, <1>3, <1>4, RefuseStep
<1>5. CASE IsActiveAsk(call)
  <2>1. worker.round.asks # <<>> /\ call = Head(worker.round.asks)
    BY <1>5 DEF IsActiveAsk
  <2>2. worker.stage = "waiting"
    BY <2>1 DEF RoundIsSound, NoRound
  <2>3. worker.round.asks \in Seq(Calls) /\ IsInjective(worker.round.asks)
    BY <1>1 DEF Rounds, RoundIsSound
  <2>4. call \in used.calls
    BY <2>1, <2>3, ToSetEmpty DEF RoundIsSound
  <2>5. <<E("AskResolved", call)>> \in Seq(Told(used.calls))
    BY <1>1, <2>4, CallEvent DEF EventTypes, Counts
  <2>6. CASE Head(inbox).yes
    <3> DEFINE before == <<E("AskResolved", call)>>
               asks == Tail(worker.round.asks)
    <3>1. GoOn(before, asks)
      BY <1>3, <1>5, <2>6
    <3>2. Only(before, {"ToolFinished", "AskResolved"})
      BY DEF Only, E
    <3>3. /\ asks \in Seq(Calls) /\ Len(asks) = Len(worker.round.asks) - 1
          /\ \A i \in 1 .. Len(asks) : asks[i] = worker.round.asks[i + 1]
          /\ Head(worker.round.asks) = worker.round.asks[1]
          /\ Len(worker.round.asks) \in Nat \ {0}
      BY <2>1, <2>3, HeadTailProperties, EmptySeq
    <3>4. ToSet(asks) \subseteq ToSet(worker.round.asks)
      BY <2>1, <2>3, ToSetEmpty
    <3> HIDE DEF asks
    <3>5. DOMAIN asks = 1 .. Len(asks) /\ DOMAIN worker.round.asks = 1 .. Len(worker.round.asks)
      BY <2>3, <3>3
    <3>6. IsInjective(asks)
      <4>1. SUFFICES ASSUME NEW i \in 1 .. Len(asks), NEW j \in 1 .. Len(asks), asks[i] = asks[j]
                     PROVE  i = j
        BY <3>5 DEF IsInjective
      <4>2. i + 1 \in DOMAIN worker.round.asks /\ j + 1 \in DOMAIN worker.round.asks
        BY <3>3, <3>5
      <4>3. i + 1 = j + 1
        BY <2>3, <3>3, <4>1, <4>2 DEF IsInjective
      <4> QED BY <4>3
    <3>7. ASSUME NEW a \in ToSet(asks) PROVE ~In(E("AskResolved", a), before)
      <4>1. PICK i \in 1 .. Len(asks) : a = worker.round.asks[i + 1]
        BY <3>3, <3>5 DEF ToSet
      <4>2. i + 1 \in DOMAIN worker.round.asks /\ 1 \in DOMAIN worker.round.asks /\ i + 1 # 1
        BY <3>3, <3>5
      <4>3. a # call
        BY <2>1, <2>3, <3>3, <4>1, <4>2 DEF IsInjective
      <4> QED BY <4>3 DEF In, E
    <3> HIDE DEF before
    <3>8. before \in Seq(Told(used.calls))
      BY <2>5 DEF before
    <3> QED BY <1>2, <2>2, <3>1, <3>2, <3>3, <3>4, <3>6, <3>7, <3>8, GoOnStep
  <2>7. CASE ~Head(inbox).yes
    <3> DEFINE evs == <<E("AskResolved", call), E("TurnEnded", worker.turn)>>
    <3>1. /\ worker' = [worker EXCEPT !.stage = "idle", !.turn = 0, !.round = NoRound]
          /\ pipe' = pipe \o evs
      BY <1>3, <1>5, <2>7 DEF Emit
    <3>2. /\ worker' \in Workers /\ worker'.alive = worker.alive /\ worker'.stage = "idle"
          /\ worker'.round = NoRound
      BY <1>1, <3>1, NoRoundTyped DEF Workers
    <3>3. <<E("TurnEnded", worker.turn)>> \in Seq(Told(used.calls))
      <4>1. worker.turn \in Ids /\ "TurnEnded" \in EventTypes \ CallTypes
        BY <1>1 DEF Workers, Ids, EventTypes, CallTypes
      <4> QED BY <4>1, PlainEvent
    <3>4. evs \in Seq(Told(used.calls))
      BY <2>5, <3>3
    <3>5. Says(evs)
      BY <1>1, <1>2, <3>1, <3>2, <3>4 DEF Says
    <3> QED BY <1>2, <3>2, <3>5 DEF Ends
  <2> QED BY <2>6, <2>7
<1> QED BY <1>4, <1>5

LEMMA WorkerStep ==
    ASSUME Typed, RoundIsSound, WorkerNext
    PROVE  WorkerSteps \/ WorkerDies
<1>1. CASE StartTurn
  BY <1>1, StartTurnStep DEF WorkerSteps
<1>2. CASE EndTurn
  BY <1>2, EndTurnStep DEF WorkerSteps
<1>3. CASE RespondPermission
  BY <1>3, RespondPermissionStep DEF WorkerSteps
<1>4. CASE RespondAsk
  BY <1>4, RespondAskStep DEF WorkerSteps
<1>5. CASE Cancel
  BY <1>5, CancelStep DEF WorkerSteps
<1>6. CASE Compact
  BY <1>6, CompactStep DEF WorkerSteps
<1>7. ASSUME NEW P \in SUBSET Permissions, NEW A \in SUBSET Asks,
             NEW permissions \in SetToSeqs(P), NEW asks \in SetToSeqs(A),
             Suspend(permissions, asks)
      PROVE  WorkerSteps
  BY <1>7, SuspendStep DEF WorkerSteps
<1> QED BY <1>1, <1>2, <1>3, <1>4, <1>5, <1>6, <1>7 DEF WorkerNext

----------------------------------------------------------------------------
(* What a step of the worker does to the invariant.                        *)

LEMMA SaysTyped ==
    ASSUME Typed, NEW evs, Says(evs)
    PROVE  /\ Typed'
           /\ evs \in Seq(Events) /\ Pending \in Seq(Events) /\ Pending' = Pending \o evs
           /\ \A c \in Channels : /\ Coming(c) \in Seq(Told(used.calls))
                                  /\ Coming(c) \in Seq(Events) /\ Coming(c)' = Coming(c) \o evs
<1> USE DEF Typed, WorkerTyped
<1>1. /\ used.calls \subseteq used'.calls /\ used' \in Counts /\ worker' \in Workers
      /\ evs \in Seq(Told(used'.calls)) /\ pipe' = pipe \o evs
      /\ UNCHANGED <<reader, daemonVars, projection, activity, wire, shell, commands, swept>>
  BY DEF Says
<1>2. pipe \in Seq(Told(used'.calls)) /\ pipe \in Seq(Events) /\ evs \in Seq(Events)
  BY <1>1, ToldGrows
<1>3. pipe' \in Seq(Told(used'.calls))
  BY <1>1, <1>2, ConcatProperties
<1>4. WorkerTyped'
  BY <1>1, <1>3
<1>5. ReaderTyped'
  BY <1>1 DEF ReaderTyped
<1>6. DaemonTyped'
  BY <1>1, ToldGrows DEF DaemonTyped, daemonVars
<1>7. WireTyped'
  BY <1>1, ToldGrows DEF WireTyped
<1>8. ShellTyped'
  BY <1>1 DEF ShellTyped
<1>9. Pending \in Seq(Events) /\ Pending' = Pending \o evs
  <2>1. CASE reader.pc = "observe"
    <3>1. <<reader.event>> \in Seq(Events)
      BY <2>1 DEF ReaderTyped
    <3>2. <<reader.event>> \o pipe \in Seq(Events)
      BY <3>1, <1>2, ConcatProperties
    <3>3. (<<reader.event>> \o pipe) \o evs = <<reader.event>> \o (pipe \o evs)
      BY <3>1, <1>2, ConcatAssociative
    <3> QED BY <1>1, <2>1, <3>2, <3>3 DEF Pending
  <2>2. CASE reader.pc # "observe"
    BY <1>1, <1>2, <2>2 DEF Pending
  <2> QED BY <2>1, <2>2
<1>10. ASSUME NEW c \in Channels
       PROVE  /\ Coming(c) \in Seq(Told(used.calls))
              /\ Coming(c) \in Seq(Events) /\ Coming(c)' = Coming(c) \o evs
  <2>1. wire[c] \in Seq(Told(used.calls)) /\ wire[c] \in Seq(Events)
    <3>1. used.calls \subseteq used.calls
      OBVIOUS
    <3>2. /\ Seq(OnChannel(c, used.calls)) \subseteq Seq(Told(used.calls))
          /\ Seq(OnChannel(c, used.calls)) \subseteq Seq(Events)
      BY <3>1, ToldGrows
    <3> QED BY <3>2 DEF WireTyped
  <2>2. (wire[c] \o pipe) \o evs = wire[c] \o (pipe \o evs)
    <3>1. \A s, t, u \in Seq(Events) : (s \o t) \o u = s \o (t \o u)
      BY ConcatAssociative
    <3> QED BY <1>2, <2>1, <3>1
  <2>3. wire[c] \o pipe \in Seq(Told(used.calls)) /\ wire[c] \o pipe \in Seq(Events)
    BY <1>2, <2>1, ConcatProperties
  <2> QED BY <1>1, <2>2, <2>3 DEF Coming
<1> QED BY <1>2, <1>4, <1>5, <1>6, <1>7, <1>8, <1>9, <1>10

LEMMA WorkerKeepsWorkers ==
    ASSUME WorkersAreSound, SealsOnlyOrphans, WorkerSteps
    PROVE  WorkersAreSound' /\ SealsOnlyOrphans'
<1>1. PICK evs : Starts(evs) \/ Ends(evs) \/ Suspends(evs) \/ Notes(evs) \/ Resumes(evs) \/ AsksNext(evs)
  BY DEF WorkerSteps
<1>2. Says(evs)
  BY <1>1 DEF Starts, Ends, Suspends, Notes, Resumes, AsksNext
<1>3. /\ worker.alive /\ worker'.alive
      /\ UNCHANGED <<reader, registry, instance, activity>>
  BY <1>2 DEF Says, daemonVars
<1>4. worker'.stage # "idle" => worker'.turn # 0
  BY <1>1, <1>3 DEF WorkersAreSound, Starts, Ends, Suspends, Notes, Resumes, AsksNext
<1>5. WorkersAreSound'
  BY <1>3, <1>4 DEF WorkersAreSound
<1>6. SealsOnlyOrphans'
  <2>1. SUFFICES ASSUME registry'.pc = "seal" PROVE worker'.stage = "idle" /\ inbox' = <<>>
    BY DEF SealsOnlyOrphans
  <2>2. worker.stage = "idle" /\ inbox = <<>>
    BY <2>1, <1>3 DEF SealsOnlyOrphans
  <2> QED BY <1>2, <2>2 DEF Says
<1> QED BY <1>5, <1>6

LEMMA WorkerKeepsRound ==
    ASSUME Typed, RoundIsSound, WorkerSteps
    PROVE  RoundIsSound'
<1>1. PICK evs : Starts(evs) \/ Ends(evs) \/ Suspends(evs) \/ Notes(evs) \/ Resumes(evs) \/ AsksNext(evs)
  BY DEF WorkerSteps
<1>2. Says(evs) /\ used.calls \subseteq used'.calls
  BY <1>1 DEF Starts, Ends, Suspends, Notes, Resumes, AsksNext, Says
<1>3. /\ NoRound.permissions = {} /\ NoRound.approved = {} /\ NoRound.asks = <<>>
      /\ NoRound.calls = {} /\ ToSet(<<>>) = {} /\ IsInjective(<<>>)
  BY DEF NoRound, ToSet, IsInjective
<1>4. CASE worker'.stage # "waiting" /\ worker'.round = NoRound
  BY <1>3, <1>4 DEF RoundIsSound
<1>5. CASE Starts(evs)
  BY <1>3, <1>5 DEF RoundIsSound, Starts
<1>6. CASE Ends(evs)
  BY <1>4, <1>6 DEF Ends
<1>7. CASE Suspends(evs)
  BY <1>2, <1>7 DEF RoundIsSound, Suspends
<1>8. CASE Notes(evs)
  BY <1>2, <1>8 DEF RoundIsSound, Notes
<1>9. CASE Resumes(evs)
  BY <1>4, <1>9 DEF Resumes
<1>10. CASE AsksNext(evs)
  BY <1>2, <1>10 DEF RoundIsSound, AsksNext
<1> QED BY <1>1, <1>5, <1>6, <1>7, <1>8, <1>9, <1>10

LEMMA WorkerKeepsAnnounced ==
    ASSUME Typed, WorkIsAnnounced, WorkerSteps
    PROVE  WorkIsAnnounced'
<1>1. PICK evs : Starts(evs) \/ Ends(evs) \/ Suspends(evs) \/ Notes(evs) \/ Resumes(evs) \/ AsksNext(evs)
  BY DEF WorkerSteps
<1>2. Says(evs)
  BY <1>1 DEF Starts, Ends, Suspends, Notes, Resumes, AsksNext
<1>3. evs \in Seq(Events) /\ Pending \in Seq(Events) /\ Pending' = Pending \o evs
  BY <1>2, SaysTyped
<1>4. activity' = activity
  BY <1>2 DEF Says
<1>5. CASE worker'.stage = "idle"
  BY <1>5 DEF WorkIsAnnounced
<1>6. CASE Starts(evs)
  <2>1. LastOf(evs, Boundaries, E("TurnStarted", worker'.turn))
    BY <1>6, OfOne DEF Starts
  <2>2. LastOf(Pending', Boundaries, E("TurnStarted", worker'.turn))
    BY <1>3, <2>1, LastOfConcat
  <2> QED BY <2>2 DEF WorkIsAnnounced
<1>7. CASE worker'.stage # "idle" /\ worker.stage # "idle" /\ worker'.turn = worker.turn
           /\ NoneOf(evs, Boundaries)
  <2>1. CASE LastOf(Pending, Boundaries, E("TurnStarted", worker.turn))
    <3>1. LastOf(Pending', Boundaries, E("TurnStarted", worker.turn))
      BY <1>3, <1>7, <2>1, LastOfConcat
    <3> QED BY <1>7, <3>1 DEF WorkIsAnnounced
  <2>2. CASE /\ NoneOf(Pending, Boundaries)
             /\ activity.turn = worker.turn /\ activity.state \in {"Working", "WaitingUser"}
    <3>1. NoneOf(Pending', Boundaries)
      BY <1>3, <1>7, <2>2, NoneOfConcat
    <3> QED BY <1>4, <1>7, <2>2, <3>1 DEF WorkIsAnnounced
  <2> QED BY <1>7, <2>1, <2>2 DEF WorkIsAnnounced
<1>8. CASE Ends(evs)
  BY <1>5, <1>8 DEF Ends
<1>9. CASE Suspends(evs)
  BY <1>7, <1>9 DEF Suspends, Only, NoneOf, Boundaries
<1>10. CASE Notes(evs)
  BY <1>5, <1>7, <1>10 DEF Notes, Only, NoneOf, Boundaries
<1>11. CASE Resumes(evs)
  BY <1>7, <1>11 DEF Resumes, Only, NoneOf, Boundaries
<1>12. CASE AsksNext(evs)
  <2>1. PICK before \in Seq(Told(used.calls)) :
           /\ Only(before, {"ToolFinished", "AskResolved"})
           /\ evs = before \o <<E("AskRequested", Head(worker'.round.asks))>>
    BY <1>12 DEF AsksNext
  <2> DEFINE last == <<E("AskRequested", Head(worker'.round.asks))>>
  <2>2. NoneOf(before, Boundaries)
    BY <2>1 DEF Only, NoneOf, Boundaries
  <2>3. NoneOf(last, Boundaries)
    BY DEF NoneOf, Boundaries, E
  <2>4. NoneOf(evs, Boundaries)
    <3> DEFINE Either == Told(used.calls) \cup {E("AskRequested", Head(worker'.round.asks))}
    <3>1. before \in Seq(Either) /\ last \in Seq(Either)
      OBVIOUS
    <3> HIDE DEF Either, last
    <3>2. NoneOf(before \o last, Boundaries)
      BY <2>2, <2>3, <3>1, NoneOfConcat
    <3> QED BY <2>1, <3>2 DEF last
  <2> QED BY <1>7, <1>12, <2>4 DEF AsksNext
<1> QED BY <1>1, <1>6, <1>8, <1>9, <1>10, <1>11, <1>12

LEMMA WorkerKeepsPermissions ==
    ASSUME Typed, RoundIsSound, PermissionsAreComing, WorkerSteps
    PROVE  PermissionsAreComing'
<1>1. PICK evs : Starts(evs) \/ Ends(evs) \/ Suspends(evs) \/ Notes(evs) \/ Resumes(evs) \/ AsksNext(evs)
  BY DEF WorkerSteps
<1>2. Says(evs)
  BY <1>1 DEF Starts, Ends, Suspends, Notes, Resumes, AsksNext
<1>3. PICK old \in Seq(Events), new \in Seq(Events) :
         /\ old = Coming("tool") /\ new = Coming("tool")'
         /\ evs \in Seq(Events) /\ new = old \o evs
  BY <1>2, SaysTyped, ConcatProperties DEF Channels
<1>0. evs \in Seq(Events) /\ new = old \o evs
  BY <1>3
<1>4. shell' = shell /\ swept' = swept
  BY <1>2 DEF Says
<1>5. CASE worker'.round.permissions = {}
  BY <1>5 DEF PermissionsAreComing
<1>6. NoRound.permissions = {}
  BY DEF NoRound
<1>7. CASE Starts(evs)
  BY <1>5, <1>6, <1>7 DEF Starts, RoundIsSound
<1>8. CASE Ends(evs)
  BY <1>5, <1>6, <1>8 DEF Ends
<1>9. CASE Suspends(evs)
  <2>1. SUFFICES ASSUME NEW p \in worker'.round.permissions PROVE PermissionIsComing(p)'
    BY DEF PermissionsAreComing
  <2>2. In(E("PermissionRequested", p), evs) /\ p \notin used.calls
    BY <1>9 DEF Suspends
  <2>3. ~In(E("ToolFinished", p), evs)
    BY <1>9 DEF Suspends, Only, In, E
  <2>4. ~In(E("ToolFinished", p), old)
    <3>1. old \in Seq(Told(used.calls))
      BY <1>2, <1>3, SaysTyped DEF Channels
    <3> QED BY <3>1, <2>2 DEF In, E, Told, CallTypes
  <2>5. ~In(E("ToolFinished", p), new) /\ In(E("PermissionRequested", p), new)
    BY <1>0, <2>2, <2>3, <2>4, InConcat
  <2> QED BY <1>3, <2>5 DEF PermissionIsComing
<1>10. CASE Notes(evs)
  <2>1. SUFFICES ASSUME NEW p \in worker'.round.permissions
                 PROVE  p \in swept' \/ PermissionIsComing(p)'
    BY DEF PermissionsAreComing
  <2>2. p \in swept \/ PermissionIsComing(p)
    BY <1>10 DEF Notes, PermissionsAreComing
  <2>3. ~In(E("ToolFinished", p), evs)
    BY <1>10 DEF Notes, Only, In, E
  <2>4. In(E("ToolFinished", p), new) <=> In(E("ToolFinished", p), old)
    BY <1>0, <2>3, InConcat
  <2>5. In(E("PermissionRequested", p), old) => In(E("PermissionRequested", p), new)
    BY <1>0, InConcat
  <2> QED BY <1>3, <1>4, <2>2, <2>4, <2>5 DEF PermissionIsComing
<1>11. CASE Resumes(evs)
  BY <1>5, <1>6, <1>11 DEF Resumes
<1>12. CASE AsksNext(evs)
  BY <1>5, <1>12 DEF AsksNext
<1> QED BY <1>1, <1>7, <1>8, <1>9, <1>10, <1>11, <1>12

LEMMA WorkerKeepsAsks ==
    ASSUME Typed, RoundIsSound, AsksAreOpen, WorkerSteps
    PROVE  AsksAreOpen'
<1>1. PICK evs : Starts(evs) \/ Ends(evs) \/ Suspends(evs) \/ Notes(evs) \/ Resumes(evs) \/ AsksNext(evs)
  BY DEF WorkerSteps
<1>2. Says(evs)
  BY <1>1 DEF Starts, Ends, Suspends, Notes, Resumes, AsksNext
<1>3. PICK old \in Seq(Events), new \in Seq(Events) :
         /\ old = Coming("control") /\ new = Coming("control")'
         /\ evs \in Seq(Events) /\ new = old \o evs
  BY <1>2, SaysTyped, ConcatProperties DEF Channels
<1>0. evs \in Seq(Events) /\ new = old \o evs
  BY <1>3
<1>4. swept' = swept
  BY <1>2 DEF Says
<1>5. CASE worker'.round = NoRound
  BY <1>5 DEF AsksAreOpen, NoRound, ToSet
<1>6. CASE \A a \in ToSet(worker'.round.asks) :
              a \in ToSet(worker.round.asks) /\ ~In(E("AskResolved", a), evs)
  <2>1. SUFFICES ASSUME NEW a \in ToSet(worker'.round.asks)
                 PROVE  a \in swept' \/ ~In(E("AskResolved", a), Coming("control")')
    BY DEF AsksAreOpen
  <2>2. a \in swept \/ ~In(E("AskResolved", a), Coming("control"))
    BY <1>6 DEF AsksAreOpen
  <2>3. In(E("AskResolved", a), new) <=> In(E("AskResolved", a), old)
    BY <1>0, <1>6, InConcat
  <2> QED BY <1>3, <1>4, <2>2, <2>3
<1>7. CASE Starts(evs)
  BY <1>5, <1>7 DEF Starts, RoundIsSound
<1>8. CASE Ends(evs)
  BY <1>5, <1>8 DEF Ends
<1>9. CASE Suspends(evs)
  <2>1. SUFFICES ASSUME NEW a \in ToSet(worker'.round.asks)
                 PROVE  ~In(E("AskResolved", a), Coming("control")')
    BY DEF AsksAreOpen
  <2>2. a \notin used.calls
    BY <1>9 DEF Suspends
  <2>3. ~In(E("AskResolved", a), evs)
    BY <1>9 DEF Suspends, Only, In, E
  <2>4. ~In(E("AskResolved", a), old)
    <3>1. old \in Seq(Told(used.calls))
      BY <1>2, <1>3, SaysTyped DEF Channels
    <3> QED BY <3>1, <2>2 DEF In, E, Told, CallTypes
  <2>5. ~In(E("AskResolved", a), new)
    BY <1>0, <2>3, <2>4, InConcat
  <2> QED BY <1>3, <2>5
<1>10. CASE Notes(evs)
  BY <1>6, <1>10 DEF Notes, Only, In, E
<1>11. CASE Resumes(evs)
  BY <1>5, <1>11 DEF Resumes
<1>12. CASE AsksNext(evs)
  <2>1. ASSUME NEW a \in ToSet(worker'.round.asks) PROVE ~In(E("AskResolved", a), evs)
    <3>1. PICK before \in Seq(Told(used.calls)) :
             /\ ~In(E("AskResolved", a), before)
             /\ evs = before \o <<E("AskRequested", Head(worker'.round.asks))>>
      BY <1>12 DEF AsksNext
    <3> DEFINE next == E("AskRequested", Head(worker'.round.asks))
               Either == Told(used.calls) \cup {next}
    <3>2. before \in Seq(Either) /\ <<next>> \in Seq(Either)
      OBVIOUS
    <3>3. ~In(E("AskResolved", a), <<next>>)
      BY DEF In, E
    <3> HIDE DEF next, Either
    <3>4. ~In(E("AskResolved", a), before \o <<next>>)
      BY <3>1, <3>2, <3>3, InConcat
    <3> QED BY <3>1, <3>4 DEF next
  <2> QED BY <1>6, <1>12, <2>1 DEF AsksNext
<1> QED BY <1>1, <1>7, <1>8, <1>9, <1>10, <1>11, <1>12

LEMMA WorkerKeepsActiveAsk ==
    ASSUME Typed, RoundIsSound, ActiveAskIsComing, WorkerSteps
    PROVE  ActiveAskIsComing'
<1>1. PICK evs : Starts(evs) \/ Ends(evs) \/ Suspends(evs) \/ Notes(evs) \/ Resumes(evs) \/ AsksNext(evs)
  BY DEF WorkerSteps
<1>2. Says(evs)
  BY <1>1 DEF Starts, Ends, Suspends, Notes, Resumes, AsksNext
<1>3. PICK old \in Seq(Events), new \in Seq(Events) :
         /\ old = Coming("control") /\ new = Coming("control")'
         /\ evs \in Seq(Events) /\ new = old \o evs
  BY <1>2, SaysTyped, ConcatProperties DEF Channels
<1>0. evs \in Seq(Events) /\ new = old \o evs
  BY <1>3
<1>4. swept' = swept /\ shell' = shell
  BY <1>2 DEF Says
<1> DEFINE a == Head(worker'.round.asks)
           Requested == {"AskRequested"}
<1>5. CASE worker'.stage # "waiting" \/ worker'.round.permissions # {}
  BY <1>5 DEF ActiveAskIsComing
<1>6. CASE LastOf(evs, Requested, E("AskRequested", a))
  <2>1. LastOf(new, Requested, E("AskRequested", a))
    BY <1>0, <1>6, LastOfConcat
  <2> QED BY <1>3, <2>1 DEF ActiveAskIsComing, AskIsComing
<1>7. CASE Starts(evs) \/ Ends(evs) \/ Resumes(evs)
  BY <1>5, <1>7 DEF Starts, Ends, Resumes
<1>8. CASE Suspends(evs)
  <2>1. CASE worker'.round.permissions = {}
    <3>1. evs = <<E("AskRequested", a)>>
      BY <1>8, <2>1 DEF Suspends
    <3> QED BY <1>6, <3>1, OfOne
  <2> QED BY <1>5, <2>1
<1>9. CASE Notes(evs)
  <2>1. CASE worker'.stage = "waiting" /\ worker'.round.permissions = {}
    <3>1. worker.stage = "waiting" /\ worker.round.permissions = {} /\ worker'.round.asks = worker.round.asks
      BY <1>9, <2>1 DEF Notes
    <3>2. a \in swept \/ AskIsComing(a)
      BY <3>1 DEF ActiveAskIsComing
    <3>3. NoneOf(evs, Requested)
      BY <1>9 DEF Notes, Only, NoneOf
    <3>4. LastOf(old, Requested, E("AskRequested", a)) => LastOf(new, Requested, E("AskRequested", a))
      BY <1>0, <3>3, LastOfConcat
    <3>5. NoneOf(old, Requested) => NoneOf(new, Requested)
      BY <1>0, <3>3, NoneOfConcat
    <3> QED BY <1>3, <1>4, <3>5, <3>2, <3>4 DEF ActiveAskIsComing, AskIsComing
  <2> QED BY <1>5, <2>1
<1>10. CASE AsksNext(evs)
  <2>1. PICK before \in Seq(Told(used.calls)) : evs = before \o <<E("AskRequested", a)>>
    BY <1>10 DEF AsksNext
  <2> DEFINE next == E("AskRequested", a)
             Either == Told(used.calls) \cup {next}
  <2>2. before \in Seq(Either) /\ <<next>> \in Seq(Either)
    OBVIOUS
  <2> HIDE DEF Either, next
  <2>3. LastOf(<<next>>, Requested, next)
    BY OfOne
  <2>4. LastOf(before \o <<next>>, Requested, next)
    BY <2>2, <2>3, LastOfConcat
  <2> QED BY <1>6, <2>1, <2>4 DEF next
<1> QED BY <1>1, <1>7, <1>8, <1>9, <1>10

----------------------------------------------------------------------------
(* What a publication, an observation and a delivery do to what they change. *)

LEMMA ActivityTyped ==
    ASSUME NEW a \in Activities, NEW e \in Events
    PROVE  ActivityAfter(a, e) \in Activities
<1>1. e.id \in Ids /\ 0 \in Ids
  BY DEF Events, Ids
<1>2. \A state \in States, turn \in Ids : [a EXCEPT !.state = state, !.turn = turn] \in Activities
  BY DEF Activities
<1>3. \A state \in States : [a EXCEPT !.state = state] \in Activities
  BY DEF Activities
<1>4. /\ AfterCompact(a) \in States /\ "Idle" \in States /\ "Working" \in States
      /\ "WaitingUser" \in States
  BY DEF AfterCompact, States
<1>5. CASE e.type \in {"Ready", "TurnEnded"}
  BY <1>1, <1>2, <1>4, <1>5 DEF ActivityAfter
<1>6. CASE e.type = "TurnStarted"
  BY <1>1, <1>2, <1>4, <1>6 DEF ActivityAfter
<1>7. CASE e.type \in {"PermissionRequested", "AskRequested"}
  BY <1>3, <1>4, <1>7 DEF ActivityAfter
<1>8. CASE e.type \in {"AskResolved", "ToolFinished", "CompactStarted"}
  BY <1>3, <1>4, <1>8 DEF ActivityAfter
<1>9. CASE e.type = "CompactFinished"
  BY <1>3, <1>4, <1>9 DEF ActivityAfter
<1>10. CASE e.type \notin {"Ready", "TurnEnded", "TurnStarted", "PermissionRequested",
                           "AskRequested", "AskResolved", "ToolFinished", "CompactStarted",
                           "CompactFinished"}
  BY <1>10 DEF ActivityAfter
<1> QED BY <1>5, <1>6, <1>7, <1>8, <1>9, <1>10

\* What it says of the turn changes with a boundary only; a turn it knows of stays seen.
LEMMA ActivityOfTurn ==
    ASSUME NEW a \in Activities, NEW e \in Events, NEW turn, turn # 0
    PROVE  /\ e = E("TurnStarted", turn) =>
                 ActivityAfter(a, e).turn = turn /\ ActivityAfter(a, e).state = "Working"
           /\ e.type \notin Boundaries /\ a.turn = turn /\ a.state \in {"Working", "WaitingUser"} =>
                 /\ ActivityAfter(a, e).turn = turn
                 /\ ActivityAfter(a, e).state \in {"Working", "WaitingUser"}
<1>1. a = [generation |-> a.generation, state |-> a.state, turn |-> a.turn]
  BY DEF Activities
<1>2. CASE e = E("TurnStarted", turn)
  BY <1>1, <1>2 DEF ActivityAfter, E, Boundaries
<1>3. CASE e.type \notin Boundaries /\ a.turn = turn /\ a.state \in {"Working", "WaitingUser"}
  <2>1. AfterCompact(a) = "Working"
    BY <1>3 DEF AfterCompact
  <2> QED BY <1>1, <1>3, <2>1 DEF ActivityAfter, Boundaries, E
<1> QED BY <1>2, <1>3

LEMMA FoldTyped ==
    ASSUME NEW made, NEW p \in Projections(made), NEW e \in Told(made)
    PROVE  Fold(p, e) \in Projections(made)
<1>1. e.id \in Ids /\ 0 \in Ids /\ (e.type \in CallTypes => e.id \in made)
  BY DEF Told, Events, Ids
<1>2. \A x \in Ids : [p EXCEPT !.turn = x] \in Projections(made)
  BY DEF Projections
<1>3. \A x \in made \cup {NoCall} : [p EXCEPT !.permission = x] \in Projections(made)
  BY DEF Projections
<1>4. \A x \in made \cup {NoCall} : [p EXCEPT !.ask = x] \in Projections(made)
  BY DEF Projections
<1> QED BY <1>1, <1>2, <1>3, <1>4 DEF Fold, CallTypes

LEMMA WithoutOne ==
    ASSUME NEW S, NEW s \in Seq(S), NEW p
    PROVE  Without(s, p) \in Seq(S) /\ ToSet(s) \ {p} \subseteq ToSet(Without(s, p))
<1>1. CASE p \notin ToSet(s)
  BY <1>1 DEF Without
<1>2. CASE p \in ToSet(s)
  <2>1. PICK i \in DOMAIN s : s[i] = p /\ Without(s, p) = RemoveAt(s, i)
    BY <1>2 DEF Without, ToSet
  <2> DEFINE u == SubSeq(s, 1, i - 1)
             v == SubSeq(s, i + 1, Len(s))
  <2>2. Len(s) \in Nat /\ i \in 1 .. Len(s)
    BY <2>1
  <2>3. u \in Seq(S) /\ Len(u) = i - 1 /\ \A k \in 1 .. i - 1 : u[k] = s[k]
    BY <2>2, SubSeqProperties
  <2>4. v \in Seq(S) /\ Len(v) = Len(s) - i /\ \A k \in 1 .. Len(s) - i : v[k] = s[i + k]
    BY <2>2, SubSeqProperties
  <2>5. Without(s, p) = u \o v
    BY <2>1 DEF RemoveAt
  <2> HIDE DEF u, v
  <2>6. u \o v \in Seq(S)
    BY <2>3, <2>4, ConcatProperties
  <2>7. ASSUME NEW x \in ToSet(s), x # p PROVE x \in ToSet(u \o v)
    <3>1. PICK k \in 1 .. Len(s) : s[k] = x
      BY <2>7 DEF ToSet
    <3>2. CASE k < i
      <4>1. k \in 1 .. Len(u) /\ u[k] = x
        BY <2>2, <2>3, <3>1, <3>2
      <4>2. In(x, u)
        BY <2>3, <4>1 DEF In
      <4> QED BY <2>3, <2>4, <4>2, InConcat DEF In, ToSet
    <3>3. CASE k > i
      <4>1. k - i \in 1 .. Len(s) - i /\ i + (k - i) = k
        BY <2>2, <3>3
      <4>2. v[k - i] = x
        BY <2>4, <3>1, <4>1
      <4>3. In(x, v)
        BY <2>4, <4>1, <4>2 DEF In
      <4>4. In(x, u \o v)
        BY <2>3, <2>4, <4>3, InConcat
      <4> QED BY <4>4 DEF In, ToSet
    <3> QED BY <2>1, <2>2, <2>7, <3>1, <3>2, <3>3
  <2> QED BY <2>5, <2>6, <2>7
<1> QED BY <1>1, <1>2

LEMMA ViewTyped ==
    ASSUME NEW s \in Shells, NEW e \in Events
    PROVE  View(s, e) \in Shells
<1>1. e.id \in Ids /\ NoCall \in Ids /\ s.ask \in Ids /\ s.permissions \in Seq(Ids)
  BY DEF Events, Ids, Shells
<1>2. \A x \in BOOLEAN : [s EXCEPT !.streaming = x] \in Shells
  BY DEF Shells
<1>3. \A x \in Ids : [s EXCEPT !.ask = x] \in Shells
  BY DEF Shells
<1>4. \A x \in Seq(Ids) : [s EXCEPT !.permissions = x] \in Shells
  BY DEF Shells
<1>5. Without(s.permissions, e.id) \in Seq(Ids)
  BY <1>1, WithoutOne
<1>6. Append(Without(s.permissions, e.id), e.id) \in Seq(Ids)
  BY <1>1, <1>5, AppendProperties
<1>7. AskLeft(s.ask, e.id) \in Ids
  BY <1>1 DEF AskLeft
<1> QED BY <1>1, <1>2, <1>3, <1>4, <1>5, <1>6, <1>7 DEF View

\* A prompt that is shown stays until its result comes, one that is asked for is
\* shown.
LEMMA ViewOfPermissions ==
    ASSUME NEW s \in Shells, NEW e \in Events, NEW p, e # E("ToolFinished", p)
    PROVE  /\ p \in ToSet(s.permissions) => p \in ToSet(View(s, e).permissions)
           /\ e = E("PermissionRequested", p) => p \in ToSet(View(s, e).permissions)
<1>1. s.permissions \in Seq(Ids) /\ e = [type |-> e.type, id |-> e.id] /\ e.id \in Ids
  BY DEF Shells, Events
<1>2. s = [streaming |-> s.streaming, permissions |-> s.permissions, ask |-> s.ask]
  BY DEF Shells
<1> DEFINE rest == Without(s.permissions, e.id)
<1>3. rest \in Seq(Ids) /\ ToSet(s.permissions) \ {e.id} \subseteq ToSet(rest)
  BY <1>1, WithoutOne
<1> HIDE DEF rest
<1>4. CASE e.type = "PermissionRequested"
  <2>1. View(s, e).permissions = Append(rest, e.id)
    BY <1>2, <1>4 DEF View, rest
  <2>2. \A x : In(x, Append(rest, e.id)) <=> In(x, rest) \/ x = e.id
    <3>1. Append(rest, e.id) = rest \o <<e.id>> /\ <<e.id>> \in Seq(Ids)
      BY <1>1, <1>3, AppendIsConcat
    <3>2. \A x : In(x, rest \o <<e.id>>) <=> In(x, rest) \/ In(x, <<e.id>>)
      BY <1>3, <3>1, InConcat
    <3>3. \A x : In(x, <<e.id>>) <=> e.id = x
      BY OfOne
    <3> QED BY <3>1, <3>2, <3>3
  <2>3. \A x, t : In(x, t) <=> x \in ToSet(t)
    BY DEF In, ToSet
  <2> QED BY <1>3, <1>4, <2>1, <2>2, <2>3 DEF E
<1>5. CASE e.type = "ToolFinished"
  <2>1. View(s, e).permissions = rest
    BY <1>2, <1>5 DEF View, rest
  <2>2. e.id # p
    BY <1>1, <1>5 DEF E
  <2> QED BY <1>3, <1>5, <2>1, <2>2 DEF E
<1>6. CASE e.type \notin {"PermissionRequested", "ToolFinished"}
  <2>1. View(s, e).permissions = s.permissions
    BY <1>2, <1>6 DEF View
  <2> QED BY <1>6, <2>1 DEF E
<1> QED BY <1>4, <1>5, <1>6

\* A question goes away with its resolution, the next question and a refusal.
LEMMA ViewOfAsk ==
    ASSUME NEW s \in Shells, NEW e \in Events, NEW a
    PROVE  /\ e = E("AskRequested", a) => View(s, e).ask = a
           /\ /\ s.ask = a /\ e.type \notin {"AskRequested", "Rejected"}
              /\ e # E("AskResolved", a)
              => View(s, e).ask = a
<1>1. e = [type |-> e.type, id |-> e.id]
  BY DEF Events
<1>2. s = [streaming |-> s.streaming, permissions |-> s.permissions, ask |-> s.ask]
  BY DEF Shells
<1>3. CASE e = E("AskRequested", a)
  BY <1>2, <1>3 DEF View, E
<1>4. CASE e.type = "AskResolved" /\ s.ask = a /\ e # E("AskResolved", a)
  BY <1>1, <1>2, <1>4 DEF View, AskLeft, E
<1>5. CASE e.type \notin {"AskRequested", "Rejected", "AskResolved"} /\ s.ask = a
  BY <1>2, <1>5 DEF View
<1> QED BY <1>3, <1>4, <1>5 DEF E

\* A publication adds the event to its channel.
LEMMA PublishTyped ==
    ASSUME Typed, NEW e \in Told(used.calls), Publish(e)
    PROVE  /\ projection' \in Projections(used.calls)
           /\ DOMAIN wire' = Channels /\ wire' = [c \in Channels |-> wire'[c]]
           /\ \A c \in Channels : wire'[c] \in Seq(OnChannel(c, used.calls))
           /\ wire'[ChannelOf(e.type)] = wire[ChannelOf(e.type)] \o <<e>>
           /\ \A c \in Channels \ {ChannelOf(e.type)} : wire'[c] = wire[c]
<1>1. projection' = Fold(projection, e) /\ projection \in Projections(used.calls)
  BY DEF Publish, Typed, DaemonTyped
<1>2. projection' \in Projections(used.calls)
  BY <1>1, FoldTyped
<1>3. ChannelOf(e.type) \in Channels /\ e \in OnChannel(ChannelOf(e.type), used.calls)
  BY DEF ChannelOf, Channels, OnChannel
<1> DEFINE ch == ChannelOf(e.type)
<1> HIDE DEF ch
<1>4. wire' = [wire EXCEPT ![ch] = Append(@, e)] /\ ch \in Channels
  BY <1>3 DEF Publish, ch
<1>5. /\ DOMAIN wire = Channels /\ wire = [c \in Channels |-> wire[c]]
      /\ \A c \in Channels : wire[c] \in Seq(OnChannel(c, used.calls))
  BY DEF Typed, WireTyped
<1>6. /\ DOMAIN wire' = Channels /\ wire' = [c \in Channels |-> wire'[c]]
      /\ wire'[ch] = Append(wire[ch], e)
      /\ \A c \in Channels \ {ch} : wire'[c] = wire[c]
  BY <1>4, <1>5
<1>7. Append(wire[ch], e) = wire[ch] \o <<e>> /\ Append(wire[ch], e) \in Seq(OnChannel(ch, used.calls))
  <2>1. wire[ch] \in Seq(OnChannel(ch, used.calls)) /\ e \in OnChannel(ch, used.calls)
    BY <1>3, <1>4, <1>5 DEF ch
  <2> QED BY <2>1, HeadAndTail
<1>8. \A c \in Channels : wire'[c] \in Seq(OnChannel(c, used.calls))
  BY <1>5, <1>6, <1>7
<1> QED BY <1>2, <1>6, <1>7, <1>8 DEF ch

----------------------------------------------------------------------------
(* The other steps keep the types.                                         *)

LEMMA SealTold ==
    ASSUME NEW made \in SUBSET Calls, NEW seals \in Seq(Channels), seals # <<>>, NEW found \in Ids,
           Head(seals) # "conversation" => found \in made
    PROVE  /\ Seal(Head(seals), found) \in Told(made)
           /\ Seal(Head(seals), found).type \in {"TurnEnded", "ToolFinished", "AskResolved"}
           /\ Seal(Head(seals), found).id = found
<1>1. Head(seals) \in Channels
  BY HeadTailProperties
<1>2. CASE Head(seals) = "conversation"
  BY <1>2 DEF Seal, E, Told, Events, EventTypes, CallTypes
<1>3. CASE Head(seals) # "conversation"
  BY <1>1, <1>3 DEF Seal, E, Told, Events, EventTypes, CallTypes
<1> QED BY <1>2, <1>3

\* What a look finds was made.
LEMMA OpenMade ==
    ASSUME Typed, NEW channel
    PROVE  /\ Open(channel) \subseteq Ids
           /\ channel # "conversation" => Open(channel) \subseteq used.calls
<1>1. projection \in Projections(used.calls) /\ used.calls \subseteq Ids
  BY DEF Typed, DaemonTyped, ShellTyped, Counts, Ids
<1> QED BY <1>1 DEF Open, Projections

\* A seal after a look or a publication.
LEMMA SealGoesOn ==
    ASSUME Typed, NEW S, NEW s \in S, S \in {Registries, Bootstraps}, s.seals # <<>>
    PROVE  /\ s.found = {} => AfterLook(s) \in S /\ FindsMade(AfterLook(s), used.calls)
           /\ AfterSeal(s) \in S /\ FindsMade(AfterSeal(s), used.calls)
           /\ AfterSeal(s).found = {}
<1>1. Tail(s.seals) \in Seq(Channels) /\ s.seals \in Seq(Channels)
  <2>1. CASE S = Registries
    BY <2>1, HeadTailProperties DEF Registries
  <2>2. CASE S = Bootstraps
    BY <2>2, HeadTailProperties DEF Bootstraps
  <2> QED BY <2>1, <2>2
<1> DEFINE open == Open(Head(s.seals))
<1>2. open \subseteq Ids /\ (Head(s.seals) # "conversation" => open \subseteq used.calls)
  BY OpenMade
<1> HIDE DEF open
<1>3. /\ [s EXCEPT !.seals = Tail(@)] \in S /\ [s EXCEPT !.seals = Tail(@)].found = s.found
  <2>1. CASE S = Registries
    BY <2>1, <1>1 DEF Registries
  <2>2. CASE S = Bootstraps
    BY <2>2, <1>1 DEF Bootstraps
  <2> QED BY <2>1, <2>2
<1>4. /\ [s EXCEPT !.found = open] \in S /\ [s EXCEPT !.found = open].found = open
      /\ [s EXCEPT !.found = open].seals = s.seals
  <2>1. CASE S = Registries
    BY <2>1, <1>2 DEF Registries
  <2>2. CASE S = Bootstraps
    BY <2>2, <1>2 DEF Bootstraps
  <2> QED BY <2>1, <2>2
<1>5. /\ [s EXCEPT !.seals = Tail(@), !.found = {}] \in S
      /\ [s EXCEPT !.seals = Tail(@), !.found = {}].found = {}
  <2>1. CASE S = Registries
    BY <2>1, <1>1 DEF Registries
  <2>2. CASE S = Bootstraps
    BY <2>2, <1>1 DEF Bootstraps
  <2> QED BY <2>1, <2>2
<1>6. AfterLook(s) = IF open = {} THEN [s EXCEPT !.seals = Tail(@)] ELSE [s EXCEPT !.found = open]
  BY DEF AfterLook, open
<1>7. ASSUME s.found = {} PROVE AfterLook(s) \in S /\ FindsMade(AfterLook(s), used.calls)
  BY <1>2, <1>3, <1>4, <1>6, <1>7 DEF FindsMade
<1>8. AfterSeal(s) \in S /\ FindsMade(AfterSeal(s), used.calls) /\ AfterSeal(s).found = {}
  BY <1>5 DEF AfterSeal, FindsMade
<1> QED BY <1>7, <1>8

\* The steps of a seal that publish.
LEMMA SealPublishes ==
    ASSUME Typed, NEW S, NEW s \in S, S \in {Registries, Bootstraps}, s.seals # <<>>,
           FindsMade(s, used.calls), PublishSeal(s)
    PROVE  \E e \in Told(used.calls) :
              /\ Publish(e) /\ e.type \in {"TurnEnded", "ToolFinished", "AskResolved"}
              /\ e.id \in s.found
<1>1. PICK found \in s.found : Publish(Seal(Head(s.seals), found))
  BY DEF PublishSeal
<1>2. s.seals \in Seq(Channels) /\ found \in Ids /\ used.calls \in SUBSET Calls
  <2>1. CASE S = Registries
    BY <2>1, <1>1 DEF Registries, Typed, ShellTyped, Counts
  <2>2. CASE S = Bootstraps
    BY <2>2, <1>1 DEF Bootstraps, Typed, ShellTyped, Counts
  <2> QED BY <2>1, <2>2
<1>3. Head(s.seals) # "conversation" => found \in used.calls
  BY <1>1 DEF FindsMade
<1>4. /\ Seal(Head(s.seals), found) \in Told(used.calls)
      /\ Seal(Head(s.seals), found).type \in {"TurnEnded", "ToolFinished", "AskResolved"}
      /\ Seal(Head(s.seals), found).id = found
  BY <1>2, <1>3, SealTold
<1> QED BY <1>1, <1>4

LEMMA ConstantsTyped ==
    /\ Stopped \in Workers /\ Started \in Workers /\ FreeRegistry \in Registries
    /\ SealSteps \in Seq(Channels) /\ SealSteps # <<>> /\ <<E("Ready", NoCall)>> \in Seq(Told(used.calls))
    /\ \A made : FindsMade(FreeRegistry, made)
    /\ Stopped.stage = "idle" /\ Stopped.round = NoRound
    /\ ~Stopped.alive /\ Started.alive /\ Started.stage = "idle" /\ Started.round = NoRound
<1>1. /\ Stopped \in Workers /\ Stopped.stage = "idle" /\ Stopped.round = NoRound
      /\ ~Stopped.alive
  BY NoRoundTyped DEF Stopped, Workers
<1>2. Started \in Workers /\ Started.alive /\ Started.stage = "idle" /\ Started.round = NoRound
  BY <1>1 DEF Started, Workers
<1>3. FreeRegistry \in Registries /\ \A made : FindsMade(FreeRegistry, made)
  BY EmptySeq DEF FreeRegistry, Registries, FindsMade
<1>4. SealSteps \in Seq(Channels) /\ SealSteps # <<>>
  BY DEF SealSteps, Channels
<1>5. <<E("Ready", NoCall)>> \in Seq(Told(used.calls))
  BY PlainEvent DEF EventTypes, CallTypes, Ids
<1> QED BY <1>1, <1>2, <1>3, <1>4, <1>5

LEMMA ReaderKeepsTypes ==
    ASSUME Typed, ReaderNext
    PROVE  Typed'
<1> USE DEF Typed
<1>1. CASE Read
  <2>1. /\ pipe # <<>> /\ pipe' = Tail(pipe) /\ Publish(Head(pipe))
        /\ reader' = [reader EXCEPT !.pc = "observe", !.event = Head(pipe)]
        /\ UNCHANGED <<workerVars, daemonVars, activity, shell, commands, used, swept>>
    BY <1>1 DEF Read
  <2>2. Head(pipe) \in Told(used.calls) /\ Tail(pipe) \in Seq(Told(used.calls))
    BY <2>1, HeadTailProperties DEF WorkerTyped
  <2>3. Head(pipe) \in Events
    BY <2>2 DEF Told
  <2>4. /\ projection' \in Projections(used.calls)
        /\ DOMAIN wire' = Channels /\ wire' = [c \in Channels |-> wire'[c]]
        /\ \A c \in Channels : wire'[c] \in Seq(OnChannel(c, used.calls))
    BY <2>1, <2>2, PublishTyped
  <2>5. ReaderTyped'
    BY <2>1, <2>3 DEF ReaderTyped, Readers
  <2> QED BY <2>1, <2>2, <2>4, <2>5 DEF workerVars, daemonVars, WorkerTyped, DaemonTyped, WireTyped,
                                        ShellTyped
<1>2. CASE Observe
  <2>1. /\ reader.pc = "observe" /\ reader' = [reader EXCEPT !.pc = "read"]
        /\ activity' \in {ActivityAfter(activity, reader.event), activity}
        /\ UNCHANGED <<workerVars, pipe, daemonVars, projection, wire, shell, commands, used, swept>>
    BY <1>2 DEF Observe
  <2>2. activity' \in Activities
    BY <2>1, ActivityTyped DEF ReaderTyped, DaemonTyped
  <2>3. ReaderTyped'
    BY <2>1 DEF ReaderTyped, Readers
  <2> QED BY <2>1, <2>2, <2>3 DEF workerVars, daemonVars, WorkerTyped, DaemonTyped, WireTyped, ShellTyped
<1>3. CASE Disconnect
  <2>1. /\ reader' = [reader EXCEPT !.pc = "ended"]
        /\ activity' \in {[activity EXCEPT !.state = "Disconnected", !.turn = 0], activity}
        /\ UNCHANGED <<workerVars, pipe, daemonVars, projection, wire, shell, commands, used, swept>>
    BY <1>3 DEF Disconnect
  <2>2. activity' \in Activities
    <3>1. activity \in Activities /\ "Disconnected" \in States /\ 0 \in Ids
      BY DEF DaemonTyped, States, Ids
    <3>2. [activity EXCEPT !.state = "Disconnected", !.turn = 0] \in Activities
      BY <3>1 DEF Activities
    <3> QED BY <2>1, <3>1, <3>2
  <2>3. ReaderTyped'
    BY <2>1 DEF ReaderTyped, Readers
  <2> QED BY <2>1, <2>2, <2>3 DEF workerVars, daemonVars, WorkerTyped, DaemonTyped, WireTyped, ShellTyped
<1> QED BY <1>1, <1>2, <1>3 DEF ReaderNext

LEMMA RegistryKeepsTypes ==
    ASSUME Typed, RegistryNext
    PROVE  Typed'
<1> USE DEF Typed
<1>0. registry \in Registries /\ FindsMade(registry, used.calls) /\ used \in Counts /\ activity \in Activities
  BY DEF DaemonTyped, ShellTyped
<1>1. CASE TakeCommand
  <2>1. PICK c \in commands, pc \in {"write", "spawn"} :
           /\ commands' = commands \ {c}
           /\ registry' = [registry EXCEPT !.pc = pc, !.command = c]
    BY <1>1 DEF TakeCommand
  <2>2. UNCHANGED <<workerVars, pipe, reader, instance, bootstrap, projection, activity, wire, shell,
                    used, swept>>
    BY <1>1 DEF TakeCommand
  <2>3. registry' \in Registries /\ FindsMade(registry', used.calls)
    BY <1>0, <2>1 DEF Registries, FindsMade, ShellTyped
  <2> QED BY <2>1, <2>2, <2>3 DEF workerVars, WorkerTyped, ReaderTyped, DaemonTyped, WireTyped, ShellTyped
<1>2. ASSUME NEW pc \in {"join", "spawn"}, Registry(pc),
             UNCHANGED <<worker, pipe, reader, bootstrap, projection, activity, wire, shell,
                         commands, used, swept>>
      PROVE  Typed'
  <2>1. registry' \in Registries /\ FindsMade(registry', used.calls)
    BY <1>0, <1>2 DEF Registry, Registries, FindsMade
  <2> QED BY <1>2, <2>1 DEF WorkerTyped, ReaderTyped, DaemonTyped, WireTyped, ShellTyped
<1>3. ASSUME registry' = FreeRegistry,
             UNCHANGED <<worker, pipe, reader, bootstrap, projection, wire, shell, commands>>,
             activity' \in Activities, used' \in Counts, used'.calls = used.calls
      PROVE  Typed'
  <2>1. registry' \in Registries /\ FindsMade(registry', used.calls)
    BY <1>3, ConstantsTyped
  <2> QED BY <1>3, <2>1 DEF WorkerTyped, ReaderTyped, DaemonTyped, WireTyped, ShellTyped
<1>4. CASE FindDead
  BY <1>2, <1>4 DEF FindDead, workerVars
<1>5. CASE Write
  <2>1. UNCHANGED <<worker, pipe, reader, bootstrap, projection, activity, wire, shell,
                    commands, used, swept>>
    BY <1>5 DEF Write
  <2>2. registry' = FreeRegistry \/ Registry("join")
    BY <1>5 DEF Write
  <2> QED BY <1>0, <1>2, <1>3, <2>1, <2>2
<1>6. CASE Join
  BY <1>2, <1>6 DEF Join, workerVars
<1>7. NextGeneration \in Activities
  BY <1>0 DEF NextGeneration, Activities, States, Ids
<1>8. CASE Spawn
  <2>1. /\ worker' = Started /\ pipe' = <<E("Ready", NoCall)>> /\ activity' = NextGeneration
        /\ reader' = [pc |-> "read", generation |-> NextGeneration.generation, event |-> None]
        /\ registry' = [registry EXCEPT !.pc = "seal", !.seals = SealSteps]
        /\ UNCHANGED <<bootstrap, projection, wire, shell, commands, used, swept>>
    BY <1>8 DEF Spawn
  <2>2. registry' \in Registries
    BY <1>0, <2>1, ConstantsTyped DEF Registries
  <2>3. FindsMade(registry', used.calls)
    <3>1. registry'.seals = SealSteps /\ Head(SealSteps) = "conversation"
      BY <1>0, <2>1 DEF Registries, SealSteps
    <3> QED BY <3>1, ConstantsTyped DEF FindsMade
  <2>4. reader' \in Readers /\ reader'.pc = "read"
    BY <1>7, <2>1 DEF Readers, Activities
  <2>5. ReaderTyped'
    BY <2>4 DEF ReaderTyped
  <2>6. WorkerTyped'
    BY <2>1, ConstantsTyped DEF WorkerTyped
  <2> QED BY <1>7, <2>1, <2>2, <2>3, <2>5, <2>6 DEF DaemonTyped, WireTyped, ShellTyped
<1>9. CASE SpawnFails
  <2>1. used' \in Counts /\ used'.calls = used.calls
    BY <1>0, <1>9 DEF SpawnFails, Counts
  <2> QED BY <1>3, <1>7, <1>9, <2>1 DEF SpawnFails, workerVars
<1>10. CASE RegistrySeals
  <2>1. /\ registry.seals # <<>>
        /\ UNCHANGED <<workerVars, pipe, reader, instance, bootstrap, activity, shell, commands, used, swept>>
    BY <1>10 DEF RegistrySeals
  <2>2. CASE Look(registry) /\ registry' = AfterLook(registry)
    <3>1. registry.found = {} /\ UNCHANGED <<projection, wire>>
      BY <2>2 DEF Look
    <3>2. registry' \in Registries /\ FindsMade(registry', used.calls)
      BY <1>0, <2>1, <2>2, <3>1, SealGoesOn
    <3> QED BY <2>1, <3>1, <3>2 DEF workerVars, WorkerTyped, ReaderTyped, DaemonTyped, WireTyped, ShellTyped
  <2>3. CASE PublishSeal(registry) /\ registry' = AfterSeal(registry)
    <3>1. PICK e \in Told(used.calls) : Publish(e)
      BY <1>0, <2>1, <2>3, SealPublishes
    <3>2. /\ projection' \in Projections(used.calls)
          /\ DOMAIN wire' = Channels /\ wire' = [c \in Channels |-> wire'[c]]
          /\ \A c \in Channels : wire'[c] \in Seq(OnChannel(c, used.calls))
      BY <3>1, PublishTyped
    <3>3. registry' \in Registries /\ FindsMade(registry', used.calls)
      BY <1>0, <2>1, <2>3, SealGoesOn
    <3> QED BY <2>1, <3>2, <3>3 DEF workerVars, WorkerTyped, ReaderTyped, DaemonTyped, WireTyped, ShellTyped
  <2> QED BY <1>10, <2>2, <2>3 DEF RegistrySeals
<1>11. CASE Sealed
  <2>1. UNCHANGED <<workerVars, pipe, reader, instance, bootstrap, projection, activity, wire, shell,
                    commands, used, swept>>
    BY <1>11 DEF Sealed
  <2>2. registry' \in Registries /\ FindsMade(registry', used.calls)
    <3>1. registry' = FreeRegistry \/ registry' = [registry EXCEPT !.pc = "write"]
      BY <1>11 DEF Sealed
    <3>2. CASE registry' = [registry EXCEPT !.pc = "write"]
      BY <1>0, <3>2 DEF Registries, FindsMade
    <3> QED BY <3>1, <3>2, ConstantsTyped
  <2> QED BY <2>1, <2>2 DEF workerVars, WorkerTyped, ReaderTyped, DaemonTyped, WireTyped, ShellTyped
<1> QED BY <1>1, <1>4, <1>5, <1>6, <1>8, <1>9, <1>10, <1>11 DEF RegistryNext

LEMMA BootstrapKeepsTypes ==
    ASSUME Typed, Bootstrap \/ BootstrapSeals
    PROVE  Typed'
<1> USE DEF Typed
<1>0. bootstrap \in Bootstraps /\ FindsMade(bootstrap, used.calls) /\ used \in Counts
  BY DEF DaemonTyped, ShellTyped
<1>1. CASE Bootstrap
  <2>1. /\ bootstrap' = [seals |-> SealSteps, found |-> {}] /\ CountClick
        /\ UNCHANGED <<workerVars, pipe, reader, registry, instance, projection, activity, wire, shell,
                       commands, swept>>
    BY <1>1 DEF Bootstrap
  <2>2. used' \in Counts /\ used'.calls = used.calls
    BY <1>0, <2>1 DEF CountClick, Counts
  <2>3. bootstrap' \in Bootstraps /\ FindsMade(bootstrap', used.calls)
    BY <2>1, ConstantsTyped DEF Bootstraps, FindsMade
  <2> QED BY <2>1, <2>2, <2>3 DEF workerVars, WorkerTyped, ReaderTyped, DaemonTyped, WireTyped, ShellTyped
<1>2. CASE BootstrapSeals
  <2>1. UNCHANGED <<workerVars, pipe, reader, registry, instance, activity, shell, commands, used>>
    BY <1>2 DEF BootstrapSeals
  <2>2. CASE Look(bootstrap) /\ bootstrap' = AfterLook(bootstrap)
    <3>1. bootstrap.seals # <<>> /\ bootstrap.found = {} /\ UNCHANGED <<projection, wire>>
      BY <2>2 DEF Look
    <3>2. bootstrap' \in Bootstraps /\ FindsMade(bootstrap', used.calls)
      BY <1>0, <2>1, <2>2, <3>1, SealGoesOn
    <3> QED BY <2>1, <3>1, <3>2 DEF workerVars, WorkerTyped, ReaderTyped, DaemonTyped, WireTyped, ShellTyped
  <2>3. CASE PublishSeal(bootstrap) /\ bootstrap' = AfterSeal(bootstrap)
    <3>0. bootstrap.seals # <<>>
      BY <1>0, <2>3 DEF PublishSeal, FindsMade
    <3>1. PICK e \in Told(used.calls) : Publish(e)
      BY <1>0, <3>0, <2>3, SealPublishes
    <3>2. /\ projection' \in Projections(used.calls)
          /\ DOMAIN wire' = Channels /\ wire' = [c \in Channels |-> wire'[c]]
          /\ \A c \in Channels : wire'[c] \in Seq(OnChannel(c, used.calls))
      BY <3>1, PublishTyped
    <3>3. bootstrap' \in Bootstraps /\ FindsMade(bootstrap', used.calls)
      BY <1>0, <3>0, <2>3, SealGoesOn
    <3> QED BY <2>1, <3>2, <3>3 DEF workerVars, WorkerTyped, ReaderTyped, DaemonTyped, WireTyped, ShellTyped
  <2> QED BY <1>2, <2>2, <2>3 DEF BootstrapSeals
<1> QED BY <1>1, <1>2

\* What a delivery takes off the wire, and what it leaves.
LEMMA Delivered1 ==
    ASSUME Typed, NEW channel \in Channels, Deliver(channel)
    PROVE  /\ Head(wire[channel]) \in OnChannel(channel, used.calls)
           /\ wire[channel] # <<>> /\ wire'[channel] = Tail(wire[channel])
           /\ \A c \in Channels \ {channel} : wire'[c] = wire[c]
           /\ DOMAIN wire' = Channels /\ wire' = [c \in Channels |-> wire'[c]]
           /\ \A c \in Channels : wire'[c] \in Seq(OnChannel(c, used.calls))
           /\ shell' = View(shell, Head(wire[channel]))
<1>1. /\ DOMAIN wire = Channels /\ wire = [c \in Channels |-> wire[c]]
      /\ \A c \in Channels : wire[c] \in Seq(OnChannel(c, used.calls))
  BY DEF Typed, WireTyped
<1>2. /\ wire[channel] # <<>> /\ wire' = [wire EXCEPT ![channel] = Tail(@)]
      /\ shell' = View(shell, Head(wire[channel]))
  BY DEF Deliver
<1>3. /\ Head(wire[channel]) \in OnChannel(channel, used.calls)
      /\ Tail(wire[channel]) \in Seq(OnChannel(channel, used.calls))
  BY <1>1, <1>2, HeadTailProperties
<1> QED BY <1>1, <1>2, <1>3

LEMMA ShellKeepsTypes ==
    ASSUME Typed, ShellNext
    PROVE  Typed'
<1> USE DEF Typed
<1>0. shell \in Shells /\ commands \subseteq Commands /\ used \in Counts
  BY DEF ShellTyped
<1>1. ASSUME UNCHANGED <<workerVars, pipe, reader, daemonVars, projection, activity, wire, shell>>,
             used' \in Counts, used'.calls = used.calls, commands' \subseteq Commands
      PROVE  Typed'
  BY <1>1 DEF workerVars, daemonVars, WorkerTyped, ReaderTyped, DaemonTyped, WireTyped, ShellTyped
<1>2. CASE SendMessage
  <2>1. [kind |-> "message", id |-> NoCall, yes |-> TRUE, n |-> 0] \in Commands
    BY DEF Commands, Ids
  <2> QED BY <1>0, <1>1, <1>2, <2>1 DEF SendMessage, UserVars
<1>3. ASSUME NEW kind \in {"permission", "ask", "cancel"}, NEW id \in Ids, NEW yes \in BOOLEAN,
             Click(kind, id, yes)
      PROVE  Typed'
  <2>1. used' \in Counts /\ used'.calls = used.calls /\ used.clicks + 1 \in Nat
    BY <1>0, <1>3 DEF Click, CountClick, Counts
  <2>2. [kind |-> kind, id |-> id, yes |-> yes, n |-> used.clicks + 1] \in Commands
    BY <2>1 DEF Commands
  <2>3. commands' \subseteq Commands
    BY <1>0, <1>3, <2>2 DEF Click
  <2> QED BY <1>1, <1>3, <2>1, <2>3 DEF Click, UserVars
<1>4. CASE Answer
  <2>1. PICK yes \in BOOLEAN, kind \in {"permission", "ask", "cancel"} : Click(kind, Shown(shell), yes)
    BY <1>4 DEF Answer
  <2>2. Shown(shell) \in Ids
    BY <1>0, HeadTailProperties DEF Shown, Shells
  <2> QED BY <1>3, <2>1, <2>2
<1>5. CASE Stop
  BY <1>3, <1>5 DEF Stop, Ids
<1>6. ASSUME NEW channel \in Channels, Deliver(channel) PROVE Typed'
  <2>1. UNCHANGED <<workerVars, pipe, reader, daemonVars, projection, activity, commands, used>>
    BY <1>6 DEF Deliver
  <2>2. /\ DOMAIN wire' = Channels /\ wire' = [c \in Channels |-> wire'[c]]
        /\ \A c \in Channels : wire'[c] \in Seq(OnChannel(c, used.calls))
        /\ Head(wire[channel]) \in OnChannel(channel, used.calls)
        /\ shell' = View(shell, Head(wire[channel]))
    BY <1>6, Delivered1
  <2>3. Head(wire[channel]) \in Events
    BY <2>2 DEF OnChannel, Told
  <2>4. shell' \in Shells
    BY <1>0, <2>2, <2>3, ViewTyped
  <2> QED BY <2>1, <2>2, <2>4 DEF workerVars, daemonVars, WorkerTyped, ReaderTyped, DaemonTyped, WireTyped,
                                  ShellTyped
<1> QED BY <1>2, <1>4, <1>5, <1>6 DEF ShellNext

LEMMA DeathKeepsTypes ==
    ASSUME Typed, WorkerDies
    PROVE  Typed'
<1> USE DEF Typed
<1>1. /\ worker' = Stopped /\ used' = [used EXCEPT !.faults = @ + 1]
      /\ UNCHANGED <<pipe, reader, daemonVars, projection, activity, wire, shell, commands, swept>>
  BY DEF WorkerDies
<1>2. used' \in Counts /\ used'.calls = used.calls
  BY <1>1 DEF ShellTyped, Counts
<1> QED BY <1>1, <1>2, ConstantsTyped DEF daemonVars, WorkerTyped, ReaderTyped, DaemonTyped, WireTyped, ShellTyped

----------------------------------------------------------------------------
(* The other steps and the worker's state.                                 *)

LEMMA OthersKeepWorkers ==
    ASSUME Typed, WorkersAreSound, SealsOnlyOrphans, RoundIsSound,
           \/ WorkerDies \/ ReaderNext \/ RegistryNext \/ Bootstrap \/ BootstrapSeals \/ ShellNext
    PROVE  WorkersAreSound' /\ SealsOnlyOrphans' /\ RoundIsSound'
<1>0. /\ registry \in Registries /\ reader \in Readers /\ activity \in Activities /\ used \in Counts
  BY DEF Typed, DaemonTyped, ReaderTyped, ShellTyped
<1>1. ASSUME UNCHANGED <<worker, used.calls>> PROVE RoundIsSound'
  BY <1>1 DEF RoundIsSound
<1>2. ASSUME worker' = Stopped \/ worker' = Started PROVE RoundIsSound'
  <2>1. worker'.stage = "idle" /\ worker'.round = NoRound
    BY <1>2, ConstantsTyped
  <2>2. /\ NoRound.permissions = {} /\ NoRound.approved = {} /\ NoRound.asks = <<>>
        /\ NoRound.calls = {} /\ ToSet(<<>>) = {} /\ IsInjective(<<>>)
    BY DEF NoRound, ToSet, IsInjective
  <2> QED BY <2>1, <2>2 DEF RoundIsSound
<1>3. ASSUME UNCHANGED <<worker, inbox, instance, registry.pc, reader.generation, activity.generation>>
      PROVE  WorkersAreSound' /\ SealsOnlyOrphans'
  BY <1>3 DEF WorkersAreSound, SealsOnlyOrphans
<1>4. CASE WorkerDies
  <2>1. /\ worker' = Stopped /\ inbox' = <<>> /\ ~Stopped.alive /\ Stopped.stage = "idle"
        /\ UNCHANGED <<reader, registry, instance, activity>>
    BY <1>4, ConstantsTyped DEF WorkerDies, daemonVars
  <2> QED BY <1>2, <2>1 DEF WorkersAreSound, SealsOnlyOrphans
<1>5. CASE ReaderNext
  <2>1. UNCHANGED <<worker, inbox, registry, instance, used>>
    BY <1>5 DEF ReaderNext, Read, Observe, Disconnect, workerVars, daemonVars
  <2>2. reader'.generation = reader.generation
    BY <1>0, <1>5 DEF ReaderNext, Read, Observe, Disconnect, Readers
  <2>3. activity'.generation = activity.generation
    <3>1. CASE Observe
      BY <1>0, <3>1 DEF Observe, ActivityAfter, Activities
    <3>2. CASE Disconnect
      BY <1>0, <3>2 DEF Disconnect, Activities
    <3> QED BY <1>5, <3>1, <3>2 DEF ReaderNext, Read
  <2> QED BY <1>1, <1>3, <2>1, <2>2, <2>3
<1>6. CASE Bootstrap \/ BootstrapSeals \/ ShellNext
  <2>1. UNCHANGED <<worker, inbox, registry, instance, reader, activity>>
    BY <1>6 DEF Bootstrap, BootstrapSeals, ShellNext, SendMessage, Answer, Click, Stop, Deliver, UserVars,
                workerVars, daemonVars
  <2>2. used'.calls = used.calls
    BY <1>0, <1>6 DEF Bootstrap, BootstrapSeals, ShellNext, SendMessage, Answer, Click, CountClick, Stop,
                      Deliver, Counts
  <2> QED BY <1>1, <1>3, <2>1, <2>2
<1>7. CASE RegistryNext
  <2>1. CASE TakeCommand
    <3>1. PICK c : registry' = [registry EXCEPT !.pc = IF instance THEN "write" ELSE "spawn", !.command = c]
      BY <2>1 DEF TakeCommand
    <3>2. UNCHANGED <<worker, inbox, instance, reader, activity, used>>
      BY <2>1 DEF TakeCommand, workerVars
    <3>3. registry'.pc = IF instance THEN "write" ELSE "spawn"
      BY <1>0, <3>1 DEF Registries
    <3> QED BY <1>1, <3>2, <3>3 DEF WorkersAreSound, SealsOnlyOrphans
  <2>2. CASE FindDead
    <3>1. /\ ~worker.alive /\ ~instance' /\ registry'.pc = "join"
          /\ UNCHANGED <<worker, inbox, reader, activity, used>>
      BY <1>0, <2>2 DEF FindDead, Registry, Registries, workerVars
    <3> QED BY <1>1, <3>1 DEF WorkersAreSound, SealsOnlyOrphans
  <2>3. CASE Write
    <3>1. UNCHANGED <<worker, reader, activity, used>>
      BY <2>3 DEF Write
    <3>2. \/ instance' = instance /\ registry'.pc = "free"
          \/ ~worker.alive /\ ~instance' /\ registry'.pc = "join"
      BY <1>0, <2>3 DEF Write, Registry, Registries, FreeRegistry
    <3> QED BY <1>1, <3>1, <3>2 DEF WorkersAreSound, SealsOnlyOrphans
  <2>4. CASE Join
    <3>1. /\ registry.pc = "join" /\ registry'.pc = "spawn"
          /\ UNCHANGED <<worker, inbox, instance, reader, activity, used>>
      BY <1>0, <2>4 DEF Join, Registry, Registries, workerVars
    <3> QED BY <1>1, <3>1 DEF WorkersAreSound, SealsOnlyOrphans
  <2>5. CASE Spawn
    <3>1. /\ worker' = Started /\ inbox' = <<>> /\ instance'
          /\ activity' = NextGeneration /\ reader'.generation = NextGeneration.generation
          /\ registry'.pc = "seal"
      BY <1>0, <2>5 DEF Spawn, Registries
    <3> QED BY <1>2, <3>1, ConstantsTyped DEF WorkersAreSound, SealsOnlyOrphans
  <2>6. CASE SpawnFails
    <3>1. /\ registry.pc = "spawn" /\ registry'.pc = "free"
          /\ used'.calls = used.calls /\ UNCHANGED <<worker, inbox, instance, reader>>
      BY <1>0, <2>6 DEF SpawnFails, FreeRegistry, workerVars, Counts
    <3> QED BY <1>1, <3>1 DEF WorkersAreSound, SealsOnlyOrphans
  <2>7. CASE RegistrySeals
    <3>1. registry'.pc = registry.pc
      BY <1>0, <2>7 DEF RegistrySeals, AfterLook, AfterSeal, Registries
    <3>2. UNCHANGED <<worker, inbox, instance, reader, activity, used>>
      BY <2>7 DEF RegistrySeals, workerVars
    <3> QED BY <1>1, <1>3, <3>1, <3>2
  <2>8. CASE Sealed
    <3>1. registry'.pc \in {"free", "write"}
      BY <1>0, <2>8 DEF Sealed, FreeRegistry, Registries
    <3>2. UNCHANGED <<worker, inbox, instance, reader, activity, used>>
      BY <2>8 DEF Sealed, workerVars
    <3> QED BY <1>1, <3>1, <3>2 DEF WorkersAreSound, SealsOnlyOrphans
  <2> QED BY <1>7, <2>1, <2>2, <2>3, <2>4, <2>5, <2>6, <2>7, <2>8 DEF RegistryNext
<1> QED BY <1>4, <1>5, <1>6, <1>7

----------------------------------------------------------------------------
(* The other steps and what the tracker knows.                             *)

LEMMA OthersKeepAnnounced ==
    ASSUME Typed, WorkersAreSound, WorkIsAnnounced,
           \/ WorkerDies \/ ReaderNext \/ RegistryNext \/ Bootstrap \/ BootstrapSeals \/ ShellNext
    PROVE  WorkIsAnnounced'
<1>1. ASSUME UNCHANGED <<worker, reader, pipe, activity>> PROVE WorkIsAnnounced'
  BY <1>1 DEF WorkIsAnnounced, Pending
<1>2. ASSUME worker'.stage = "idle" PROVE WorkIsAnnounced'
  BY <1>2 DEF WorkIsAnnounced
<1>3. ASSUME ~worker.alive, worker' = worker PROVE WorkIsAnnounced'
  BY <1>2, <1>3 DEF WorkersAreSound
<1>4. CASE WorkerDies
  BY <1>2, <1>4, ConstantsTyped DEF WorkerDies
<1>5. CASE Bootstrap \/ BootstrapSeals \/ ShellNext
  <2>1. UNCHANGED <<worker, reader, pipe, activity>>
    BY <1>5 DEF Bootstrap, BootstrapSeals, ShellNext, SendMessage, Answer, Click, Stop, Deliver, UserVars,
                workerVars, daemonVars
  <2> QED BY <1>1, <2>1
<1>6. CASE RegistryNext
  <2>1. CASE Spawn
    BY <1>2, <2>1, ConstantsTyped DEF Spawn
  <2>2. CASE SpawnFails
    BY <1>3, <2>2 DEF SpawnFails, workerVars, WorkersAreSound
  <2>3. CASE TakeCommand \/ FindDead \/ Write \/ Join \/ RegistrySeals \/ Sealed
    <3>1. UNCHANGED <<worker, reader, pipe, activity>>
      BY <2>3 DEF TakeCommand, FindDead, Write, Join, RegistrySeals, Sealed, workerVars
    <3> QED BY <1>1, <3>1
  <2> QED BY <1>6, <2>1, <2>2, <2>3 DEF RegistryNext
<1>7. CASE Read
  <2>1. /\ reader.pc = "read" /\ pipe # <<>> /\ pipe' = Tail(pipe)
        /\ reader' = [reader EXCEPT !.pc = "observe", !.event = Head(pipe)]
        /\ UNCHANGED <<worker, activity>>
    BY <1>7 DEF Read, workerVars
  <2>2. pipe = <<Head(pipe)>> \o Tail(pipe)
    BY <2>1, HeadAndTail DEF Typed, WorkerTyped
  <2>3. reader'.pc = "observe" /\ reader'.event = Head(pipe)
    BY <2>1 DEF Typed, ReaderTyped, Readers
  <2>4. Pending' = Pending
    BY <2>1, <2>2, <2>3 DEF Pending
  <2> QED BY <2>1, <2>4 DEF WorkIsAnnounced
<1>8. CASE Observe
  <2>0. SUFFICES ASSUME worker'.stage # "idle" PROVE WorkIsAnnounced'
    BY <1>2
  <2>1. /\ reader.pc = "observe" /\ reader' = [reader EXCEPT !.pc = "read"]
        /\ activity' = IF reader.generation = activity.generation
                       THEN ActivityAfter(activity, reader.event) ELSE activity
        /\ UNCHANGED <<worker, pipe>>
    BY <1>8 DEF Observe, workerVars
  <2>2. activity' = ActivityAfter(activity, reader.event) /\ worker.turn # 0 /\ worker.stage # "idle"
    BY <2>0, <2>1 DEF WorkersAreSound
  <2>3. PICK e \in Events, t \in Seq(Events), a \in Activities :
           e = reader.event /\ t = pipe /\ a = activity
    <3>1. pipe \in Seq(Events)
      BY ToldGrows DEF Typed, WorkerTyped
    <3> QED BY <2>1, <3>1 DEF Typed, ReaderTyped, DaemonTyped
  <2>4. Pending = <<e>> \o t /\ Pending' = t
    <3>1. reader'.pc = "read"
      BY <2>1 DEF Typed, ReaderTyped, Readers
    <3> QED BY <2>1, <2>3, <3>1 DEF Pending
  <2>5. PICK turn : turn = worker.turn
    OBVIOUS
  <2>6. \/ LastOf(<<e>> \o t, Boundaries, E("TurnStarted", turn))
        \/ /\ NoneOf(<<e>> \o t, Boundaries)
           /\ a.turn = turn /\ a.state \in {"Working", "WaitingUser"}
    BY <2>2, <2>3, <2>4, <2>5 DEF WorkIsAnnounced
  <2>7. \/ LastOf(t, Boundaries, E("TurnStarted", turn))
        \/ NoneOf(t, Boundaries) /\ e = E("TurnStarted", turn)
        \/ /\ NoneOf(t, Boundaries) /\ e.type \notin Boundaries
           /\ a.turn = turn /\ a.state \in {"Working", "WaitingUser"}
    <3>1. <<e>> \in Seq(Events)
      OBVIOUS
    <3>2. CASE LastOf(<<e>> \o t, Boundaries, E("TurnStarted", turn))
      <4> DEFINE start == E("TurnStarted", turn)
      <4> HIDE DEF start
      <4>1. LastOf(<<e>> \o t, Boundaries, start)
               <=> LastOf(t, Boundaries, start) \/ (NoneOf(t, Boundaries) /\ LastOf(<<e>>, Boundaries, start))
        BY <3>1, LastOfConcat
      <4>2. LastOf(<<e>>, Boundaries, start) => e = start
        BY OfOne
      <4> QED BY <3>2, <4>1, <4>2 DEF start
    <3>3. CASE NoneOf(<<e>> \o t, Boundaries)
      <4>1. NoneOf(<<e>>, Boundaries) /\ NoneOf(t, Boundaries)
        BY <3>1, <3>3, NoneOfConcat
      <4>2. NoneOf(<<e>>, Boundaries) => e.type \notin Boundaries
        BY OfOne
      <4> QED BY <3>2, <4>1, <4>2, <2>6
    <3> QED BY <2>6, <3>2, <3>3
  <2>8. turn # 0
    BY <2>2, <2>5
  <2>9. \/ LastOf(t, Boundaries, E("TurnStarted", turn))
        \/ /\ NoneOf(t, Boundaries)
           /\ ActivityAfter(a, e).turn = turn /\ ActivityAfter(a, e).state \in {"Working", "WaitingUser"}
    BY <2>7, <2>8, ActivityOfTurn
  <2> QED BY <2>1, <2>2, <2>3, <2>4, <2>5, <2>9 DEF WorkIsAnnounced
<1>9. CASE Disconnect
  BY <1>3, <1>9 DEF Disconnect, workerVars
<1> QED BY <1>4, <1>5, <1>6, <1>7, <1>8, <1>9 DEF ReaderNext

----------------------------------------------------------------------------
(* The other steps and the way to the shell.                               *)

\* An event in the middle that is of no type asked about makes no difference.
LEMMA InTheMiddle ==
    ASSUME NEW s \in Seq(Events), NEW t \in Seq(Events), NEW h \in Events, NEW e, h # e
    PROVE  /\ In(e, (s \o <<h>>) \o t) <=> In(e, s \o t)
           /\ In(e, s \o (<<h>> \o t)) <=> In(e, s \o t)
<1>1. <<h>> \in Seq(Events)
  OBVIOUS
<1>2. s \o <<h>> \in Seq(Events) /\ <<h>> \o t \in Seq(Events)
  BY <1>1, ConcatProperties
<1>3. ~In(e, <<h>>)
  BY OfOne
<1>4. In(e, s \o <<h>>) <=> In(e, s)
  BY <1>1, <1>3, InConcat
<1>5. In(e, <<h>> \o t) <=> In(e, t)
  BY <1>1, <1>3, InConcat
<1>6. In(e, s \o t) <=> In(e, s) \/ In(e, t)
  BY InConcat
<1>7. In(e, (s \o <<h>>) \o t) <=> In(e, s \o <<h>>) \/ In(e, t)
  BY <1>2, InConcat
<1>8. In(e, s \o (<<h>> \o t)) <=> In(e, s) \/ In(e, <<h>> \o t)
  BY <1>2, InConcat
<1> QED BY <1>4, <1>5, <1>6, <1>7, <1>8

LEMMA NoTypeInTheMiddle ==
    ASSUME NEW s \in Seq(Events), NEW t \in Seq(Events), NEW h \in Events, NEW T, h.type \notin T,
           NEW e, e.type \in T
    PROVE  /\ NoneOf((s \o <<h>>) \o t, T) <=> NoneOf(s \o t, T)
           /\ NoneOf(s \o (<<h>> \o t), T) <=> NoneOf(s \o t, T)
           /\ LastOf((s \o <<h>>) \o t, T, e) <=> LastOf(s \o t, T, e)
           /\ LastOf(s \o (<<h>> \o t), T, e) <=> LastOf(s \o t, T, e)
<1>1. <<h>> \in Seq(Events)
  OBVIOUS
<1>2. s \o <<h>> \in Seq(Events) /\ <<h>> \o t \in Seq(Events)
  BY <1>1, ConcatProperties
<1>3. NoneOf(<<h>>, T)
  BY OfOne
<1>4. ~LastOf(<<h>>, T, e)
  <2>1. h # e
    OBVIOUS
  <2> QED BY <2>1, OfOne
<1>5. NoneOf(s \o <<h>>, T) <=> NoneOf(s, T)
  BY <1>1, <1>3, NoneOfConcat
<1>6. NoneOf(<<h>> \o t, T) <=> NoneOf(t, T)
  BY <1>1, <1>3, NoneOfConcat
<1>7. LastOf(s \o <<h>>, T, e) <=> LastOf(s, T, e)
  BY <1>1, <1>3, <1>4, LastOfConcat
<1>8. LastOf(<<h>> \o t, T, e) <=> LastOf(t, T, e)
  <2>1. LastOf(<<h>> \o t, T, e) <=> LastOf(t, T, e) \/ (NoneOf(t, T) /\ LastOf(<<h>>, T, e))
    BY <1>1, LastOfConcat
  <2> QED BY <1>4, <2>1
<1>9. NoneOf(s \o t, T) <=> NoneOf(s, T) /\ NoneOf(t, T)
  BY NoneOfConcat
<1>10. NoneOf((s \o <<h>>) \o t, T) <=> NoneOf(s \o <<h>>, T) /\ NoneOf(t, T)
  BY <1>2, NoneOfConcat
<1>11. NoneOf(s \o (<<h>> \o t), T) <=> NoneOf(s, T) /\ NoneOf(<<h>> \o t, T)
  BY <1>2, NoneOfConcat
<1>12. LastOf(s \o t, T, e) <=> LastOf(t, T, e) \/ (NoneOf(t, T) /\ LastOf(s, T, e))
  BY LastOfConcat
<1>13. LastOf((s \o <<h>>) \o t, T, e)
          <=> LastOf(t, T, e) \/ (NoneOf(t, T) /\ LastOf(s \o <<h>>, T, e))
  BY <1>2, LastOfConcat
<1>14. LastOf(s \o (<<h>> \o t), T, e)
          <=> LastOf(<<h>> \o t, T, e) \/ (NoneOf(<<h>> \o t, T) /\ LastOf(s, T, e))
  BY <1>2, LastOfConcat
<1> QED BY <1>5, <1>6, <1>7, <1>8, <1>9, <1>10, <1>11, <1>12, <1>13, <1>14

\* Two sequences of events that differ by h in the middle of one, if at all.
Middle(old, new, h) ==
    \/ new = old
    \/ \E s, t \in Seq(Events) : \/ old = s \o (<<h>> \o t) /\ new = s \o t
                                 \/ old = s \o t /\ new = (s \o <<h>>) \o t

LEMMA MiddleIsSame ==
    ASSUME NEW old, NEW new, NEW h \in Events, Middle(old, new, h)
    PROVE  /\ \A e : h # e => (In(e, new) <=> In(e, old))
           /\ \A T, e : h.type \notin T /\ e.type \in T =>
                 /\ NoneOf(new, T) <=> NoneOf(old, T)
                 /\ LastOf(new, T, e) <=> LastOf(old, T, e)
<1>1. CASE new = old
  BY <1>1
<1>2. ASSUME NEW s \in Seq(Events), NEW t \in Seq(Events),
             old = s \o (<<h>> \o t), new = s \o t
      PROVE  /\ \A e : h # e => (In(e, new) <=> In(e, old))
             /\ \A T, e : h.type \notin T /\ e.type \in T =>
                   /\ NoneOf(new, T) <=> NoneOf(old, T)
                   /\ LastOf(new, T, e) <=> LastOf(old, T, e)
  <2>1. \A e : h # e => (In(e, new) <=> In(e, old))
    BY <1>2, InTheMiddle
  <2>2. \A T, e : h.type \notin T /\ e.type \in T =>
                   /\ NoneOf(new, T) <=> NoneOf(old, T)
                   /\ LastOf(new, T, e) <=> LastOf(old, T, e)
    BY <1>2, NoTypeInTheMiddle
  <2> QED BY <2>1, <2>2
<1>3. ASSUME NEW s \in Seq(Events), NEW t \in Seq(Events),
             old = s \o t, new = (s \o <<h>>) \o t
      PROVE  /\ \A e : h # e => (In(e, new) <=> In(e, old))
             /\ \A T, e : h.type \notin T /\ e.type \in T =>
                   /\ NoneOf(new, T) <=> NoneOf(old, T)
                   /\ LastOf(new, T, e) <=> LastOf(old, T, e)
  <2>1. \A e : h # e => (In(e, new) <=> In(e, old))
    BY <1>3, InTheMiddle
  <2>2. \A T, e : h.type \notin T /\ e.type \in T =>
                   /\ NoneOf(new, T) <=> NoneOf(old, T)
                   /\ LastOf(new, T, e) <=> LastOf(old, T, e)
    BY <1>3, NoTypeInTheMiddle
  <2> QED BY <2>1, <2>2
<1> QED BY <1>1, <1>2, <1>3 DEF Middle

\* The reader moves an event from the pipe to the wire; only the other channels lose it.
LEMMA ReadComing ==
    ASSUME Typed, Read, NEW c \in Channels
    PROVE  \E h \in Events : \E old, new :
              /\ old = Coming(c) /\ new = Coming(c)' /\ Middle(old, new, h)
              /\ new = old \/ ChannelOf(h.type) # c
<1>1. /\ pipe # <<>> /\ pipe' = Tail(pipe) /\ Publish(Head(pipe))
  BY DEF Read
<1>2. /\ Head(pipe) \in Told(used.calls) /\ Tail(pipe) \in Seq(Told(used.calls))
      /\ pipe = <<Head(pipe)>> \o Tail(pipe)
  BY <1>1, HeadAndTail DEF Typed, WorkerTyped
<1>3. PICK h \in Events, t \in Seq(Events), w \in Seq(Events) :
         h = Head(pipe) /\ t = Tail(pipe) /\ w = wire[c]
  <2>1. used.calls \subseteq used.calls /\ wire[c] \in Seq(OnChannel(c, used.calls))
    BY DEF Typed, WireTyped
  <2>2. /\ Told(used.calls) \subseteq Events /\ Seq(Told(used.calls)) \subseteq Seq(Events)
        /\ Seq(OnChannel(c, used.calls)) \subseteq Seq(Events)
    BY <2>1, ToldGrows
  <2> QED BY <1>2, <2>1, <2>2
<1>4. Coming(c) = w \o (<<h>> \o t)
  BY <1>2, <1>3 DEF Coming
<1>5. CASE ChannelOf(h.type) = c
  <2>1. wire'[c] = w \o <<h>>
    BY <1>1, <1>2, <1>3, <1>5, PublishTyped
  <2>2. <<h>> \in Seq(Events)
    OBVIOUS
  <2>3. (w \o <<h>>) \o t = w \o (<<h>> \o t)
    BY <2>2, ConcatAssociative
  <2>4. Coming(c)' = Coming(c)
    BY <1>1, <1>3, <1>4, <2>1, <2>3 DEF Coming
  <2> QED BY <2>4 DEF Middle
<1>6. CASE ChannelOf(h.type) # c
  <2>1. wire'[c] = w
    BY <1>1, <1>2, <1>3, <1>6, PublishTyped
  <2>2. Coming(c)' = w \o t
    BY <1>1, <1>3, <2>1 DEF Coming
  <2>3. Middle(w \o (<<h>> \o t), w \o t, h)
    BY DEF Middle
  <2> QED BY <1>4, <1>6, <2>2, <2>3
<1> QED BY <1>5, <1>6

\* A seal is published behind what is on the wire and before what is in the pipe.
LEMMA SealComing ==
    ASSUME Typed, NEW e \in Told(used.calls), Publish(e), pipe' = pipe, NEW c \in Channels
    PROVE  \E old, new : old = Coming(c) /\ new = Coming(c)' /\ Middle(old, new, e)
<1>1. PICK t \in Seq(Events), w \in Seq(Events) : t = pipe /\ w = wire[c]
  <2>1. used.calls \subseteq used.calls /\ wire[c] \in Seq(OnChannel(c, used.calls))
    BY DEF Typed, WireTyped
  <2>2. /\ Seq(Told(used.calls)) \subseteq Seq(Events)
        /\ Seq(OnChannel(c, used.calls)) \subseteq Seq(Events)
    BY <2>1, ToldGrows
  <2> QED BY <2>1, <2>2 DEF Typed, WorkerTyped
<1>2. Coming(c) = w \o t
  BY <1>1 DEF Coming
<1>3. CASE ChannelOf(e.type) = c
  <2>1. wire'[c] = w \o <<e>>
    BY <1>1, <1>3, PublishTyped
  <2>2. Coming(c)' = (w \o <<e>>) \o t
    BY <1>1, <2>1 DEF Coming
  <2>3. Middle(w \o t, (w \o <<e>>) \o t, e)
    BY DEF Middle
  <2> QED BY <1>2, <2>2, <2>3
<1>4. CASE ChannelOf(e.type) # c
  <2>1. wire'[c] = w
    BY <1>1, <1>4, PublishTyped
  <2>2. Coming(c)' = Coming(c)
    BY <1>1, <1>2, <2>1 DEF Coming
  <2> QED BY <2>2 DEF Middle
<1> QED BY <1>3, <1>4

\* A delivery takes the first of what comes.
LEMMA DeliverComing ==
    ASSUME Typed, NEW channel \in Channels, Deliver(channel)
    PROVE  /\ \A c \in Channels \ {channel} : Coming(c)' = Coming(c)
           /\ \E h \in OnChannel(channel, used.calls) : \E old, new \in Seq(Events) :
                 /\ h = Head(wire[channel]) /\ h \in Events
                 /\ old = Coming(channel) /\ new = Coming(channel)'
                 /\ old = <<h>> \o new
<1>1. /\ Head(wire[channel]) \in OnChannel(channel, used.calls)
      /\ wire[channel] # <<>> /\ wire'[channel] = Tail(wire[channel])
      /\ \A c \in Channels \ {channel} : wire'[c] = wire[c]
  BY Delivered1
<1>2. pipe' = pipe
  BY DEF Deliver
<1>3. PICK h \in Events, p \in Seq(Events), t \in Seq(Events) :
         /\ h \in OnChannel(channel, used.calls)
         /\ h = Head(wire[channel]) /\ t = Tail(wire[channel]) /\ wire[channel] = <<h>> \o t
         /\ p = pipe
  <2>1. used.calls \subseteq used.calls /\ wire[channel] \in Seq(OnChannel(channel, used.calls))
    BY DEF Typed, WireTyped
  <2>2. /\ Seq(Told(used.calls)) \subseteq Seq(Events)
        /\ Seq(OnChannel(channel, used.calls)) \subseteq Seq(Events)
        /\ Told(used.calls) \subseteq Events
    BY <2>1, ToldGrows
  <2>3. wire[channel] \in Seq(Events)
    BY <2>1, <2>2
  <2>4. /\ Head(wire[channel]) \in Events /\ Tail(wire[channel]) \in Seq(Events)
        /\ wire[channel] = <<Head(wire[channel])>> \o Tail(wire[channel])
    BY <1>1, <2>3, HeadAndTail
  <2> QED BY <1>1, <2>2, <2>4 DEF Typed, WorkerTyped
<1>4. Coming(channel) = (<<h>> \o t) \o p /\ Coming(channel)' = t \o p
  BY <1>1, <1>2, <1>3 DEF Coming
<1>5. (<<h>> \o t) \o p = <<h>> \o (t \o p)
  <2>1. <<h>> \in Seq(Events)
    OBVIOUS
  <2> QED BY <2>1, ConcatAssociative
<1>6. t \o p \in Seq(Events) /\ <<h>> \o (t \o p) \in Seq(Events)
  <2>1. t \o p \in Seq(Events) /\ <<h>> \in Seq(Events)
    BY ConcatProperties
  <2> QED BY <2>1, ConcatProperties
<1>7. \A c \in Channels \ {channel} : Coming(c)' = Coming(c)
  BY <1>1, <1>2 DEF Coming
<1> QED BY <1>3, <1>4, <1>5, <1>6, <1>7

\* What comes is the same but for an event that is let in or out of its middle: one of
\* another channel, or a seal that the shell's prompts are swept with.
Passes ==
    /\ worker' = worker /\ shell' = shell /\ swept \subseteq swept'
    /\ \A c \in Channels :
          \E h \in Events : \E old, new :
             /\ old = Coming(c) /\ new = Coming(c)' /\ Middle(old, new, h)
             /\ \/ new = old
                \/ ChannelOf(h.type) # c
                \/ /\ h.type \in {"TurnEnded", "ToolFinished", "AskResolved"}
                   /\ h.id \in Calls => h.id \in swept'

LEMMA OtherWays ==
    ASSUME Typed, WorkersAreSound, SealsOnlyOrphans,
           \/ WorkerDies \/ ReaderNext \/ RegistryNext \/ Bootstrap \/ BootstrapSeals \/ ShellNext
    PROVE  \/ worker'.stage = "idle"
           \/ Passes
           \/ worker' = worker /\ \E channel \in Channels : Deliver(channel)
<1>1. ASSUME UNCHANGED <<worker, shell, swept, pipe, wire>> PROVE Passes
  <2>1. E("Ready", NoCall) \in Events
    BY EventIsTyped DEF EventTypes, Ids
  <2>2. \A c \in Channels : Coming(c)' = Coming(c)
    BY <1>1 DEF Coming
  <2>3. \A old : Middle(old, old, E("Ready", NoCall))
    BY DEF Middle
  <2> QED BY <1>1, <2>1, <2>2, <2>3 DEF Passes
<1>2. CASE WorkerDies \/ Spawn
  BY <1>2, ConstantsTyped DEF WorkerDies, Spawn
<1>3. CASE Observe \/ Disconnect \/ Bootstrap \/ SendMessage \/ Answer \/ Stop
  <2>1. UNCHANGED <<worker, shell, swept, pipe, wire>>
    BY <1>3 DEF Observe, Disconnect, Bootstrap, SendMessage, Answer, Stop, Click, UserVars, workerVars
  <2> QED BY <1>1, <2>1
<1>4. CASE TakeCommand \/ FindDead \/ Write \/ Join \/ SpawnFails \/ Sealed
  <2>1. UNCHANGED <<worker, shell, swept, pipe, wire>>
    BY <1>4 DEF TakeCommand, FindDead, Write, Join, SpawnFails, Sealed, workerVars
  <2> QED BY <1>1, <2>1
<1>5. CASE RegistrySeals
  BY <1>5 DEF RegistrySeals, SealsOnlyOrphans, workerVars
<1>6. CASE Read
  <2>1. UNCHANGED <<worker, shell, swept>>
    BY <1>6 DEF Read, workerVars
  <2>2. \A c \in Channels :
           \E h \in Events : \E old, new :
              /\ old = Coming(c) /\ new = Coming(c)' /\ Middle(old, new, h)
              /\ new = old \/ ChannelOf(h.type) # c
    BY <1>6, ReadComing
  <2> QED BY <2>1, <2>2 DEF Passes
<1>7. CASE BootstrapSeals
  <2>1. UNCHANGED <<worker, shell, pipe>>
    BY <1>7 DEF BootstrapSeals, workerVars
  <2>2. CASE Look(bootstrap) /\ UNCHANGED swept
    BY <1>1, <2>1, <2>2 DEF Look
  <2>3. CASE PublishSeal(bootstrap) /\ swept' = swept \cup (bootstrap.found \cap Calls)
    <3>1. bootstrap \in Bootstraps /\ FindsMade(bootstrap, used.calls)
      BY DEF Typed, DaemonTyped
    <3>2. bootstrap.found # {}
      BY <2>3 DEF PublishSeal
    <3>3. bootstrap.seals # <<>>
      BY <3>1, <3>2 DEF FindsMade
    <3>4. PICK e \in Told(used.calls) :
             /\ Publish(e) /\ e.type \in {"TurnEnded", "ToolFinished", "AskResolved"}
             /\ e.id \in bootstrap.found
      BY <2>3, <3>1, <3>3, SealPublishes
    <3>5. e \in Events /\ (e.id \in Calls => e.id \in swept')
      BY <2>3, <3>4 DEF Told
    <3>6. ASSUME NEW c \in Channels
          PROVE  \E old, new : old = Coming(c) /\ new = Coming(c)' /\ Middle(old, new, e)
      BY <2>1, <3>4, SealComing
    <3> QED BY <2>1, <2>3, <3>4, <3>5, <3>6 DEF Passes
  <2> QED BY <1>7, <2>2, <2>3 DEF BootstrapSeals
<1>8. ASSUME NEW channel \in Channels, Deliver(channel)
      PROVE  worker' = worker /\ \E c \in Channels : Deliver(c)
  BY <1>8 DEF Deliver, workerVars
<1> QED BY <1>2, <1>3, <1>4, <1>5, <1>6, <1>7, <1>8 DEF ReaderNext, RegistryNext, ShellNext

LEMMA PassesKeepsPermissions ==
    ASSUME Typed, PermissionsAreComing, Passes
    PROVE  PermissionsAreComing'
<1> SUFFICES ASSUME NEW p \in worker.round.permissions, p \notin swept'
             PROVE  PermissionIsComing(p)'
  BY DEF Passes, PermissionsAreComing
<1>1. p \in Calls /\ p \notin swept
  BY DEF Passes, Typed, WorkerTyped, Workers, Rounds
<1>2. PICK h \in Events : \E old, new :
         /\ old = Coming("tool") /\ new = Coming("tool")' /\ Middle(old, new, h)
         /\ \/ new = old
            \/ ChannelOf(h.type) # "tool"
            \/ /\ h.type \in {"TurnEnded", "ToolFinished", "AskResolved"}
               /\ h.id \in Calls => h.id \in swept'
  BY DEF Passes, Channels
<1>3. PICK old, new :
         /\ old = Coming("tool") /\ new = Coming("tool")' /\ Middle(old, new, h)
         /\ \/ new = old
            \/ ChannelOf(h.type) # "tool"
            \/ /\ h.type \in {"TurnEnded", "ToolFinished", "AskResolved"}
               /\ h.id \in Calls => h.id \in swept'
  BY <1>2
<1>4. \/ new = old
      \/ h # E("ToolFinished", p) /\ h # E("PermissionRequested", p)
  BY <1>1, <1>3 DEF ChannelOf, E
<1>5. Middle(old, new, h)
  BY <1>3
<1>6. /\ In(E("ToolFinished", p), new) <=> In(E("ToolFinished", p), old)
      /\ In(E("PermissionRequested", p), new) <=> In(E("PermissionRequested", p), old)
  <2>1. \A e : h # e => (In(e, new) <=> In(e, old))
    BY <1>5, MiddleIsSame
  <2> QED BY <1>4, <2>1
<1>7. PermissionIsComing(p) /\ shell' = shell
  BY <1>1 DEF Passes, PermissionsAreComing
<1> QED BY <1>3, <1>6, <1>7 DEF PermissionIsComing

LEMMA PassesKeepsAsks ==
    ASSUME Typed, AsksAreOpen, ActiveAskIsComing, RoundIsSound, Passes
    PROVE  AsksAreOpen' /\ ActiveAskIsComing'
<1> DEFINE Requested == {"AskRequested"}
<1>1. PICK h \in Events : \E old, new :
         /\ old = Coming("control") /\ new = Coming("control")' /\ Middle(old, new, h)
         /\ \/ new = old
            \/ ChannelOf(h.type) # "control"
            \/ /\ h.type \in {"TurnEnded", "ToolFinished", "AskResolved"}
               /\ h.id \in Calls => h.id \in swept'
  BY DEF Passes, Channels
<1>2. PICK old, new :
         /\ old = Coming("control") /\ new = Coming("control")' /\ Middle(old, new, h)
         /\ \/ new = old
            \/ ChannelOf(h.type) # "control"
            \/ /\ h.type \in {"TurnEnded", "ToolFinished", "AskResolved"}
               /\ h.id \in Calls => h.id \in swept'
  BY <1>1
<1>3. worker' = worker /\ shell' = shell /\ swept \subseteq swept'
  BY DEF Passes
<1>4. Middle(old, new, h)
  BY <1>2
<1>5. \A e : h # e => (In(e, new) <=> In(e, old))
  BY <1>4, MiddleIsSame
<1>6. ASSUME NEW a \in ToSet(worker.round.asks), a \notin swept'
      PROVE  ~In(E("AskResolved", a), Coming("control")')
  <2>1. a \in Calls /\ a \notin swept
    BY <1>3, <1>6 DEF RoundIsSound, Typed, WorkerTyped, Workers, Rounds
  <2>2. new = old \/ h # E("AskResolved", a)
    BY <1>2, <1>6, <2>1 DEF ChannelOf, E
  <2>3. In(E("AskResolved", a), new) <=> In(E("AskResolved", a), old)
    BY <1>5, <2>2
  <2>4. ~In(E("AskResolved", a), old)
    BY <1>2, <2>1 DEF AsksAreOpen
  <2> QED BY <1>2, <2>3, <2>4
<1>7. AsksAreOpen'
  BY <1>3, <1>6 DEF AsksAreOpen
<1>8. ASSUME NEW a, AskIsComing(a) PROVE AskIsComing(a)'
  <2> DEFINE request == E("AskRequested", a)
  <2>1. new = old \/ h.type \notin Requested
    BY <1>2 DEF ChannelOf
  <2>2. request.type \in Requested
    BY DEF E
  <2> HIDE DEF request, Requested
  <2>3. \A T, e : h.type \notin T /\ e.type \in T =>
                 /\ NoneOf(new, T) <=> NoneOf(old, T)
                 /\ LastOf(new, T, e) <=> LastOf(old, T, e)
    BY <1>4, MiddleIsSame
  <2>4. /\ NoneOf(new, Requested) <=> NoneOf(old, Requested)
        /\ LastOf(new, Requested, request) <=> LastOf(old, Requested, request)
    BY <2>1, <2>2, <2>3
  <2>5. LastOf(old, Requested, request) \/ (NoneOf(old, Requested) /\ shell.ask = a)
    BY <1>2, <1>8 DEF AskIsComing, Requested, request
  <2>6. LastOf(new, Requested, request) \/ (NoneOf(new, Requested) /\ shell'.ask = a)
    BY <1>3, <2>4, <2>5
  <2> QED BY <1>2, <2>6 DEF AskIsComing, Requested, request
<1>9. ActiveAskIsComing'
  BY <1>3, <1>8 DEF ActiveAskIsComing
<1> QED BY <1>7, <1>9

\* What a delivery takes from its channel.
LEMMA DeliverTakes ==
    ASSUME Typed, NEW channel \in Channels, Deliver(channel)
    PROVE  \E h \in Events : \E old, new \in Seq(Events) :
              /\ ChannelOf(h.type) = channel /\ shell' = View(shell, h)
              /\ swept' = IF h.type = "Rejected" THEN swept \cup ({shell.ask} \ {NoCall}) ELSE swept
              /\ old = Coming(channel) /\ new = Coming(channel)' /\ old = <<h>> \o new
              /\ \A c \in Channels \ {channel} : Coming(c)' = Coming(c)
<1>1. PICK h \in OnChannel(channel, used.calls) : \E old, new \in Seq(Events) :
         /\ h = Head(wire[channel]) /\ h \in Events
         /\ old = Coming(channel) /\ new = Coming(channel)'
         /\ old = <<h>> \o new
  BY DeliverComing
<1>2. ChannelOf(h.type) = channel
  BY DEF OnChannel
<1>3. /\ shell' = View(shell, h)
      /\ swept' = IF h.type = "Rejected" THEN swept \cup ({shell.ask} \ {NoCall}) ELSE swept
  BY <1>1 DEF Deliver
<1>4. \A c \in Channels \ {channel} : Coming(c)' = Coming(c)
  BY DeliverComing
<1> QED BY <1>1, <1>2, <1>3, <1>4

LEMMA DeliverKeepsPermissions ==
    ASSUME Typed, PermissionsAreComing, worker' = worker, NEW channel \in Channels, Deliver(channel)
    PROVE  PermissionsAreComing'
<1> SUFFICES ASSUME NEW p \in worker.round.permissions, p \notin swept'
             PROVE  PermissionIsComing(p)'
  BY DEF PermissionsAreComing
<1>1. PICK h \in Events, old \in Seq(Events), new \in Seq(Events) :
         /\ ChannelOf(h.type) = channel /\ shell' = View(shell, h)
         /\ swept' = IF h.type = "Rejected" THEN swept \cup ({shell.ask} \ {NoCall}) ELSE swept
         /\ old = Coming(channel) /\ new = Coming(channel)' /\ old = <<h>> \o new
         /\ \A c \in Channels \ {channel} : Coming(c)' = Coming(c)
  BY DeliverTakes
<1>0. old = <<h>> \o new /\ <<h>> \in Seq(Events)
  BY <1>1
<1>2. PermissionIsComing(p)
  BY <1>1 DEF PermissionsAreComing
<1>3. shell \in Shells
  BY DEF Typed, ShellTyped
<1> DEFINE asked == E("PermissionRequested", p)
           done == E("ToolFinished", p)
<1>4. done.type = "ToolFinished" /\ asked.type = "PermissionRequested"
  BY DEF E
<1> HIDE DEF asked, done
<1>5. CASE channel = "tool"
  <2>1. ~In(done, old) /\ (In(asked, old) \/ p \in ToSet(shell.permissions))
    BY <1>1, <1>2, <1>5 DEF PermissionIsComing, asked, done
  <2>2. In(done, old) <=> In(done, <<h>>) \/ In(done, new)
    BY <1>0, InConcat
  <2>3. In(asked, old) <=> In(asked, <<h>>) \/ In(asked, new)
    BY <1>0, InConcat
  <2>4. (In(done, <<h>>) <=> h = done) /\ (In(asked, <<h>>) <=> h = asked)
    BY OfOne
  <2>5. /\ p \in ToSet(shell.permissions) => p \in ToSet(View(shell, h).permissions)
        /\ h = asked => p \in ToSet(View(shell, h).permissions)
    BY <1>3, <2>1, <2>2, <2>4, ViewOfPermissions DEF asked, done
  <2>6. ~In(done, new) /\ (In(asked, new) \/ p \in ToSet(View(shell, h).permissions))
    BY <2>1, <2>2, <2>3, <2>4, <2>5
  <2> QED BY <1>1, <1>5, <2>6 DEF PermissionIsComing, asked, done
<1>6. CASE channel # "tool"
  <2>1. h # done
    BY <1>1, <1>4, <1>6 DEF ChannelOf
  <2>2. p \in ToSet(shell.permissions) => p \in ToSet(View(shell, h).permissions)
    BY <1>3, <2>1, ViewOfPermissions DEF done
  <2>3. Coming("tool")' = Coming("tool")
    BY <1>1, <1>6 DEF Channels
  <2> QED BY <1>1, <1>2, <2>2, <2>3 DEF PermissionIsComing
<1> QED BY <1>5, <1>6

LEMMA DeliverKeepsAsks ==
    ASSUME Typed, AsksAreOpen, worker' = worker, NEW channel \in Channels, Deliver(channel)
    PROVE  AsksAreOpen'
<1>1. PICK h \in Events, old \in Seq(Events), new \in Seq(Events) :
         /\ ChannelOf(h.type) = channel /\ shell' = View(shell, h)
         /\ swept' = IF h.type = "Rejected" THEN swept \cup ({shell.ask} \ {NoCall}) ELSE swept
         /\ old = Coming(channel) /\ new = Coming(channel)' /\ old = <<h>> \o new
         /\ \A c \in Channels \ {channel} : Coming(c)' = Coming(c)
  BY DeliverTakes
<1>0. old = <<h>> \o new /\ <<h>> \in Seq(Events)
  BY <1>1
<1>2. ASSUME NEW e, In(e, new) PROVE In(e, old)
  BY <1>0, <1>2, InConcat
<1>3. ASSUME NEW e, In(e, Coming("control")') PROVE In(e, Coming("control"))
  BY <1>1, <1>2, <1>3 DEF Channels
<1>4. swept \subseteq swept'
  BY <1>1
<1> QED BY <1>3, <1>4 DEF AsksAreOpen

LEMMA DeliverKeepsActiveAsk ==
    ASSUME Typed, RoundIsSound, AsksAreOpen, ActiveAskIsComing, worker' = worker,
           NEW channel \in Channels, Deliver(channel)
    PROVE  ActiveAskIsComing'
<1>1. PICK h \in Events, old \in Seq(Events), new \in Seq(Events) :
         /\ ChannelOf(h.type) = channel /\ shell' = View(shell, h)
         /\ swept' = IF h.type = "Rejected" THEN swept \cup ({shell.ask} \ {NoCall}) ELSE swept
         /\ old = Coming(channel) /\ new = Coming(channel)' /\ old = <<h>> \o new
         /\ \A c \in Channels \ {channel} : Coming(c)' = Coming(c)
  BY DeliverTakes
<1>0. old = <<h>> \o new /\ <<h>> \in Seq(Events)
  BY <1>1
<1> SUFFICES ASSUME worker.stage = "waiting", worker.round.permissions = {},
                    Head(worker.round.asks) \notin swept'
             PROVE  AskIsComing(Head(worker.round.asks))'
  BY DEF ActiveAskIsComing
<1>2. /\ worker.round.asks \in Seq(Calls) /\ worker.round.asks # <<>>
      /\ Head(worker.round.asks) \in Calls /\ Head(worker.round.asks) \in ToSet(worker.round.asks)
  <2>1. worker.round.asks \in Seq(Calls) /\ worker.round.asks # <<>>
    BY DEF RoundIsSound, Typed, WorkerTyped, Workers, Rounds
  <2> QED BY <2>1, HeadTailProperties, EmptySeq DEF ToSet
<1>3. PICK a \in Calls : a = Head(worker.round.asks)
  BY <1>2
<1>4. a \notin swept' /\ a \notin swept /\ AskIsComing(a)
  BY <1>1, <1>3 DEF ActiveAskIsComing
<1>5. ~In(E("AskResolved", a), Coming("control"))
  BY <1>2, <1>3, <1>4 DEF AsksAreOpen
<1>6. shell \in Shells
  BY DEF Typed, ShellTyped
<1> DEFINE asked == E("AskRequested", a)
           done == E("AskResolved", a)
           Requested == {"AskRequested"}
<1>7. done.type = "AskResolved" /\ asked.type = "AskRequested" /\ done # asked
  BY DEF E
<1>8. /\ h = asked => View(shell, h).ask = a
      /\ shell.ask = a /\ h.type \notin {"AskRequested", "Rejected"} /\ h # done => View(shell, h).ask = a
  BY <1>6, ViewOfAsk
<1> HIDE DEF asked, done, Requested
<1>9. CASE channel = "control"
  <2>1. ~In(done, old) /\ (LastOf(old, Requested, asked) \/ (NoneOf(old, Requested) /\ shell.ask = a))
    BY <1>1, <1>4, <1>5, <1>9 DEF AskIsComing, asked, done, Requested
  <2>2. h # done
    <3>1. In(done, <<h>>) => In(done, old)
      BY <1>0, InConcat
    <3>2. In(done, <<h>>) <=> h = done
      BY OfOne
    <3> QED BY <2>1, <3>1, <3>2
  <2>3. CASE LastOf(old, Requested, asked)
    <3>1. LastOf(new, Requested, asked) \/ (NoneOf(new, Requested) /\ LastOf(<<h>>, Requested, asked))
      BY <1>0, <2>3, LastOfConcat
    <3>2. LastOf(<<h>>, Requested, asked) <=> h = asked
      BY OfOne
    <3>3. LastOf(new, Requested, asked) \/ (NoneOf(new, Requested) /\ View(shell, h).ask = a)
      BY <1>8, <3>1, <3>2
    <3> QED BY <1>1, <1>3, <1>9, <3>3 DEF AskIsComing, asked, Requested
  <2>4. CASE NoneOf(old, Requested) /\ shell.ask = a
    <3>1. NoneOf(<<h>>, Requested) /\ NoneOf(new, Requested)
      BY <1>0, <2>4, NoneOfConcat
    <3>2. NoneOf(<<h>>, Requested) <=> h.type \notin Requested
      BY OfOne
    <3>3. h.type # "AskRequested"
      BY <3>1, <3>2 DEF Requested
    <3>4. h.type # "Rejected"
      BY <1>1, <1>4, <2>4, Constants
    <3>5. View(shell, h).ask = a
      BY <1>8, <2>2, <2>4, <3>3, <3>4
    <3> QED BY <1>1, <1>3, <1>9, <3>1, <3>5 DEF AskIsComing, Requested
  <2> QED BY <2>1, <2>3, <2>4
<1>10. CASE channel # "control"
  <2>1. h # done /\ h.type \notin {"AskRequested", "Rejected"}
    BY <1>1, <1>7, <1>10 DEF ChannelOf
  <2>2. shell.ask = a => shell'.ask = a
    BY <1>1, <1>8, <2>1
  <2>3. Coming("control")' = Coming("control")
    BY <1>1, <1>10 DEF Channels
  <2> QED BY <1>3, <1>4, <2>2, <2>3 DEF AskIsComing
<1> QED BY <1>9, <1>10

\* Together: the steps that are not the worker's.
LEMMA OthersKeepPrompts ==
    ASSUME Typed, WorkersAreSound, SealsOnlyOrphans, RoundIsSound, RoundIsSound',
           PermissionsAreComing, AsksAreOpen, ActiveAskIsComing,
           \/ WorkerDies \/ ReaderNext \/ RegistryNext \/ Bootstrap \/ BootstrapSeals \/ ShellNext
    PROVE  PermissionsAreComing' /\ AsksAreOpen' /\ ActiveAskIsComing'
<1>1. ASSUME worker'.stage = "idle" PROVE PermissionsAreComing' /\ AsksAreOpen' /\ ActiveAskIsComing'
  <2>1. worker'.round.permissions = {} /\ ToSet(worker'.round.asks) = {}
    BY <1>1 DEF RoundIsSound, NoRound, ToSet
  <2> QED BY <1>1, <2>1 DEF PermissionsAreComing, AsksAreOpen, ActiveAskIsComing
<1>2. ASSUME Passes PROVE PermissionsAreComing' /\ AsksAreOpen' /\ ActiveAskIsComing'
  BY <1>2, PassesKeepsPermissions, PassesKeepsAsks
<1>3. ASSUME worker' = worker, NEW channel \in Channels, Deliver(channel)
      PROVE  PermissionsAreComing' /\ AsksAreOpen' /\ ActiveAskIsComing'
  BY <1>3, DeliverKeepsPermissions, DeliverKeepsAsks, DeliverKeepsActiveAsk
<1> QED BY <1>1, <1>2, <1>3, OtherWays

----------------------------------------------------------------------------
(* The invariant holds.                                                    *)

LEMMA InitInvariant == Init => IInv
<1> SUFFICES ASSUME Init PROVE IInv
  OBVIOUS
<1> USE DEF Init
<1>1. /\ worker \in Workers /\ worker.stage = "idle" /\ worker.round = NoRound /\ ~worker.alive
      /\ FreeRegistry \in Registries /\ FindsMade(registry, {})
  BY ConstantsTyped
<1>2. /\ NoRound.permissions = {} /\ NoRound.approved = {} /\ NoRound.asks = <<>>
      /\ NoRound.calls = {} /\ ToSet(<<>>) = {} /\ IsInjective(<<>>)
  BY DEF NoRound, ToSet, IsInjective
<1>3. WorkerTyped
  BY <1>1, EmptySeq DEF WorkerTyped
<1>4. ReaderTyped
  BY DEF ReaderTyped, Readers
<1>5. DaemonTyped
  <2>1. bootstrap \in Bootstraps /\ FindsMade(bootstrap, {})
    BY EmptySeq DEF Bootstraps, FindsMade
  <2>2. projection \in Projections({}) /\ activity \in Activities
    BY DEF Projections, Activities, States, Ids
  <2> QED BY <1>1, <2>1, <2>2 DEF DaemonTyped
<1>6. WireTyped
  <2>1. /\ DOMAIN wire = Channels /\ wire = [c \in Channels |-> wire[c]]
        /\ \A c \in Channels : wire[c] = <<>>
    OBVIOUS
  <2> QED BY <2>1, EmptySeq DEF WireTyped
<1>7. ShellTyped
  BY EmptySeq DEF ShellTyped, Shells, Ids, Counts
<1>8. WorkersAreSound /\ SealsOnlyOrphans
  BY <1>1 DEF WorkersAreSound, SealsOnlyOrphans, FreeRegistry
<1>9. RoundIsSound
  BY <1>1, <1>2 DEF RoundIsSound
<1>10. WorkIsAnnounced /\ PermissionsAreComing /\ AsksAreOpen /\ ActiveAskIsComing
  BY <1>1, <1>2 DEF WorkIsAnnounced, PermissionsAreComing, AsksAreOpen, ActiveAskIsComing
<1> QED BY <1>3, <1>4, <1>5, <1>6, <1>7, <1>8, <1>9, <1>10 DEF IInv, Typed

LEMMA NextInvariant == IInv /\ [Next]_vars => IInv'
<1> SUFFICES ASSUME IInv, [Next]_vars PROVE IInv'
  OBVIOUS
<1> USE DEF IInv
<1>1. CASE UNCHANGED vars
  <2>1. UNCHANGED <<worker, inbox, pipe, reader, registry, instance, bootstrap, projection, activity,
                    wire, shell, commands, used, swept>>
    BY <1>1 DEF vars, workerVars, daemonVars
  <2>2. Typed'
    BY <2>1 DEF Typed, WorkerTyped, ReaderTyped, DaemonTyped, WireTyped, ShellTyped
  <2>3. WorkersAreSound' /\ SealsOnlyOrphans' /\ RoundIsSound'
    BY <2>1 DEF WorkersAreSound, SealsOnlyOrphans, RoundIsSound
  <2>4. WorkIsAnnounced' /\ \A c : Coming(c)' = Coming(c)
    BY <2>1 DEF WorkIsAnnounced, Pending, Coming
  <2>5. PermissionsAreComing'
    BY <2>1, <2>4 DEF PermissionsAreComing, PermissionIsComing
  <2>6. AsksAreOpen' /\ ActiveAskIsComing'
    BY <2>1, <2>4 DEF AsksAreOpen, ActiveAskIsComing, AskIsComing
  <2> QED BY <2>2, <2>3, <2>4, <2>5, <2>6
<1>2. CASE WorkerSteps
  <2>1. PICK evs : Starts(evs) \/ Ends(evs) \/ Suspends(evs) \/ Notes(evs) \/ Resumes(evs) \/ AsksNext(evs)
    BY <1>2 DEF WorkerSteps
  <2>2. Says(evs)
    BY <2>1 DEF Starts, Ends, Suspends, Notes, Resumes, AsksNext
  <2>3. Typed'
    BY <2>2, SaysTyped
  <2> QED BY <1>2, <2>3, WorkerKeepsWorkers, WorkerKeepsRound, WorkerKeepsAnnounced,
             WorkerKeepsPermissions, WorkerKeepsAsks, WorkerKeepsActiveAsk
<1>3. CASE WorkerDies \/ ReaderNext \/ RegistryNext \/ Bootstrap \/ BootstrapSeals \/ ShellNext
  <2>1. Typed'
    BY <1>3, DeathKeepsTypes, ReaderKeepsTypes, RegistryKeepsTypes, BootstrapKeepsTypes, ShellKeepsTypes
  <2>2. WorkersAreSound' /\ SealsOnlyOrphans' /\ RoundIsSound'
    BY <1>3, OthersKeepWorkers
  <2>3. WorkIsAnnounced'
    BY <1>3, OthersKeepAnnounced
  <2>4. PermissionsAreComing' /\ AsksAreOpen' /\ ActiveAskIsComing'
    BY <1>3, <2>2, OthersKeepPrompts
  <2> QED BY <2>1, <2>2, <2>3, <2>4
<1>4. WorkerNext => WorkerSteps \/ WorkerDies
  BY WorkerStep
<1> QED BY <1>1, <1>2, <1>3, <1>4 DEF Next

LEMMA Invariant == Spec => []IInv
<1> QED BY InitInvariant, NextInvariant, PTL DEF Spec

----------------------------------------------------------------------------
(* The theorems.                                                           *)

\* While the registry seals what a worker left behind (seal_orphan_channel_state in
\* send_ringing and respawn_dead_agents), the worker that took its place has no turn
\* and no command: no turn that runs is ever declared ended by a seal.
THEOREM OnlyOrphansAreSealed == Spec => []SealsOnlyOrphans
<1>1. IInv => SealsOnlyOrphans
  BY DEF IInv
<1> QED BY <1>1, Invariant, PTL

\* A worker with a turn, running or suspended, is seen as active by
\* SessionActivityTracker as soon as its events have been read: whatever deaths,
\* restarts and compactions came between, the daemon is not stopped over its work.
THEOREM WorkCannotLookIdle == Spec => []WorkIsSeen
<1>1. IInv => WorkIsSeen
  <2> SUFFICES ASSUME IInv, worker.stage # "idle", AllRead
               PROVE  activity.state \in {"Working", "WaitingUser"}
    BY DEF WorkIsSeen
  <2>1. Pending = <<>>
    BY DEF AllRead, Pending
  <2>2. ~LastOf(<<>>, Boundaries, E("TurnStarted", worker.turn))
    BY DEF LastOf
  <2> QED BY <2>1, <2>2 DEF IInv, WorkIsAnnounced
<1> QED BY <1>1, Invariant, PTL

\* When every event has been read and delivered, the shell shows each permission the
\* worker waits for (InteractionMachine), and the question it waits for is the one
\* that is up, unless a bootstrap or the refusal of another answer swept it away.
THEOREM PromptsAreShown == Spec => []PromptsReachTheShell
<1>1. IInv => PromptsReachTheShell
  <2> SUFFICES ASSUME IInv, worker.stage = "waiting", Delivered
               PROVE  /\ worker.round.permissions \subseteq ToSet(shell.permissions) \cup swept
                      /\ worker.round.permissions = {}
                            => Head(worker.round.asks) \in {shell.ask} \cup swept
    BY DEF PromptsReachTheShell
  <2>1. Coming("tool") = <<>> /\ Coming("control") = <<>>
    <3>1. pipe = <<>> /\ wire["tool"] = <<>> /\ wire["control"] = <<>>
      BY DEF Delivered, AllRead, Channels
    <3> QED BY <3>1 DEF Coming
  <2>2. \A e : ~In(e, <<>>)
    BY DEF In
  <2>3. \A T, e : ~LastOf(<<>>, T, e)
    BY DEF LastOf
  <2>4. worker.round.permissions \subseteq ToSet(shell.permissions) \cup swept
    BY <2>1, <2>2 DEF IInv, PermissionsAreComing, PermissionIsComing
  <2>5. ASSUME worker.round.permissions = {}
        PROVE  Head(worker.round.asks) \in {shell.ask} \cup swept
    BY <2>1, <2>3, <2>5 DEF IInv, ActiveAskIsComing, AskIsComing
  <2> QED BY <2>4, <2>5
<1> QED BY <1>1, Invariant, PTL
=============================================================================
