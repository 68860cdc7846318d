------------------------- MODULE CommandReceiptsProofs -------------------------
(***************************************************************************)
(* Proofs about the commands posted to the daemon (CommandReceipts), for   *)
(* every number of ids, requests, records, sessions and faults: a command  *)
(* is given to a worker under one acceptance at most, the store keeps its  *)
(* bound, and a receipt without a result has one coming.                   *)
(***************************************************************************)
EXTENDS CommandReceipts, FiniteSetTheorems, WellFoundedInduction, TLAPS

----------------------------------------------------------------------------
(* The inductive invariant.                                                *)

Job == [id : Ids, tool : BOOLEAN]
Event == Ids \X Outcomes

RequestRecord ==
    [pc : {"leased", "recorded", "sent", "failed", "stopped", "closed", "resumed"},
     id : Ids, payload : Payloads, session : 1 .. MaxSessions, at : 0 .. MaxRecords]

Shapes ==
    /\ IsReceiptMap(accepted) /\ IsReceiptMap(disk)
    /\ clock \in 0 .. MaxRecords /\ horizon \in 0 .. clock
    /\ session \in 0 .. MaxSessions /\ seeds \subseteq 1 .. session
    /\ lease \in {"none", "open", "lapsed"} /\ (lease # "none" => session > 0)
    /\ requests \in [Requests -> {Idle} \cup RequestRecord]
    /\ alive \in BOOLEAN /\ inbox \in Seq(Ids) /\ (job = None \/ job \in Job)
    /\ ~alive => inbox = <<>> /\ job = None
    /\ bus \in [Channels -> Seq(Event)]
    /\ ran \in [Ids -> SUBSET (1 .. clock)]
    /\ evicted \subseteq Ids /\ lost \subseteq Ids

\* The store keeps its bound.
StoreIsBounded ==
    IsFiniteSet(DOMAIN accepted) /\ Cardinality(DOMAIN accepted) <= MaxEntries

\* What a restart loads is what memory had: the receipts that have not expired.
DiskIsCurrent ==
    /\ Live(disk, horizon) = Live(accepted, horizon)
    /\ \A k \in Live(accepted, horizon) : disk[k] = accepted[k]

\* A request that recorded a receipt has it, unless it was evicted, and has run its
\* command only after.
Held(r) == requests[r].pc \notin {"idle", "leased"}

HoldsItsReceipt(r) ==
    LET q == requests[r]
    IN  /\ q.at \in 1 .. clock /\ q.at > horizon
        /\ q.id \notin evicted => q.id \in DOMAIN accepted /\ accepted[q.id].at = q.at
        /\ q.pc \in {"recorded", "failed"} => q.at \notin ran[q.id]

RequestsHold ==
    /\ \A r \in Requests : Held(r) => HoldsItsReceipt(r)
    /\ \A r, s \in Requests : Held(r) /\ Held(s) /\ requests[r].at = requests[s].at => r = s
    /\ \A r \in Requests : requests[r].pc = "leased" => requests[r].at = 0

\* What ran under a receipt that would still count has that receipt.
RanIsReceipted ==
    \A k \in Ids \ evicted : \A at \in ran[k] :
        at > horizon => k \in DOMAIN accepted /\ accepted[k].at = at

\* The worker has the command, or its event is on the way.
InFlight(k) == k \in Working \/ \E c \in Channels : \E i \in DOMAIN bus[c] : bus[c][i][1] = k

SentIsInFlight ==
    \A r \in Requests : \A k \in DOMAIN accepted \ (lost \cup evicted) :
        requests[r].pc = "sent" /\ requests[r].id = k /\ accepted[k].state = "accepted"
        => InFlight(k)

IInv ==
    /\ Shapes
    /\ StoreIsBounded
    /\ DiskIsCurrent
    /\ RequestsHold
    /\ RanIsReceipted
    /\ ResultIsComing
    /\ SentIsInFlight

----------------------------------------------------------------------------
(* The operators.                                                          *)

\* A mark changes the state of one receipt and nothing else.
Marks(m, n, k, state) ==
    /\ IsReceiptMap(n) /\ DOMAIN n = DOMAIN m
    /\ \A j \in DOMAIN m : n[j].at = m[j].at /\ (j # k => n[j] = m[j])
    /\ \A j \in DOMAIN m : n[j] = m[j] \/ n[j].state = state

\* mark_terminal: the receipt has the outcome, whatever it said.
LEMMA MarkTerminalMarks ==
    ASSUME NEW m, IsReceiptMap(m), NEW k, NEW outcome \in Outcomes
    PROVE  /\ Marks(m, MarkTerminal(m, k, outcome), k, outcome)
           /\ k \in DOMAIN m => MarkTerminal(m, k, outcome)[k].state = outcome
<1>1. CASE k \notin DOMAIN m
  BY <1>1 DEF MarkTerminal, Marks
<1>2. CASE k \in DOMAIN m
  <2> DEFINE n == [m EXCEPT ![k].state = outcome]
  <2>1. m[k] \in Receipts /\ \A j \in DOMAIN m : m[j] \in Receipts
    BY <1>2 DEF IsReceiptMap
  <2>2. [m[k] EXCEPT !.state = outcome] \in Receipts
        /\ [m[k] EXCEPT !.state = outcome].at = m[k].at
        /\ [m[k] EXCEPT !.state = outcome].state = outcome
    BY <2>1 DEF Receipts, States
  <2>3. /\ DOMAIN n = DOMAIN m /\ n[k] = [m[k] EXCEPT !.state = outcome]
        /\ \A j \in DOMAIN m \ {k} : n[j] = m[j]
    BY <1>2
  <2>4. MarkTerminal(m, k, outcome) = n
    BY <1>2 DEF MarkTerminal
  <2> HIDE DEF n
  <2>5. IsReceiptMap(n)
    BY <1>2, <2>1, <2>2, <2>3 DEF IsReceiptMap
  <2>6. QED
    BY <1>2, <2>2, <2>3, <2>4, <2>5 DEF Marks
<1>3. QED
  BY <1>1, <1>2

\* mark_running: only of a receipt that is accepted.
LEMMA MarkRunningMarks ==
    ASSUME NEW m, IsReceiptMap(m), NEW k
    PROVE  /\ Marks(m, MarkRunning(m, k), k, "running")
           /\ k \in DOMAIN m => MarkRunning(m, k)[k].state # "accepted"
           /\ k \in DOMAIN m /\ m[k].state # "accepted" => MarkRunning(m, k) = m
<1>1. CASE ~(k \in DOMAIN m /\ m[k].state = "accepted")
  BY <1>1 DEF MarkRunning, Marks
<1>2. CASE k \in DOMAIN m /\ m[k].state = "accepted"
  <2> DEFINE n == [m EXCEPT ![k].state = "running"]
  <2>1. m[k] \in Receipts /\ \A j \in DOMAIN m : m[j] \in Receipts
    BY <1>2 DEF IsReceiptMap
  <2>2. [m[k] EXCEPT !.state = "running"] \in Receipts
        /\ [m[k] EXCEPT !.state = "running"].at = m[k].at
        /\ [m[k] EXCEPT !.state = "running"].state = "running"
    BY <2>1 DEF Receipts, States
  <2>3. /\ DOMAIN n = DOMAIN m /\ n[k] = [m[k] EXCEPT !.state = "running"]
        /\ \A j \in DOMAIN m \ {k} : n[j] = m[j]
    BY <1>2
  <2>4. MarkRunning(m, k) = n
    BY <1>2 DEF MarkRunning
  <2> HIDE DEF n
  <2>5. IsReceiptMap(n)
    BY <1>2, <2>1, <2>2, <2>3 DEF IsReceiptMap
  <2>6. QED
    BY <1>2, <2>2, <2>3, <2>4, <2>5 DEF Marks
<1>3. QED
  BY <1>1, <1>2

\* persist: memory has every receipt, the file those that have not expired.
LEMMA SaveIsCurrent ==
    ASSUME NEW m, IsReceiptMap(m), Save(m), horizon' = horizon
    PROVE  accepted' = m /\ IsReceiptMap(disk)' /\ DiskIsCurrent'
<1>1. /\ accepted' = m /\ DOMAIN disk' = Live(m, horizon)
      /\ \A k \in Live(m, horizon) : disk'[k] = m[k]
  BY DEF Save, Keep
<1>2. Live(m, horizon) \subseteq DOMAIN m /\ \A k \in Live(m, horizon) : m[k].at > horizon
  BY DEF Live
<1>3. IsReceiptMap(disk)'
  BY <1>1, <1>2 DEF IsReceiptMap
<1>4. Live(disk', horizon) = Live(m, horizon)
  BY <1>1, <1>2 DEF Live
<1>5. QED
  BY <1>1, <1>3, <1>4 DEF DiskIsCurrent

\* There is an oldest receipt.
LEMMA SomeVictim ==
    ASSUME NEW m, IsReceiptMap(m), DOMAIN m # {}
    PROVE  Victim(m) \in DOMAIN m
<1> DEFINE T == {m[k].at : k \in DOMAIN m}
           R == OpToRel(<, Nat)
<1>1. T \subseteq Nat /\ T # {}
  BY ReceiptAssumption DEF IsReceiptMap, Receipts
<1>2. IsWellFoundedOn(R, Nat)
  BY NatLessThanWellFounded
<1> HIDE DEF R
<1>3. PICK t \in T : \A y \in T : ~(<<y, t>> \in R)
  BY <1>1, <1>2, WFMin
<1>4. PICK k \in DOMAIN m : m[k].at = t
  BY <1>3
<1>5. \A j \in DOMAIN m : m[k].at <= m[j].at
  <2> SUFFICES ASSUME NEW j \in DOMAIN m PROVE m[k].at <= m[j].at
    OBVIOUS
  <2>1. m[j].at \in T /\ m[j].at \in Nat /\ t \in Nat
    BY <1>1, <1>3
  <2>2. ~(<<m[j].at, t>> \in R)
    BY <1>3, <2>1
  <2>3. ~(m[j].at < t)
    BY <2>1, <2>2 DEF R, OpToRel
  <2>4. QED
    BY <1>4, <2>1, <2>3
<1>6. QED
  BY <1>4, <1>5 DEF Victim

\* Evict removes at most one receipt, and the store keeps its bound.
LEMMA EvictKeepsBound ==
    ASSUME NEW m, IsReceiptMap(m), IsFiniteSet(DOMAIN m), Cardinality(DOMAIN m) <= MaxEntries + 1
    PROVE  /\ IsReceiptMap(Evict(m))
           /\ DOMAIN Evict(m) \subseteq DOMAIN m
           /\ \A k \in DOMAIN Evict(m) : Evict(m)[k] = m[k]
           /\ IsFiniteSet(DOMAIN Evict(m)) /\ Cardinality(DOMAIN Evict(m)) <= MaxEntries
<1>1. Cardinality(DOMAIN m) \in Nat /\ MaxEntries \in Nat \ {0}
  BY FS_CardinalityType, ReceiptAssumption
<1>2. CASE ~(Cardinality(DOMAIN m) > MaxEntries)
  BY <1>1, <1>2 DEF Evict
<1>3. CASE Cardinality(DOMAIN m) > MaxEntries
  <2>1. DOMAIN m # {}
    BY <1>1, <1>3, FS_EmptySet
  <2>2. Victim(m) \in DOMAIN m
    BY <2>1, SomeVictim
  <2>3. /\ Evict(m) = Keep(m, DOMAIN m \ {Victim(m)})
        /\ DOMAIN Evict(m) = DOMAIN m \ {Victim(m)}
        /\ \A k \in DOMAIN Evict(m) : Evict(m)[k] = m[k]
    BY <1>3 DEF Evict, Keep
  <2>4. IsFiniteSet(DOMAIN Evict(m)) /\ Cardinality(DOMAIN Evict(m)) = Cardinality(DOMAIN m) - 1
    BY <2>2, <2>3, FS_RemoveElement
  <2>5. IsReceiptMap(Evict(m))
    BY <2>3 DEF IsReceiptMap
  <2>6. Cardinality(DOMAIN Evict(m)) <= MaxEntries
    <3> DEFINE n == Cardinality(DOMAIN m)
    <3>1. n \in Nat /\ n <= MaxEntries + 1 /\ MaxEntries \in Nat
      BY <1>1
    <3> HIDE DEF n
    <3>2. n - 1 <= MaxEntries
      BY <3>1
    <3>3. QED BY <2>4, <3>2 DEF n
  <2>7. QED
    BY <2>3, <2>4, <2>5, <2>6
<1>4. QED
  BY <1>2, <1>3

\* What a channel takes is on it; what it drops is lost.
OnBus(k) == \E c \in Channels : \E i \in DOMAIN bus[c] : bus[c][i][1] = k

LEMMA PublishKeeps ==
    ASSUME IInv, NEW channel \in Channels, NEW k \in Ids, NEW outcome \in Outcomes,
           Publish(channel, <<k, outcome>>)
    PROVE  /\ bus' \in [Channels -> Seq(Event)]
           /\ lost \subseteq lost' /\ lost' \subseteq Ids
           /\ \A j \in Ids \ lost' : OnBus(j) => OnBus(j)'
           /\ OnBus(k)'
<1> DEFINE old == bus[channel]
           e == <<k, outcome>>
           q == Append(old, e)
<1>1. /\ bus \in [Channels -> Seq(Event)] /\ old \in Seq(Event) /\ e \in Event /\ e[1] = k
      /\ Len(old) \in Nat /\ lost \subseteq Ids /\ BroadcastSize \in Nat \ {0}
  BY ReceiptAssumption DEF IInv, Shapes, Event
<1>2. /\ q \in Seq(Event) /\ Len(q) = Len(old) + 1 /\ q[Len(old) + 1] = e
      /\ \A i \in 1 .. Len(old) : q[i] = old[i]
  BY <1>1
<1>3. CASE Len(q) > BroadcastSize
  <2>1. bus' = [bus EXCEPT ![channel] = Tail(q)] /\ lost' = lost \cup {Head(q)[1]}
    BY <1>3 DEF Publish
  <2> HIDE DEF q
  <2>2. /\ Tail(q) \in Seq(Event) /\ Len(Tail(q)) = Len(old) /\ Len(old) > 0
        /\ \A i \in 1 .. Len(old) : Tail(q)[i] = q[i + 1]
        /\ Head(q) = q[1] /\ q[1] \in Event
    BY <1>1, <1>2, <1>3
  <2>3. /\ bus' \in [Channels -> Seq(Event)] /\ bus'[channel] = Tail(q)
        /\ \A c \in Channels \ {channel} : bus'[c] = bus[c]
    BY <1>1, <2>1, <2>2
  <2>4. OnBus(k)'
    <3>1. Len(old) \in DOMAIN bus'[channel] /\ bus'[channel][Len(old)][1] = k
      BY <1>1, <1>2, <2>2, <2>3
    <3>2. QED BY <3>1 DEF OnBus
  <2>5. ASSUME NEW j \in Ids \ lost', OnBus(j) PROVE OnBus(j)'
    <3>1. PICK c \in Channels : \E i \in DOMAIN bus[c] : bus[c][i][1] = j
      BY <2>5 DEF OnBus
    <3>2. PICK i \in DOMAIN bus[c] : bus[c][i][1] = j
      BY <3>1
    <3>3. CASE c # channel
      BY <2>3, <3>2, <3>3 DEF OnBus
    <3>4. CASE c = channel
      <4>1. i \in 1 .. Len(old) /\ q[i][1] = j
        BY <1>1, <1>2, <3>2, <3>4
      <4>2. i # 1
        BY <2>1, <2>2, <2>5, <4>1
      <4>3. i - 1 \in 1 .. Len(old) /\ (i - 1) + 1 = i
        BY <1>1, <4>1, <4>2
      <4>4. i - 1 \in DOMAIN bus'[channel] /\ bus'[channel][i - 1][1] = j
        BY <2>2, <2>3, <4>1, <4>3
      <4>5. QED BY <4>4 DEF OnBus
    <3>5. QED BY <3>3, <3>4
  <2>6. lost \subseteq lost' /\ lost' \subseteq Ids
    BY <1>1, <2>1, <2>2 DEF Event
  <2>7. QED
    BY <2>3, <2>4, <2>5, <2>6
<1>4. CASE ~(Len(q) > BroadcastSize)
  <2>1. bus' = [bus EXCEPT ![channel] = q] /\ lost' = lost
    BY <1>4 DEF Publish
  <2> HIDE DEF q
  <2>2. /\ bus' \in [Channels -> Seq(Event)] /\ bus'[channel] = q
        /\ \A c \in Channels \ {channel} : bus'[c] = bus[c]
    BY <1>1, <1>2, <2>1
  <2>3. OnBus(k)'
    <3>1. Len(old) + 1 \in DOMAIN bus'[channel] /\ bus'[channel][Len(old) + 1][1] = k
      BY <1>1, <1>2, <2>2
    <3>2. QED BY <3>1 DEF OnBus
  <2>4. ASSUME NEW j \in Ids \ lost', OnBus(j) PROVE OnBus(j)'
    <3>1. PICK c \in Channels : \E i \in DOMAIN bus[c] : bus[c][i][1] = j
      BY <2>4 DEF OnBus
    <3>2. PICK i \in DOMAIN bus[c] : bus[c][i][1] = j
      BY <3>1
    <3>3. CASE c # channel
      BY <2>2, <3>2, <3>3 DEF OnBus
    <3>4. CASE c = channel
      <4>1. i \in 1 .. Len(old) /\ q[i][1] = j
        BY <1>1, <1>2, <3>2, <3>4
      <4>2. i \in DOMAIN bus'[channel]
        BY <1>1, <1>2, <2>2, <4>1
      <4>3. QED BY <2>2, <4>1, <4>2 DEF OnBus
    <3>5. QED BY <3>3, <3>4
  <2>5. QED
    BY <1>1, <2>1, <2>2, <2>3, <2>4
<1>5. QED
  BY <1>3, <1>4

----------------------------------------------------------------------------
(* What the actions have in common.                                        *)

\* A request that is in the daemon has its types.
LEMMA RequestTypes ==
    ASSUME IInv, NEW r \in Requests, requests[r].pc # "idle"
    PROVE  requests[r] \in RequestRecord
BY DEF IInv, Shapes, Idle

\* The store has the same receipts, whatever their states.
SameReceipts ==
    /\ DOMAIN accepted' = DOMAIN accepted
    /\ \A k \in DOMAIN accepted : accepted'[k].at = accepted[k].at

\* A request goes on, under what it recorded.
Onward(r) ==
    /\ Held(r) /\ requests'[r].at = requests[r].at /\ requests'[r].id = requests[r].id
    /\ requests'[r].pc \in {"recorded", "failed"} =>
           requests[r].pc \in {"recorded", "failed"}
           /\ requests[r].at \notin ran'[requests[r].id]

\* While receipts come and go for nobody, requests keep theirs.
LEMMA RequestsKept ==
    ASSUME IInv, SameReceipts, UNCHANGED <<clock, horizon, evicted>>,
           \A r \in Requests : Held(r)' => Onward(r),
           \A r \in Requests : requests'[r].pc = "leased" => requests'[r].at = 0
    PROVE  RequestsHold'
<1>1. \A r \in Requests : Held(r)' => HoldsItsReceipt(r)'
  BY DEF IInv, RequestsHold, HoldsItsReceipt, SameReceipts, Onward
<1>2. \A r, s \in Requests : Held(r)' /\ Held(s)' /\ requests'[r].at = requests'[s].at => r = s
  BY DEF IInv, RequestsHold, Onward
<1>3. QED
  BY <1>1, <1>2 DEF RequestsHold, Held

\* What is run is run under its receipt.
LEMMA RanKept ==
    ASSUME IInv, SameReceipts, UNCHANGED <<horizon, evicted>>,
           \A k \in Ids \ evicted : \A at \in ran'[k] :
              at \in ran[k] \/ (k \in DOMAIN accepted /\ accepted[k].at = at)
    PROVE  RanIsReceipted'
BY DEF IInv, RanIsReceipted, SameReceipts

\* The receipts stay, requests go on, and what is in flight stays so or is lost.
LEMMA FlightKept ==
    ASSUME IInv, UNCHANGED <<accepted, evicted>>, lost \subseteq lost',
           \A k \in Ids \ lost' : InFlight(k) => InFlight(k)',
           \A r \in Requests : Held(r) =>
              /\ requests'[r].id = requests[r].id /\ requests'[r].at = requests[r].at
              /\ requests'[r] # Idle,
           \A r \in Requests : \A k \in Ids \ lost' :
              requests'[r].pc = "sent" /\ requests'[r].id = k =>
                 (requests[r].pc = "sent" /\ requests[r].id = k) \/ InFlight(k)'
    PROVE  ResultIsComing' /\ SentIsInFlight'
<1>1. DOMAIN accepted \subseteq Ids /\ \A k \in DOMAIN accepted : accepted[k].at \in 1 .. MaxRecords
  BY DEF IInv, Shapes, IsReceiptMap, Receipts
<1>2. ASSUME NEW k \in DOMAIN accepted \ (lost' \cup evicted)
      PROVE  /\ accepted[k].state = "accepted" =>
                  \E r \in Requests : requests'[r] # Idle /\ requests'[r].id = k
                                      /\ requests'[r].at = accepted[k].at
             /\ accepted[k].state = "running" => InFlight(k)'
  <2>1. /\ accepted[k].state = "accepted" =>
              \E r \in Requests : requests[r] # Idle /\ requests[r].id = k
                                  /\ requests[r].at = accepted[k].at
        /\ accepted[k].state = "running" => InFlight(k)
    BY <1>2 DEF IInv, ResultIsComing, InFlight
  <2>2. \A r \in Requests : requests[r] # Idle /\ requests[r].at = accepted[k].at => Held(r)
    <3>1. ASSUME NEW r \in Requests, requests[r] # Idle, requests[r].at = accepted[k].at
          PROVE  Held(r)
      <4>1. requests[r] \in RequestRecord
        BY <3>1 DEF IInv, Shapes
      <4>2. requests[r].pc # "idle"
        BY <4>1 DEF RequestRecord
      <4>3. requests[r].pc # "leased"
        BY <1>1, <1>2, <3>1, ReceiptAssumption DEF IInv, RequestsHold
      <4>4. QED BY <4>2, <4>3 DEF Held
    <3>2. QED BY <3>1
  <2>3. QED
    BY <1>1, <1>2, <2>1, <2>2
<1>3. ResultIsComing'
  BY <1>2 DEF ResultIsComing, InFlight
<1>4. SentIsInFlight'
  BY <1>1 DEF IInv, SentIsInFlight
<1>5. QED
  BY <1>3, <1>4

\* A request takes a step: it is the only one that does.
LEMMA StepOf ==
    ASSUME IInv, NEW r \in Requests, requests[r].pc # "idle",
           NEW pc \in {"recorded", "sent", "failed", "stopped", "closed", "resumed"}, To(r, pc)
    PROVE  /\ requests' \in [Requests -> {Idle} \cup RequestRecord]
           /\ requests'[r].pc = pc /\ requests'[r] # Idle
           /\ requests'[r].id = requests[r].id /\ requests'[r].at = requests[r].at
           /\ \A s \in Requests \ {r} : requests'[s] = requests[s]
<1> DEFINE q == [requests[r] EXCEPT !.pc = pc]
<1>1. requests \in [Requests -> {Idle} \cup RequestRecord] /\ requests[r] \in RequestRecord
  BY RequestTypes DEF IInv, Shapes
<1>2. /\ q \in RequestRecord /\ q.pc = pc /\ q.id = requests[r].id /\ q.at = requests[r].at
  BY <1>1 DEF RequestRecord
<1>3. requests' = [requests EXCEPT ![r] = q]
  BY <1>1 DEF To
<1> HIDE DEF q
<1>4. q # Idle
  BY <1>2 DEF Idle
<1>5. QED
  BY <1>1, <1>2, <1>3, <1>4

\* A request is answered: it is gone, and the others stay.
LEMMA AnswerOf ==
    ASSUME IInv, NEW r \in Requests, Answer(r)
    PROVE  /\ requests' \in [Requests -> {Idle} \cup RequestRecord]
           /\ requests'[r] = Idle /\ requests'[r].pc = "idle"
           /\ \A s \in Requests \ {r} : requests'[s] = requests[s]
<1>1. requests \in [Requests -> {Idle} \cup RequestRecord]
  BY DEF IInv, Shapes
<1>2. QED
  BY <1>1 DEF Answer, Idle

----------------------------------------------------------------------------
(* The client and its lease.                                               *)

\* The lease has no part in what becomes of the commands.
LEMMA LeaseKeeps ==
    ASSUME IInv, UNCHANGED <<receiptVars, requests, workerVars, bus, ghosts>>,
           /\ session' \in 0 .. MaxSessions /\ seeds' \subseteq 1 .. session'
           /\ lease' \in {"none", "open", "lapsed"} /\ (lease' # "none" => session' > 0)
    PROVE  IInv'
<1>1. Shapes'
  BY DEF IInv, Shapes, receiptVars, workerVars, ghosts, IsReceiptMap
<1>2. StoreIsBounded' /\ DiskIsCurrent' /\ RanIsReceipted'
  BY DEF IInv, StoreIsBounded, DiskIsCurrent, Live, RanIsReceipted, receiptVars, ghosts
<1>3. RequestsHold'
  BY DEF IInv, RequestsHold, Held, HoldsItsReceipt, receiptVars, ghosts
<1>4. ResultIsComing' /\ SentIsInFlight'
  BY DEF IInv, ResultIsComing, SentIsInFlight, InFlight, Working, receiptVars, ghosts, workerVars
<1>5. QED
  BY <1>1, <1>2, <1>3, <1>4 DEF IInv

\* Open, lapse and renewal of the lease.
LEMMA LeasesKeep ==
    ASSUME IInv, Open \/ LeaseLapses \/ Renew
    PROVE  IInv'
<1>1. /\ session \in 0 .. MaxSessions /\ seeds \subseteq 1 .. session /\ MaxSessions \in Nat
      /\ lease \in {"none", "open", "lapsed"} /\ (lease # "none" => session > 0)
  BY ReceiptAssumption DEF IInv, Shapes
<1>2. CASE Open
  BY <1>1, <1>2, LeaseKeeps DEF Open
<1>3. CASE LeaseLapses
  BY <1>1, <1>3, LeaseKeeps DEF LeaseLapses
<1>4. CASE Renew
  BY <1>1, <1>4, LeaseKeeps DEF Renew
<1>5. QED
  BY <1>2, <1>3, <1>4

\* What touches neither the store nor the lease keeps their part of the invariant.
LEMMA RequestKeeps ==
    ASSUME IInv, UNCHANGED <<receiptVars, evicted>>,
           UNCHANGED leaseVars,
           requests' \in [Requests -> {Idle} \cup RequestRecord],
           alive' \in BOOLEAN, inbox' \in Seq(Ids), job' = None \/ job' \in Job,
           ~alive' => inbox' = <<>> /\ job' = None,
           bus' \in [Channels -> Seq(Event)],
           ran' \in [Ids -> SUBSET (1 .. clock)], lost' \subseteq Ids,
           RequestsHold', RanIsReceipted', ResultIsComing', SentIsInFlight'
    PROVE  IInv'
<1>1. Shapes'
  BY DEF IInv, Shapes, receiptVars, leaseVars, IsReceiptMap
<1>2. StoreIsBounded' /\ DiskIsCurrent'
  BY DEF IInv, StoreIsBounded, DiskIsCurrent, Live, receiptVars
<1>3. QED
  BY <1>1, <1>2 DEF IInv

\* A request arrives with nothing recorded.
LEMMA ArriveKeeps ==
    ASSUME IInv, NEW r \in Requests, NEW k \in Ids, NEW payload \in PayloadsOf(k),
           Arrive(r, k, payload)
    PROVE  IInv'
<1> DEFINE q == [pc |-> "leased", id |-> k, payload |-> payload, session |-> session, at |-> 0]
<1>1. /\ requests[r] = Idle /\ requests' = [requests EXCEPT ![r] = q] /\ lease = "open"
      /\ UNCHANGED <<receiptVars, leaseVars, workerVars, bus, faults, ghosts>>
  BY DEF Arrive
<1>2. session \in 1 .. MaxSessions
  BY <1>1 DEF IInv, Shapes
<1>3. q \in RequestRecord /\ q.pc = "leased" /\ q.at = 0
  BY <1>2, ReceiptAssumption DEF RequestRecord, Payloads
<1> HIDE DEF q
<1>4. /\ requests' \in [Requests -> {Idle} \cup RequestRecord]
      /\ requests'[r] = q /\ \A s \in Requests \ {r} : requests'[s] = requests[s]
  BY <1>1, <1>3 DEF IInv, Shapes
<1>5. ~Held(r) /\ ~Held(r)'
  BY <1>1, <1>3, <1>4 DEF Held, Idle
<1>6. RequestsHold'
  BY <1>1, <1>3, <1>4, <1>5, RequestsKept
  DEF SameReceipts, Onward, IInv, RequestsHold, HoldsItsReceipt, Held, receiptVars, ghosts
<1>7. RanIsReceipted'
  BY <1>1, RanKept DEF SameReceipts, receiptVars, ghosts
<1>8. ResultIsComing' /\ SentIsInFlight'
  BY <1>1, <1>3, <1>4, <1>5, FlightKept
  DEF InFlight, Working, receiptVars, ghosts, workerVars, Held, Idle
<1>9. QED
  BY <1>1, <1>4, <1>6, <1>7, <1>8, RequestKeeps DEF IInv, Shapes, workerVars, ghosts, receiptVars

\* A retry is answered from the receipt.
LEMMA AnswerKnownKeeps ==
    ASSUME IInv, NEW r \in Requests, AnswerKnown(r)
    PROVE  IInv'
<1>1. /\ requests[r].pc = "leased" /\ Answer(r)
      /\ UNCHANGED <<receiptVars, leaseVars, workerVars, bus, faults, ghosts>>
  BY DEF AnswerKnown
<1>2. /\ requests' \in [Requests -> {Idle} \cup RequestRecord]
      /\ requests'[r].pc = "idle" /\ \A s \in Requests \ {r} : requests'[s] = requests[s]
  BY <1>1, AnswerOf
<1>3. ~Held(r) /\ ~Held(r)'
  BY <1>1, <1>2 DEF Held
<1>4. RequestsHold'
  BY <1>1, <1>2, <1>3, RequestsKept
  DEF SameReceipts, Onward, IInv, RequestsHold, HoldsItsReceipt, Held, receiptVars, ghosts
<1>5. RanIsReceipted'
  BY <1>1, RanKept DEF SameReceipts, receiptVars, ghosts
<1>6. ResultIsComing' /\ SentIsInFlight'
  BY <1>1, <1>2, <1>3, FlightKept
  DEF InFlight, Working, receiptVars, ghosts, workerVars, Held, Idle
<1>7. QED
  BY <1>1, <1>2, <1>4, <1>5, <1>6, RequestKeeps DEF IInv, Shapes, workerVars, ghosts, receiptVars

----------------------------------------------------------------------------
(* A command is dispatched.                                                *)

\* A step of a request that leaves the store alone, and may run its command.
LEMMA DispatchKeeps ==
    ASSUME IInv, NEW r \in Requests,
           NEW pc \in {"sent", "failed", "stopped", "closed", "resumed"}, To(r, pc),
           Held(r), requests[r].pc # "sent",
           \/ requests[r].pc = "recorded" /\ pc # "failed" /\ Ran(r)
           \/ UNCHANGED ran /\ pc # "sent" /\ (pc = "failed" => requests[r].pc = "recorded"),
           UNCHANGED <<receiptVars, leaseVars, evicted>>,
           alive' \in BOOLEAN, inbox' \in Seq(Ids), job' = None \/ job' \in Job,
           ~alive' => inbox' = <<>> /\ job' = None,
           bus' \in [Channels -> Seq(Event)], lost \subseteq lost', lost' \subseteq Ids,
           \A k \in Ids \ lost' : InFlight(k) => InFlight(k)',
           pc = "sent" => \A k \in Ids : requests[r].id = k => InFlight(k)'
    PROVE  IInv'
<1>1. requests[r] \in RequestRecord /\ requests[r].id \in Ids /\ requests[r].at \in 1 .. clock
      /\ requests[r].pc \in {"recorded", "failed", "stopped", "closed", "resumed"}
  <2>1. requests[r] \in RequestRecord
    BY RequestTypes DEF Held
  <2>2. QED
    BY <2>1 DEF Held, RequestRecord, IInv, RequestsHold, HoldsItsReceipt
<1>2. /\ requests' \in [Requests -> {Idle} \cup RequestRecord]
      /\ requests'[r].pc = pc /\ requests'[r] # Idle
      /\ requests'[r].id = requests[r].id /\ requests'[r].at = requests[r].at
      /\ \A s \in Requests \ {r} : requests'[s] = requests[s]
  BY <1>1, StepOf
<1>3. /\ ran' \in [Ids -> SUBSET (1 .. clock)]
      /\ \A k \in Ids : \A at \in ran'[k] :
           at \in ran[k] \/ (k = requests[r].id /\ at = requests[r].at /\ pc # "failed")
  <2>1. ran \in [Ids -> SUBSET (1 .. clock)]
    BY DEF IInv, Shapes
  <2>2. CASE UNCHANGED ran
    BY <2>1, <2>2
  <2>3. CASE Ran(r) /\ pc # "failed"
    BY <1>1, <2>1, <2>3 DEF Ran
  <2>4. QED
    BY <2>2, <2>3
<1>4. \A s \in Requests : Held(s)' => Onward(s)
  <2>1. ASSUME NEW s \in Requests, Held(s)' PROVE Onward(s)
    <3>1. CASE s = r
      <4>1. pc = "failed" => requests[r].at \notin ran'[requests[r].id]
        BY <1>1, <1>3 DEF IInv, RequestsHold, HoldsItsReceipt
      <4>2. QED
        BY <1>2, <3>1, <4>1 DEF Onward
    <3>2. CASE s # r
      <4>1. requests'[s] = requests[s] /\ Held(s)
        BY <1>2, <2>1, <3>2 DEF Held
      <4>2. requests[s].at # requests[r].at
        BY <3>2, <4>1 DEF IInv, RequestsHold
      <4>3. requests[s] \in RequestRecord /\ requests[s].id \in Ids
        BY <4>1, RequestTypes DEF Held, RequestRecord
      <4>4. requests[s].pc \in {"recorded", "failed"} => requests[s].at \notin ran'[requests[s].id]
        BY <1>3, <4>1, <4>2, <4>3 DEF IInv, RequestsHold, HoldsItsReceipt
      <4>5. QED
        BY <4>1, <4>4 DEF Onward
    <3>3. QED BY <3>1, <3>2
  <2>2. QED BY <2>1
<1>5. RequestsHold'
  <2>1. \A s \in Requests : requests'[s].pc = "leased" => requests'[s].at = 0
    BY <1>2 DEF IInv, RequestsHold
  <2>2. QED
    BY <1>4, <2>1, RequestsKept DEF SameReceipts, receiptVars
<1>6. RanIsReceipted'
  <2>1. requests[r].id \notin evicted =>
          requests[r].id \in DOMAIN accepted /\ accepted[requests[r].id].at = requests[r].at
    BY DEF IInv, RequestsHold, HoldsItsReceipt
  <2>2. QED
    BY <1>3, <2>1, RanKept DEF SameReceipts, receiptVars
<1>7. ResultIsComing' /\ SentIsInFlight'
  <2>1. \A s \in Requests : Held(s) =>
          /\ requests'[s].id = requests[s].id /\ requests'[s].at = requests[s].at
          /\ requests'[s] # Idle
    BY <1>2 DEF Held, Idle
  <2>2. \A s \in Requests : \A k \in Ids \ lost' :
           requests'[s].pc = "sent" /\ requests'[s].id = k =>
              (requests[s].pc = "sent" /\ requests[s].id = k) \/ InFlight(k)'
    BY <1>2
  <2>3. QED
    BY <2>1, <2>2, FlightKept DEF receiptVars
<1>8. QED
  BY <1>2, <1>3, <1>5, <1>6, <1>7, RequestKeeps

\* The message is in the pipe before the request is marked as sent.
LEMMA DispatchSends ==
    ASSUME IInv, NEW r \in Requests, Dispatch(r)
    PROVE  IInv'
<1>1. /\ requests[r].pc = "recorded" /\ alive' = TRUE
      /\ inbox' = Append(inbox, requests[r].id) /\ Ran(r) /\ To(r, "sent")
      /\ UNCHANGED <<receiptVars, leaseVars, job, bus, faults, evicted, lost>>
  BY DEF Dispatch
<1>2. requests[r].id \in Ids /\ inbox \in Seq(Ids)
  BY <1>1, RequestTypes DEF RequestRecord, IInv, Shapes
<1>3. /\ inbox' \in Seq(Ids) /\ Len(inbox') = Len(inbox) + 1 /\ Len(inbox) \in Nat
      /\ inbox'[Len(inbox) + 1] = requests[r].id
      /\ \A i \in 1 .. Len(inbox) : inbox'[i] = inbox[i]
  BY <1>1, <1>2
<1>4. Working \subseteq Working' /\ requests[r].id \in Working'
  BY <1>1, <1>2, <1>3 DEF Working
<1>5. \A k \in Ids : InFlight(k) => InFlight(k)'
  BY <1>1, <1>4 DEF InFlight
<1>6. \A k \in Ids : requests[r].id = k => InFlight(k)'
  BY <1>4 DEF InFlight
<1>7. QED
  BY <1>1, <1>3, <1>5, <1>6, DispatchKeeps DEF Held, IInv, Shapes

\* Nothing was given to a worker.
LEMMA DispatchFailsKeeps ==
    ASSUME IInv, NEW r \in Requests, DispatchFails(r)
    PROVE  IInv'
<1>1. /\ requests[r].pc = "recorded" /\ To(r, "failed")
      /\ UNCHANGED <<receiptVars, leaseVars, workerVars, bus, faults, ghosts>>
  BY DEF DispatchFails
<1>2. \A k \in Ids : InFlight(k) => InFlight(k)'
  BY <1>1 DEF InFlight, Working, workerVars
<1>3. QED
  BY <1>1, <1>2, DispatchKeeps DEF Held, IInv, Shapes, ghosts, workerVars

\* What the closed worker had is lost.
LEMMA CloseWorkerKeeps ==
    ASSUME IInv, NEW r \in Requests, CloseWorker(r)
    PROVE  IInv'
<1>1. /\ requests[r].pc = "recorded" /\ Ran(r) /\ To(r, "stopped")
      /\ alive' = FALSE /\ inbox' = <<>> /\ job' = None /\ lost' = lost \cup Working
      /\ UNCHANGED <<receiptVars, leaseVars, bus, faults, evicted>>
  BY DEF CloseWorker
<1>2. Working \subseteq Ids
  BY DEF Working, IInv, Shapes, Job
<1>3. \A k \in Ids \ lost' : InFlight(k) => InFlight(k)'
  BY <1>1 DEF InFlight
<1>4. /\ alive' \in BOOLEAN /\ inbox' \in Seq(Ids) /\ job' = None
      /\ bus' \in [Channels -> Seq(Event)] /\ lost \subseteq lost' /\ lost' \subseteq Ids
  <2>1. <<>> \in Seq(Ids)
    OBVIOUS
  <2>2. lost \subseteq lost' /\ lost' \subseteq Ids
    BY <1>1, <1>2 DEF IInv, Shapes
  <2>3. alive' \in BOOLEAN /\ bus' \in [Channels -> Seq(Event)]
    BY <1>1 DEF IInv, Shapes
  <2>4. QED
    BY <1>1, <2>1, <2>2, <2>3
<1>5. Held(r)
  BY <1>1 DEF Held
<1>6. QED
  BY <1>1, <1>3, <1>4, <1>5, DispatchKeeps

\* The event of the close is one of the command.
LEMMA PublishClosedKeeps ==
    ASSUME IInv, NEW r \in Requests, PublishClosed(r)
    PROVE  IInv'
<1>1. /\ requests[r].pc = "stopped" /\ Publish("control", <<requests[r].id, "succeeded">>)
      /\ To(r, "closed")
      /\ UNCHANGED <<receiptVars, leaseVars, workerVars, faults, ran, evicted>>
  BY DEF PublishClosed
<1>2. requests[r].id \in Ids
  BY <1>1, RequestTypes DEF RequestRecord
<1>3. /\ bus' \in [Channels -> Seq(Event)] /\ lost \subseteq lost' /\ lost' \subseteq Ids
      /\ \A j \in Ids \ lost' : OnBus(j) => OnBus(j)'
  BY <1>1, <1>2, PublishKeeps DEF Channels, Outcomes
<1>4. \A k \in Ids \ lost' : InFlight(k) => InFlight(k)'
  BY <1>1, <1>3 DEF InFlight, OnBus, Working, workerVars
<1>5. QED
  BY <1>1, <1>3, <1>4, DispatchKeeps DEF Held, IInv, Shapes, workerVars

\* A resumed session gets no command.
LEMMA ResumeKeeps ==
    ASSUME IInv, NEW r \in Requests, Resume(r)
    PROVE  IInv'
<1>1. /\ requests[r].pc = "recorded" /\ alive' = TRUE /\ Ran(r) /\ To(r, "resumed")
      /\ UNCHANGED <<receiptVars, leaseVars, inbox, job, bus, faults, evicted, lost>>
  BY DEF Resume
<1>2. \A k \in Ids : InFlight(k) => InFlight(k)'
  BY <1>1 DEF InFlight, Working
<1>3. QED
  BY <1>1, <1>2, DispatchKeeps DEF Held, IInv, Shapes

----------------------------------------------------------------------------
(* The worker.                                                             *)

\* What the worker does leaves store and requests alone.
LEMMA WorkerKeeps ==
    ASSUME IInv, UNCHANGED <<receiptVars, leaseVars, requests, ran, evicted>>,
           alive' \in BOOLEAN, inbox' \in Seq(Ids), job' = None \/ job' \in Job,
           ~alive' => inbox' = <<>> /\ job' = None,
           bus' \in [Channels -> Seq(Event)], lost \subseteq lost', lost' \subseteq Ids,
           \A k \in Ids \ lost' : InFlight(k) => InFlight(k)'
    PROVE  IInv'
<1>1. RequestsHold' /\ RanIsReceipted'
  BY DEF IInv, RequestsHold, Held, HoldsItsReceipt, RanIsReceipted, receiptVars
<1>2. ResultIsComing' /\ SentIsInFlight'
  BY FlightKept DEF receiptVars, Held, Idle
<1>3. QED
  BY <1>1, <1>2, RequestKeeps DEF IInv, Shapes

\* The worker takes the first command of the pipe.
LEMMA StartKeeps ==
    ASSUME IInv, Start
    PROVE  IInv'
<1>1. /\ job = None /\ inbox # <<>> /\ job' = [id |-> Head(inbox), tool |-> FALSE]
      /\ inbox' = Tail(inbox) /\ inbox \in Seq(Ids)
      /\ UNCHANGED <<receiptVars, leaseVars, requests, alive, bus, faults, ghosts>>
  BY DEF Start, IInv, Shapes
<1>2. /\ inbox' \in Seq(Ids) /\ Head(inbox) = inbox[1] /\ Head(inbox) \in Ids
      /\ Len(inbox') = Len(inbox) - 1 /\ Len(inbox) \in Nat
      /\ \A i \in 1 .. Len(inbox') : inbox'[i] = inbox[i + 1]
  BY <1>1
<1>3. job' \in Job /\ job'.id = Head(inbox) /\ job' # None
  BY <1>1, <1>2 DEF Job, None
<1>4. \A k \in Working : k \in Working'
  <2>1. ASSUME NEW k \in Working PROVE k \in Working'
    <3>1. PICK i \in 1 .. Len(inbox) : inbox[i] = k
      BY <1>1 DEF Working
    <3>2. CASE i = 1
      BY <1>2, <1>3, <3>1, <3>2 DEF Working
    <3>3. CASE i # 1
      <4>1. i - 1 \in 1 .. Len(inbox') /\ (i - 1) + 1 = i
        BY <1>2, <3>3
      <4>2. i - 1 \in DOMAIN inbox' /\ inbox'[i - 1] = k
        BY <1>2, <3>1, <4>1
      <4>3. QED BY <4>2 DEF Working
    <3>4. QED BY <3>2, <3>3
  <2>2. QED BY <2>1
<1>5. \A k \in Ids : InFlight(k) => InFlight(k)'
  BY <1>1, <1>4 DEF InFlight
<1>6. alive
  BY <1>1 DEF IInv, Shapes
<1>7. QED
  BY <1>1, <1>2, <1>3, <1>5, <1>6, WorkerKeeps DEF ghosts, IInv, Shapes

\* A result is on the way when the worker is done with the command, or with its tool.
LEMMA FinishKeeps ==
    ASSUME IInv, NEW channel \in Channels, NEW outcome \in Outcomes, NEW j \in Ids,
           job # None, job.id = j, Publish(channel, <<j, outcome>>),
           job' \in {None, [job EXCEPT !.tool = TRUE]},
           UNCHANGED <<receiptVars, leaseVars, requests, alive, inbox, faults, ran, evicted>>
    PROVE  IInv'
<1>1. job \in Job /\ alive /\ inbox \in Seq(Ids)
  BY DEF IInv, Shapes
<1>2. /\ bus' \in [Channels -> Seq(Event)] /\ lost \subseteq lost' /\ lost' \subseteq Ids
      /\ \A k \in Ids \ lost' : OnBus(k) => OnBus(k)'
      /\ OnBus(j)'
  BY PublishKeeps
<1>3. \A k \in Ids : k \in Working => k = j \/ k \in Working'
  BY <1>1 DEF Working
<1>4. \A k \in Ids : InFlight(k) <=> (k \in Working \/ OnBus(k))
  BY DEF InFlight, OnBus
<1>5. \A k \in Ids : InFlight(k)' <=> (k \in Working' \/ OnBus(k)')
  BY DEF InFlight, OnBus
<1>6. \A k \in Ids \ lost' : InFlight(k) => InFlight(k)'
  BY <1>2, <1>3, <1>4, <1>5
<1>7. job' = None \/ job' \in Job
  BY <1>1 DEF Job
<1>8. QED
  BY <1>1, <1>2, <1>6, <1>7, WorkerKeeps DEF IInv, Shapes

\* The worker ends an operation, a tool or a turn.
LEMMA FinishesKeep ==
    ASSUME IInv, NEW outcome \in Outcomes,
           FinishOperation(outcome) \/ FinishTool(outcome) \/ FinishTurn(outcome)
    PROVE  IInv'
<1>1. job # None
  BY DEF FinishOperation, FinishTool, FinishTurn
<1>2. job.id \in Ids
  BY <1>1 DEF IInv, Shapes, Job
<1>3. PICK j \in Ids : job.id = j
  BY <1>2
<1>4. CASE FinishOperation(outcome)
  BY <1>1, <1>3, <1>4, FinishKeeps DEF FinishOperation, Channels
<1>5. CASE FinishTool(outcome)
  BY <1>1, <1>3, <1>5, FinishKeeps DEF FinishTool, Channels
<1>6. CASE FinishTurn(outcome)
  BY <1>1, <1>3, <1>6, FinishKeeps DEF FinishTurn, Channels
<1>7. QED
  BY <1>4, <1>5, <1>6

\* A suspended turn, or a dead worker, loses what it had.
LEMMA LossKeeps ==
    ASSUME IInv, Yield \/ WorkerDies
    PROVE  IInv'
<1>1. /\ inbox \in Seq(Ids) /\ (job = None \/ (job \in Job /\ job.id \in Ids)) /\ lost \subseteq Ids
      /\ bus \in [Channels -> Seq(Event)] /\ alive \in BOOLEAN /\ (~alive => inbox = <<>>)
  BY DEF IInv, Shapes, Job
<1>2. Working \subseteq Ids
  BY <1>1 DEF Working
<1>3. \A k \in Ids : InFlight(k) <=> (k \in Working \/ OnBus(k))
  BY DEF InFlight, OnBus
<1>4. \A k \in Ids : InFlight(k)' <=> (k \in Working' \/ OnBus(k)')
  BY DEF InFlight, OnBus
<1>5. CASE Yield
  <2>1. /\ job # None /\ job' = None /\ lost' = lost \cup {job.id}
        /\ UNCHANGED <<receiptVars, leaseVars, requests, alive, inbox, bus, faults, ran, evicted>>
    BY <1>5 DEF Yield
  <2>2. \A k \in Ids \ lost' : k \in Working => k \in Working'
    BY <2>1 DEF Working
  <2>3. \A k \in Ids : OnBus(k) => OnBus(k)'
    BY <2>1 DEF OnBus
  <2>4. \A k \in Ids \ lost' : InFlight(k) => InFlight(k)'
    BY <1>3, <1>4, <2>2, <2>3
  <2>5. alive' \in BOOLEAN /\ inbox' \in Seq(Ids) /\ bus' \in [Channels -> Seq(Event)]
        /\ lost \subseteq lost' /\ lost' \subseteq Ids /\ (~alive' => inbox' = <<>>)
    BY <1>1, <2>1
  <2>6. QED
    BY <2>1, <2>4, <2>5, WorkerKeeps
<1>6. CASE WorkerDies
  <2>1. /\ alive' = FALSE /\ inbox' = <<>> /\ job' = None /\ lost' = lost \cup Working
        /\ UNCHANGED <<receiptVars, leaseVars, requests, bus, ran, evicted>>
    BY <1>6 DEF WorkerDies
  <2>2. \A k \in Ids : OnBus(k) => OnBus(k)'
    BY <2>1 DEF OnBus
  <2>3. \A k \in Ids \ lost' : InFlight(k) => InFlight(k)'
    BY <1>3, <1>4, <2>1, <2>2
  <2>4. /\ alive' \in BOOLEAN /\ inbox' \in Seq(Ids) /\ bus' \in [Channels -> Seq(Event)]
        /\ lost \subseteq lost' /\ lost' \subseteq Ids
    <3>1. <<>> \in Seq(Ids)
      OBVIOUS
    <3>2. lost \subseteq lost' /\ lost' \subseteq Ids
      BY <1>1, <1>2, <2>1
    <3>3. QED
      BY <1>1, <2>1, <3>1, <3>2
  <2>5. QED
    BY <2>1, <2>3, <2>4, WorkerKeeps
<1>7. QED
  BY <1>5, <1>6

----------------------------------------------------------------------------
(* A receipt is settled, by its request or by an observer.                 *)

\* A mark that is saved leaves every receipt where it was.
LEMMA MarkIsSaved ==
    ASSUME IInv, NEW n, NEW k, NEW state, Marks(accepted, n, k, state), Save(n),
           UNCHANGED horizon
    PROVE  /\ accepted' = n /\ IsReceiptMap(accepted)' /\ IsReceiptMap(disk)' /\ DiskIsCurrent'
           /\ StoreIsBounded' /\ SameReceipts
<1>1. IsReceiptMap(n) /\ DOMAIN n = DOMAIN accepted /\ \A j \in DOMAIN accepted : n[j].at = accepted[j].at
  BY DEF Marks
<1>2. accepted' = n /\ IsReceiptMap(disk)' /\ DiskIsCurrent'
  BY <1>1, SaveIsCurrent
<1>3. IsReceiptMap(accepted)'
  BY <1>1, <1>2 DEF IsReceiptMap
<1>4. SameReceipts
  BY <1>1, <1>2 DEF SameReceipts
<1>5. StoreIsBounded'
  BY <1>4 DEF IInv, StoreIsBounded, SameReceipts
<1>6. QED
  BY <1>2, <1>3, <1>4, <1>5

\* What touches neither the worker nor the count of receipts keeps their types.
LEMMA StoreKeeps ==
    ASSUME IInv, UNCHANGED <<clock, horizon, session, lease, workerVars, ghosts>>,
           IsReceiptMap(accepted)', IsReceiptMap(disk)',
           seeds' \subseteq 1 .. session,
           requests' \in [Requests -> {Idle} \cup RequestRecord],
           bus' \in [Channels -> Seq(Event)],
           StoreIsBounded', DiskIsCurrent', RequestsHold', RanIsReceipted',
           ResultIsComing', SentIsInFlight'
    PROVE  IInv'
<1>1. Shapes'
  BY DEF IInv, Shapes, workerVars, ghosts
<1>2. QED
  BY <1>1 DEF IInv

\* A request that is answered after a mark keeps what the others hold.
LEMMA AnsweredHolds ==
    ASSUME IInv, NEW r \in Requests, Answer(r), SameReceipts,
           UNCHANGED <<clock, horizon, ghosts>>
    PROVE  RequestsHold' /\ RanIsReceipted'
<1>1. /\ requests'[r].pc = "idle"
      /\ \A s \in Requests \ {r} : requests'[s] = requests[s]
  BY AnswerOf
<1>2. \A s \in Requests : Held(s)' => Onward(s)
  BY <1>1 DEF Held, Onward, IInv, RequestsHold, HoldsItsReceipt, ghosts
<1>3. \A s \in Requests : requests'[s].pc = "leased" => requests'[s].at = 0
  BY <1>1 DEF IInv, RequestsHold
<1>4. RequestsHold'
  BY <1>2, <1>3, RequestsKept DEF ghosts
<1>5. RanIsReceipted'
  BY RanKept DEF ghosts
<1>6. QED
  BY <1>4, <1>5

\* mark_running finds the command in flight, or its result in the receipt.
LEMMA SettleKeeps ==
    ASSUME IInv, NEW r \in Requests, Settle(r)
    PROVE  IInv'
<1> DEFINE n == MarkRunning(accepted, requests[r].id)
<1>1. /\ requests[r].pc = "sent" /\ Save(n) /\ Answer(r)
      /\ UNCHANGED <<clock, horizon, leaseVars, workerVars, bus, faults, ghosts>>
  BY DEF Settle
<1>2. requests[r].id \in Ids
  BY <1>1, RequestTypes DEF RequestRecord
<1>3. PICK id \in Ids : id = requests[r].id
  BY <1>2
<1>4. /\ Marks(accepted, n, id, "running")
      /\ id \in DOMAIN accepted => n[id].state # "accepted"
      /\ id \in DOMAIN accepted /\ accepted[id].state # "accepted" => n = accepted
  BY <1>3, MarkRunningMarks DEF IInv, Shapes
<1> HIDE DEF n
<1>5. /\ accepted' = n /\ IsReceiptMap(accepted)' /\ IsReceiptMap(disk)' /\ DiskIsCurrent'
      /\ StoreIsBounded' /\ SameReceipts
  BY <1>1, <1>4, MarkIsSaved
<1>6. /\ requests' \in [Requests -> {Idle} \cup RequestRecord]
      /\ requests'[r] = Idle /\ requests'[r].pc = "idle"
      /\ \A s \in Requests \ {r} : requests'[s] = requests[s]
  BY <1>1, AnswerOf
<1>7. RequestsHold' /\ RanIsReceipted'
  BY <1>1, <1>5, AnsweredHolds
<1>8. \A k \in Ids : InFlight(k)' <=> InFlight(k)
  BY <1>1 DEF InFlight, Working, workerVars
<1>9. DOMAIN accepted \subseteq Ids /\ DOMAIN accepted' = DOMAIN accepted /\ evicted' = evicted /\ lost' = lost
  BY <1>1, <1>5 DEF IInv, Shapes, IsReceiptMap, SameReceipts, ghosts
<1>10. \A k \in DOMAIN accepted : accepted'[k].state = "accepted" => k # id /\ accepted'[k] = accepted[k]
  BY <1>4, <1>5 DEF Marks
<1>11. \A k \in DOMAIN accepted : accepted'[k].state = "running" =>
          accepted[k].state = "running" \/ (k = id /\ accepted[k].state = "accepted")
  BY <1>4, <1>5 DEF Marks
<1>12. ResultIsComing'
  <2>1. ASSUME NEW k \in DOMAIN accepted \ (lost \cup evicted), accepted'[k].state = "accepted"
        PROVE  \E s \in Requests : requests'[s] # Idle /\ requests'[s].id = k
                                   /\ requests'[s].at = accepted'[k].at
    <3>1. accepted'[k] = accepted[k] /\ k # id
      BY <1>10, <2>1
    <3>2. PICK s \in Requests : requests[s] # Idle /\ requests[s].id = k /\ requests[s].at = accepted[k].at
      BY <2>1, <3>1 DEF IInv, ResultIsComing
    <3>3. s # r
      BY <1>3, <3>1, <3>2
    <3>4. QED
      BY <1>6, <3>1, <3>2, <3>3
  <2>2. ASSUME NEW k \in DOMAIN accepted \ (lost \cup evicted), accepted'[k].state = "running"
        PROVE  InFlight(k)'
    <3>1. CASE accepted[k].state = "running"
      BY <1>8, <1>9, <2>2, <3>1 DEF IInv, ResultIsComing, InFlight
    <3>2. CASE k = id /\ accepted[k].state = "accepted"
      BY <1>1, <1>3, <1>8, <2>2, <3>2 DEF IInv, SentIsInFlight
    <3>3. QED
      BY <1>11, <2>2, <3>1, <3>2
  <2>3. QED
    BY <1>9, <2>1, <2>2 DEF ResultIsComing, InFlight
<1>13. SentIsInFlight'
  BY <1>6, <1>8, <1>9, <1>10 DEF IInv, SentIsInFlight
<1>14. seeds' \subseteq 1 .. session /\ bus' \in [Channels -> Seq(Event)]
  BY <1>1 DEF IInv, Shapes, leaseVars
<1>15. QED
  BY <1>1, <1>5, <1>6, <1>7, <1>12, <1>13, <1>14, StoreKeeps DEF leaseVars

\* The command is done when its request says so.
LEMMA ConcludeKeeps ==
    ASSUME IInv, NEW r \in Requests, Conclude(r)
    PROVE  IInv'
<1> DEFINE n == MarkTerminal(accepted, requests[r].id, "succeeded")
<1>1. /\ requests[r].pc \in {"closed", "resumed"} /\ AttachOrDetach(r) /\ Save(n) /\ Answer(r)
      /\ UNCHANGED <<clock, horizon, session, lease, workerVars, bus, faults, ghosts>>
  BY DEF Conclude, AttachOrDetach
<1>2. requests[r].id \in Ids
  BY <1>1, RequestTypes DEF RequestRecord
<1>3. PICK id \in Ids : id = requests[r].id
  BY <1>2
<1>4. /\ Marks(accepted, n, id, "succeeded")
      /\ id \in DOMAIN accepted => n[id].state = "succeeded"
  BY <1>3, MarkTerminalMarks DEF IInv, Shapes, Outcomes
<1> HIDE DEF n
<1>5. /\ accepted' = n /\ IsReceiptMap(accepted)' /\ IsReceiptMap(disk)' /\ DiskIsCurrent'
      /\ StoreIsBounded' /\ SameReceipts
  BY <1>1, <1>4, MarkIsSaved
<1>6. /\ requests' \in [Requests -> {Idle} \cup RequestRecord]
      /\ requests'[r] = Idle /\ requests'[r].pc = "idle"
      /\ \A s \in Requests \ {r} : requests'[s] = requests[s]
  BY <1>1, AnswerOf
<1>7. RequestsHold' /\ RanIsReceipted'
  BY <1>1, <1>5, AnsweredHolds
<1>8. \A k \in Ids : InFlight(k)' <=> InFlight(k)
  BY <1>1 DEF InFlight, Working, workerVars
<1>9. DOMAIN accepted \subseteq Ids /\ DOMAIN accepted' = DOMAIN accepted /\ evicted' = evicted /\ lost' = lost
  BY <1>1, <1>5 DEF IInv, Shapes, IsReceiptMap, SameReceipts, ghosts
<1>10. \A k \in DOMAIN accepted :
          accepted'[k].state \in {"accepted", "running"} => k # id /\ accepted'[k] = accepted[k]
  BY <1>4, <1>5 DEF Marks
<1>11. ResultIsComing'
  <2>1. ASSUME NEW k \in DOMAIN accepted \ (lost \cup evicted), accepted'[k].state = "accepted"
        PROVE  \E s \in Requests : requests'[s] # Idle /\ requests'[s].id = k
                                   /\ requests'[s].at = accepted'[k].at
    <3>1. accepted'[k] = accepted[k] /\ k # id
      BY <1>10, <2>1
    <3>2. PICK s \in Requests : requests[s] # Idle /\ requests[s].id = k /\ requests[s].at = accepted[k].at
      BY <2>1, <3>1 DEF IInv, ResultIsComing
    <3>3. s # r
      BY <1>3, <3>1, <3>2
    <3>4. QED
      BY <1>6, <3>1, <3>2, <3>3
  <2>2. ASSUME NEW k \in DOMAIN accepted \ (lost \cup evicted), accepted'[k].state = "running"
        PROVE  InFlight(k)'
    BY <1>8, <1>9, <1>10, <2>2 DEF IInv, ResultIsComing, InFlight
  <2>3. QED
    BY <1>9, <2>1, <2>2 DEF ResultIsComing, InFlight
<1>12. SentIsInFlight'
  BY <1>6, <1>8, <1>9, <1>10 DEF IInv, SentIsInFlight
<1>13. seeds' \subseteq 1 .. session /\ bus' \in [Channels -> Seq(Event)]
  <2>1. seeds \subseteq 1 .. session /\ session \in Nat /\ (lease = "open" => session > 0)
    BY ReceiptAssumption DEF IInv, Shapes
  <2>2. IsActive(requests[r].session) => requests[r].session \in 1 .. session
    BY <2>1 DEF IsActive
  <2>3. QED
    BY <1>1, <2>1, <2>2 DEF AttachOrDetach, IInv, Shapes
<1>14. QED
  BY <1>1, <1>5, <1>6, <1>7, <1>11, <1>12, <1>13, StoreKeeps

\* The event that leaves the channel is in the receipt.
LEMMA ObserveKeeps ==
    ASSUME IInv, NEW channel \in Channels, Observe(channel)
    PROVE  IInv'
<1> DEFINE q == bus[channel]
           e == Head(q)
           n == MarkTerminal(accepted, e[1], e[2])
<1>1. /\ q # <<>> /\ bus' = [bus EXCEPT ![channel] = Tail(q)]
      /\ IF e[1] \in DOMAIN accepted THEN Save(n) ELSE UNCHANGED <<accepted, disk>>
      /\ UNCHANGED <<clock, horizon, leaseVars, requests, workerVars, faults, ghosts>>
  BY DEF Observe
<1>2. bus \in [Channels -> Seq(Event)] /\ q \in Seq(Event) /\ Len(q) \in Nat
  BY DEF IInv, Shapes
<1>3. /\ Tail(q) \in Seq(Event) /\ Len(Tail(q)) = Len(q) - 1 /\ Len(q) > 0 /\ e = q[1] /\ e \in Event
      /\ \A i \in 1 .. Len(q) - 1 : Tail(q)[i] = q[i + 1]
  BY <1>1, <1>2
<1>4. e[1] \in Ids /\ e[2] \in Outcomes
  BY <1>3 DEF Event
<1>5. /\ bus' \in [Channels -> Seq(Event)] /\ bus'[channel] = Tail(q)
      /\ \A c \in Channels \ {channel} : bus'[c] = bus[c]
  BY <1>1, <1>2, <1>3
<1>6. PICK id \in Ids : id = e[1]
  BY <1>4
<1>7. PICK outcome \in Outcomes : outcome = e[2]
  BY <1>4
<1>8. /\ Marks(accepted, n, id, outcome)
      /\ id \in DOMAIN accepted => n[id].state = outcome
  BY <1>6, <1>7, MarkTerminalMarks DEF IInv, Shapes
<1> HIDE DEF n
<1>9. /\ IsReceiptMap(accepted)' /\ IsReceiptMap(disk)' /\ DiskIsCurrent'
      /\ StoreIsBounded' /\ SameReceipts
      /\ \A k \in DOMAIN accepted :
            accepted'[k].state \in {"accepted", "running"} => k # id /\ accepted'[k] = accepted[k]
  <2>1. CASE id \in DOMAIN accepted
    <3>1. Save(n) /\ horizon' = horizon
      BY <1>1, <1>6, <2>1
    <3>2. /\ accepted' = n /\ IsReceiptMap(accepted)' /\ IsReceiptMap(disk)' /\ DiskIsCurrent'
          /\ StoreIsBounded' /\ SameReceipts
      BY <1>8, <3>1, MarkIsSaved
    <3>3. QED
      BY <1>8, <2>1, <3>2 DEF Marks, Outcomes
  <2>2. CASE id \notin DOMAIN accepted
    <3>1. accepted' = accepted /\ disk' = disk /\ horizon' = horizon
      BY <1>1, <1>6, <2>2
    <3>2. IsReceiptMap(accepted)' /\ IsReceiptMap(disk)'
      BY <3>1 DEF IInv, Shapes, IsReceiptMap
    <3>3. DiskIsCurrent' /\ StoreIsBounded' /\ SameReceipts
      BY <3>1 DEF IInv, DiskIsCurrent, Live, StoreIsBounded, SameReceipts
    <3>4. QED
      BY <2>2, <3>1, <3>2, <3>3
  <2>3. QED
    BY <2>1, <2>2
<1>10. \A k \in Ids : Held(k)' <=> Held(k)
  BY <1>1 DEF Held
<1>11. RequestsHold' /\ RanIsReceipted'
  <2>1. \A s \in Requests : Held(s)' => Onward(s)
    BY <1>1 DEF Held, Onward, IInv, RequestsHold, HoldsItsReceipt, ghosts
  <2>2. \A s \in Requests : requests'[s].pc = "leased" => requests'[s].at = 0
    BY <1>1 DEF IInv, RequestsHold
  <2>3. RequestsHold'
    BY <1>1, <1>9, <2>1, <2>2, RequestsKept DEF ghosts
  <2>4. RanIsReceipted'
    BY <1>1, <1>9, RanKept DEF ghosts
  <2>5. QED
    BY <2>3, <2>4
<1>12. ASSUME NEW k \in Ids, k # id, InFlight(k) PROVE InFlight(k)'
  <2>1. Working' = Working
    BY <1>1 DEF Working, workerVars
  <2>2. CASE k \in Working
    BY <2>1, <2>2 DEF InFlight
  <2>3. CASE k \notin Working
    <3>1. PICK c \in Channels : \E i \in DOMAIN bus[c] : bus[c][i][1] = k
      BY <1>12, <2>3 DEF InFlight
    <3>2. PICK i \in DOMAIN bus[c] : bus[c][i][1] = k
      BY <3>1
    <3>3. CASE c # channel
      BY <1>5, <3>2, <3>3 DEF InFlight
    <3>4. CASE c = channel
      <4>1. i \in 1 .. Len(q) /\ q[i][1] = k
        BY <1>2, <3>2, <3>4
      <4>2. i # 1
        BY <1>3, <1>6, <1>12, <4>1
      <4>3. i - 1 \in 1 .. Len(q) - 1 /\ (i - 1) + 1 = i
        BY <1>2, <4>1, <4>2
      <4>4. i - 1 \in DOMAIN bus'[channel] /\ bus'[channel][i - 1][1] = k
        BY <1>3, <1>5, <4>1, <4>3
      <4>5. QED BY <4>4 DEF InFlight
    <3>5. QED BY <3>3, <3>4
  <2>4. QED BY <2>2, <2>3
<1>13. DOMAIN accepted \subseteq Ids /\ DOMAIN accepted' = DOMAIN accepted /\ evicted' = evicted
       /\ lost' = lost /\ requests' = requests
  BY <1>1, <1>9 DEF IInv, Shapes, IsReceiptMap, SameReceipts, ghosts
<1>14. ResultIsComing'
  <2>1. ASSUME NEW k \in DOMAIN accepted \ (lost \cup evicted), accepted'[k].state = "accepted"
        PROVE  \E s \in Requests : requests[s] # Idle /\ requests[s].id = k
                                   /\ requests[s].at = accepted'[k].at
    BY <1>9, <2>1 DEF IInv, ResultIsComing
  <2>2. ASSUME NEW k \in DOMAIN accepted \ (lost \cup evicted), accepted'[k].state = "running"
        PROVE  InFlight(k)'
    <3>1. k # id /\ k \in Ids /\ accepted[k].state = "running"
      BY <1>9, <1>13, <2>2
    <3>2. InFlight(k)
      BY <2>2, <3>1 DEF IInv, ResultIsComing, InFlight
    <3>3. QED
      BY <1>12, <3>1, <3>2
  <2>3. QED
    BY <1>13, <2>1, <2>2 DEF ResultIsComing, InFlight
<1>15. SentIsInFlight'
  BY <1>9, <1>12, <1>13 DEF IInv, SentIsInFlight
<1>16. requests' \in [Requests -> {Idle} \cup RequestRecord] /\ seeds' \subseteq 1 .. session
  BY <1>1 DEF IInv, Shapes, leaseVars
<1>17. QED
  BY <1>1, <1>5, <1>9, <1>11, <1>14, <1>15, <1>16, StoreKeeps DEF leaseVars

----------------------------------------------------------------------------
(* Receipts come and go.                                                   *)

\* A command that failed is forgotten, and it did not run.
LEMMA RollbackKeeps ==
    ASSUME IInv, NEW r \in Requests, Rollback(r)
    PROVE  IInv'
<1> DEFINE n == Keep(accepted, DOMAIN accepted \ {requests[r].id})
<1>1. /\ requests[r].pc = "failed" /\ Save(n) /\ Answer(r)
      /\ UNCHANGED <<clock, horizon, leaseVars, workerVars, bus, faults, ghosts>>
  BY DEF Rollback
<1>2. requests[r].id \in Ids /\ Held(r)
  BY <1>1, RequestTypes DEF RequestRecord, Held
<1>3. PICK id \in Ids : id = requests[r].id
  BY <1>2
<1>4. /\ DOMAIN n = DOMAIN accepted \ {id} /\ \A k \in DOMAIN n : n[k] = accepted[k]
      /\ IsReceiptMap(n)
  BY <1>3 DEF Keep, IInv, Shapes, IsReceiptMap
<1> HIDE DEF n
<1>5. accepted' = n /\ IsReceiptMap(disk)' /\ DiskIsCurrent'
  BY <1>1, <1>4, SaveIsCurrent
<1>6. IsReceiptMap(accepted)'
  BY <1>4, <1>5 DEF IsReceiptMap
<1>7. StoreIsBounded'
  <2>1. IsFiniteSet(DOMAIN accepted) /\ Cardinality(DOMAIN accepted) <= MaxEntries
    BY DEF IInv, StoreIsBounded
  <2>2. DOMAIN accepted' \subseteq DOMAIN accepted
    BY <1>4, <1>5
  <2>3. IsFiniteSet(DOMAIN accepted') /\ Cardinality(DOMAIN accepted') <= Cardinality(DOMAIN accepted)
    BY <2>1, <2>2, FS_Subset
  <2>4. Cardinality(DOMAIN accepted) \in Nat /\ Cardinality(DOMAIN accepted') \in Nat /\ MaxEntries \in Nat
    BY <2>1, <2>3, FS_CardinalityType, ReceiptAssumption
  <2>5. QED
    BY <2>1, <2>3, <2>4 DEF StoreIsBounded
<1>8. /\ requests' \in [Requests -> {Idle} \cup RequestRecord]
      /\ requests'[r] = Idle /\ requests'[r].pc = "idle"
      /\ \A s \in Requests \ {r} : requests'[s] = requests[s]
  BY <1>1, AnswerOf
<1>9. evicted' = evicted /\ lost' = lost /\ ran' = ran /\ horizon' = horizon /\ clock' = clock
  BY <1>1 DEF ghosts
<1>10. \A s \in Requests : Held(s)' => s # r /\ Held(s) /\ requests'[s] = requests[s]
  BY <1>8 DEF Held
<1>11. \A s \in Requests \ {r} : Held(s) /\ requests[s].id = id => id \in evicted
  BY <1>2, <1>3 DEF IInv, RequestsHold, HoldsItsReceipt
<1>12. RequestsHold'
  <2>1. \A s \in Requests : Held(s)' => HoldsItsReceipt(s)'
    BY <1>4, <1>5, <1>9, <1>10, <1>11 DEF IInv, RequestsHold, HoldsItsReceipt
  <2>2. \A s, u \in Requests : Held(s)' /\ Held(u)' /\ requests'[s].at = requests'[u].at => s = u
    BY <1>10 DEF IInv, RequestsHold
  <2>3. \A s \in Requests : requests'[s].pc = "leased" => requests'[s].at = 0
    BY <1>8 DEF IInv, RequestsHold
  <2>4. QED
    BY <2>1, <2>2, <2>3 DEF RequestsHold, Held
<1>13. RanIsReceipted'
  <2>1. \A k \in Ids \ evicted : \A at \in ran[k] : at > horizon => k # id
    BY <1>1, <1>2, <1>3 DEF IInv, RequestsHold, HoldsItsReceipt, RanIsReceipted
  <2>2. QED
    BY <1>4, <1>5, <1>9, <2>1 DEF IInv, RanIsReceipted
<1>14. \A k \in Ids : InFlight(k)' <=> InFlight(k)
  BY <1>1 DEF InFlight, Working, workerVars
<1>15. DOMAIN accepted \subseteq Ids
  BY DEF IInv, Shapes, IsReceiptMap
<1>16. ResultIsComing'
  <2>1. ASSUME NEW k \in DOMAIN accepted' \ (lost \cup evicted), accepted'[k].state = "accepted"
        PROVE  \E s \in Requests : requests'[s] # Idle /\ requests'[s].id = k
                                   /\ requests'[s].at = accepted'[k].at
    <3>1. k \in DOMAIN accepted \ (lost \cup evicted) /\ accepted'[k] = accepted[k] /\ k # id
      BY <1>4, <1>5, <2>1
    <3>2. PICK s \in Requests : requests[s] # Idle /\ requests[s].id = k /\ requests[s].at = accepted[k].at
      BY <2>1, <3>1 DEF IInv, ResultIsComing
    <3>3. s # r
      BY <1>3, <3>1, <3>2
    <3>4. QED
      BY <1>8, <3>1, <3>2, <3>3
  <2>2. ASSUME NEW k \in DOMAIN accepted' \ (lost \cup evicted), accepted'[k].state = "running"
        PROVE  InFlight(k)'
    <3>1. k \in DOMAIN accepted \ (lost \cup evicted) /\ accepted'[k] = accepted[k]
      BY <1>4, <1>5, <2>2
    <3>2. QED
      BY <1>14, <1>15, <2>2, <3>1 DEF IInv, ResultIsComing, InFlight
  <2>3. QED
    BY <1>9, <2>1, <2>2 DEF ResultIsComing, InFlight
<1>17. SentIsInFlight'
  <2>1. \A k \in DOMAIN accepted' : k \in DOMAIN accepted /\ accepted'[k] = accepted[k]
    BY <1>4, <1>5
  <2>2. QED
    BY <1>8, <1>9, <1>14, <1>15, <2>1 DEF IInv, SentIsInFlight
<1>18. seeds' \subseteq 1 .. session /\ bus' \in [Channels -> Seq(Event)]
  BY <1>1 DEF IInv, Shapes, leaseVars
<1>19. QED
  BY <1>1, <1>5, <1>6, <1>7, <1>8, <1>12, <1>13, <1>16, <1>17, <1>18, StoreKeeps DEF leaseVars

\* A receipt that is recorded is younger than all, and what it pushes out is evicted.
LEMMA InsertKeeps ==
    ASSUME IInv, NEW id \in Ids, NEW e \in Receipts, e.at = clock + 1, Insert(id, e),
           UNCHANGED horizon
    PROVE  /\ IsReceiptMap(accepted)' /\ IsReceiptMap(disk)' /\ DiskIsCurrent' /\ StoreIsBounded'
           /\ clock' = clock + 1 /\ evicted \subseteq evicted' /\ evicted' \subseteq Ids
           /\ \A k \in DOMAIN accepted' : accepted'[k] = IF k = id THEN e ELSE accepted[k]
           /\ DOMAIN accepted' \subseteq DOMAIN accepted \cup {id}
           /\ (DOMAIN accepted \cup {id}) \ evicted' \subseteq DOMAIN accepted'
<1> DEFINE m == Put(accepted, id, e)
           n == Evict(m)
<1>1. Save(n) /\ clock' = clock + 1 /\ evicted' = evicted \cup (DOMAIN m \ DOMAIN n)
  BY DEF Insert
<1>2. /\ DOMAIN m = DOMAIN accepted \cup {id}
      /\ \A k \in DOMAIN m : m[k] = IF k = id THEN e ELSE accepted[k]
  BY DEF Put
<1>3. IsReceiptMap(accepted) /\ evicted \subseteq Ids
  BY DEF IInv, Shapes
<1> HIDE DEF m
<1>4. IsReceiptMap(m)
  BY <1>2, <1>3 DEF IsReceiptMap
<1>5. IsFiniteSet(DOMAIN m) /\ Cardinality(DOMAIN m) <= MaxEntries + 1
  <2>1. IsFiniteSet(DOMAIN accepted) /\ Cardinality(DOMAIN accepted) <= MaxEntries
    BY DEF IInv, StoreIsBounded
  <2>2. IsFiniteSet(DOMAIN m) /\ (Cardinality(DOMAIN m) = Cardinality(DOMAIN accepted)
                                  \/ Cardinality(DOMAIN m) = Cardinality(DOMAIN accepted) + 1)
    BY <1>2, <2>1, FS_AddElement
  <2>3. Cardinality(DOMAIN accepted) \in Nat /\ MaxEntries \in Nat
    BY <2>1, FS_CardinalityType, ReceiptAssumption
  <2>4. QED
    BY <2>1, <2>2, <2>3
<1>6. /\ IsReceiptMap(n) /\ DOMAIN n \subseteq DOMAIN m
      /\ \A k \in DOMAIN n : n[k] = m[k]
      /\ IsFiniteSet(DOMAIN n) /\ Cardinality(DOMAIN n) <= MaxEntries
  BY <1>4, <1>5, EvictKeepsBound
<1> HIDE DEF n
<1>7. accepted' = n /\ IsReceiptMap(disk)' /\ DiskIsCurrent'
  BY <1>1, <1>6, SaveIsCurrent
<1>8. IsReceiptMap(accepted)'
  BY <1>6, <1>7 DEF IsReceiptMap
<1>9. StoreIsBounded'
  BY <1>6, <1>7 DEF StoreIsBounded
<1>10. DOMAIN m \subseteq Ids
  BY <1>4 DEF IsReceiptMap
<1>11. QED
  BY <1>1, <1>2, <1>3, <1>6, <1>7, <1>8, <1>9, <1>10

\* A command is recorded when no receipt of its id is young enough.
LEMMA RecordKeeps ==
    ASSUME IInv, NEW r \in Requests, Record(r)
    PROVE  IInv'
<1> DEFINE e == [session |-> requests[r].session, payload |-> requests[r].payload,
                 at |-> clock + 1, state |-> "accepted"]
           q == [requests[r] EXCEPT !.pc = "recorded", !.at = clock + 1]
<1>1. /\ requests[r].pc = "leased" /\ ~Known(requests[r].id) /\ clock < MaxRecords
      /\ Insert(requests[r].id, e)
      /\ requests' = [requests EXCEPT ![r].pc = "recorded", ![r].at = clock + 1]
      /\ UNCHANGED <<horizon, leaseVars, workerVars, bus, faults, ran, lost>>
  BY DEF Record
<1>2. requests[r] \in RequestRecord
  BY <1>1, RequestTypes
<1>3. /\ clock \in Nat /\ clock + 1 \in 1 .. MaxRecords /\ horizon \in 0 .. clock
      /\ requests \in [Requests -> {Idle} \cup RequestRecord] /\ ran \in [Ids -> SUBSET (1 .. clock)]
  BY <1>1, ReceiptAssumption DEF IInv, Shapes
<1>4. e \in Receipts /\ e.at = clock + 1 /\ e.state = "accepted"
  BY <1>2, <1>3 DEF RequestRecord, Receipts, States
<1>5. /\ q \in RequestRecord /\ q.pc = "recorded" /\ q.at = clock + 1 /\ q.id = requests[r].id
  <2>1. clock + 1 \in 0 .. MaxRecords
    BY <1>3, ReceiptAssumption
  <2>2. QED
    BY <1>2, <2>1 DEF RequestRecord
<1>6. requests' = [requests EXCEPT ![r] = q]
  BY <1>1, <1>3
<1> HIDE DEF e, q
<1>7. PICK id \in Ids : id = requests[r].id
  BY <1>2 DEF RequestRecord
<1>8. /\ IsReceiptMap(accepted)' /\ IsReceiptMap(disk)' /\ DiskIsCurrent' /\ StoreIsBounded'
      /\ clock' = clock + 1 /\ evicted \subseteq evicted' /\ evicted' \subseteq Ids
      /\ \A k \in DOMAIN accepted' : accepted'[k] = IF k = id THEN e ELSE accepted[k]
      /\ DOMAIN accepted' \subseteq DOMAIN accepted \cup {id}
      /\ (DOMAIN accepted \cup {id}) \ evicted' \subseteq DOMAIN accepted'
  BY <1>1, <1>4, <1>7, InsertKeeps
<1>9. /\ requests' \in [Requests -> {Idle} \cup RequestRecord]
      /\ requests'[r] = q /\ q # Idle
      /\ \A s \in Requests \ {r} : requests'[s] = requests[s]
  BY <1>3, <1>5, <1>6 DEF Idle
<1>10. horizon' = horizon /\ ran' = ran /\ lost' = lost
  BY <1>1
<1>11. \A k \in Ids : InFlight(k)' <=> InFlight(k)
  BY <1>1 DEF InFlight, Working, workerVars
<1>12. DOMAIN accepted \subseteq Ids /\ \A k \in DOMAIN accepted : accepted[k].at \in 1 .. MaxRecords
  BY DEF IInv, Shapes, IsReceiptMap, Receipts
<1>13. id \in DOMAIN accepted => ~(accepted[id].at > horizon)
  BY <1>1, <1>7 DEF Known, Live
<1>14. ASSUME NEW s \in Requests, Held(s)
       PROVE  /\ s # r /\ requests[s].at \in 1 .. clock
              /\ requests[s].id \notin evicted => requests[s].id # id
  <2>1. HoldsItsReceipt(s) /\ s # r
    BY <1>1, <1>14 DEF IInv, RequestsHold, Held
  <2>2. QED
    BY <1>13, <2>1 DEF HoldsItsReceipt
<1>15. \A s \in Requests \ {r} : Held(s)' => Held(s)
  BY <1>9 DEF Held
<1>16. RequestsHold'
  <2>1. ASSUME NEW s \in Requests, Held(s)' PROVE HoldsItsReceipt(s)'
    <3>1. CASE s = r
      <4>1. clock + 1 \in 1 .. clock' /\ clock + 1 > horizon
        BY <1>3, <1>8
      <4>2. id \notin evicted' => id \in DOMAIN accepted' /\ accepted'[id].at = clock + 1
        BY <1>4, <1>8
      <4>3. clock + 1 \notin ran[id]
        BY <1>3
      <4>4. QED
        BY <1>5, <1>7, <1>9, <1>10, <3>1, <4>1, <4>2, <4>3 DEF HoldsItsReceipt
    <3>2. CASE s # r
      <4>1. requests'[s] = requests[s] /\ Held(s)
        BY <1>9, <1>15, <2>1, <3>2
      <4>2. HoldsItsReceipt(s) /\ requests[s].id \in Ids
        BY <4>1, RequestTypes DEF IInv, RequestsHold, Held, RequestRecord
      <4>3. requests[s].at \in 1 .. clock' /\ requests[s].at > horizon
        BY <1>3, <1>8, <4>2 DEF HoldsItsReceipt
      <4>4. requests[s].id \notin evicted' =>
              requests[s].id \in DOMAIN accepted' /\ accepted'[requests[s].id].at = requests[s].at
        BY <1>8, <1>14, <4>1, <4>2 DEF HoldsItsReceipt
      <4>5. QED
        BY <1>10, <4>1, <4>2, <4>3, <4>4 DEF HoldsItsReceipt
    <3>3. QED BY <3>1, <3>2
  <2>2. ASSUME NEW s \in Requests, NEW u \in Requests, Held(s)', Held(u)', requests'[s].at = requests'[u].at
        PROVE  s = u
    <3>1. CASE s # r /\ u # r
      BY <1>9, <1>15, <2>2, <3>1 DEF IInv, RequestsHold
    <3>2. CASE s = r /\ u # r
      BY <1>3, <1>5, <1>9, <1>14, <1>15, <2>2, <3>2
    <3>3. CASE s # r /\ u = r
      BY <1>3, <1>5, <1>9, <1>14, <1>15, <2>2, <3>3
    <3>4. QED BY <3>1, <3>2, <3>3
  <2>3. \A s \in Requests : requests'[s].pc = "leased" => requests'[s].at = 0
    BY <1>5, <1>9 DEF IInv, RequestsHold
  <2>4. QED
    BY <2>1, <2>2, <2>3 DEF RequestsHold, Held
<1>17. RanIsReceipted'
  <2>1. ASSUME NEW k \in Ids \ evicted', NEW at \in ran[k], at > horizon
        PROVE  k \in DOMAIN accepted' /\ accepted'[k].at = at
    <3>1. k \in DOMAIN accepted /\ accepted[k].at = at
      BY <1>8, <2>1 DEF IInv, RanIsReceipted
    <3>2. k # id
      BY <1>13, <2>1, <3>1
    <3>3. QED
      BY <1>8, <2>1, <3>1, <3>2
  <2>2. QED
    BY <1>10, <2>1 DEF RanIsReceipted
<1>18. ResultIsComing'
  <2>1. ASSUME NEW k \in DOMAIN accepted' \ (lost \cup evicted'), accepted'[k].state = "accepted"
        PROVE  \E s \in Requests : requests'[s] # Idle /\ requests'[s].id = k
                                   /\ requests'[s].at = accepted'[k].at
    <3>1. CASE k = id
      BY <1>4, <1>5, <1>7, <1>8, <1>9, <2>1, <3>1
    <3>2. CASE k # id
      <4>1. k \in DOMAIN accepted \ (lost \cup evicted) /\ accepted'[k] = accepted[k]
        BY <1>8, <2>1, <3>2
      <4>2. PICK s \in Requests : requests[s] # Idle /\ requests[s].id = k /\ requests[s].at = accepted[k].at
        BY <2>1, <4>1 DEF IInv, ResultIsComing
      <4>3. s # r
        BY <1>7, <3>2, <4>2
      <4>4. QED
        BY <1>9, <4>1, <4>2, <4>3
    <3>3. QED BY <3>1, <3>2
  <2>2. ASSUME NEW k \in DOMAIN accepted' \ (lost \cup evicted'), accepted'[k].state = "running"
        PROVE  InFlight(k)'
    <3>1. k # id
      BY <1>4, <1>8, <2>2
    <3>2. k \in DOMAIN accepted \ (lost \cup evicted) /\ accepted'[k] = accepted[k]
      BY <1>8, <2>2, <3>1
    <3>3. QED
      BY <1>11, <1>12, <2>2, <3>2 DEF IInv, ResultIsComing, InFlight
  <2>3. QED
    BY <1>10, <2>1, <2>2 DEF ResultIsComing, InFlight
<1>19. SentIsInFlight'
  <2>1. ASSUME NEW s \in Requests, NEW k \in DOMAIN accepted' \ (lost \cup evicted'),
               requests'[s].pc = "sent", requests'[s].id = k, accepted'[k].state = "accepted"
        PROVE  InFlight(k)'
    <3>1. s # r /\ requests[s].pc = "sent" /\ requests[s].id = k
      BY <1>5, <1>9, <2>1
    <3>2. k # id
      BY <1>8, <1>14, <2>1, <3>1 DEF Held
    <3>3. k \in DOMAIN accepted \ (lost \cup evicted) /\ accepted'[k] = accepted[k]
      BY <1>8, <2>1, <3>2
    <3>4. QED
      BY <1>11, <1>12, <2>1, <3>1, <3>3 DEF IInv, SentIsInFlight
  <2>2. QED
    BY <1>10, <2>1 DEF SentIsInFlight
<1>20. Shapes'
  <2>1. clock' \in 0 .. MaxRecords /\ horizon' \in 0 .. clock' /\ ran' \in [Ids -> SUBSET (1 .. clock')]
    <3>1. 1 .. clock \subseteq 1 .. clock'
      BY <1>3, <1>8
    <3>2. ran' \in [Ids -> SUBSET (1 .. clock')]
      BY <1>3, <1>10, <3>1
    <3>3. QED
      BY <1>3, <1>8, <1>10, <3>2
  <2>2. QED
    BY <1>1, <1>8, <1>9, <2>1 DEF IInv, Shapes, leaseVars, workerVars
<1>21. QED
  BY <1>8, <1>16, <1>17, <1>18, <1>19, <1>20 DEF IInv

\* The oldest receipts stop counting, and none of them is a request's.
LEMMA ExpireKeeps ==
    ASSUME IInv, Expire
    PROVE  IInv'
<1>1. /\ horizon < clock /\ horizon' = horizon + 1
      /\ \A r \in Requests : requests[r] # Idle => requests[r].at \notin 1 .. horizon + 1
      /\ UNCHANGED <<accepted, disk, clock, leaseVars, requests, workerVars, bus, faults, ghosts>>
  BY DEF Expire
<1>2. clock \in 0 .. MaxRecords /\ horizon \in 0 .. clock /\ MaxRecords \in Nat
  BY ReceiptAssumption DEF IInv, Shapes
<1>3. /\ IsReceiptMap(accepted) /\ IsReceiptMap(disk)
      /\ \A k \in DOMAIN accepted : accepted[k].at \in Nat
      /\ \A k \in DOMAIN disk : disk[k].at \in Nat
  BY ReceiptAssumption DEF IInv, Shapes, IsReceiptMap, Receipts
<1>4. Shapes'
  BY <1>1, <1>2 DEF IInv, Shapes, IsReceiptMap, leaseVars, workerVars, ghosts
<1>5. StoreIsBounded'
  BY <1>1 DEF IInv, StoreIsBounded
<1>6. DiskIsCurrent'
  <2>1. \A k : k \in Live(accepted, horizon + 1) <=> k \in DOMAIN accepted /\ accepted[k].at > horizon + 1
    BY DEF Live
  <2>2. \A k : k \in Live(disk, horizon + 1) <=> k \in DOMAIN disk /\ disk[k].at > horizon + 1
    BY DEF Live
  <2>3. /\ \A k : k \in DOMAIN accepted /\ accepted[k].at > horizon
                     <=> k \in DOMAIN disk /\ disk[k].at > horizon
        /\ \A k \in DOMAIN accepted : accepted[k].at > horizon => disk[k] = accepted[k]
    <3>1. /\ Live(disk, horizon) = Live(accepted, horizon)
          /\ \A k \in Live(accepted, horizon) : disk[k] = accepted[k]
      BY DEF IInv, DiskIsCurrent
    <3>2. QED
      BY <3>1 DEF Live
  <2>4. \A k : k \in DOMAIN accepted /\ accepted[k].at > horizon + 1
                  <=> k \in DOMAIN disk /\ disk[k].at > horizon + 1
    BY <1>2, <1>3, <2>3
  <2>5. Live(disk, horizon + 1) = Live(accepted, horizon + 1)
    BY <2>1, <2>2, <2>4
  <2>6. \A k \in Live(accepted, horizon + 1) : disk[k] = accepted[k]
    BY <1>2, <1>3, <2>1, <2>3
  <2>7. QED
    BY <1>1, <2>5, <2>6 DEF DiskIsCurrent
<1>7. RequestsHold'
  <2>1. ASSUME NEW r \in Requests, Held(r) PROVE HoldsItsReceipt(r)'
    <3>1. HoldsItsReceipt(r) /\ requests[r] # Idle
      BY <2>1 DEF IInv, RequestsHold, Held, Idle
    <3>2. requests[r].at \in 1 .. clock /\ requests[r].at > horizon + 1
      BY <1>1, <1>2, <3>1 DEF HoldsItsReceipt
    <3>3. QED
      BY <1>1, <3>1, <3>2 DEF HoldsItsReceipt, ghosts
  <2>2. QED
    BY <1>1, <2>1 DEF IInv, RequestsHold, Held
<1>8. RanIsReceipted'
  <2>1. \A k \in Ids : \A at \in ran[k] : at \in Nat
    BY <1>2 DEF IInv, Shapes
  <2>2. \A k \in Ids : \A at \in ran[k] : at > horizon + 1 => at > horizon
    BY <1>2, <2>1
  <2>3. QED
    BY <1>1, <2>2 DEF IInv, RanIsReceipted, ghosts
<1>9. ResultIsComing' /\ SentIsInFlight'
  BY <1>1 DEF IInv, ResultIsComing, SentIsInFlight, InFlight, Working, ghosts, workerVars
<1>10. QED
  BY <1>4, <1>5, <1>6, <1>7, <1>8, <1>9 DEF IInv

\* What had run is in the file the daemon starts from.
LEMMA RestartKeeps ==
    ASSUME IInv, Restart
    PROVE  IInv'
<1> DEFINE n == Keep(disk, Live(disk, horizon))
<1>1. /\ accepted' = n /\ requests' = [r \in Requests |-> Idle]
      /\ lease' = "none" /\ seeds' = {} /\ alive' = FALSE /\ inbox' = <<>> /\ job' = None
      /\ bus' = [c \in Channels |-> <<>>] /\ lost' = Ids
      /\ UNCHANGED <<disk, clock, horizon, session, ran, evicted>>
  BY DEF Restart
<1>2. /\ Live(disk, horizon) = Live(accepted, horizon)
      /\ \A k \in Live(accepted, horizon) : disk[k] = accepted[k]
  BY DEF IInv, DiskIsCurrent
<1>3. /\ \A k : k \in Live(accepted, horizon) <=> k \in DOMAIN accepted /\ accepted[k].at > horizon
      /\ \A k : k \in Live(disk, horizon) <=> k \in DOMAIN disk /\ disk[k].at > horizon
  BY DEF Live
<1>4. DOMAIN n = Live(accepted, horizon) /\ \A k \in DOMAIN n : n[k] = accepted[k]
  BY <1>2 DEF Keep
<1> HIDE DEF n
<1>5. IsReceiptMap(accepted)'
  BY <1>1, <1>3, <1>4 DEF IInv, Shapes, IsReceiptMap
<1>6. IsReceiptMap(disk)'
  BY <1>1 DEF IInv, Shapes, IsReceiptMap
<1>7. StoreIsBounded'
  <2>1. IsFiniteSet(DOMAIN accepted) /\ Cardinality(DOMAIN accepted) <= MaxEntries
    BY DEF IInv, StoreIsBounded
  <2>2. DOMAIN n \subseteq DOMAIN accepted
    BY <1>3, <1>4
  <2>3. IsFiniteSet(DOMAIN n) /\ Cardinality(DOMAIN n) <= Cardinality(DOMAIN accepted)
    BY <2>1, <2>2, FS_Subset
  <2>4. Cardinality(DOMAIN accepted) \in Nat /\ Cardinality(DOMAIN n) \in Nat /\ MaxEntries \in Nat
    BY <2>1, <2>3, FS_CardinalityType, ReceiptAssumption
  <2>5. QED
    BY <1>1, <2>1, <2>3, <2>4 DEF StoreIsBounded
<1>8. DiskIsCurrent'
  <2>1. Live(n, horizon) = Live(accepted, horizon)
    BY <1>3, <1>4 DEF Live
  <2>2. QED
    BY <1>1, <1>2, <1>4, <2>1 DEF DiskIsCurrent
<1>9. RequestsHold'
  BY <1>1 DEF RequestsHold, Held, Idle
<1>10. RanIsReceipted'
  BY <1>1, <1>3, <1>4 DEF IInv, RanIsReceipted
<1>11. ResultIsComing' /\ SentIsInFlight'
  <2>1. DOMAIN accepted' \subseteq lost'
    BY <1>1, <1>5 DEF IsReceiptMap
  <2>2. QED
    BY <2>1 DEF ResultIsComing, SentIsInFlight
<1>12. Shapes'
  <2>1. <<>> \in Seq(Ids) /\ <<>> \in Seq(Event)
    OBVIOUS
  <2>2. inbox' \in Seq(Ids) /\ bus' \in [Channels -> Seq(Event)]
    BY <1>1, <2>1
  <2>3. requests' \in [Requests -> {Idle} \cup RequestRecord]
    BY <1>1
  <2>4. alive' \in BOOLEAN /\ job' = None /\ inbox' = <<>> /\ lost' \subseteq Ids /\ seeds' = {}
        /\ lease' = "none"
    BY <1>1
  <2>5. /\ clock' \in 0 .. MaxRecords /\ horizon' \in 0 .. clock' /\ session' \in 0 .. MaxSessions
        /\ ran' \in [Ids -> SUBSET (1 .. clock')] /\ evicted' \subseteq Ids
    BY <1>1 DEF IInv, Shapes
  <2>6. QED
    BY <1>5, <1>6, <2>2, <2>3, <2>4, <2>5 DEF Shapes
<1>13. QED
  BY <1>7, <1>8, <1>9, <1>10, <1>11, <1>12 DEF IInv

----------------------------------------------------------------------------
(* The invariant.                                                          *)

LEMMA InitHolds == Init => IInv
<1> SUFFICES ASSUME Init PROVE IInv
  OBVIOUS
<1>1. DOMAIN accepted = {} /\ DOMAIN disk = {}
  BY DEF Init
<1>2. Shapes
  <2>1. <<>> \in Seq(Ids) /\ <<>> \in Seq(Event)
    OBVIOUS
  <2>2. inbox \in Seq(Ids) /\ bus \in [Channels -> Seq(Event)] /\ alive \in BOOLEAN
        /\ inbox = <<>> /\ job = None
    BY <2>1 DEF Init
  <2>3. clock \in 0 .. MaxRecords /\ horizon \in 0 .. clock /\ session \in 0 .. MaxSessions
        /\ lease = "none" /\ seeds = {} /\ evicted = {} /\ lost = {}
    BY ReceiptAssumption DEF Init
  <2>4. requests \in [Requests -> {Idle} \cup RequestRecord] /\ ran \in [Ids -> SUBSET (1 .. clock)]
    BY DEF Init
  <2>5. QED
    BY <1>1, <2>2, <2>3, <2>4 DEF Shapes, IsReceiptMap
<1>3. StoreIsBounded
  <2>1. Cardinality({}) = 0 /\ IsFiniteSet({})
    BY FS_EmptySet
  <2>2. QED
    BY <1>1, <2>1, ReceiptAssumption DEF StoreIsBounded
<1>4. DiskIsCurrent
  BY <1>1 DEF DiskIsCurrent, Live
<1>5. RequestsHold
  BY DEF Init, RequestsHold, Held, Idle
<1>6. RanIsReceipted
  BY DEF Init, RanIsReceipted
<1>7. ResultIsComing /\ SentIsInFlight
  BY <1>1 DEF ResultIsComing, SentIsInFlight
<1>8. QED
  BY <1>2, <1>3, <1>4, <1>5, <1>6, <1>7 DEF IInv

LEMMA RequestStepKeeps ==
    ASSUME IInv, NEW r \in Requests, Request(r)
    PROVE  IInv'
<1>1. CASE AnswerKnown(r)  BY <1>1, AnswerKnownKeeps
<1>2. CASE Record(r)  BY <1>2, RecordKeeps
<1>3. CASE Dispatch(r)  BY <1>3, DispatchSends
<1>4. CASE DispatchFails(r)  BY <1>4, DispatchFailsKeeps
<1>5. CASE Rollback(r)  BY <1>5, RollbackKeeps
<1>6. CASE Settle(r)  BY <1>6, SettleKeeps
<1>7. CASE CloseWorker(r)  BY <1>7, CloseWorkerKeeps
<1>8. CASE PublishClosed(r)  BY <1>8, PublishClosedKeeps
<1>9. CASE Resume(r)  BY <1>9, ResumeKeeps
<1>10. CASE Conclude(r)  BY <1>10, ConcludeKeeps
<1>11. QED
  BY <1>1, <1>2, <1>3, <1>4, <1>5, <1>6, <1>7, <1>8, <1>9, <1>10 DEF Request

LEMMA StutterKeeps == IInv /\ UNCHANGED vars => IInv'
<1> SUFFICES ASSUME IInv, UNCHANGED vars PROVE IInv'
  OBVIOUS
<1>1. UNCHANGED <<receiptVars, requests, workerVars, bus, ghosts, leaseVars>>
  BY DEF vars
<1>2. QED
  BY <1>1, LeaseKeeps DEF IInv, Shapes, leaseVars

LEMMA NextKeeps == IInv /\ [Next]_vars => IInv'
<1> SUFFICES ASSUME IInv, [Next]_vars PROVE IInv'
  OBVIOUS
<1>1. CASE Open \/ LeaseLapses \/ Renew
  BY <1>1, LeasesKeep
<1>2. CASE \E r \in Requests : Request(r)
  BY <1>2, RequestStepKeeps
<1>3. CASE \E r \in Requests : \E k \in Ids : \E payload \in PayloadsOf(k) : Arrive(r, k, payload)
  BY <1>3, ArriveKeeps
<1>4. CASE Start
  BY <1>4, StartKeeps
<1>5. CASE Yield \/ WorkerDies
  BY <1>5, LossKeeps
<1>6. CASE \E outcome \in Outcomes :
              FinishOperation(outcome) \/ FinishTool(outcome) \/ FinishTurn(outcome)
  BY <1>6, FinishesKeep
<1>7. CASE \E channel \in Channels : Observe(channel)
  BY <1>7, ObserveKeeps
<1>8. CASE Expire
  BY <1>8, ExpireKeeps
<1>9. CASE Restart
  BY <1>9, RestartKeeps
<1>10. CASE UNCHANGED vars
  BY <1>10, StutterKeeps
<1>11. QED
  BY <1>1, <1>2, <1>3, <1>4, <1>5, <1>6, <1>7, <1>8, <1>9, <1>10 DEF Next

\* The inductive invariant holds of every state the daemon reaches.
THEOREM Invariance == Spec => []IInv
<1>1. QED
  BY InitHolds, NextKeeps, PTL DEF Spec

\* A retry never runs an accepted command twice: while its receipt is young enough
\* and was not pushed out, a worker was given its id under one acceptance at most
\* (record_fingerprint_owned, registry.send_ringing, rollback).
THEOREM ARetryDoesNotRunTwice == Spec => []AtMostOnce
<1>1. IInv => AtMostOnce
  <2> SUFFICES ASSUME IInv, NEW k \in Ids \ evicted
               PROVE  Cardinality({at \in ran[k] : at > horizon}) <= 1
    BY DEF AtMostOnce
  <2> DEFINE counted == {at \in ran[k] : at > horizon}
  <2>1. \A at \in counted : at = accepted[k].at
    BY DEF IInv, RanIsReceipted
  <2>2. CASE counted = {}
    BY <2>2, FS_EmptySet
  <2>3. CASE counted # {}
    <3>1. counted = {accepted[k].at}
      BY <2>1, <2>3
    <3>2. Cardinality({accepted[k].at}) = 1
      BY FS_Singleton
    <3>3. QED
      BY <3>1, <3>2
  <2>4. QED
    BY <2>2, <2>3
<1>2. QED
  BY <1>1, Invariance, PTL

\* No receipt waits for nothing: an accepted one has a request at work, a running
\* one has a worker or an event on the way (mark_running after send_ringing,
\* observe_terminal_event).
THEOREM NoReceiptWaitsForNothing == Spec => []ResultIsComing
<1>1. IInv => ResultIsComing
  BY DEF IInv
<1>2. QED
  BY <1>1, Invariance, PTL

\* The state keeps its types, and the store its bound (PendingCommandStore).
THEOREM TypeCorrect == Spec => []ReceiptsTypeOK
<1>1. IInv => ReceiptsTypeOK
  BY DEF IInv, Shapes, StoreIsBounded, ReceiptsTypeOK, Job
<1>2. QED
  BY <1>1, Invariance, PTL
=============================================================================
