-------------------------- MODULE EventChannelProofs --------------------------
(***************************************************************************)
(* One event channel and one client, for any sets of sessions and any      *)
(* capacities: no connection shows an event twice, no replay shows the     *)
(* checkpoint of a round that is done, and every reliable event that is    *)
(* published in the order of its number reaches the client.                *)
(***************************************************************************)
EXTENDS EventChannel, FiniteSetTheorems, SequenceTheorems, WellFoundedInduction, TLAPS

----------------------------------------------------------------------------
(* What the variables are.                                                 *)

Owing == [event : Events, late : BOOLEAN]

HubTyped ==
    /\ history \in [Seeds -> Nat] /\ counter \in Nat /\ newest \in Nat
    /\ loaded \subseteq Seeds /\ numbered \in [Seeds -> Nat]
    /\ journal \in [Seeds -> Seq(Events)]
    /\ evicted \in [Seeds -> Nat] /\ slot \in [Seeds -> Nat]
ConnectionTyped ==
    /\ rx \in Seq(Events) /\ wire \in Seq(Events \cup Resets)
    /\ after \in Nat /\ replayed \subseteq Events /\ serving \in BOOLEAN
ClientTyped ==
    /\ phase \in Phases /\ cursor \in Nat /\ attached \subseteq Seeds
    /\ seen \subseteq Events /\ owed \subseteq Owing

Typed == HubTyped /\ ConnectionTyped /\ ClientTyped

----------------------------------------------------------------------------
(* The inductive invariant.                                                *)

\* A number that a worker holds is its own, and above all that is published of its seed.
NumbersAreDrawn ==
    /\ newest <= counter
    /\ \A s \in Seeds : numbered[s] <= counter
    /\ \A s, t \in Seeds : numbered[s] # 0 /\ numbered[s] = numbered[t] => s = t
    /\ \A s \in Seeds \ loaded : numbered[s] = 0 /\ slot[s] = 0

\* An event that was published: its number is given out, and its worker is past it.
Published(e) == e.seq <= newest /\ (numbered[e.seed] # 0 => e.seq < numbered[e.seed])

JournalIsPublished ==
    \A s \in Seeds :
        /\ slot[s] <= newest /\ (numbered[s] # 0 => slot[s] < numbered[s])
        /\ \A e \in ToSet(journal[s]) : e.seed = s /\ Published(e)

OnTheWay == ToSet(rx) \cup (ToSet(wire) \ Resets) \cup replayed \cup seen

WayIsPublished ==
    /\ \A e \in OnTheWay : Published(e)
    /\ cursor <= newest /\ after <= newest
    /\ attached \subseteq loaded

\* What a connection has by the phase of the client.
ConnectionInStep ==
    /\ phase = "connect" => ~serving /\ wire = <<>> /\ seen = {} /\ replayed = {}
    /\ phase = "subscribed" => wire = <<>> /\ seen = {} /\ replayed = {} /\ after = cursor
    /\ ~serving => rx = <<>>

\* What the receiver has of what was sent already is what live delivery skips.
OverlapIsReplayed ==
    /\ IsInjective(rx) /\ IsInjective(wire)
    /\ ToSet(wire) \cap seen = {}
    /\ \A e \in ToSet(rx) : e \in ToSet(wire) \cup seen => e \in replayed \/ e.seq <= after

NumbersAreSound ==
    /\ NumbersAreDrawn /\ JournalIsPublished /\ WayIsPublished
    /\ ConnectionInStep /\ OverlapIsReplayed

\* The reliable events the client is owed and nobody overtook.
Due == {x.event : x \in {y \in owed : ~y.late}}

\* In q, nothing with a number as large comes before e.
NonePasses(q, e) ==
    \A i \in 1 .. Len(q) :
        q[i] \notin Resets /\ q[i].seq >= e.seq => \E j \in 1 .. i : q[j] = e

\* Nobody else has the number of e.
NumberIsItsOwn(e) ==
    \A s \in Seeds :
        /\ numbered[s] # e.seq /\ slot[s] # e.seq
        /\ \A f \in ToSet(journal[s]) : f.seq = e.seq => f = e

Kept(e) == e \in ToSet(journal[e.seed]) \/ evicted[e.seed] >= e.seq

\* Once the replay is made, an event that is not on the wire comes live and is not skipped.
ComesLive(e) ==
    /\ e \in ToSet(rx) /\ ~AlreadySent(e)
    /\ NonePasses(rx, e)

\* The cursor is not past e, and nothing that is on its way takes it past.
NotPassed(e) ==
    /\ cursor < e.seq
    /\ NonePasses(wire, e)
    /\ phase = "open" /\ serving /\ e \notin ToSet(wire) => ComesLive(e)

DueIsKept ==
    \A e \in Due :
        /\ e.seed \in attached /\ 0 < e.seq /\ e.seq <= newest
        /\ NumberIsItsOwn(e) /\ Kept(e)
DueIsNotPassed ==
    /\ \A e \in Due : Reset(e.seed) \notin ToSet(wire) => NotPassed(e)
    /\ cursor = 0 /\ phase # "open" => Due = {}

DInv == Typed /\ NumbersAreSound /\ DueIsKept /\ DueIsNotPassed
----------------------------------------------------------------------------
(* Numbers and sequences.                                                  *)

LEMMA MaxOfTwo ==
    ASSUME NEW a \in Nat, NEW b \in Nat
    PROVE  /\ Max({a, b}) \in {a, b} /\ Max({a, b}) \in Nat
           /\ Max({a, b}) >= a /\ Max({a, b}) >= b
<1>1. \E x \in {a, b} : \A y \in {a, b} : x >= y
  BY a >= b \/ b >= a
<1>2. Max({a, b}) \in {a, b} /\ \A y \in {a, b} : Max({a, b}) >= y
  BY <1>1 DEF Max
<1> QED BY <1>2

LEMMA Smallest ==
    ASSUME NEW S, S # {}, S \subseteq Nat
    PROVE  \E m \in S : \A k \in S : m <= k
<1> DEFINE R == OpToRel(<, Nat)
<1>1. IsWellFoundedOn(R, Nat)
  BY NatLessThanWellFounded
<1> HIDE DEF R
<1>2. PICK m \in S : \A k \in S : ~(<<k, m>> \in R)
  BY <1>1, WFMin
<1>3. \A k \in S : m <= k
  <2> SUFFICES ASSUME NEW k \in S PROVE m <= k
    OBVIOUS
  <2>1. m \in Nat /\ k \in Nat /\ ~(<<k, m>> \in R)
    BY <1>2
  <2>2. ~(k < m)
    BY <2>1 DEF R, OpToRel
  <2> QED BY <2>1, <2>2
<1> QED BY <1>3

\* What is in a sequence, by its positions.
LEMMA Members ==
    ASSUME NEW S, NEW q \in Seq(S)
    PROVE  /\ Len(q) \in Nat /\ DOMAIN q = 1 .. Len(q)
           /\ ToSet(q) \subseteq S
           /\ \A x : x \in ToSet(q) <=> \E i \in 1 .. Len(q) : q[i] = x
           /\ IsInjective(q) <=> \A i, j \in 1 .. Len(q) : q[i] = q[j] => i = j
           /\ q = <<>> <=> ToSet(q) = {}
<1>1. Len(q) \in Nat /\ DOMAIN q = 1 .. Len(q) /\ \A i \in 1 .. Len(q) : q[i] \in S
  OBVIOUS
<1>2. \A x : x \in ToSet(q) <=> \E i \in 1 .. Len(q) : q[i] = x
  BY <1>1 DEF ToSet
<1>3. IsInjective(q) <=> \A i, j \in 1 .. Len(q) : q[i] = q[j] => i = j
  BY <1>1 DEF IsInjective
<1>4. ToSet(q) \subseteq S
  BY <1>1, <1>2
<1>5. q = <<>> => ToSet(q) = {}
  BY DEF ToSet
<1>6. q # <<>> => ToSet(q) # {}
  <2> HAVE q # <<>>
  <2>1. Len(q) # 0
    BY <1>1, EmptySeq
  <2>2. 1 \in 1 .. Len(q)
    BY <1>1, <2>1
  <2> QED BY <1>2, <2>2
<1> QED BY <1>1, <1>2, <1>3, <1>4, <1>5, <1>6

LEMMA TailKeeps ==
    ASSUME NEW S, NEW q \in Seq(S), q # <<>>
    PROVE  /\ Head(q) \in S /\ Tail(q) \in Seq(S)
           /\ ToSet(q) = {Head(q)} \cup ToSet(Tail(q))
           /\ IsInjective(q) => IsInjective(Tail(q)) /\ Head(q) \notin ToSet(Tail(q))
           /\ \A e : NonePasses(q, e) /\ Head(q) # e =>
                 NonePasses(Tail(q), e) /\ (Head(q) \notin Resets => ~(Head(q).seq >= e.seq))
<1> DEFINE t == Tail(q)
<1>1. /\ Head(q) = q[1] /\ t \in Seq(S) /\ Len(q) \in Nat \ {0} /\ Len(t) = Len(q) - 1
      /\ \A i \in 1 .. Len(t) : t[i] = q[i + 1]
  BY HeadTailProperties, EmptySeq
<1> HIDE DEF t
<1>2. PICK n \in Nat \ {0} : n = Len(q)
  BY <1>1
<1>3. Len(t) = n - 1
  BY <1>1, <1>2
<1>4. \A i \in 2 .. n : i - 1 \in 1 .. n - 1 /\ t[i - 1] = q[i]
  <2> TAKE i \in 2 .. n
  <2>1. i - 1 \in 1 .. n - 1 /\ (i - 1) + 1 = i
    BY <1>2
  <2> QED BY <1>1, <1>3, <2>1
<1>5. ToSet(q) = {q[1]} \cup ToSet(t)
  <2>1. ASSUME NEW x \in ToSet(q) PROVE x = q[1] \/ x \in ToSet(t)
    <3>1. PICK i \in 1 .. n : q[i] = x
      BY <2>1, <1>2, Members
    <3>2. CASE i = 1
      BY <3>1, <3>2
    <3>3. CASE i # 1
      <4>1. i - 1 \in 1 .. n - 1 /\ t[i - 1] = x
        BY <1>2, <1>4, <3>1, <3>3
      <4> QED BY <1>1, <1>3, <4>1, Members
    <3> QED BY <3>2, <3>3
  <2>2. ASSUME NEW x \in ToSet(t) PROVE x \in ToSet(q)
    <3>1. PICK i \in 1 .. n - 1 : t[i] = x
      BY <2>2, <1>1, <1>3, Members
    <3>2. i + 1 \in 1 .. n /\ q[i + 1] = x
      BY <1>1, <1>2, <1>3, <3>1
    <3> QED BY <1>2, <3>2, Members
  <2>3. q[1] \in ToSet(q)
    <3>1. 1 \in 1 .. n
      BY <1>2
    <3> QED BY <1>2, <3>1, Members
  <2> QED BY <2>1, <2>2, <2>3
<1>6. ASSUME IsInjective(q) PROVE IsInjective(t) /\ q[1] \notin ToSet(t)
  <2>1. \A i, j \in 1 .. n : q[i] = q[j] => i = j
    BY <1>6, <1>2, Members
  <2>2. \A i \in 1 .. n - 1 : i + 1 \in 1 .. n /\ t[i] = q[i + 1]
    BY <1>1, <1>2, <1>3
  <2>3. ASSUME NEW i \in 1 .. n - 1, NEW j \in 1 .. n - 1, t[i] = t[j] PROVE i = j
    <3>1. i + 1 = j + 1
      BY <2>1, <2>2, <2>3
    <3> QED BY <3>1
  <2>4. ASSUME q[1] \in ToSet(t) PROVE FALSE
    <3>1. PICK i \in 1 .. n - 1 : t[i] = q[1]
      BY <2>4, <1>1, <1>3, Members
    <3>2. 1 \in 1 .. n /\ i + 1 = 1
      BY <1>2, <2>1, <2>2, <3>1
    <3> QED BY <3>2
  <2> QED BY <1>1, <1>3, <2>3, <2>4, Members
<1>7. ASSUME NEW e, NonePasses(q, e), q[1] # e
      PROVE  NonePasses(t, e) /\ (q[1] \notin Resets => ~(q[1].seq >= e.seq))
  <2>1. \A i \in 1 .. n : q[i] \notin Resets /\ q[i].seq >= e.seq => \E j \in 1 .. i : q[j] = e
    BY <1>2, <1>7 DEF NonePasses
  <2>2. q[1] \notin Resets => ~(q[1].seq >= e.seq)
    <3>1. 1 \in 1 .. n /\ \A j \in 1 .. 1 : j = 1
      BY <1>2
    <3> QED BY <1>7, <2>1, <3>1
  <2>3. ASSUME NEW i \in 1 .. n - 1, t[i] \notin Resets, t[i].seq >= e.seq
        PROVE  \E j \in 1 .. i : t[j] = e
    <3>1. i + 1 \in 1 .. n /\ t[i] = q[i + 1]
      BY <1>1, <1>2, <1>3
    <3>2. PICK j \in 1 .. i + 1 : q[j] = e
      BY <2>1, <2>3, <3>1
    <3>3. j # 1 /\ j \in 2 .. n /\ j - 1 \in 1 .. i
      BY <1>2, <1>7, <3>2
    <3> QED BY <1>4, <3>2, <3>3
  <2> QED BY <1>3, <2>2, <2>3 DEF NonePasses
<1> QED BY <1>1, <1>5, <1>6, <1>7 DEF t

LEMMA AppendKeeps ==
    ASSUME NEW S, NEW q \in Seq(S), NEW f \in S
    PROVE  /\ Append(q, f) \in Seq(S) /\ Append(q, f) # <<>>
           /\ ToSet(Append(q, f)) = ToSet(q) \cup {f}
           /\ IsInjective(q) /\ f \notin ToSet(q) => IsInjective(Append(q, f))
           /\ \A e : NonePasses(q, e) /\ (e \in ToSet(q) \cup {f} \/ f \in Resets \/ ~(f.seq >= e.seq)) =>
                 NonePasses(Append(q, f), e)
<1> DEFINE a == Append(q, f)
<1>1. /\ a \in Seq(S) /\ Len(q) \in Nat /\ Len(a) = Len(q) + 1 /\ a # <<>>
      /\ \A i \in 1 .. Len(q) : a[i] = q[i]
      /\ a[Len(q) + 1] = f
  BY AppendProperties
<1> HIDE DEF a
<1>2. PICK n \in Nat : n = Len(q)
  BY <1>1
<1>3. Len(a) = n + 1 /\ a[n + 1] = f /\ \A i \in 1 .. n : a[i] = q[i] /\ i \in 1 .. n + 1
  BY <1>1, <1>2
<1>4. \A i \in 1 .. n + 1 : i \in 1 .. n \/ i = n + 1
  BY <1>2
<1>5. ToSet(a) = ToSet(q) \cup {f}
  <2>1. ASSUME NEW x \in ToSet(a) PROVE x = f \/ x \in ToSet(q)
    <3>1. PICK i \in 1 .. n + 1 : a[i] = x
      BY <2>1, <1>1, <1>3, Members
    <3> QED BY <1>2, <1>3, <1>4, <3>1, Members
  <2>2. f \in ToSet(a)
    <3>1. n + 1 \in 1 .. n + 1
      BY <1>2
    <3> QED BY <1>1, <1>3, <3>1, Members
  <2>3. ASSUME NEW x \in ToSet(q) PROVE x \in ToSet(a)
    <3>1. PICK i \in 1 .. n : q[i] = x
      BY <2>3, <1>2, Members
    <3> QED BY <1>1, <1>3, <3>1, Members
  <2> QED BY <2>1, <2>2, <2>3
<1>6. ASSUME IsInjective(q), f \notin ToSet(q) PROVE IsInjective(a)
  <2>1. \A i, j \in 1 .. n : q[i] = q[j] => i = j
    BY <1>2, <1>6, Members
  <2>2. \A i \in 1 .. n : q[i] # f
    BY <1>2, <1>6, Members
  <2>3. \A i, j \in 1 .. n + 1 : a[i] = a[j] => i = j
    BY <1>3, <1>4, <2>1, <2>2
  <2> QED BY <1>1, <1>3, <2>3, Members
<1>7. ASSUME NEW e, NonePasses(q, e), e \in ToSet(q) \cup {f} \/ f \in Resets \/ ~(f.seq >= e.seq)
      PROVE  NonePasses(a, e)
  <2>1. \A i \in 1 .. n : q[i] \notin Resets /\ q[i].seq >= e.seq => \E j \in 1 .. i : q[j] = e
    BY <1>2, <1>7 DEF NonePasses
  <2>2. ASSUME NEW i \in 1 .. n + 1, a[i] \notin Resets, a[i].seq >= e.seq
        PROVE  \E j \in 1 .. i : a[j] = e
    <3>1. CASE i \in 1 .. n
      <4>1. PICK j \in 1 .. i : q[j] = e
        BY <1>3, <2>1, <2>2, <3>1
      <4>2. j \in 1 .. n
        BY <1>2, <3>1, <4>1
      <4> QED BY <1>3, <4>1, <4>2
    <3>2. CASE i = n + 1
      <4>1. e \in ToSet(q) \/ e = f
        BY <1>3, <1>7, <2>2, <3>2
      <4>2. CASE e = f
        BY <1>2, <1>3, <3>2, <4>2
      <4>3. CASE e \in ToSet(q)
        <5>1. PICK j \in 1 .. n : q[j] = e
          BY <1>2, <4>3, Members
        <5>2. j \in 1 .. i
          BY <1>2, <3>2, <5>1
        <5> QED BY <1>3, <5>1, <5>2
      <4> QED BY <4>1, <4>2, <4>3
    <3> QED BY <1>4, <3>1, <3>2
  <2> QED BY <1>3, <2>2 DEF NonePasses
<1> QED BY <1>1, <1>5, <1>6, <1>7 DEF a

\* A listing of a finite set has each of its elements once.
LEMMA ListingIsTheSet ==
    ASSUME NEW S, IsFiniteSet(S), NEW q \in SetToSeqs(S)
    PROVE  q \in Seq(S) /\ ToSet(q) = S /\ IsInjective(q)
<1> DEFINE n == Cardinality(S)
           D == 1 .. n
<1>1. n \in Nat
  BY FS_CardinalityType
<1>2. q \in [D -> S] /\ \A i, j \in D : i # j => q[i] # q[j]
  BY DEF SetToSeqs
<1>3. IsFiniteSet(D) /\ Cardinality(D) = n
  BY <1>1, FS_Interval
<1> HIDE DEF n
<1>4. q \in Injection(D, S)
  <2> HIDE DEF D
  <2> QED BY <1>2 DEF Injection, IsInjective
<1>5. q \in Surjection(D, S)
  <2> HIDE DEF D
  <2> QED BY <1>3, <1>4, FS_Injection DEF n
<1>6. q \in Seq(S)
  BY <1>1, <1>2
<1>7. ToSet(q) = S
  BY <1>2, <1>5 DEF Surjection, ToSet
<1> QED BY <1>4, <1>6, <1>7 DEF Injection

\* In the order of numbers, what comes before e and has no smaller number has the same.
LEMMA InOrderPassesNone ==
    ASSUME NEW S \in SUBSET Events, IsFiniteSet(S), NEW q \in InOrder(S), NEW e \in S,
           \A f \in S : f.seq = e.seq => f = e
    PROVE  NonePasses(q, e)
<1>1. q \in SetToSeqs(S) /\ \A i, j \in DOMAIN q : i < j => q[i].seq <= q[j].seq
  BY DEF InOrder
<1>2. q \in Seq(S) /\ ToSet(q) = S
  BY <1>1, ListingIsTheSet
<1>3. PICK n \in Nat : n = Len(q) /\ DOMAIN q = 1 .. n
  BY <1>2, Members
<1>4. \A i \in 1 .. n : q[i] \in S /\ q[i].seq \in Nat
  <2>1. \A i \in 1 .. n : q[i] \in S
    BY <1>2, <1>3
  <2> QED BY <2>1 DEF Events
<1>5. PICK k \in 1 .. n : q[k] = e
  BY <1>2, <1>3, Members
<1>6. ASSUME NEW i \in 1 .. n, q[i].seq >= e.seq PROVE \E j \in 1 .. i : q[j] = e
  <2>1. CASE k <= i
    BY <1>3, <1>5, <2>1
  <2>2. CASE i < k
    <3>1. q[i].seq <= e.seq
      BY <1>1, <1>3, <1>5, <2>2
    <3>2. q[i].seq = e.seq
      BY <1>4, <1>5, <1>6, <3>1
    <3>3. q[i] = e
      BY <1>4, <3>2
    <3> QED BY <1>3, <3>3
  <2> QED BY <1>3, <2>1, <2>2
<1> QED BY <1>3, <1>6 DEF NonePasses

\* What the replay sends: the events in order, then the resets.
LEMMA ReplayIsAll ==
    ASSUME NEW S \in SUBSET Events, IsFiniteSet(S), NEW R \in SUBSET Resets, IsFiniteSet(R),
           S \cap Resets = {}, NEW q \in InOrder(S), NEW r \in SetToSeqs(R)
    PROVE  /\ q \o r \in Seq(Events \cup Resets)
           /\ ToSet(q \o r) = S \cup R /\ IsInjective(q \o r)
           /\ \A e \in S : (\A f \in S : f.seq = e.seq => f = e) => NonePasses(q \o r, e)
<1>1. q \in SetToSeqs(S)
  BY DEF InOrder
<1>2. q \in Seq(S) /\ ToSet(q) = S /\ IsInjective(q)
  BY <1>1, ListingIsTheSet
<1>3. r \in Seq(R) /\ ToSet(r) = R /\ IsInjective(r)
  BY ListingIsTheSet
<1>4. PICK All : All = Events \cup Resets
  OBVIOUS
<1>5. q \in Seq(All) /\ r \in Seq(All)
  <2>1. S \subseteq All /\ R \subseteq All
    BY <1>4
  <2> QED BY <1>2, <1>3, <2>1
<1>6. PICK m \in Nat, n \in Nat : m = Len(q) /\ n = Len(r)
  BY <1>5
<1>7. PICK w : w = q \o r
  OBVIOUS
<1>8. /\ w \in Seq(All) /\ Len(w) = m + n
      /\ \A i \in 1 .. m : w[i] = q[i] /\ w[i] \in S /\ i \in 1 .. m + n
      /\ \A i \in 1 .. n : w[m + i] = r[i] /\ m + i \in 1 .. m + n
  <2>1. /\ w \in Seq(All) /\ Len(w) = m + n
        /\ \A i \in 1 .. m : w[i] = q[i]
        /\ \A i \in 1 .. n : w[i + m] = r[i]
    BY <1>5, <1>6, <1>7, ConcatProperties
  <2>2. \A i \in 1 .. m : q[i] \in S
    BY <1>2, <1>6
  <2> QED BY <1>6, <2>1, <2>2
<1>9. \A i \in m + 1 .. m + n : i - m \in 1 .. n /\ w[i] = r[i - m] /\ w[i] \in R
  <2> TAKE i \in m + 1 .. m + n
  <2>1. i - m \in 1 .. n /\ m + (i - m) = i
    BY <1>6
  <2>2. r[i - m] \in R
    BY <1>3, <1>6, <2>1
  <2> QED BY <1>8, <2>1, <2>2
<1>10. \A i \in 1 .. m + n : i \in 1 .. m \/ i \in m + 1 .. m + n
  BY <1>6
<1>11. ToSet(w) = S \cup R
  <2>1. ASSUME NEW x \in ToSet(w) PROVE x \in S \cup R
    <3>1. PICK i \in 1 .. m + n : w[i] = x
      BY <1>8, <2>1, Members
    <3> QED BY <1>8, <1>9, <1>10, <3>1
  <2>2. ASSUME NEW x \in S PROVE x \in ToSet(w)
    <3>1. PICK i \in 1 .. m : q[i] = x
      BY <1>2, <1>6, <2>2, Members
    <3>2. i \in 1 .. Len(w) /\ w[i] = x
      BY <1>8, <3>1
    <3> QED BY <1>8, <3>2, Members
  <2>3. ASSUME NEW x \in R PROVE x \in ToSet(w)
    <3>1. PICK i \in 1 .. n : r[i] = x
      BY <1>3, <1>6, <2>3, Members
    <3>2. m + i \in 1 .. Len(w) /\ w[m + i] = x
      BY <1>8, <3>1
    <3> QED BY <1>8, <3>2, Members
  <2> QED BY <2>1, <2>2, <2>3
<1>12. IsInjective(w)
  <2>1. \A i, j \in 1 .. m : q[i] = q[j] => i = j
    <3>1. IsInjective(q) <=> \A i, j \in 1 .. Len(q) : q[i] = q[j] => i = j
      BY <1>2, Members
    <3> QED BY <1>2, <1>6, <3>1
  <2>2. \A i, j \in 1 .. n : r[i] = r[j] => i = j
    <3>1. IsInjective(r) <=> \A i, j \in 1 .. Len(r) : r[i] = r[j] => i = j
      BY <1>3, Members
    <3> QED BY <1>3, <1>6, <3>1
  <2>3. ASSUME NEW i \in 1 .. m + n, NEW j \in 1 .. m + n, w[i] = w[j] PROVE i = j
    <3>1. CASE i \in 1 .. m /\ j \in 1 .. m
      BY <1>8, <2>1, <2>3, <3>1
    <3>2. CASE i \in m + 1 .. m + n /\ j \in m + 1 .. m + n
      <4>1. i - m = j - m
        BY <1>9, <2>2, <2>3, <3>2
      <4> QED BY <1>6, <3>2, <4>1
    <3>3. CASE i \in 1 .. m /\ j \in m + 1 .. m + n
      BY <1>8, <1>9, <2>3, <3>3
    <3>4. CASE i \in m + 1 .. m + n /\ j \in 1 .. m
      BY <1>8, <1>9, <2>3, <3>4
    <3> QED BY <1>10, <3>1, <3>2, <3>3, <3>4
  <2> QED BY <1>8, <2>3, Members
<1>13. ASSUME NEW e \in S, \A f \in S : f.seq = e.seq => f = e PROVE NonePasses(w, e)
  <2>1. NonePasses(q, e)
    BY <1>13, InOrderPassesNone
  <2>2. \A i \in 1 .. m : q[i] \notin Resets /\ q[i].seq >= e.seq => \E j \in 1 .. i : q[j] = e
    BY <1>6, <2>1 DEF NonePasses
  <2>3. ASSUME NEW i \in 1 .. m + n, w[i] \notin Resets, w[i].seq >= e.seq
        PROVE  \E j \in 1 .. i : w[j] = e
    <3>1. i \in 1 .. m
      BY <1>9, <1>10, <2>3
    <3>2. PICK j \in 1 .. i : q[j] = e
      BY <1>8, <2>2, <2>3, <3>1
    <3>3. j \in 1 .. m
      BY <1>6, <3>1, <3>2
    <3> QED BY <1>8, <3>2, <3>3
  <2> QED BY <1>8, <2>3 DEF NonePasses
<1> QED BY <1>4, <1>7, <1>8, <1>11, <1>12, <1>13

----------------------------------------------------------------------------
(* Folding.                                                                *)

\* h[n] is what folding leaves of the first n entries.
FoldsUpTo(h, m, entries) ==
    h = [n \in 0 .. m |-> IF n = 0 THEN <<>> ELSE KeepUnlessDelta(h[n - 1], entries[n])]

LEMMA SomeFolding ==
    ASSUME NEW entries, Len(entries) \in Nat
    PROVE  \E h : FoldsUpTo(h, Len(entries), entries)
<1> DEFINE Stuck == {m \in Nat : \A h : ~FoldsUpTo(h, m, entries)}
<1>1. Stuck = {}
  <2> SUFFICES ASSUME Stuck # {} PROVE FALSE
    OBVIOUS
  <2>1. PICK m \in Stuck : \A k \in Stuck : m <= k
    <3>1. Stuck \subseteq Nat
      OBVIOUS
    <3> HIDE DEF Stuck
    <3> QED BY <3>1, Smallest
  <2>2. m # 0
    <3>1. PICK h : h = [n \in 0 .. 0 |-> <<>>]
      OBVIOUS
    <3>2. FoldsUpTo(h, 0, entries)
      BY <3>1 DEF FoldsUpTo
    <3> QED BY <2>1, <3>2
  <2>3. m - 1 \in Nat /\ m - 1 < m /\ m \in Nat
    BY <2>1, <2>2
  <2>4. PICK h : FoldsUpTo(h, m - 1, entries)
    BY <2>1, <2>3
  <2>5. PICK g :
            g = [n \in 0 .. m |-> IF n = 0 THEN <<>> ELSE KeepUnlessDelta(h[n - 1], entries[n])]
    OBVIOUS
  <2>6. \A n \in 0 .. m - 1 : g[n] = h[n]
    BY <2>3, <2>4, <2>5 DEF FoldsUpTo
  <2>7. \A n \in 0 .. m : n # 0 => g[n - 1] = h[n - 1]
    BY <2>3, <2>6
  <2>8. FoldsUpTo(g, m, entries)
    BY <2>5, <2>7 DEF FoldsUpTo
  <2> QED BY <2>1, <2>8
<1> QED BY <1>1

\* Folding takes the deltas and nothing else.
LEMMA FoldingTakesDeltas ==
    ASSUME NEW entries \in Seq(Events)
    PROVE  /\ FoldDeltas(entries) \in Seq(Events)
           /\ ToSet(FoldDeltas(entries)) = {e \in ToSet(entries) : e.kind # "delta"}
<1> DEFINE P(h) == FoldsUpTo(h, Len(entries), entries)
           kept == CHOOSE h : P(h)
<1>1. PICK L \in Nat : L = Len(entries)
  OBVIOUS
<1>2. FoldDeltas(entries) = kept[L]
  BY <1>1 DEF FoldDeltas, FoldsUpTo
<1>3. P(kept)
  <2>1. \E h : P(h)
    BY <1>1, SomeFolding
  <2> HIDE DEF P
  <2> QED BY <2>1
<1>4. PICK h : h = kept
  OBVIOUS
<1>5. FoldsUpTo(h, L, entries)
  <2>1. P(h)
    <3> HIDE DEF P
    <3> QED BY <1>3, <1>4
  <2> QED BY <1>1, <2>1
<1> HIDE DEF kept, P
<1> DEFINE Left(m) == {entries[i] : i \in {k \in 1 .. m : entries[k].kind # "delta"}}
           Good(m) == h[m] \in Seq(Events) /\ ToSet(h[m]) = Left(m)
           Bad == {m \in 0 .. L : ~Good(m)}
<1>6. Bad = {}
  <2> SUFFICES ASSUME Bad # {} PROVE FALSE
    OBVIOUS
  <2>1. PICK m \in Bad : \A k \in Bad : m <= k
    <3>1. Bad \subseteq Nat
      OBVIOUS
    <3> HIDE DEF Bad
    <3> QED BY <3>1, Smallest
  <2>2. /\ m \in 0 .. L
        /\ h[m] = IF m = 0 THEN <<>> ELSE KeepUnlessDelta(h[m - 1], entries[m])
    BY <1>5 DEF FoldsUpTo
  <2>3. CASE m = 0
    <3>1. h[m] = <<>> /\ Left(m) = {}
      BY <2>2, <2>3
    <3>2. <<>> \in Seq(Events) /\ ToSet(<<>>) = {}
      BY EmptySeq DEF ToSet
    <3> QED BY <2>1, <3>1, <3>2
  <2>4. CASE m # 0
    <3>1. m - 1 \in 0 .. L /\ ~(m <= m - 1) /\ m \in 1 .. L
      BY <1>1, <2>2, <2>4
    <3>2. PICK q : q = h[m - 1]
      OBVIOUS
    <3>3. q \in Seq(Events) /\ ToSet(q) = Left(m - 1)
      BY <2>1, <3>1, <3>2
    <3>4. PICK x \in Events : x = entries[m]
      BY <1>1, <3>1
    <3>5. CASE x.kind = "delta"
      <4>1. Left(m) = Left(m - 1)
        <5>1. \A k \in 1 .. m : k = m \/ k \in 1 .. m - 1
          BY <3>1
        <5>2. \A k \in 1 .. m - 1 : k \in 1 .. m
          BY <3>1
        <5> QED BY <3>4, <3>5, <5>1, <5>2
      <4>2. h[m] = q
        BY <2>2, <2>4, <3>2, <3>4, <3>5 DEF KeepUnlessDelta
      <4> QED BY <2>1, <3>3, <4>1, <4>2
    <3>6. CASE x.kind # "delta"
      <4>1. Left(m) = Left(m - 1) \cup {x}
        <5>1. \A k \in 1 .. m : k = m \/ k \in 1 .. m - 1
          BY <3>1
        <5>2. m \in 1 .. m /\ \A k \in 1 .. m - 1 : k \in 1 .. m
          BY <3>1
        <5> QED BY <3>4, <3>6, <5>1, <5>2
      <4>2. h[m] = Append(q, x)
        BY <2>2, <2>4, <3>2, <3>4, <3>6 DEF KeepUnlessDelta
      <4>3. Append(q, x) \in Seq(Events) /\ ToSet(Append(q, x)) = ToSet(q) \cup {x}
        BY <3>3, AppendKeeps
      <4> QED BY <2>1, <3>3, <4>1, <4>2, <4>3
    <3> QED BY <3>5, <3>6
  <2> QED BY <2>3, <2>4
<1>7. Good(L)
  <2>1. L \in 0 .. L
    BY <1>1
  <2> HIDE DEF Good
  <2> QED BY <1>6, <2>1
<1>8. Left(L) = {e \in ToSet(entries) : e.kind # "delta"}
  <2>1. \A e : e \in ToSet(entries) <=> \E i \in 1 .. L : entries[i] = e
    BY <1>1, Members
  <2> QED BY <2>1
<1> QED BY <1>2, <1>4, <1>7, <1>8

----------------------------------------------------------------------------
(* What loading a seed does.                                               *)

LEMMA Constants ==
    ASSUME ChannelAssumption
    PROVE  Capacity \in Nat \ {0} /\ IsFiniteSet(Seeds)
BY DEF ChannelAssumption

LEMMA EventIsTyped ==
    ASSUME NEW s \in Seeds, NEW n \in Nat, NEW kind \in Kinds
    PROVE  /\ Event(s, n, kind) \in Events
           /\ Event(s, n, kind).seed = s /\ Event(s, n, kind).seq = n /\ Event(s, n, kind).kind = kind
BY DEF Event, Events

LEMMA FieldsOfEvents ==
    ASSUME NEW e \in Events
    PROVE  e.seed \in Seeds /\ e.seq \in Nat /\ e.kind \in Kinds
BY DEF Events

\* Frames are told apart by their fields.
LEMMA EventsAreNoResets == Events \cap Resets = {}
<1> SUFFICES ASSUME NEW e \in Events, NEW s \in Seeds, e = Reset(s) PROVE FALSE
  BY DEF Resets
<1>1. DOMAIN e = {"seed", "seq", "kind"}
  BY DEF Events
<1>2. DOMAIN Reset(s) = {"reset"}
  BY DEF Reset
<1>3. "seed" \in DOMAIN e /\ "seed" \notin DOMAIN Reset(s)
  BY <1>1, <1>2
<1> QED BY <1>3

LEMMA HistoryIsTyped ==
    ASSUME ChannelAssumption, HubTyped, NEW s \in Seeds
    PROVE  /\ HistoryDropped(s) \in Nat /\ history[s] \in Nat
           /\ HistoryKept(s) \in Seq(Events)
           /\ \A e \in ToSet(HistoryKept(s)) : e.seed = s /\ e.seq <= history[s]
<1>1. Capacity \in Nat \ {0} /\ history[s] \in Nat
  BY Constants DEF HubTyped
<1>2. HistoryDropped(s) \in Nat /\ HistoryDropped(s) <= history[s]
  BY <1>1 DEF HistoryDropped
<1>3. PICK d \in Nat, n \in Nat : d = HistoryDropped(s) /\ n = history[s] - d
  BY <1>1, <1>2
<1>4. HistoryKept(s) = [i \in 1 .. n |-> Event(s, d + i, "done")]
  BY <1>3 DEF HistoryKept
<1>5. \A i \in 1 .. n : /\ Event(s, d + i, "done") \in Events
                        /\ Event(s, d + i, "done").seed = s /\ Event(s, d + i, "done").seq = d + i
  <2> TAKE i \in 1 .. n
  <2>1. d + i \in Nat /\ "done" \in Kinds
    BY <1>3 DEF Kinds
  <2> QED BY <2>1, EventIsTyped
<1>6. PICK q : q = HistoryKept(s)
  OBVIOUS
<1>7. q \in [1 .. n -> Events] /\ \A i \in 1 .. n : q[i].seed = s /\ q[i].seq = d + i
  <2>1. q = [i \in 1 .. n |-> Event(s, d + i, "done")]
    BY <1>4, <1>6
  <2> QED BY <1>5, <2>1
<1>8. q \in Seq(Events) /\ Len(q) = n
  <2>1. PICK E : E = Events
    OBVIOUS
  <2>2. q \in [1 .. n -> E]
    BY <1>7, <2>1
  <2>3. q \in Seq(E) /\ Len(q) = n
    BY <1>3, <2>2
  <2> QED BY <2>1, <2>3
<1>9. ASSUME NEW e \in ToSet(q) PROVE e.seed = s /\ e.seq <= history[s]
  <2>1. PICK i \in 1 .. n : q[i] = e
    BY <1>8, <1>9, Members
  <2> QED BY <1>1, <1>3, <1>7, <2>1
<1> QED BY <1>1, <1>2, <1>6, <1>8, <1>9

Loads(s) ==
    /\ loaded' = loaded \cup {s}
    /\ journal' \in [Seeds -> Seq(Events)] /\ evicted' \in [Seeds -> Nat]
    /\ newest' \in Nat /\ newest <= newest' /\ owed' \subseteq Owing
    /\ CounterOver(s) \in Nat /\ counter <= CounterOver(s)
    /\ newest <= counter => newest' <= CounterOver(s)
    /\ \A t \in Seeds : t # s \/ s \in loaded => journal'[t] = journal[t] /\ evicted'[t] = evicted[t]
    /\ s \notin loaded => \A e \in ToSet(journal'[s]) :
           e.seed = s /\ e.seq <= newest' /\ e.seq <= history[s]
    /\ Due' \subseteq Due
    /\ s \notin loaded => \A e \in Due' : ~(e.seq <= history[s])

LEMMA LoadingLoads ==
    ASSUME ChannelAssumption, Typed, NEW s \in Seeds, EnsureLoaded(s)
    PROVE  Loads(s)
<1> USE DEF Typed
<1>1. /\ HistoryDropped(s) \in Nat /\ history[s] \in Nat /\ HistoryKept(s) \in Seq(Events)
      /\ \A e \in ToSet(HistoryKept(s)) : e.seed = s /\ e.seq <= history[s]
  BY HistoryIsTyped
<1>2. counter \in Nat /\ newest \in Nat
  BY DEF HubTyped
<1>3. CASE s \in loaded
  <2>1. loaded' = loaded \cup {s} /\ UNCHANGED <<journal, evicted, newest, owed>>
    BY <1>3 DEF EnsureLoaded
  <2>2. CounterOver(s) = counter
    BY <1>3 DEF CounterOver
  <2>3. Due' = Due
    BY <2>1 DEF Due
  <2> QED BY <1>2, <1>3, <2>1, <2>2, <2>3 DEF Loads, HubTyped, ClientTyped
<1>4. CASE s \notin loaded
  <2>1. /\ loaded' = loaded \cup {s}
        /\ journal' = [journal EXCEPT ![s] = HistoryKept(s)]
        /\ evicted' = [evicted EXCEPT ![s] = HistoryDropped(s)]
        /\ newest' = Max({newest, history[s]})
        /\ owed' = {[event |-> x.event, late |-> x.late \/ x.event.seq <= history[s]] : x \in owed}
    BY <1>4 DEF EnsureLoaded
  <2>2. newest' \in Nat /\ newest <= newest' /\ history[s] <= newest' /\ newest' \in {newest, history[s]}
    BY <1>1, <1>2, <2>1, MaxOfTwo
  <2>3. /\ CounterOver(s) \in Nat /\ counter <= CounterOver(s) /\ history[s] <= CounterOver(s)
    <3>1. CounterOver(s) = Max({counter, history[s]})
      BY <1>4 DEF CounterOver
    <3> QED BY <1>1, <1>2, <3>1, MaxOfTwo
  <2>4. newest <= counter => newest' <= CounterOver(s)
    BY <1>1, <1>2, <2>2, <2>3
  <2>5. journal' \in [Seeds -> Seq(Events)] /\ evicted' \in [Seeds -> Nat]
    BY <1>1, <2>1 DEF HubTyped
  <2>6. /\ \A t \in Seeds : t # s => journal'[t] = journal[t] /\ evicted'[t] = evicted[t]
        /\ journal'[s] = HistoryKept(s)
    BY <2>1 DEF HubTyped
  <2>7. \A e \in ToSet(journal'[s]) : e.seed = s /\ e.seq <= newest' /\ e.seq <= history[s]
    <3> TAKE e \in ToSet(journal'[s])
    <3>1. e \in Events /\ e.seed = s /\ e.seq <= history[s]
      BY <1>1, <2>6, Members
    <3>2. e.seq \in Nat
      BY <3>1, FieldsOfEvents
    <3> QED BY <1>1, <2>2, <3>1, <3>2
  <2>8. ASSUME NEW x \in owed
        PROVE  [event |-> x.event, late |-> x.late \/ x.event.seq <= history[s]] \in Owing
    <3>1. x.event \in Events /\ x.late \in BOOLEAN
      BY DEF ClientTyped, Owing
    <3>2. (x.late \/ x.event.seq <= history[s]) \in BOOLEAN
      OBVIOUS
    <3> QED BY <3>1, <3>2 DEF Owing
  <2>9. owed' \subseteq Owing
    BY <2>1, <2>8
  <2>10. ASSUME NEW e \in Due' PROVE e \in Due /\ ~(e.seq <= history[s])
    <3>1. PICK y \in owed' : ~y.late /\ e = y.event
      BY <2>10 DEF Due
    <3>2. PICK x \in owed :
              y = [event |-> x.event, late |-> x.late \/ x.event.seq <= history[s]]
      BY <2>1, <3>1
    <3>3. y.event = x.event /\ (y.late <=> x.late \/ x.event.seq <= history[s])
      BY <3>2
    <3>4. ~x.late /\ ~(x.event.seq <= history[s]) /\ e = x.event
      BY <3>1, <3>3
    <3> QED BY <3>4 DEF Due
  <2> QED BY <1>4, <2>1, <2>2, <2>3, <2>4, <2>5, <2>6, <2>7, <2>9, <2>10 DEF Loads
<1> QED BY <1>3, <1>4

----------------------------------------------------------------------------
(* What publishing does.                                                   *)

Appends(e) ==
    /\ journal' \in [Seeds -> Seq(Events)] /\ evicted' \in [Seeds -> Nat]
    /\ \A t \in Seeds : t # e.seed => journal'[t] = journal[t] /\ evicted'[t] = evicted[t]
    /\ ToSet(journal'[e.seed]) \subseteq ToSet(journal[e.seed]) \cup {e}
    /\ e \in ToSet(journal'[e.seed])
    /\ evicted'[e.seed] >= evicted[e.seed]
    /\ \A f \in ToSet(journal[e.seed]) :
          \/ f \in ToSet(journal'[e.seed]) \/ evicted'[e.seed] >= f.seq
          \/ e.kind = "done" /\ f.kind = "delta"

LEMMA AppendingAppends ==
    ASSUME ChannelAssumption, Typed, NEW e \in Events, AppendToJournal(e)
    PROVE  Appends(e)
<1> DEFINE entries == journal[e.seed]
           kept == IF HasRoom(entries) THEN entries ELSE Tail(entries)
           left == IF e.kind = "done" THEN FoldDeltas(kept) ELSE kept
<1>1. e.seed \in Seeds /\ entries \in Seq(Events) /\ evicted[e.seed] \in Nat
  BY FieldsOfEvents DEF Typed, HubTyped
<1>2. /\ RememberEvicted(e.seed, entries)
      /\ journal' = [journal EXCEPT ![e.seed] = Append(left, e)]
  BY DEF AppendToJournal
<1>3. ~HasRoom(entries) => entries # <<>>
  <2>1. Capacity \in Nat \ {0} /\ Len(<<>>) = 0
    BY Constants
  <2> QED BY <2>1 DEF HasRoom
<1>4. PICK q : q = entries
  OBVIOUS
<1>5. PICK k : k = kept
  OBVIOUS
<1>6. PICK l : l = left
  OBVIOUS
<1> HIDE DEF entries, kept, left
<1>7. /\ k \in Seq(Events)
      /\ ToSet(k) \subseteq ToSet(q)
      /\ \A f \in ToSet(q) : f \in ToSet(k) \/ (~HasRoom(q) /\ f = Head(q))
      /\ ~HasRoom(q) => Head(q) \in Events
  <2>1. CASE HasRoom(q)
    BY <1>1, <1>4, <1>5, <2>1 DEF kept
  <2>2. CASE ~HasRoom(q)
    <3>1. k = Tail(q) /\ q \in Seq(Events) /\ q # <<>>
      BY <1>1, <1>3, <1>4, <1>5, <2>2 DEF kept
    <3>2. Head(q) \in Events /\ Tail(q) \in Seq(Events) /\ ToSet(q) = {Head(q)} \cup ToSet(Tail(q))
      BY <3>1, TailKeeps
    <3> QED BY <2>2, <3>1, <3>2
  <2> QED BY <2>1, <2>2
<1>8. /\ l \in Seq(Events) /\ ToSet(l) \subseteq ToSet(k)
      /\ \A f \in ToSet(k) : f \in ToSet(l) \/ (e.kind = "done" /\ f.kind = "delta")
  <2>1. CASE e.kind = "done"
    <3>1. l = FoldDeltas(k)
      BY <1>5, <1>6, <2>1 DEF left
    <3> QED BY <1>7, <2>1, <3>1, FoldingTakesDeltas
  <2>2. CASE e.kind # "done"
    BY <1>5, <1>6, <1>7, <2>2 DEF left
  <2> QED BY <2>1, <2>2
<1>9. Append(l, e) \in Seq(Events) /\ ToSet(Append(l, e)) = ToSet(l) \cup {e}
  BY <1>8, AppendKeeps
<1>10. /\ journal' \in [Seeds -> Seq(Events)] /\ journal'[e.seed] = Append(l, e)
       /\ \A t \in Seeds : t # e.seed => journal'[t] = journal[t]
  <2>1. journal \in [Seeds -> Seq(Events)]
    BY DEF Typed, HubTyped
  <2>2. journal' = [journal EXCEPT ![e.seed] = Append(l, e)]
    BY <1>2, <1>6
  <2>3. PICK a : a = Append(l, e)
    OBVIOUS
  <2>4. a \in Seq(Events) /\ journal' = [journal EXCEPT ![e.seed] = a]
    BY <1>9, <2>2, <2>3
  <2> QED BY <1>1, <2>1, <2>3, <2>4
<1>11. /\ evicted' \in [Seeds -> Nat] /\ evicted'[e.seed] >= evicted[e.seed]
       /\ \A t \in Seeds : t # e.seed => evicted'[t] = evicted[t]
       /\ ~HasRoom(q) => evicted'[e.seed] >= Head(q).seq
  <2>1. evicted' = [evicted EXCEPT ![e.seed] =
            IF HasRoom(q) THEN evicted[e.seed] ELSE Max({evicted[e.seed], Head(q).seq})]
    BY <1>2, <1>4 DEF RememberEvicted
  <2>2. ~HasRoom(q) => /\ Head(q).seq \in Nat
                       /\ Max({evicted[e.seed], Head(q).seq}) \in Nat
                       /\ Max({evicted[e.seed], Head(q).seq}) >= evicted[e.seed]
                       /\ Max({evicted[e.seed], Head(q).seq}) >= Head(q).seq
    BY <1>1, <1>7, FieldsOfEvents, MaxOfTwo
  <2>3. PICK m : m = IF HasRoom(q) THEN evicted[e.seed] ELSE Max({evicted[e.seed], Head(q).seq})
    OBVIOUS
  <2>4. m \in Nat /\ m >= evicted[e.seed] /\ (~HasRoom(q) => m >= Head(q).seq)
    BY <1>1, <2>2, <2>3
  <2>5. evicted' = [evicted EXCEPT ![e.seed] = m] /\ evicted \in [Seeds -> Nat]
    BY <2>1, <2>3 DEF Typed, HubTyped
  <2> QED BY <1>1, <2>4, <2>5
<1>12. ToSet(journal'[e.seed]) \subseteq ToSet(journal[e.seed]) \cup {e} /\ e \in ToSet(journal'[e.seed])
  BY <1>4, <1>7, <1>8, <1>9, <1>10 DEF entries
<1>13. \A f \in ToSet(journal[e.seed]) :
          \/ f \in ToSet(journal'[e.seed]) \/ evicted'[e.seed] >= f.seq
          \/ e.kind = "done" /\ f.kind = "delta"
  BY <1>4, <1>7, <1>8, <1>9, <1>10, <1>11 DEF entries
<1> QED BY <1>10, <1>11, <1>12, <1>13 DEF Appends

LEMMA FanoutEffect ==
    ASSUME Typed, ConnectionInStep, NEW e \in Events, Fanout(e)
    PROVE  /\ rx' \in Seq(Events) /\ serving' \in BOOLEAN
           /\ serving' => serving /\ rx' = Append(rx, e)
           /\ ~serving' => rx' = <<>>
<1>1. rx \in Seq(Events) /\ serving \in BOOLEAN /\ (~serving => rx = <<>>)
  BY DEF Typed, ConnectionTyped, ConnectionInStep
<1>2. Append(rx, e) \in Seq(Events) /\ <<>> \in Seq(Events)
  BY <1>1, AppendKeeps
<1>3. CASE ~serving
  BY <1>1, <1>3 DEF Fanout
<1>4. CASE serving /\ Len(rx) < BroadcastSize
  BY <1>1, <1>2, <1>4 DEF Fanout
<1>5. CASE serving /\ ~(Len(rx) < BroadcastSize)
  BY <1>2, <1>5 DEF Fanout, LagAndClose
<1> QED BY <1>1, <1>3, <1>4, <1>5

----------------------------------------------------------------------------
(* What every step keeps of the numbers and the connection.                *)

LEMMA LoadingKeeps ==
    ASSUME ChannelAssumption, Typed, NumbersAreSound, NEW s \in Seeds, Loads(s),
           UNCHANGED <<history, slot, connVars, phase, cursor, seen>>,
           counter' \in Nat, CounterOver(s) <= counter', numbered' \in [Seeds -> Nat],
           \A t \in Seeds : t # s => numbered'[t] = numbered[t],
           \/ numbered'[s] = numbered[s]
           \/ numbered[s] = 0 /\ numbered'[s] = counter' /\ CounterOver(s) < counter',
           attached' \in {attached, attached \cup {s}}
    PROVE  Typed' /\ NumbersAreSound'
<1>1. HubTyped /\ ConnectionTyped /\ ClientTyped
  BY DEF Typed
<1>2. NumbersAreDrawn /\ JournalIsPublished /\ WayIsPublished /\ ConnectionInStep /\ OverlapIsReplayed
  BY DEF NumbersAreSound
<1>3. UNCHANGED <<history, slot, rx, after, replayed, serving, wire, phase, cursor, seen>>
  BY DEF connVars
<1>4. /\ loaded' = loaded \cup {s}
      /\ journal' \in [Seeds -> Seq(Events)] /\ evicted' \in [Seeds -> Nat]
      /\ newest' \in Nat /\ newest <= newest' /\ owed' \subseteq Owing
      /\ CounterOver(s) \in Nat /\ counter <= CounterOver(s)
      /\ newest <= counter => newest' <= CounterOver(s)
      /\ \A t \in Seeds : t # s \/ s \in loaded => journal'[t] = journal[t]
      /\ s \notin loaded => \A e \in ToSet(journal'[s]) :
             e.seed = s /\ e.seq <= newest' /\ e.seq <= history[s]
  BY DEF Loads
<1>5. Typed'
  <2>1. ClientTyped'
    <3>1. phase' \in Phases /\ cursor' \in Nat /\ seen' \subseteq Events
      BY <1>1, <1>3 DEF ClientTyped
    <3>2. attached' \subseteq Seeds /\ owed' \subseteq Owing
      BY <1>1, <1>4 DEF ClientTyped
    <3> QED BY <3>1, <3>2 DEF ClientTyped
  <2>2. ConnectionTyped'
    BY <1>1, <1>3 DEF ConnectionTyped
  <2>3. HubTyped'
    <3>1. history' \in [Seeds -> Nat] /\ slot' \in [Seeds -> Nat]
      BY <1>1, <1>3 DEF HubTyped
    <3>2. loaded \subseteq Seeds
      BY <1>1 DEF HubTyped
    <3>3. /\ journal' \in [Seeds -> Seq(Events)] /\ evicted' \in [Seeds -> Nat]
          /\ newest' \in Nat /\ loaded' \subseteq Seeds
      BY <1>4, <3>2
    <3> QED BY <3>1, <3>3 DEF HubTyped
  <2> QED BY <2>1, <2>2, <2>3 DEF Typed
<1>6. /\ newest \in Nat /\ counter \in Nat /\ cursor \in Nat /\ after \in Nat
      /\ \A t \in Seeds : numbered[t] \in Nat /\ numbered'[t] \in Nat /\ slot[t] \in Nat
  BY <1>1 DEF HubTyped, ConnectionTyped, ClientTyped
<1>7. newest' <= CounterOver(s) /\ newest' <= counter' /\ counter <= counter'
  <2>1. newest' <= CounterOver(s)
    BY <1>2, <1>4 DEF NumbersAreDrawn
  <2>2. newest' \in Nat /\ counter \in Nat /\ CounterOver(s) \in Nat /\ counter <= CounterOver(s)
    BY <1>4, <1>6
  <2> QED BY <2>1, <2>2
<1>8. NumbersAreDrawn'
  <2>1. \A t \in Seeds : numbered[t] <= counter /\ numbered[t] <= CounterOver(s)
    <3>1. \A t \in Seeds : numbered[t] <= counter
      BY <1>2 DEF NumbersAreDrawn
    <3>2. CounterOver(s) \in Nat /\ counter <= CounterOver(s)
      BY <1>4
    <3>3. counter \in Nat /\ \A t \in Seeds : numbered[t] \in Nat
      BY <1>6
    <3> QED BY <3>1, <3>2, <3>3
  <2>2. ASSUME NEW t \in Seeds PROVE numbered'[t] <= counter'
    <3>1. counter \in Nat /\ counter' \in Nat /\ numbered[t] \in Nat
      BY <1>6
    <3>2. CASE numbered'[t] = numbered[t]
      BY <1>7, <2>1, <3>1, <3>2
    <3>3. CASE t = s /\ numbered'[s] = counter'
      BY <3>1, <3>3
    <3> QED BY <3>2, <3>3
  <2>3. ASSUME NEW t \in Seeds, NEW u \in Seeds, numbered'[t] # 0, numbered'[t] = numbered'[u]
        PROVE  t = u
    <3>1. CASE numbered'[s] = numbered[s]
      BY <1>2, <2>3, <3>1 DEF NumbersAreDrawn
    <3>2. CASE numbered'[s] = counter' /\ CounterOver(s) < counter'
      <4>1. ASSUME NEW v \in Seeds, v # s PROVE numbered'[v] # numbered'[s]
        <5>1. numbered'[v] = numbered[v] /\ numbered[v] <= CounterOver(s)
          BY <2>1, <4>1
        <5>2. numbered[v] \in Nat /\ CounterOver(s) \in Nat
          BY <1>4, <1>6
        <5> QED BY <3>2, <5>1, <5>2
      <4>2. CASE t = s \/ u = s
        BY <2>3, <4>1, <4>2
      <4>3. CASE t # s /\ u # s
        BY <1>2, <2>3, <4>3 DEF NumbersAreDrawn
      <4> QED BY <4>2, <4>3
    <3> QED BY <3>1, <3>2
  <2>4. \A t \in Seeds \ loaded' : numbered'[t] = 0 /\ slot'[t] = 0
    BY <1>2, <1>3, <1>4 DEF NumbersAreDrawn
  <2> QED BY <1>7, <2>2, <2>3, <2>4 DEF NumbersAreDrawn
<1>9. ASSUME NEW e \in Events, Published(e) PROVE Published(e)'
  <2>1. e.seed \in Seeds /\ e.seq \in Nat /\ e.seq <= newest /\ e.seq <= newest'
    BY <1>4, <1>6, <1>9, FieldsOfEvents DEF Published
  <2>2. CASE numbered'[e.seed] = numbered[e.seed]
    BY <1>9, <2>1, <2>2 DEF Published
  <2>3. CASE e.seed = s /\ numbered'[s] = counter' /\ CounterOver(s) < counter'
    <3>1. e.seq < numbered'[e.seed]
      BY <1>4, <1>7, <2>1, <2>3
    <3> QED BY <2>1, <3>1 DEF Published
  <2> QED BY <2>1, <2>2, <2>3
<1>10. JournalIsPublished'
  <2> SUFFICES ASSUME NEW t \in Seeds
               PROVE  /\ slot[t] <= newest' /\ (numbered'[t] # 0 => slot[t] < numbered'[t])
                      /\ \A e \in ToSet(journal'[t]) : e.seed = t /\ Published(e)'
    BY <1>3 DEF JournalIsPublished
  <2>1. /\ slot[t] <= newest /\ (numbered[t] # 0 => slot[t] < numbered[t])
        /\ \A e \in ToSet(journal[t]) : e.seed = t /\ Published(e)
    BY <1>2 DEF JournalIsPublished
  <2>2. slot[t] <= newest'
    <3>1. newest <= newest' /\ newest' \in Nat
      BY <1>4
    <3>2. newest \in Nat /\ slot[t] \in Nat
      BY <1>6
    <3> QED BY <2>1, <3>1, <3>2
  <2>3. numbered'[t] # 0 => slot[t] < numbered'[t]
    <3>1. CASE numbered'[t] = numbered[t]
      BY <2>1, <3>1
    <3>2. CASE t = s /\ numbered'[s] = counter' /\ CounterOver(s) < counter'
      <4>1. newest' <= CounterOver(s) /\ newest' \in Nat /\ CounterOver(s) \in Nat
        BY <1>4, <1>7
      <4>2. slot[t] \in Nat
        BY <1>6
      <4> QED BY <2>2, <3>2, <4>1, <4>2
    <3> QED BY <3>1, <3>2
  <2>4. CASE t # s \/ s \in loaded
    <3>1. journal'[t] = journal[t] /\ ToSet(journal[t]) \subseteq Events
      BY <1>1, <1>4, <2>4, Members DEF HubTyped
    <3> QED BY <1>9, <2>1, <2>2, <2>3, <3>1
  <2>5. CASE t = s /\ s \notin loaded
    <3>1. ToSet(journal'[t]) \subseteq Events
      BY <1>4, Members
    <3>2. numbered[s] = 0
      BY <1>2, <2>5 DEF NumbersAreDrawn
    <3>3. ASSUME NEW e \in ToSet(journal'[t]) PROVE e.seed = t /\ Published(e)'
      <4>1. e.seed = s /\ e.seq <= newest' /\ e.seq \in Nat
        BY <1>4, <2>5, <3>1, FieldsOfEvents
      <4>2. numbered'[s] # 0 => e.seq < numbered'[s]
        BY <1>4, <1>7, <3>2, <4>1
      <4> QED BY <2>5, <4>1, <4>2 DEF Published
    <3> QED BY <2>2, <2>3, <3>3
  <2> QED BY <2>4, <2>5
<1>11. WayIsPublished'
  <2>1. OnTheWay \subseteq Events
    BY <1>1, Members DEF OnTheWay, ConnectionTyped, ClientTyped
  <2>2. OnTheWay' = OnTheWay
    BY <1>3 DEF OnTheWay
  <2>3. \A e \in OnTheWay : Published(e)'
    BY <1>2, <1>9, <2>1 DEF WayIsPublished
  <2>4. cursor <= newest' /\ after <= newest' /\ attached' \subseteq loaded'
    BY <1>2, <1>4, <1>6 DEF WayIsPublished
  <2> QED BY <1>3, <2>2, <2>3, <2>4 DEF WayIsPublished
<1>12. ConnectionInStep' /\ OverlapIsReplayed'
  BY <1>2, <1>3 DEF ConnectionInStep, OverlapIsReplayed
<1> QED BY <1>5, <1>8, <1>10, <1>11, <1>12 DEF NumbersAreSound

\* An event whose number its worker still holds is nowhere yet.
LEMMA FreshIsNowhere ==
    ASSUME Typed, NumbersAreSound, NEW s \in Seeds, NEW kind \in Kinds, numbered[s] # 0
    PROVE  LET e == Event(s, numbered[s], kind)
           IN  /\ ~Published(e) /\ e \in Events
               /\ e \notin OnTheWay /\ e \notin ToSet(rx) \cup ToSet(wire)
<1> DEFINE e == Event(s, numbered[s], kind)
<1>1. numbered[s] \in Nat
  BY DEF Typed, HubTyped
<1>2. e \in Events /\ e.seed = s /\ e.seq = numbered[s]
  BY <1>1, EventIsTyped
<1> HIDE DEF e
<1>3. ~Published(e)
  BY <1>1, <1>2 DEF Published
<1>4. e \notin OnTheWay
  BY <1>3 DEF NumbersAreSound, WayIsPublished
<1>5. e \notin ToSet(rx) \cup ToSet(wire)
  BY <1>2, <1>4, EventsAreNoResets DEF OnTheWay
<1> QED BY <1>2, <1>3, <1>4, <1>5 DEF e

LEMMA PublishingKeeps ==
    ASSUME ChannelAssumption, Typed, NumbersAreSound, NEW s \in Seeds, NEW kind \in Kinds,
           numbered[s] # 0, NEW e, e = Event(s, numbered[s], kind), Fanout(e), Released(s),
           UNCHANGED <<history, counter, loaded, after, replayed, wire, clientVars>>,
           owed' \subseteq Owing,
           journal' \in [Seeds -> Seq(Events)], evicted' \in [Seeds -> Nat],
           slot' \in [Seeds -> Nat], slot'[s] \in {0, slot[s], numbered[s]},
           \A t \in Seeds : t # s => journal'[t] = journal[t] /\ slot'[t] = slot[t],
           ToSet(journal'[s]) \subseteq ToSet(journal[s]) \cup {e}
    PROVE  Typed' /\ NumbersAreSound'
<1>1. HubTyped /\ ConnectionTyped /\ ClientTyped
  BY DEF Typed
<1>2. NumbersAreDrawn /\ JournalIsPublished /\ WayIsPublished /\ ConnectionInStep /\ OverlapIsReplayed
  BY DEF NumbersAreSound
<1>3. UNCHANGED <<history, counter, loaded, after, replayed, wire, phase, cursor, attached, seen>>
  BY DEF clientVars
<1>4. /\ newest \in Nat /\ counter \in Nat /\ cursor \in Nat /\ after \in Nat
      /\ numbered \in [Seeds -> Nat] /\ numbered[s] \in Nat
      /\ \A t \in Seeds : numbered[t] \in Nat /\ slot[t] \in Nat
  BY <1>1 DEF HubTyped, ConnectionTyped, ClientTyped
<1>5. e \in Events /\ e.seed = s /\ e.seq = numbered[s]
  BY <1>4, EventIsTyped
<1>6. ~Published(e) /\ e \notin OnTheWay /\ e \notin ToSet(rx) \cup ToSet(wire)
  BY FreshIsNowhere
<1>7. /\ newest' \in Nat /\ newest' >= newest /\ newest' >= numbered[s] /\ newest' \in {newest, numbered[s]}
      /\ numbered' \in [Seeds -> Nat] /\ numbered'[s] = 0
      /\ \A t \in Seeds : t # s => numbered'[t] = numbered[t]
  <2>1. newest' = Max({newest, numbered[s]}) /\ numbered' = [numbered EXCEPT ![s] = 0]
    BY DEF Released
  <2> QED BY <1>4, <2>1, MaxOfTwo
<1>8. /\ rx' \in Seq(Events) /\ serving' \in BOOLEAN
      /\ serving' => serving /\ rx' = Append(rx, e)
      /\ ~serving' => rx' = <<>>
  BY <1>2, <1>5, FanoutEffect
<1>9. Typed'
  BY <1>1, <1>3, <1>7, <1>8 DEF Typed, HubTyped, ConnectionTyped, ClientTyped
<1>10. NumbersAreDrawn'
  <2>1. newest' <= counter
    BY <1>2, <1>4, <1>7 DEF NumbersAreDrawn
  <2>2. \A t \in Seeds : numbered'[t] <= counter
    BY <1>2, <1>4, <1>7 DEF NumbersAreDrawn
  <2>3. ASSUME NEW t \in Seeds, NEW u \in Seeds, numbered'[t] # 0, numbered'[t] = numbered'[u]
        PROVE  t = u
    <3>1. t # s /\ u # s
      BY <1>7, <2>3
    <3>2. numbered'[t] = numbered[t] /\ numbered'[u] = numbered[u]
      BY <1>7, <3>1
    <3> QED BY <1>2, <2>3, <3>2 DEF NumbersAreDrawn
  <2>4. s \in loaded /\ \A t \in Seeds \ loaded : numbered'[t] = 0 /\ slot'[t] = 0
    BY <1>2, <1>7 DEF NumbersAreDrawn
  <2> QED BY <1>3, <2>1, <2>2, <2>3, <2>4 DEF NumbersAreDrawn
<1>11. ASSUME NEW f \in Events, Published(f) \/ f = e PROVE Published(f)'
  <2>1. CASE f = e
    BY <1>4, <1>5, <1>7, <2>1 DEF Published
  <2>2. CASE Published(f)
    <3>1. f.seed \in Seeds /\ f.seq \in Nat /\ f.seq <= newest'
      BY <1>4, <1>7, <2>2, FieldsOfEvents DEF Published
    <3> QED BY <1>7, <2>2, <3>1 DEF Published
  <2> QED BY <1>11, <2>1, <2>2
<1>12. JournalIsPublished'
  <2> SUFFICES ASSUME NEW t \in Seeds
               PROVE  /\ slot'[t] <= newest' /\ (numbered'[t] # 0 => slot'[t] < numbered'[t])
                      /\ \A f \in ToSet(journal'[t]) : f.seed = t /\ Published(f)'
    BY DEF JournalIsPublished
  <2>1. /\ slot[t] <= newest /\ (numbered[t] # 0 => slot[t] < numbered[t])
        /\ \A f \in ToSet(journal[t]) : f.seed = t /\ Published(f)
    BY <1>2 DEF JournalIsPublished
  <2>2. ToSet(journal[t]) \subseteq Events
    BY <1>1, Members DEF HubTyped
  <2>3. CASE t # s
    <3>1. slot[t] <= newest'
      BY <1>4, <1>7, <2>1
    <3> QED BY <1>7, <1>11, <2>1, <2>2, <2>3, <3>1
  <2>4. CASE t = s
    <3>1. slot'[s] <= newest' /\ numbered'[s] = 0
      BY <1>4, <1>7, <2>1, <2>4
    <3>2. \A f \in ToSet(journal'[s]) : f.seed = s /\ Published(f)'
      BY <1>5, <1>11, <2>1, <2>2, <2>4
    <3> QED BY <2>4, <3>1, <3>2
  <2> QED BY <2>3, <2>4
<1>13. ToSet(rx') \subseteq ToSet(rx) \cup {e}
  <2>1. rx \in Seq(Events) /\ ToSet(Append(rx, e)) = ToSet(rx) \cup {e}
    BY <1>1, <1>5, AppendKeeps DEF ConnectionTyped
  <2>2. ToSet(<<>>) = {}
    BY DEF ToSet
  <2> QED BY <1>8, <2>1, <2>2
<1>14. WayIsPublished'
  <2>1. OnTheWay \subseteq Events /\ \A f \in OnTheWay : Published(f)
    BY <1>1, <1>2, Members DEF OnTheWay, ConnectionTyped, ClientTyped, WayIsPublished
  <2>2. OnTheWay' \subseteq OnTheWay \cup {e}
    BY <1>3, <1>13 DEF OnTheWay
  <2>3. \A f \in OnTheWay' : Published(f)'
    BY <1>5, <1>11, <2>1, <2>2
  <2>4. cursor <= newest' /\ after <= newest' /\ attached \subseteq loaded
    BY <1>2, <1>4, <1>7 DEF WayIsPublished
  <2> QED BY <1>3, <2>3, <2>4 DEF WayIsPublished
<1>15. ConnectionInStep'
  BY <1>2, <1>3, <1>8 DEF ConnectionInStep
<1>16. OverlapIsReplayed'
  <2>1. IsInjective(rx')
    <3>1. IsInjective(rx) /\ rx \in Seq(Events)
      BY <1>1, <1>2 DEF OverlapIsReplayed, ConnectionTyped
    <3>2. IsInjective(Append(rx, e))
      BY <1>5, <1>6, <3>1, AppendKeeps
    <3>3. IsInjective(<<>>)
      BY DEF IsInjective
    <3> QED BY <1>8, <3>2, <3>3
  <2>2. \A f \in ToSet(rx') : f \in ToSet(wire) \cup seen => f \in replayed \/ f.seq <= after
    BY <1>2, <1>6, <1>13 DEF OverlapIsReplayed, OnTheWay
  <2> QED BY <1>2, <1>3, <2>1, <2>2 DEF OverlapIsReplayed
<1> QED BY <1>9, <1>10, <1>12, <1>14, <1>15, <1>16 DEF NumbersAreSound

LEMMA DrawNumberLoads ==
    ASSUME ChannelAssumption, Typed, NEW s \in Seeds, DrawNumber(s)
    PROVE  /\ Loads(s) /\ UNCHANGED <<history, slot, connVars, phase, cursor, attached, seen>>
           /\ counter' \in Nat /\ CounterOver(s) < counter' /\ numbered' \in [Seeds -> Nat]
           /\ \A t \in Seeds : t # s => numbered'[t] = numbered[t]
           /\ numbered[s] = 0 /\ numbered'[s] = counter'
<1>1. /\ numbered[s] = 0 /\ EnsureLoaded(s) /\ counter' = CounterOver(s) + 1
      /\ numbered' = [numbered EXCEPT ![s] = counter']
      /\ UNCHANGED <<history, slot, connVars, clientVars, breaks>>
  BY DEF DrawNumber
<1>2. Loads(s)
  BY <1>1, LoadingLoads
<1>3. CounterOver(s) \in Nat
  BY <1>2 DEF Loads
<1>4. counter' \in Nat /\ CounterOver(s) < counter' /\ numbered \in [Seeds -> Nat]
  BY <1>1, <1>3 DEF Typed, HubTyped
<1> QED BY <1>1, <1>2, <1>4 DEF clientVars

LEMMA AttachLoads ==
    ASSUME ChannelAssumption, Typed, NEW s \in Seeds, Attach(s)
    PROVE  /\ Loads(s) /\ UNCHANGED <<history, slot, numbered, connVars, phase, cursor, seen>>
           /\ counter' \in Nat /\ CounterOver(s) <= counter' /\ numbered' \in [Seeds -> Nat]
           /\ attached' = attached \cup {s}
<1>1. /\ EnsureLoaded(s) /\ counter' = CounterOver(s) /\ attached' = attached \cup {s}
      /\ UNCHANGED <<history, numbered, slot, connVars, phase, cursor, seen, breaks>>
  BY DEF Attach
<1>2. Loads(s)
  BY <1>1, LoadingLoads
<1>3. CounterOver(s) \in Nat /\ numbered \in [Seeds -> Nat]
  BY <1>2 DEF Loads, Typed, HubTyped
<1> QED BY <1>1, <1>2, <1>3

\* What PublishReliable adds to what is owed, and what it takes off.
OwesNow(s, e) ==
    /\ owed' \subseteq Owing
    /\ \A d \in Due' :
          \/ d \in Due /\ ~(e.kind = "done" /\ d.kind = "delta" /\ d \in ToSet(journal[s]))
          \/ d = e /\ Follows(s) /\ ~(e.seq <= newest)

LEMMA PublishReliableEffect ==
    ASSUME ChannelAssumption, Typed, NEW s \in Seeds, NEW kind \in {"delta", "done"},
           PublishReliable(s, kind), NEW e, e = Event(s, numbered[s], kind)
    PROVE  /\ numbered[s] # 0 /\ kind \in Kinds
           /\ e \in Events /\ e.seed = s /\ e.seq = numbered[s] /\ e.kind = kind
           /\ Appends(e) /\ Fanout(e) /\ Released(s) /\ OwesNow(s, e)
           /\ slot' \in [Seeds -> Nat] /\ slot'[s] \in {0, slot[s]}
           /\ \A t \in Seeds : t # s => slot'[t] = slot[t]
           /\ kind = "done" => slot'[s] = 0
           /\ UNCHANGED <<history, counter, loaded, after, replayed, wire, clientVars, breaks>>
<1> DEFINE folded == IF kind = "done" THEN Deltas(s) ELSE {}
<1>1. numbered[s] \in Nat /\ kind \in Kinds
  BY DEF Typed, HubTyped, Kinds
<1>2. e \in Events /\ e.seed = s /\ e.seq = numbered[s] /\ e.kind = kind
  BY <1>1, EventIsTyped
<1>3. /\ numbered[s] # 0 /\ AppendToJournal(e) /\ FlushSlot(e) /\ Fanout(e) /\ Released(s)
      /\ owed' = {x \in owed : x.event \notin folded}
                 \cup IF Follows(s) THEN {[event |-> e, late |-> e.seq <= newest]} ELSE {}
      /\ UNCHANGED <<history, counter, loaded, after, replayed, wire, clientVars, breaks>>
  BY DEF PublishReliable
<1>4. Appends(e)
  BY <1>2, <1>3, AppendingAppends
<1>5. /\ slot' \in [Seeds -> Nat] /\ slot'[s] \in {0, slot[s]}
      /\ \A t \in Seeds : t # s => slot'[t] = slot[t]
      /\ kind = "done" => slot'[s] = 0
  BY <1>2, <1>3 DEF FlushSlot, Typed, HubTyped
<1>6. OwesNow(s, e)
  <2>1. owed \subseteq Owing
    BY DEF Typed, ClientTyped
  <2>2. [event |-> e, late |-> e.seq <= newest] \in Owing
    <3>1. (e.seq <= newest) \in BOOLEAN
      OBVIOUS
    <3> QED BY <1>2, <3>1 DEF Owing
  <2>3. owed' \subseteq Owing
    BY <1>3, <2>1, <2>2
  <2>4. ASSUME NEW d \in Due'
        PROVE  \/ d \in Due /\ ~(e.kind = "done" /\ d.kind = "delta" /\ d \in ToSet(journal[s]))
               \/ d = e /\ Follows(s) /\ ~(e.seq <= newest)
    <3>1. PICK y \in owed' : ~y.late /\ d = y.event
      BY <2>4 DEF Due
    <3>2. CASE y \in owed /\ y.event \notin folded
      <4>1. d \in Due
        BY <3>1, <3>2 DEF Due
      <4>2. ~(e.kind = "done" /\ d.kind = "delta" /\ d \in ToSet(journal[s]))
        BY <1>2, <3>1, <3>2 DEF Deltas
      <4> QED BY <4>1, <4>2
    <3>3. CASE Follows(s) /\ y = [event |-> e, late |-> e.seq <= newest]
      <4>1. y.event = e /\ (y.late <=> e.seq <= newest)
        BY <3>3
      <4> QED BY <3>1, <3>3, <4>1
    <3> QED BY <1>3, <3>1, <3>2, <3>3
  <2> QED BY <2>3, <2>4 DEF OwesNow
<1> QED BY <1>1, <1>2, <1>3, <1>4, <1>5, <1>6

LEMMA PublishReplaceableEffect ==
    ASSUME ChannelAssumption, Typed, NEW s \in Seeds,
           PublishReplaceable(s), NEW e, e = Event(s, numbered[s], "checkpoint")
    PROVE  /\ numbered[s] # 0 /\ "checkpoint" \in Kinds
           /\ e \in Events /\ e.seed = s /\ e.seq = numbered[s]
           /\ Fanout(e) /\ Released(s)
           /\ slot' \in [Seeds -> Nat] /\ slot'[s] = numbered[s]
           /\ \A t \in Seeds : t # s => slot'[t] = slot[t]
           /\ journal \in [Seeds -> Seq(Events)] /\ evicted \in [Seeds -> Nat] /\ owed \subseteq Owing
           /\ UNCHANGED <<history, counter, loaded, journal, evicted, after, replayed, wire,
                          clientVars, owed, breaks>>
<1>1. numbered[s] \in Nat /\ "checkpoint" \in Kinds
  BY DEF Typed, HubTyped, Kinds
<1>2. e \in Events /\ e.seed = s /\ e.seq = numbered[s]
  BY <1>1, EventIsTyped
<1> QED BY <1>1, <1>2 DEF PublishReplaceable, Typed, HubTyped, ClientTyped

LEMMA FiniteUnion ==
    ASSUME NEW S, NEW T, IsFiniteSet(S), IsFiniteSet(T)
    PROVE  IsFiniteSet(S \cup T)
<1>1. IsFiniteSet(S \cup T) /\ Cardinality(S \cup T) = Cardinality(S) + Cardinality(T) - Cardinality(S \cap T)
  BY FS_Union
<1> QED BY <1>1

LEMMA FiniteImage ==
    ASSUME NEW S, NEW T, IsFiniteSet(S), NEW f \in Surjection(S, T)
    PROVE  IsFiniteSet(T)
BY FS_Surjection

\* What a replay gives.
ReplayedSet ==
    LET served == IF after = 0 THEN {} ELSE attached \cap loaded
    IN  (UNION {Reliable(s) : s \in {q \in served : ~Expired(q)}}) \cup Slots
RefusedSet ==
    LET served == IF after = 0 THEN {} ELSE attached \cap loaded
    IN  {Reset(s) : s \in {q \in served : Expired(q)}}

LEMMA ReplayIsFinite ==
    ASSUME ChannelAssumption, Typed
    PROVE  /\ ReplayedSet \in SUBSET Events /\ IsFiniteSet(ReplayedSet)
           /\ RefusedSet \in SUBSET Resets /\ IsFiniteSet(RefusedSet)
<1> DEFINE served == IF after = 0 THEN {} ELSE attached \cap loaded
           open == {q \in served : ~Expired(q)}
<1>1. served \subseteq Seeds /\ IsFiniteSet(Seeds)
  BY Constants DEF Typed, HubTyped, ClientTyped
<1>2. \A s \in Seeds : Reliable(s) \subseteq Events /\ IsFiniteSet(Reliable(s))
  <2> TAKE s \in Seeds
  <2>1. journal[s] \in Seq(Events)
    BY DEF Typed, HubTyped
  <2>2. PICK q \in Seq(Events) : q = journal[s]
    BY <2>1
  <2>3. ToSet(q) \subseteq Events
    BY Members
  <2>4. IsFiniteSet(ToSet(q))
    <3>1. Len(q) \in Nat /\ DOMAIN q = 1 .. Len(q)
      BY Members
    <3>2. IsFiniteSet(1 .. Len(q))
      BY <3>1, FS_Interval
    <3>3. PICK T : T = ToSet(q)
      OBVIOUS
    <3>4. q \in Surjection(1 .. Len(q), T)
      <4>1. \A i \in 1 .. Len(q) : q[i] \in T
        BY <3>1, <3>3 DEF ToSet
      <4>2. \A x \in T : \E i \in 1 .. Len(q) : q[i] = x
        BY <3>1, <3>3 DEF ToSet
      <4>3. q \in [1 .. Len(q) -> T]
        BY <4>1, <3>1
      <4> QED BY <4>2, <4>3 DEF Surjection
    <3> QED BY <3>2, <3>3, <3>4, FS_Surjection
  <2>5. Reliable(s) \subseteq ToSet(q)
    BY <2>2 DEF Reliable
  <2> QED BY <2>3, <2>4, <2>5, FS_Subset
<1>3. /\ Slots \subseteq Events /\ IsFiniteSet(Slots)
  <2>1. \A s \in Seeds : Event(s, slot[s], "checkpoint") \in Events
    <3> TAKE s \in Seeds
    <3>1. slot[s] \in Nat /\ "checkpoint" \in Kinds
      BY DEF Typed, HubTyped, Kinds
    <3> QED BY <3>1, EventIsTyped
  <2>2. PICK D : D = {q \in attached : slot[q] > after}
    OBVIOUS
  <2>3. D \subseteq Seeds /\ IsFiniteSet(D)
    <3>1. D \subseteq Seeds
      BY <2>2 DEF Typed, ClientTyped
    <3> QED BY <1>1, <3>1, FS_Subset
  <2>4. Slots = {Event(s, slot[s], "checkpoint") : s \in D}
    BY <2>2 DEF Slots
  <2>5. PICK f : f = [s \in D |-> Event(s, slot[s], "checkpoint")]
    OBVIOUS
  <2>6. f \in Surjection(D, Slots)
    BY <2>4, <2>5 DEF Surjection
  <2>7. IsFiniteSet(Slots)
    BY <2>3, <2>6, FS_Surjection
  <2> QED BY <2>1, <2>3, <2>4, <2>7
<1>4. open \subseteq Seeds /\ IsFiniteSet(open)
  BY <1>1, FS_Subset
<1>5. PICK C : C = {Reliable(s) : s \in open}
  OBVIOUS
<1> HIDE DEF open
<1>6. IsFiniteSet(C) /\ \A r \in C : IsFiniteSet(r) /\ r \subseteq Events
  <2>1. PICK f : f = [s \in open |-> Reliable(s)]
    OBVIOUS
  <2>2. f \in Surjection(open, C)
    BY <1>5, <2>1 DEF Surjection
  <2> QED BY <1>2, <1>4, <1>5, <2>2, FS_Surjection
<1>7. IsFiniteSet(UNION C) /\ UNION C \subseteq Events
  BY <1>6, FS_UNION
<1>8. ReplayedSet = (UNION C) \cup Slots
  BY <1>5 DEF ReplayedSet, open
<1>9. IsFiniteSet((UNION C) \cup Slots)
  BY <1>3, <1>7, FiniteUnion
<1>10. /\ RefusedSet \subseteq Resets /\ IsFiniteSet(RefusedSet)
  <2>1. PICK D : D = {q \in served : Expired(q)}
    OBVIOUS
  <2>2. D \subseteq Seeds /\ IsFiniteSet(D)
    BY <1>1, <2>1, FS_Subset
  <2>3. RefusedSet = {Reset(s) : s \in D}
    BY <2>1 DEF RefusedSet
  <2>4. PICK f : f = [s \in D |-> Reset(s)]
    OBVIOUS
  <2>5. f \in Surjection(D, RefusedSet)
    BY <2>3, <2>4 DEF Surjection
  <2>6. RefusedSet \subseteq Resets
    BY <2>2, <2>3 DEF Resets
  <2>7. IsFiniteSet(RefusedSet)
    BY <2>2, <2>5, FiniteImage
  <2> QED BY <2>6, <2>7
<1> QED BY <1>3, <1>7, <1>8, <1>9, <1>10

LEMMA ReplayEffect ==
    ASSUME ChannelAssumption, Typed, Replay
    PROVE  /\ phase = "subscribed" /\ phase' = "open" /\ replayed' = ReplayedSet
           /\ replayed' \subseteq Events
           /\ wire' \in Seq(Events \cup Resets) /\ IsInjective(wire')
           /\ ToSet(wire') = ReplayedSet \cup RefusedSet
           /\ \A e \in ReplayedSet :
                 (\A f \in ReplayedSet : f.seq = e.seq => f = e) => NonePasses(wire', e)
           /\ UNCHANGED <<hubVars, rx, after, serving, cursor, attached, seen, owed, breaks>>
<1>1. /\ phase = "subscribed" /\ phase' = "open" /\ replayed' = ReplayedSet
      /\ \E order \in InOrder(ReplayedSet), refusals \in SetToSeqs(RefusedSet) :
            wire' = order \o refusals
      /\ UNCHANGED <<hubVars, rx, after, serving, cursor, attached, seen, owed, breaks>>
  BY DEF Replay, ReplayedSet, RefusedSet
<1>2. PICK S, R : S = ReplayedSet /\ R = RefusedSet
  OBVIOUS
<1>3. /\ S \in SUBSET Events /\ IsFiniteSet(S) /\ R \in SUBSET Resets /\ IsFiniteSet(R)
      /\ S \cap Resets = {}
  BY <1>2, ReplayIsFinite, EventsAreNoResets
<1>4. PICK order \in InOrder(S), refusals \in SetToSeqs(R) : wire' = order \o refusals
  BY <1>1, <1>2
<1>5. /\ wire' \in Seq(Events \cup Resets)
      /\ ToSet(wire') = S \cup R /\ IsInjective(wire')
      /\ \A e \in S : (\A f \in S : f.seq = e.seq => f = e) => NonePasses(wire', e)
  BY <1>3, <1>4, ReplayIsAll
<1> QED BY <1>1, <1>2, <1>3, <1>5

LEMMA ReplayKeeps ==
    ASSUME ChannelAssumption, Typed, NumbersAreSound, Replay
    PROVE  Typed' /\ NumbersAreSound'
<1>1. HubTyped /\ ConnectionTyped /\ ClientTyped
  BY DEF Typed
<1>2. NumbersAreDrawn /\ JournalIsPublished /\ WayIsPublished /\ ConnectionInStep /\ OverlapIsReplayed
  BY DEF NumbersAreSound
<1>3. /\ phase = "subscribed" /\ phase' = "open" /\ replayed' = ReplayedSet /\ replayed' \subseteq Events
      /\ wire' \in Seq(Events \cup Resets) /\ IsInjective(wire')
      /\ ToSet(wire') = ReplayedSet \cup RefusedSet
      /\ UNCHANGED <<hubVars, rx, after, serving, cursor, attached, seen, owed, breaks>>
  BY ReplayEffect
<1>4. UNCHANGED <<history, counter, loaded, numbered, journal, evicted, slot, newest, rx, after,
                  serving, cursor, attached, seen, owed>>
  BY <1>3 DEF hubVars
<1>5. Typed'
  BY <1>1, <1>3, <1>4 DEF Typed, HubTyped, ConnectionTyped, ClientTyped, Phases
<1>6. NumbersAreDrawn' /\ JournalIsPublished'
  BY <1>2, <1>4 DEF NumbersAreDrawn, JournalIsPublished, Published
<1>7. \A e \in ReplayedSet : Published(e)
  <2>1. \A s \in Seeds : \A e \in Reliable(s) : Published(e)
    BY <1>2 DEF JournalIsPublished, Reliable
  <2>2. ASSUME NEW s \in Seeds PROVE Published(Event(s, slot[s], "checkpoint"))
    <3>1. slot[s] \in Nat /\ "checkpoint" \in Kinds
      BY <1>1 DEF HubTyped, Kinds
    <3>2. slot[s] <= newest /\ (numbered[s] # 0 => slot[s] < numbered[s])
      BY <1>2 DEF JournalIsPublished
    <3> QED BY <3>1, <3>2, EventIsTyped DEF Published
  <2>3. attached \subseteq Seeds
    BY <1>1 DEF ClientTyped
  <2> QED BY <2>1, <2>2, <2>3 DEF ReplayedSet, Slots
<1>8. WayIsPublished'
  <2>1. OnTheWay' \subseteq OnTheWay \cup ReplayedSet
    <3>1. RefusedSet \subseteq Resets
      BY ReplayIsFinite
    <3>2. ToSet(wire') \ Resets \subseteq ReplayedSet
      BY <1>3, <3>1
    <3>3. replayed' = ReplayedSet /\ rx' = rx /\ seen' = seen
      BY <1>3, <1>4
    <3> QED BY <3>2, <3>3 DEF OnTheWay
  <2>2. \A e \in OnTheWay' : Published(e)
    BY <1>2, <1>7, <2>1 DEF WayIsPublished
  <2> QED BY <1>2, <1>4, <2>2 DEF WayIsPublished, Published
<1>9. seen = {}
  BY <1>2, <1>3 DEF ConnectionInStep
<1>10. ConnectionInStep'
  BY <1>2, <1>3, <1>4 DEF ConnectionInStep
<1>11. OverlapIsReplayed'
  <2>1. \A e \in ToSet(rx) : e \in ToSet(wire') => e \in replayed'
    <3>1. ToSet(rx) \subseteq Events /\ RefusedSet \subseteq Resets
      BY <1>1, Members, ReplayIsFinite DEF ConnectionTyped
    <3> QED BY <1>3, <3>1, EventsAreNoResets
  <2> QED BY <1>2, <1>3, <1>4, <1>9, <2>1 DEF OverlapIsReplayed
<1> QED BY <1>5, <1>6, <1>8, <1>10, <1>11 DEF NumbersAreSound

LEMMA ServeLiveKeeps ==
    ASSUME Typed, NumbersAreSound, ServeLive
    PROVE  Typed' /\ NumbersAreSound'
<1>1. HubTyped /\ ConnectionTyped /\ ClientTyped
  BY DEF Typed
<1>2. NumbersAreDrawn /\ JournalIsPublished /\ WayIsPublished /\ ConnectionInStep /\ OverlapIsReplayed
  BY DEF NumbersAreSound
<1>3. /\ phase = "open" /\ serving /\ rx # <<>> /\ rx' = Tail(rx)
      /\ UNCHANGED <<history, counter, loaded, numbered, journal, evicted, slot, newest, after, replayed,
                     serving, phase, cursor, attached, seen, owed>>
      /\ wire' = wire \/ (wire' = Append(wire, Head(rx)) /\ ~AlreadySent(Head(rx)))
  BY DEF ServeLive, hubVars, clientVars
<1>4. PICK h : h = Head(rx)
  OBVIOUS
<1>5. /\ rx \in Seq(Events) /\ h \in Events /\ rx' \in Seq(Events) /\ ToSet(rx) = {h} \cup ToSet(rx')
      /\ IsInjective(rx') /\ h \notin ToSet(rx')
  <2>1. rx \in Seq(Events) /\ IsInjective(rx)
    BY <1>1, <1>2 DEF ConnectionTyped, OverlapIsReplayed
  <2> QED BY <1>3, <1>4, <2>1, TailKeeps
<1>6. /\ wire' \in Seq(Events \cup Resets)
      /\ IsInjective(wire') /\ ToSet(wire) \subseteq ToSet(wire')
      /\ ToSet(wire') \cap seen = {}
      /\ \A f \in ToSet(wire') : f \in ToSet(wire) \/ f = h
  <2>1. wire \in Seq(Events \cup Resets) /\ IsInjective(wire) /\ ToSet(wire) \cap seen = {}
    BY <1>1, <1>2 DEF ConnectionTyped, OverlapIsReplayed
  <2>2. CASE wire' = wire
    BY <2>1, <2>2
  <2>3. CASE wire' = Append(wire, h) /\ ~AlreadySent(h)
    <3>1. h \notin ToSet(wire) \cup seen
      BY <1>2, <1>5, <2>3 DEF AlreadySent, OverlapIsReplayed
    <3>2. h \in Events \cup Resets
      BY <1>5
    <3>3. /\ Append(wire, h) \in Seq(Events \cup Resets)
          /\ ToSet(Append(wire, h)) = ToSet(wire) \cup {h}
          /\ IsInjective(Append(wire, h))
      BY <2>1, <3>1, <3>2, AppendKeeps
    <3> QED BY <2>1, <2>3, <3>1, <3>3
  <2> QED BY <1>3, <1>4, <2>2, <2>3
<1>7. Typed'
  BY <1>1, <1>3, <1>5, <1>6 DEF Typed, HubTyped, ConnectionTyped, ClientTyped
<1>8. NumbersAreDrawn' /\ JournalIsPublished'
  BY <1>2, <1>3 DEF NumbersAreDrawn, JournalIsPublished, Published
<1>9. WayIsPublished'
  <2>1. OnTheWay' \subseteq OnTheWay
    BY <1>3, <1>5, <1>6 DEF OnTheWay
  <2> QED BY <1>2, <1>3, <2>1 DEF WayIsPublished, Published
<1>10. ConnectionInStep'
  BY <1>2, <1>3 DEF ConnectionInStep
<1>11. OverlapIsReplayed'
  <2>1. \A e \in ToSet(rx') : e \in ToSet(wire') \cup seen => e \in replayed \/ e.seq <= after
    BY <1>2, <1>5, <1>6 DEF OverlapIsReplayed
  <2> QED BY <1>3, <1>5, <1>6, <2>1 DEF OverlapIsReplayed
<1> QED BY <1>7, <1>8, <1>9, <1>10, <1>11 DEF NumbersAreSound

LEMMA SubscribeKeeps ==
    ASSUME Typed, NumbersAreSound, Subscribe
    PROVE  Typed' /\ NumbersAreSound'
<1>1. HubTyped /\ ConnectionTyped /\ ClientTyped
  BY DEF Typed
<1>2. NumbersAreDrawn /\ JournalIsPublished /\ WayIsPublished /\ ConnectionInStep /\ OverlapIsReplayed
  BY DEF NumbersAreSound
<1>3. /\ phase = "connect" /\ after' = cursor /\ rx' = <<>> /\ serving' = TRUE /\ phase' = "subscribed"
      /\ UNCHANGED <<history, counter, loaded, numbered, journal, evicted, slot, newest, replayed, wire,
                     cursor, attached, seen, owed>>
  BY DEF Subscribe, hubVars
<1>4. ToSet(rx') = {} /\ IsInjective(rx') /\ rx' \in Seq(Events)
  BY <1>3 DEF ToSet, IsInjective
<1>5. Typed'
  BY <1>1, <1>3, <1>4 DEF Typed, HubTyped, ConnectionTyped, ClientTyped, Phases
<1>6. NumbersAreDrawn' /\ JournalIsPublished'
  BY <1>2, <1>3 DEF NumbersAreDrawn, JournalIsPublished, Published
<1>7. WayIsPublished'
  <2>1. OnTheWay' \subseteq OnTheWay
    BY <1>3, <1>4 DEF OnTheWay
  <2> QED BY <1>2, <1>3, <2>1 DEF WayIsPublished, Published
<1>8. ConnectionInStep' /\ OverlapIsReplayed'
  BY <1>2, <1>3, <1>4 DEF ConnectionInStep, OverlapIsReplayed
<1> QED BY <1>5, <1>6, <1>7, <1>8 DEF NumbersAreSound

\* Reading takes the first frame off the wire.
LEMMA WireTail ==
    ASSUME Typed, NumbersAreSound, wire # <<>>, wire' = Tail(wire)
    PROVE  /\ Head(wire) \in Events \cup Resets /\ wire' \in Seq(Events \cup Resets)
           /\ ToSet(wire) = {Head(wire)} \cup ToSet(wire')
           /\ IsInjective(wire') /\ Head(wire) \notin ToSet(wire')
           /\ \A e : NonePasses(wire, e) /\ Head(wire) # e =>
                 NonePasses(wire', e) /\ (Head(wire) \notin Resets => ~(Head(wire).seq >= e.seq))
<1>1. wire \in Seq(Events \cup Resets) /\ IsInjective(wire)
  BY DEF Typed, ConnectionTyped, NumbersAreSound, OverlapIsReplayed
<1> QED BY <1>1, TailKeeps

LEMMA ReadEventKeeps ==
    ASSUME Typed, NumbersAreSound, ReadEvent
    PROVE  Typed' /\ NumbersAreSound'
<1>1. HubTyped /\ ConnectionTyped /\ ClientTyped
  BY DEF Typed
<1>2. NumbersAreDrawn /\ JournalIsPublished /\ WayIsPublished /\ ConnectionInStep /\ OverlapIsReplayed
  BY DEF NumbersAreSound
<1>3. PICK h : h = Head(wire)
  OBVIOUS
<1>4. /\ phase = "open" /\ wire # <<>> /\ h \notin Resets /\ cursor' = h.seq /\ seen' = seen \cup {h}
      /\ owed' = {x \in owed : x.event # h} /\ wire' = Tail(wire)
      /\ UNCHANGED <<history, counter, loaded, numbered, journal, evicted, slot, newest, rx, after,
                     replayed, serving, phase, attached>>
  BY <1>3 DEF ReadEvent, hubVars
<1>5. /\ h \in Events /\ wire' \in Seq(Events \cup Resets)
      /\ ToSet(wire) = {h} \cup ToSet(wire') /\ IsInjective(wire') /\ h \notin ToSet(wire')
  BY <1>3, <1>4, WireTail
<1>6. h.seq \in Nat
  BY <1>5, FieldsOfEvents
<1>7. Typed'
  BY <1>1, <1>4, <1>5, <1>6 DEF Typed, HubTyped, ConnectionTyped, ClientTyped
<1>8. NumbersAreDrawn' /\ JournalIsPublished'
  BY <1>2, <1>4 DEF NumbersAreDrawn, JournalIsPublished, Published
<1>9. WayIsPublished'
  <2>1. OnTheWay' \subseteq OnTheWay /\ h \in OnTheWay
    BY <1>4, <1>5 DEF OnTheWay
  <2>2. h.seq <= newest
    BY <1>2, <2>1 DEF WayIsPublished, Published
  <2> QED BY <1>2, <1>4, <2>1, <2>2 DEF WayIsPublished, Published
<1>10. ConnectionInStep'
  BY <1>2, <1>4 DEF ConnectionInStep
<1>11. OverlapIsReplayed'
  <2>1. ToSet(wire') \cup seen' = ToSet(wire) \cup seen
    BY <1>4, <1>5
  <2>2. ToSet(wire') \cap seen' = {}
    BY <1>2, <1>4, <1>5 DEF OverlapIsReplayed
  <2> QED BY <1>2, <1>4, <1>5, <2>1, <2>2 DEF OverlapIsReplayed
<1> QED BY <1>7, <1>8, <1>9, <1>10, <1>11 DEF NumbersAreSound

LEMMA ReadResetKeeps ==
    ASSUME Typed, NumbersAreSound, ReadReset
    PROVE  Typed' /\ NumbersAreSound'
<1>1. HubTyped /\ ConnectionTyped /\ ClientTyped
  BY DEF Typed
<1>2. NumbersAreDrawn /\ JournalIsPublished /\ WayIsPublished /\ ConnectionInStep /\ OverlapIsReplayed
  BY DEF NumbersAreSound
<1>3. PICK h : h = Head(wire)
  OBVIOUS
<1>4. /\ phase = "open" /\ wire # <<>> /\ h \in Resets
      /\ owed' = {x \in owed : x.event.seed # h.reset} /\ wire' = Tail(wire)
      /\ UNCHANGED <<history, counter, loaded, numbered, journal, evicted, slot, newest, rx, after,
                     replayed, serving, phase, cursor, attached, seen>>
  BY <1>3 DEF ReadReset, hubVars, clientVars
<1>5. /\ wire' \in Seq(Events \cup Resets)
      /\ ToSet(wire) = {h} \cup ToSet(wire') /\ IsInjective(wire')
  BY <1>3, <1>4, WireTail
<1>6. Typed'
  BY <1>1, <1>4, <1>5 DEF Typed, HubTyped, ConnectionTyped, ClientTyped
<1>7. NumbersAreDrawn' /\ JournalIsPublished'
  BY <1>2, <1>4 DEF NumbersAreDrawn, JournalIsPublished, Published
<1>8. WayIsPublished'
  <2>1. OnTheWay' \subseteq OnTheWay
    BY <1>4, <1>5 DEF OnTheWay
  <2> QED BY <1>2, <1>4, <2>1 DEF WayIsPublished, Published
<1>9. ConnectionInStep'
  BY <1>2, <1>4 DEF ConnectionInStep
<1>10. OverlapIsReplayed'
  BY <1>2, <1>4, <1>5 DEF OverlapIsReplayed
<1> QED BY <1>6, <1>7, <1>8, <1>9, <1>10 DEF NumbersAreSound

LEMMA HangUpKeeps ==
    ASSUME Typed, NumbersAreSound, HangUp
    PROVE  Typed' /\ NumbersAreSound'
<1>1. HubTyped /\ ConnectionTyped /\ ClientTyped
  BY DEF Typed
<1>2. NumbersAreDrawn /\ JournalIsPublished /\ WayIsPublished
  BY DEF NumbersAreSound
<1>3. /\ rx' = <<>> /\ wire' = <<>> /\ serving' = FALSE /\ after' = 0 /\ replayed' = {}
      /\ phase' = "connect" /\ seen' = {} /\ owed' = (IF cursor = 0 THEN {} ELSE owed)
      /\ UNCHANGED <<history, counter, loaded, numbered, journal, evicted, slot, newest, cursor, attached>>
  BY DEF HangUp, hubVars
<1>4. /\ ToSet(rx') = {} /\ IsInjective(rx') /\ rx' \in Seq(Events)
      /\ ToSet(wire') = {} /\ IsInjective(wire') /\ wire' \in Seq(Events \cup Resets)
  BY <1>3 DEF ToSet, IsInjective
<1>5. Typed'
  BY <1>1, <1>3, <1>4 DEF Typed, HubTyped, ConnectionTyped, ClientTyped, Phases
<1>6. NumbersAreDrawn' /\ JournalIsPublished'
  BY <1>2, <1>3 DEF NumbersAreDrawn, JournalIsPublished, Published
<1>7. WayIsPublished'
  <2>1. OnTheWay' = {}
    BY <1>3, <1>4 DEF OnTheWay
  <2>2. 0 <= newest
    BY <1>1 DEF HubTyped
  <2> QED BY <1>2, <1>3, <2>1, <2>2 DEF WayIsPublished
<1>8. ConnectionInStep' /\ OverlapIsReplayed'
  BY <1>3, <1>4 DEF ConnectionInStep, OverlapIsReplayed
<1> QED BY <1>5, <1>6, <1>7, <1>8 DEF NumbersAreSound

LEMMA SoundInit == ASSUME ChannelAssumption, Init PROVE Typed /\ NumbersAreSound
<1>1. /\ history \in [Seeds -> 0 .. MaxHistory] /\ MaxHistory \in Nat
      /\ counter = 0 /\ loaded = {} /\ newest = 0
      /\ numbered = [s \in Seeds |-> 0] /\ journal = [s \in Seeds |-> <<>>]
      /\ evicted = [s \in Seeds |-> 0] /\ slot = [s \in Seeds |-> 0]
      /\ rx = <<>> /\ wire = <<>> /\ serving = FALSE /\ after = 0 /\ replayed = {}
      /\ phase = "connect" /\ cursor = 0 /\ attached = {} /\ seen = {} /\ owed = {}
  BY DEF Init, ChannelAssumption
<1>2. /\ rx \in Seq(Events) /\ wire \in Seq(Events \cup Resets) /\ <<>> \in Seq(Events)
      /\ ToSet(<<>>) = {} /\ IsInjective(<<>>)
  BY <1>1 DEF ToSet, IsInjective
<1>3. history \in [Seeds -> Nat]
  BY <1>1
<1>4. Typed
  BY <1>1, <1>2, <1>3 DEF Typed, HubTyped, ConnectionTyped, ClientTyped, Phases
<1>5. NumbersAreDrawn /\ JournalIsPublished
  BY <1>1, <1>2 DEF NumbersAreDrawn, JournalIsPublished
<1>6. WayIsPublished
  <2>1. OnTheWay = {}
    BY <1>1, <1>2 DEF OnTheWay
  <2> QED BY <1>1, <2>1 DEF WayIsPublished
<1>7. ConnectionInStep /\ OverlapIsReplayed
  BY <1>1, <1>2 DEF ConnectionInStep, OverlapIsReplayed
<1> QED BY <1>4, <1>5, <1>6, <1>7 DEF NumbersAreSound

LEMMA SoundStep ==
    ASSUME ChannelAssumption, Typed, NumbersAreSound, [Next]_vars
    PROVE  Typed' /\ NumbersAreSound'
<1>1. ASSUME NEW s \in Seeds, DrawNumber(s) PROVE Typed' /\ NumbersAreSound'
  <2>1. /\ Loads(s) /\ UNCHANGED <<history, slot, connVars, phase, cursor, attached, seen>>
        /\ counter' \in Nat /\ CounterOver(s) < counter' /\ numbered' \in [Seeds -> Nat]
        /\ \A t \in Seeds : t # s => numbered'[t] = numbered[t]
        /\ numbered[s] = 0 /\ numbered'[s] = counter'
    BY <1>1, DrawNumberLoads
  <2>2. CounterOver(s) <= counter'
    BY <2>1 DEF Loads
  <2> QED BY <2>1, <2>2, LoadingKeeps
<1>2. ASSUME NEW s \in Seeds, Attach(s) PROVE Typed' /\ NumbersAreSound'
  <2>1. /\ Loads(s) /\ UNCHANGED <<history, slot, numbered, connVars, phase, cursor, seen>>
        /\ counter' \in Nat /\ CounterOver(s) <= counter' /\ numbered' \in [Seeds -> Nat]
        /\ attached' = attached \cup {s}
    BY <1>2, AttachLoads
  <2> QED BY <2>1, LoadingKeeps
<1>3. ASSUME NEW s \in Seeds, NEW kind \in {"delta", "done"}, PublishReliable(s, kind)
      PROVE  Typed' /\ NumbersAreSound'
  <2>1. PICK e : e = Event(s, numbered[s], kind)
    OBVIOUS
  <2>2. /\ numbered[s] # 0 /\ kind \in Kinds /\ e.seed = s
        /\ Appends(e) /\ Fanout(e) /\ Released(s) /\ OwesNow(s, e)
        /\ slot' \in [Seeds -> Nat] /\ slot'[s] \in {0, slot[s]}
        /\ \A t \in Seeds : t # s => slot'[t] = slot[t]
        /\ UNCHANGED <<history, counter, loaded, after, replayed, wire, clientVars>>
    BY <1>3, <2>1, PublishReliableEffect
  <2>3. /\ journal' \in [Seeds -> Seq(Events)] /\ evicted' \in [Seeds -> Nat]
        /\ \A t \in Seeds : t # s => journal'[t] = journal[t]
        /\ ToSet(journal'[s]) \subseteq ToSet(journal[s]) \cup {e}
    BY <2>2 DEF Appends
  <2>4. owed' \subseteq Owing
    BY <2>2 DEF OwesNow
  <2> QED BY <2>1, <2>2, <2>3, <2>4, PublishingKeeps
<1>4. ASSUME NEW s \in Seeds, PublishReplaceable(s) PROVE Typed' /\ NumbersAreSound'
  <2>1. PICK e : e = Event(s, numbered[s], "checkpoint")
    OBVIOUS
  <2>2. /\ numbered[s] # 0 /\ "checkpoint" \in Kinds
        /\ Fanout(e) /\ Released(s)
        /\ slot' \in [Seeds -> Nat] /\ slot'[s] = numbered[s]
        /\ \A t \in Seeds : t # s => slot'[t] = slot[t]
        /\ journal \in [Seeds -> Seq(Events)] /\ evicted \in [Seeds -> Nat] /\ owed \subseteq Owing
        /\ UNCHANGED <<history, counter, loaded, journal, evicted, after, replayed, wire, clientVars, owed>>
    BY <1>4, <2>1, PublishReplaceableEffect
  <2> QED BY <2>1, <2>2, PublishingKeeps
<1>5. CASE UNCHANGED vars
  <2>1. UNCHANGED <<history, counter, loaded, numbered, journal, evicted, slot, newest, rx, after, replayed,
                    serving, wire, phase, cursor, attached, seen, owed>>
    BY <1>5 DEF vars, hubVars, connVars, clientVars
  <2>2. Typed'
    BY <2>1 DEF Typed, HubTyped, ConnectionTyped, ClientTyped
  <2>3. NumbersAreDrawn' /\ JournalIsPublished' /\ WayIsPublished'
    BY <2>1 DEF NumbersAreSound, NumbersAreDrawn, JournalIsPublished, WayIsPublished, Published, OnTheWay
  <2>4. ConnectionInStep' /\ OverlapIsReplayed'
    BY <2>1 DEF NumbersAreSound, ConnectionInStep, OverlapIsReplayed
  <2> QED BY <2>2, <2>3, <2>4 DEF NumbersAreSound
<1>6. CASE ConnectionBreaks \/ ConnectionEnds
  <2>1. HangUp
    BY <1>6 DEF ConnectionBreaks, ConnectionEnds
  <2> QED BY <2>1, HangUpKeeps
<1> QED BY <1>1, <1>2, <1>3, <1>4, <1>5, <1>6, ReplayKeeps, ServeLiveKeeps, SubscribeKeeps,
           ReadEventKeeps, ReadResetKeeps DEF Next, HubNext, ClientNext

\* However replay and live delivery overlap, and whatever numbers overtake each other: a connection
\* shows the client no event twice.
THEOREM NoEventTwice == Spec => []OncePerConnection
<1>1. Init => Typed /\ NumbersAreSound
  BY ChannelAssumption, SoundInit
<1>2. Typed /\ NumbersAreSound /\ [Next]_vars => (Typed /\ NumbersAreSound)'
  BY ChannelAssumption, SoundStep
<1>3. Typed /\ NumbersAreSound => OncePerConnection
  <2> SUFFICES ASSUME Typed, NumbersAreSound PROVE OncePerConnection
    OBVIOUS
  <2>1. IsInjective(wire) /\ ToSet(wire) \cap seen = {}
    BY DEF NumbersAreSound, OverlapIsReplayed
  <2> QED BY <2>1 DEF OncePerConnection, IsInjective
<1> QED BY <1>1, <1>2, <1>3, PTL DEF Spec

----------------------------------------------------------------------------
(* No checkpoint of a round that is done.                                  *)

LEMMA StaleStep ==
    ASSUME ChannelAssumption, Typed, NumbersAreSound, NoStaleCheckpoint, [Next]_vars
    PROVE  NoStaleCheckpoint'
<1>1. /\ \A s \in Seeds : slot[s] \in Nat /\ numbered[s] \in Nat /\ ToSet(journal[s]) \subseteq Events
      /\ NumbersAreDrawn /\ JournalIsPublished
  BY Members DEF Typed, HubTyped, NumbersAreSound
<1>2. ASSUME NEW s \in Seeds, Loads(s), UNCHANGED slot PROVE NoStaleCheckpoint'
  <2> SUFFICES ASSUME NEW t \in Seeds, NEW e \in ToSet(journal'[t]), slot[t] # 0, e.kind = "done"
               PROVE  e.seq < slot[t]
    BY <1>2 DEF NoStaleCheckpoint
  <2>1. t # s \/ s \in loaded
    BY <1>1 DEF NumbersAreDrawn
  <2>2. journal'[t] = journal[t]
    BY <1>2, <2>1 DEF Loads
  <2> QED BY <2>2 DEF NoStaleCheckpoint
<1>3. ASSUME NEW s \in Seeds, NEW kind \in {"delta", "done"}, PublishReliable(s, kind)
      PROVE  NoStaleCheckpoint'
  <2>1. PICK e : e = Event(s, numbered[s], kind)
    OBVIOUS
  <2>2. /\ e.seed = s /\ e.kind = kind /\ Appends(e)
        /\ slot'[s] \in {0, slot[s]} /\ (kind = "done" => slot'[s] = 0)
        /\ \A t \in Seeds : t # s => slot'[t] = slot[t]
    BY <1>3, <2>1, PublishReliableEffect
  <2> SUFFICES ASSUME NEW t \in Seeds, NEW f \in ToSet(journal'[t]), slot'[t] # 0, f.kind = "done"
               PROVE  f.seq < slot'[t]
    BY DEF NoStaleCheckpoint
  <2>3. slot'[t] = slot[t] /\ f \in ToSet(journal[t])
    <3>1. CASE t # s
      <4>1. journal'[t] = journal[t]
        BY <2>2, <3>1 DEF Appends
      <4> QED BY <2>2, <3>1, <4>1
    <3>2. CASE t = s
      <4>1. f \in ToSet(journal[s]) \cup {e} /\ kind # "done"
        BY <2>2, <3>2 DEF Appends
      <4> QED BY <2>2, <3>2, <4>1
    <3> QED BY <3>1, <3>2
  <2> QED BY <2>3 DEF NoStaleCheckpoint
<1>4. ASSUME NEW s \in Seeds, PublishReplaceable(s) PROVE NoStaleCheckpoint'
  <2>1. /\ numbered[s] # 0 /\ slot'[s] = numbered[s] /\ UNCHANGED journal
        /\ \A t \in Seeds : t # s => slot'[t] = slot[t]
    BY <1>4, PublishReplaceableEffect
  <2> SUFFICES ASSUME NEW t \in Seeds, NEW f \in ToSet(journal[t]), slot'[t] # 0, f.kind = "done"
               PROVE  f.seq < slot'[t]
    BY <2>1 DEF NoStaleCheckpoint
  <2>2. CASE t # s
    BY <2>1, <2>2 DEF NoStaleCheckpoint
  <2>3. CASE t = s
    BY <1>1, <2>1, <2>3 DEF JournalIsPublished, Published
  <2> QED BY <2>2, <2>3
<1>5. ASSUME UNCHANGED <<journal, slot>> PROVE NoStaleCheckpoint'
  BY <1>5 DEF NoStaleCheckpoint
<1>6. ASSUME NEW s \in Seeds, DrawNumber(s) PROVE NoStaleCheckpoint'
  BY <1>2, <1>6, DrawNumberLoads
<1>7. ASSUME NEW s \in Seeds, Attach(s) PROVE NoStaleCheckpoint'
  BY <1>2, <1>7, AttachLoads
<1>8. CASE Replay
  <2>1. UNCHANGED hubVars
    BY <1>8, ReplayEffect
  <2> QED BY <1>5, <2>1 DEF hubVars
<1>9. CASE ServeLive \/ Subscribe \/ ReadEvent \/ ReadReset
  BY <1>5, <1>9 DEF ServeLive, Subscribe, ReadEvent, ReadReset, hubVars
<1>10. CASE ConnectionBreaks \/ ConnectionEnds
  BY <1>5, <1>10 DEF ConnectionBreaks, ConnectionEnds, HangUp, hubVars
<1>11. CASE UNCHANGED vars
  BY <1>5, <1>11 DEF vars, hubVars
<1> QED BY <1>3, <1>4, <1>6, <1>7, <1>8, <1>9, <1>10, <1>11 DEF Next, HubNext, ClientNext

\* The end of a round takes its checkpoint out of the replays, for any order of two workers' numbers:
\* what a replay has of a seed is later than every end the seed's journal has.
THEOREM NoReplayIsStale == Spec => []NoStaleCheckpoint
<1>1. Init => Typed /\ NumbersAreSound
  BY ChannelAssumption, SoundInit
<1>2. Init => NoStaleCheckpoint
  <2>1. ToSet(<<>>) = {}
    BY DEF ToSet
  <2> QED BY <2>1 DEF Init, NoStaleCheckpoint
<1>3. Typed /\ NumbersAreSound /\ [Next]_vars => (Typed /\ NumbersAreSound)'
  BY ChannelAssumption, SoundStep
<1>4. Typed /\ NumbersAreSound /\ NoStaleCheckpoint /\ [Next]_vars => NoStaleCheckpoint'
  BY ChannelAssumption, StaleStep
<1> QED BY <1>1, <1>2, <1>3, <1>4, PTL DEF Spec

----------------------------------------------------------------------------
(* What every step keeps of the events the client is owed.                 *)

LEMMA DueIsTyped ==
    ASSUME Typed
    PROVE  /\ Due \subseteq Events
           /\ \A e \in Due : e.seed \in Seeds /\ e.seq \in Nat
           /\ cursor \in Nat /\ after \in Nat /\ newest \in Nat
           /\ \A s \in Seeds : /\ numbered[s] \in Nat /\ slot[s] \in Nat /\ evicted[s] \in Nat
                               /\ journal[s] \in Seq(Events) /\ ToSet(journal[s]) \subseteq Events
           /\ wire \in Seq(Events \cup Resets) /\ rx \in Seq(Events)
           /\ ToSet(wire) \subseteq Events \cup Resets /\ ToSet(rx) \subseteq Events
<1>1. HubTyped /\ ConnectionTyped /\ ClientTyped
  BY DEF Typed
<1>2. Due \subseteq Events
  BY <1>1 DEF Due, ClientTyped, Owing
<1>3. \A e \in Due : e.seed \in Seeds /\ e.seq \in Nat
  BY <1>2, FieldsOfEvents
<1>4. \A s \in Seeds : journal[s] \in Seq(Events)
  BY <1>1 DEF HubTyped
<1>5. \A s \in Seeds : ToSet(journal[s]) \subseteq Events
  BY <1>4, Members
<1>6. wire \in Seq(Events \cup Resets) /\ rx \in Seq(Events)
  BY <1>1 DEF ConnectionTyped
<1>7. ToSet(wire) \subseteq Events \cup Resets /\ ToSet(rx) \subseteq Events
  BY <1>6, Members
<1> QED BY <1>1, <1>2, <1>3, <1>4, <1>5, <1>6, <1>7 DEF HubTyped, ConnectionTyped, ClientTyped

\* What is older than e does not pass it.
LEMMA OlderPassNone ==
    ASSUME NEW S, NEW q \in Seq(S), NEW n \in Nat, NEW e, e.seq \in Nat, n < e.seq,
           \A f \in ToSet(q) \ Resets : f.seq \in Nat /\ f.seq <= n
    PROVE  NonePasses(q, e)
<1> SUFFICES ASSUME NEW i \in 1 .. Len(q), q[i] \notin Resets, q[i].seq >= e.seq PROVE FALSE
  BY DEF NonePasses
<1>1. q[i] \in ToSet(q)
  BY Members
<1>2. q[i].seq \in Nat /\ q[i].seq <= n
  BY <1>1
<1> QED BY <1>2

LEMMA LoadingKeepsDue ==
    ASSUME ChannelAssumption, Typed, NumbersAreSound, DueIsKept, DueIsNotPassed,
           NEW s \in Seeds, Loads(s),
           UNCHANGED <<history, slot, connVars, phase, cursor, seen>>,
           counter' \in Nat, CounterOver(s) <= counter', numbered' \in [Seeds -> Nat],
           \A t \in Seeds : t # s => numbered'[t] = numbered[t],
           \/ numbered'[s] = numbered[s]
           \/ numbered[s] = 0 /\ numbered'[s] = counter' /\ CounterOver(s) < counter',
           attached \subseteq attached'
    PROVE  DueIsKept' /\ DueIsNotPassed'
<1>1. /\ Due' \subseteq Due /\ newest' \in Nat /\ newest <= newest'
      /\ CounterOver(s) \in Nat /\ (newest <= counter => newest' <= CounterOver(s))
      /\ journal' \in [Seeds -> Seq(Events)]
      /\ \A t \in Seeds : t # s \/ s \in loaded => journal'[t] = journal[t] /\ evicted'[t] = evicted[t]
      /\ s \notin loaded => \A e \in ToSet(journal'[s]) : e.seq <= history[s]
      /\ s \notin loaded => \A e \in Due' : ~(e.seq <= history[s])
  BY DEF Loads
<1>2. UNCHANGED <<slot, rx, after, replayed, serving, wire, phase, cursor>>
  BY DEF connVars
<1>3. newest' <= CounterOver(s) /\ attached \subseteq loaded
  BY <1>1 DEF NumbersAreSound, NumbersAreDrawn, WayIsPublished
<1>4. DueIsKept'
  <2> SUFFICES ASSUME NEW e \in Due'
               PROVE  /\ e.seed \in attached' /\ 0 < e.seq /\ e.seq <= newest'
                      /\ NumberIsItsOwn(e)' /\ Kept(e)'
    BY DEF DueIsKept
  <2>1. /\ e \in Due /\ e.seed \in attached /\ 0 < e.seq /\ e.seq <= newest /\ e.seq \in Nat
        /\ e.seed \in Seeds /\ newest \in Nat /\ NumberIsItsOwn(e) /\ Kept(e)
    BY <1>1, DueIsTyped DEF DueIsKept
  <2>2. e.seq <= newest'
    BY <1>1, <2>1
  <2>3. ASSUME NEW t \in Seeds
        PROVE  /\ numbered'[t] # e.seq /\ slot[t] # e.seq
               /\ \A f \in ToSet(journal'[t]) : f.seq = e.seq => f = e
    <3>1. numbered[t] # e.seq /\ slot[t] # e.seq /\ \A f \in ToSet(journal[t]) : f.seq = e.seq => f = e
      BY <2>1 DEF NumberIsItsOwn
    <3>2. numbered'[t] # e.seq
      <4>1. CASE numbered'[t] = numbered[t]
        BY <3>1, <4>1
      <4>2. CASE numbered'[t] = counter' /\ CounterOver(s) < counter'
        BY <1>1, <1>3, <2>1, <2>2, <4>2
      <4> QED BY <4>1, <4>2
    <3>3. CASE t # s \/ s \in loaded
      BY <1>1, <3>1, <3>2, <3>3
    <3>4. CASE t = s /\ s \notin loaded
      BY <1>1, <3>1, <3>2, <3>4
    <3> QED BY <3>3, <3>4
  <2>4. NumberIsItsOwn(e)'
    BY <1>2, <2>3 DEF NumberIsItsOwn
  <2>5. Kept(e)'
    <3>1. journal'[e.seed] = journal[e.seed] /\ evicted'[e.seed] = evicted[e.seed]
      BY <1>1, <1>3, <2>1
    <3> QED BY <2>1, <3>1 DEF Kept
  <2> QED BY <2>1, <2>2, <2>4, <2>5
<1>5. DueIsNotPassed'
  <2>1. \A e \in Due : NotPassed(e) => NotPassed(e)'
    BY <1>2 DEF NotPassed, ComesLive, AlreadySent
  <2> QED BY <1>1, <1>2, <2>1 DEF DueIsNotPassed
<1> QED BY <1>4, <1>5

\* What publishing may make due, and must keep.
PublishesDue(s, e) ==
    /\ \A d \in Due' :
          \/ d \in Due
          \/ /\ d = e /\ Follows(s) /\ ~(e.seq <= newest)
             /\ e \in ToSet(journal'[s]) /\ slot'[s] \in {0, slot[s]}
    /\ \A d \in Due' \cap Due : Kept(d) => Kept(d)'

LEMMA PublishingKeepsDue ==
    ASSUME ChannelAssumption, Typed, NumbersAreSound, DueIsKept, DueIsNotPassed,
           NEW s \in Seeds, NEW kind \in Kinds,
           numbered[s] # 0, NEW e, e = Event(s, numbered[s], kind), Fanout(e), Released(s),
           UNCHANGED <<history, counter, loaded, after, replayed, wire, clientVars>>,
           slot'[s] \in {0, slot[s], numbered[s]},
           \A t \in Seeds : t # s => journal'[t] = journal[t] /\ slot'[t] = slot[t],
           ToSet(journal'[s]) \subseteq ToSet(journal[s]) \cup {e},
           PublishesDue(s, e)
    PROVE  DueIsKept' /\ DueIsNotPassed'
<1>1. UNCHANGED <<after, replayed, wire, phase, cursor, attached>>
  BY DEF clientVars
<1>2. /\ newest \in Nat /\ cursor \in Nat /\ after \in Nat
      /\ \A t \in Seeds : numbered[t] \in Nat /\ slot[t] \in Nat /\ ToSet(journal[t]) \subseteq Events
      /\ numbered \in [Seeds -> Nat]
  BY DueIsTyped DEF Typed, HubTyped
<1>3. e \in Events /\ e.seed = s /\ e.seq = numbered[s]
  BY <1>2, EventIsTyped
<1>4. e \notin OnTheWay /\ e \notin ToSet(rx) \cup ToSet(wire)
  BY FreshIsNowhere
<1>5. /\ newest' \in Nat /\ newest' >= newest /\ newest' >= numbered[s]
      /\ numbered'[s] = 0 /\ \A t \in Seeds : t # s => numbered'[t] = numbered[t]
  <2>1. newest' = Max({newest, numbered[s]}) /\ numbered' = [numbered EXCEPT ![s] = 0]
    BY DEF Released
  <2> QED BY <1>2, <2>1, MaxOfTwo
<1>6. /\ serving' => serving /\ rx' = Append(rx, e)
  BY <1>3, FanoutEffect DEF NumbersAreSound
<1>7. JournalIsPublished /\ WayIsPublished /\ NumbersAreDrawn
  BY DEF NumbersAreSound
<1>8. ASSUME NEW d \in Due' \cap Due
      PROVE  /\ d.seed \in attached /\ 0 < d.seq /\ d.seq <= newest'
             /\ NumberIsItsOwn(d)' /\ Kept(d)'
             /\ Reset(d.seed) \notin ToSet(wire) => NotPassed(d)'
  <2>1. /\ d \in Events /\ d.seed \in attached /\ 0 < d.seq /\ d.seq <= newest /\ d.seq \in Nat
        /\ NumberIsItsOwn(d) /\ Kept(d)
    BY DueIsTyped DEF DueIsKept
  <2>2. d.seq <= newest' /\ Kept(d)'
    BY <1>2, <1>5, <2>1 DEF PublishesDue
  <2>3. ASSUME NEW t \in Seeds
        PROVE  /\ numbered'[t] # d.seq /\ slot'[t] # d.seq
               /\ \A f \in ToSet(journal'[t]) : f.seq = d.seq => f = d
    <3>1. numbered[t] # d.seq /\ slot[t] # d.seq /\ \A f \in ToSet(journal[t]) : f.seq = d.seq => f = d
      BY <2>1 DEF NumberIsItsOwn
    <3>2. CASE t # s
      BY <1>5, <3>1, <3>2
    <3>3. CASE t = s
      BY <1>3, <1>5, <2>1, <3>1, <3>3
    <3> QED BY <3>2, <3>3
  <2>4. NumberIsItsOwn(d)'
    BY <2>3 DEF NumberIsItsOwn
  <2>5. ASSUME Reset(d.seed) \notin ToSet(wire) PROVE NotPassed(d)'
    <3>1. NotPassed(d)
      BY <2>5 DEF DueIsNotPassed
    <3>2. ASSUME phase = "open", serving', d \notin ToSet(wire) PROVE ComesLive(d)'
      <4>1. serving /\ rx' = Append(rx, e)
        BY <1>6, <3>2
      <4>2. d \in ToSet(rx) /\ ~AlreadySent(d) /\ NonePasses(rx, d)
        BY <3>1, <3>2, <4>1 DEF NotPassed, ComesLive
      <4>3. ToSet(rx') = ToSet(rx) \cup {e} /\ NonePasses(rx', d)
        <5>1. rx \in Seq(Events)
          BY DueIsTyped
        <5> QED BY <1>3, <4>1, <4>2, <5>1, AppendKeeps
      <4> QED BY <1>1, <4>2, <4>3 DEF ComesLive, AlreadySent
    <3> QED BY <1>1, <3>1, <3>2 DEF NotPassed
  <2> QED BY <2>1, <2>2, <2>4, <2>5
<1>9. ASSUME e \in Due', e \notin Due
      PROVE  /\ e.seed \in attached /\ 0 < e.seq /\ e.seq <= newest'
             /\ NumberIsItsOwn(e)' /\ Kept(e)'
             /\ Reset(e.seed) \notin ToSet(wire) => NotPassed(e)'
             /\ cursor > 0 \/ phase = "open"
  <2>1. /\ Follows(s) /\ newest < e.seq /\ e.seq \in Nat
        /\ e \in ToSet(journal'[s]) /\ slot'[s] \in {0, slot[s]}
    BY <1>2, <1>3, <1>9 DEF PublishesDue
  <2>2. e.seed \in attached /\ 0 < e.seq /\ e.seq <= newest' /\ (cursor > 0 \/ phase = "open")
    BY <1>2, <1>3, <1>5, <2>1 DEF Follows
  <2>3. ASSUME NEW t \in Seeds
        PROVE  /\ numbered'[t] # e.seq /\ slot'[t] # e.seq
               /\ \A f \in ToSet(journal'[t]) : f.seq = e.seq => f = e
    <3>1. /\ slot[t] <= newest
          /\ \A f \in ToSet(journal[t]) : f.seq <= newest /\ f.seq \in Nat
      BY <1>2, <1>7, FieldsOfEvents DEF JournalIsPublished, Published
    <3>2. numbered'[t] # e.seq
      <4>1. CASE t = s
        BY <1>5, <2>2, <4>1
      <4>2. CASE t # s
        <5>1. numbered[t] # numbered[s]
          BY <1>7, <4>2 DEF NumbersAreDrawn
        <5> QED BY <1>3, <1>5, <4>2, <5>1
      <4> QED BY <4>1, <4>2
    <3>3. slot'[t] # e.seq
      <4>1. slot'[t] = slot[t] \/ slot'[t] = 0
        BY <2>1
      <4> QED BY <1>2, <2>1, <2>2, <3>1, <4>1
    <3>4. \A f \in ToSet(journal[t]) : f.seq # e.seq
      BY <1>2, <2>1, <3>1
    <3>5. \A f \in ToSet(journal'[t]) : f \in ToSet(journal[t]) \/ f = e
      <4>1. CASE t = s
        BY <4>1
      <4>2. CASE t # s
        BY <4>2
      <4> QED BY <4>1, <4>2
    <3> QED BY <3>2, <3>3, <3>4, <3>5
  <2>4. NumberIsItsOwn(e)'
    BY <2>3 DEF NumberIsItsOwn
  <2>5. Kept(e)'
    BY <1>3, <2>1 DEF Kept
  <2>6. NotPassed(e)'
    <3>1. cursor < e.seq /\ after < e.seq
      BY <1>2, <1>7, <2>1 DEF WayIsPublished
    <3>2. NonePasses(wire, e)
      <4>1. \A f \in ToSet(wire) \ Resets : f.seq \in Nat /\ f.seq <= newest
        BY <1>7, DueIsTyped, FieldsOfEvents DEF WayIsPublished, OnTheWay, Published
      <4>2. wire \in Seq(Events \cup Resets)
        BY DueIsTyped
      <4> QED BY <1>2, <2>1, <4>1, <4>2, OlderPassNone
    <3>3. ASSUME serving' PROVE ComesLive(e)'
      <4>1. rx' = Append(rx, e) /\ rx \in Seq(Events)
        BY <1>6, <3>3, DueIsTyped
      <4>2. \A f \in ToSet(rx) \ Resets : f.seq \in Nat /\ f.seq <= newest
        BY <1>7, DueIsTyped, FieldsOfEvents DEF WayIsPublished, OnTheWay, Published
      <4>3. NonePasses(rx, e)
        BY <1>2, <2>1, <4>1, <4>2, OlderPassNone
      <4>4. e \in ToSet(rx') /\ NonePasses(rx', e)
        BY <1>3, <4>1, <4>3, AppendKeeps
      <4>5. ~AlreadySent(e)
        BY <1>2, <1>4, <2>1, <3>1 DEF AlreadySent, OnTheWay
      <4> QED BY <1>1, <4>4, <4>5 DEF ComesLive, AlreadySent
    <3> QED BY <1>1, <3>1, <3>2, <3>3 DEF NotPassed
  <2> QED BY <2>2, <2>4, <2>5, <2>6
<1>10. \A d \in Due' : d \in Due' \cap Due \/ (d = e /\ e \in Due' /\ e \notin Due)
  BY DEF PublishesDue
<1>11. DueIsKept'
  BY <1>1, <1>8, <1>9, <1>10 DEF DueIsKept
<1>12. DueIsNotPassed'
  <2>1. \A d \in Due' : Reset(d.seed) \notin ToSet(wire') => NotPassed(d)'
    BY <1>1, <1>8, <1>9, <1>10
  <2>2. cursor = 0 /\ phase # "open" => Due' = {}
    <3>1. cursor = 0 /\ phase # "open" => Due = {}
      BY DEF DueIsNotPassed
    <3> QED BY <1>2, <1>9, <1>10, <3>1
  <2> QED BY <1>1, <2>1, <2>2 DEF DueIsNotPassed
<1> QED BY <1>11, <1>12

LEMMA ServeLiveKeepsDue ==
    ASSUME DInv, ServeLive
    PROVE  DueIsKept' /\ DueIsNotPassed'
<1>1. Typed /\ NumbersAreSound /\ DueIsKept /\ DueIsNotPassed
  BY DEF DInv
<1>2. PICK h : h = Head(rx)
  OBVIOUS
<1>3. /\ phase = "open" /\ serving /\ rx # <<>> /\ rx' = Tail(rx)
      /\ wire' = IF h.seed \notin attached \/ AlreadySent(h) THEN wire ELSE Append(wire, h)
      /\ UNCHANGED <<numbered, journal, evicted, slot, newest, after, replayed, serving, phase, cursor,
                     attached, owed>>
  BY <1>2 DEF ServeLive, hubVars, clientVars
<1>4. wire \in Seq(Events \cup Resets) /\ rx \in Seq(Events) /\ Due \subseteq Events
  BY <1>1, DueIsTyped
<1>5. /\ h \in Events /\ ToSet(rx) = {h} \cup ToSet(rx')
      /\ \A e : NonePasses(rx, e) /\ h # e => NonePasses(rx', e) /\ (h \notin Resets => ~(h.seq >= e.seq))
  BY <1>2, <1>3, <1>4, TailKeeps
<1>6. h \in Events \cup Resets /\ h \notin Resets
  BY <1>5, EventsAreNoResets
<1>7. /\ ToSet(Append(wire, h)) = ToSet(wire) \cup {h}
      /\ \A e : NonePasses(wire, e) /\ (e \in ToSet(wire) \cup {h} \/ ~(h.seq >= e.seq)) =>
            NonePasses(Append(wire, h), e)
  BY <1>4, <1>6, AppendKeeps
<1>8. Due' = Due
  BY <1>3 DEF Due
<1>9. ASSUME NEW e \in Due, Reset(e.seed) \notin ToSet(wire') PROVE NotPassed(e)'
  <2>1. ToSet(wire) \subseteq ToSet(wire')
    BY <1>3, <1>7
  <2>2. NotPassed(e)
    BY <1>1, <1>9, <2>1 DEF DueIsNotPassed
  <2>3. cursor < e.seq /\ NonePasses(wire, e)
    BY <2>2 DEF NotPassed
  <2>4. e \in ToSet(wire) \/ (e \in ToSet(rx) /\ ~AlreadySent(e) /\ NonePasses(rx, e))
    BY <1>3, <2>2 DEF NotPassed, ComesLive
  <2>5. NonePasses(wire', e)
    BY <1>3, <1>5, <1>6, <1>7, <2>3, <2>4
  <2>6. ASSUME e \notin ToSet(wire') PROVE ComesLive(e)'
    <3>1. e \in ToSet(rx) /\ ~AlreadySent(e) /\ NonePasses(rx, e)
      BY <2>1, <2>4, <2>6
    <3>2. e.seed \in attached
      BY <1>1 DEF DueIsKept
    <3>3. h # e
      BY <1>3, <1>7, <2>6, <3>1, <3>2
    <3>4. e \in ToSet(rx') /\ NonePasses(rx', e)
      BY <1>5, <3>1, <3>3
    <3> QED BY <1>3, <3>1, <3>4 DEF ComesLive, AlreadySent
  <2> QED BY <1>3, <2>3, <2>5, <2>6 DEF NotPassed
<1>10. DueIsKept'
  BY <1>1, <1>3, <1>8 DEF DueIsKept, NumberIsItsOwn, Kept
<1>11. DueIsNotPassed'
  BY <1>1, <1>3, <1>8, <1>9 DEF DueIsNotPassed
<1> QED BY <1>10, <1>11

LEMMA SubscribeKeepsDue ==
    ASSUME DInv, Subscribe
    PROVE  DueIsKept' /\ DueIsNotPassed'
<1>1. DueIsKept /\ DueIsNotPassed
  BY DEF DInv
<1>2. /\ phase = "connect" /\ phase' = "subscribed"
      /\ UNCHANGED <<numbered, journal, evicted, slot, newest, wire, cursor, attached, owed>>
  BY DEF Subscribe, hubVars
<1>3. Due' = Due
  BY <1>2 DEF Due
<1>4. \A e \in Due : NotPassed(e) => NotPassed(e)'
  BY <1>2 DEF NotPassed
<1>5. DueIsKept'
  BY <1>1, <1>2, <1>3 DEF DueIsKept, NumberIsItsOwn, Kept
<1>6. DueIsNotPassed'
  BY <1>1, <1>2, <1>3, <1>4 DEF DueIsNotPassed
<1> QED BY <1>5, <1>6

\* What is owed after a step that only takes events off is what was owed.
LEMMA FewerDue ==
    ASSUME owed' \subseteq owed
    PROVE  Due' \subseteq Due
BY DEF Due

LEMMA ReadEventKeepsDue ==
    ASSUME DInv, ReadEvent
    PROVE  DueIsKept' /\ DueIsNotPassed'
<1>1. Typed /\ NumbersAreSound /\ DueIsKept /\ DueIsNotPassed
  BY DEF DInv
<1>2. PICK h : h = Head(wire)
  OBVIOUS
<1>3. /\ phase = "open" /\ wire # <<>> /\ h \notin Resets /\ cursor' = h.seq
      /\ owed' = {x \in owed : x.event # h} /\ wire' = Tail(wire)
      /\ UNCHANGED <<numbered, journal, evicted, slot, newest, rx, after, replayed, serving, phase, attached>>
  BY <1>2 DEF ReadEvent, hubVars
<1>4. /\ h \in Events /\ ToSet(wire) = {h} \cup ToSet(wire')
      /\ \A e : NonePasses(wire, e) /\ h # e => NonePasses(wire', e) /\ ~(h.seq >= e.seq)
  BY <1>1, <1>2, <1>3, WireTail
<1>5. Due' \subseteq Due /\ h \notin Due'
  <2>1. owed' \subseteq owed /\ \A y \in owed' : y.event # h
    BY <1>3
  <2> QED BY <2>1, FewerDue DEF Due
<1>6. ASSUME NEW e \in Due', Reset(e.seed) \notin ToSet(wire') PROVE NotPassed(e)'
  <2>1. e \in Due /\ e # h
    BY <1>5
  <2>2. Reset(e.seed) \in Resets
    BY <1>1, <2>1, DueIsTyped DEF Resets
  <2>3. NotPassed(e)
    BY <1>1, <1>3, <1>4, <1>6, <2>1, <2>2 DEF DueIsNotPassed
  <2>4. NonePasses(wire', e) /\ ~(h.seq >= e.seq)
    BY <1>4, <2>1, <2>3 DEF NotPassed
  <2>5. cursor' < e.seq
    <3>1. h.seq \in Nat /\ e.seq \in Nat
      BY <1>1, <1>4, <2>1, DueIsTyped, FieldsOfEvents
    <3> QED BY <1>3, <2>4, <3>1
  <2>6. serving /\ e \notin ToSet(wire') => ComesLive(e)
    BY <1>3, <1>4, <2>1, <2>3 DEF NotPassed
  <2> QED BY <1>3, <2>4, <2>5, <2>6 DEF NotPassed, ComesLive, AlreadySent
<1>7. DueIsKept'
  BY <1>1, <1>3, <1>5 DEF DueIsKept, NumberIsItsOwn, Kept
<1>8. DueIsNotPassed'
  BY <1>3, <1>6 DEF DueIsNotPassed
<1> QED BY <1>7, <1>8

LEMMA ReadResetKeepsDue ==
    ASSUME DInv, ReadReset
    PROVE  DueIsKept' /\ DueIsNotPassed'
<1>1. Typed /\ NumbersAreSound /\ DueIsKept /\ DueIsNotPassed
  BY DEF DInv
<1>2. PICK h : h = Head(wire)
  OBVIOUS
<1>3. /\ phase = "open" /\ wire # <<>> /\ h \in Resets
      /\ owed' = {x \in owed : x.event.seed # h.reset} /\ wire' = Tail(wire)
      /\ UNCHANGED <<numbered, journal, evicted, slot, newest, rx, after, replayed, serving, phase, cursor,
                     attached>>
  BY <1>2 DEF ReadReset, hubVars, clientVars
<1>4. /\ ToSet(wire) = {h} \cup ToSet(wire')
      /\ \A e : NonePasses(wire, e) /\ h # e => NonePasses(wire', e)
  BY <1>1, <1>2, <1>3, WireTail
<1>5. Due' \subseteq Due /\ \A e \in Due' : e.seed # h.reset
  <2>1. owed' \subseteq owed /\ \A y \in owed' : y.event.seed # h.reset
    BY <1>3
  <2> QED BY <2>1, FewerDue DEF Due
<1>6. ASSUME NEW e \in Due', Reset(e.seed) \notin ToSet(wire') PROVE NotPassed(e)'
  <2>1. e \in Due /\ e \in Events
    BY <1>1, <1>5, DueIsTyped
  <2>2. Reset(e.seed) # h /\ e # h
    <3>1. Reset(e.seed).reset = e.seed
      BY DEF Reset
    <3> QED BY <1>3, <1>5, <2>1, <3>1, EventsAreNoResets
  <2>3. NotPassed(e)
    BY <1>1, <1>4, <1>6, <2>1, <2>2 DEF DueIsNotPassed
  <2>4. cursor < e.seq /\ NonePasses(wire', e)
    BY <1>4, <2>2, <2>3 DEF NotPassed
  <2>5. serving /\ e \notin ToSet(wire') => ComesLive(e)
    BY <1>3, <1>4, <2>2, <2>3 DEF NotPassed
  <2> QED BY <1>3, <2>4, <2>5 DEF NotPassed, ComesLive, AlreadySent
<1>7. DueIsKept'
  BY <1>1, <1>3, <1>5 DEF DueIsKept, NumberIsItsOwn, Kept
<1>8. DueIsNotPassed'
  BY <1>3, <1>6 DEF DueIsNotPassed
<1> QED BY <1>7, <1>8

\* A connection that ends while no reset is unread leaves the cursor before everything that is due.
LEMMA HangUpKeepsDue ==
    ASSUME DInv, HangUp, ToSet(wire) \cap Resets = {}
    PROVE  DueIsKept' /\ DueIsNotPassed'
<1>1. Typed /\ DueIsKept /\ DueIsNotPassed
  BY DEF DInv
<1>2. /\ wire' = <<>> /\ phase' = "connect"
      /\ owed' = (IF cursor = 0 THEN {} ELSE owed)
      /\ UNCHANGED <<numbered, journal, evicted, slot, newest, cursor, attached>>
  BY DEF HangUp, hubVars
<1>3. Due' \subseteq Due /\ (cursor = 0 => Due' = {})
  <2>1. owed' \subseteq owed /\ (cursor = 0 => owed' = {})
    BY <1>2
  <2>2. cursor = 0 => Due' = {}
    BY <2>1 DEF Due
  <2> QED BY <2>1, <2>2, FewerDue
<1>4. ASSUME NEW e \in Due' PROVE NotPassed(e)'
  <2>1. e \in Due /\ Reset(e.seed) \in Resets
    BY <1>1, <1>3, DueIsTyped DEF Resets
  <2>2. cursor < e.seq
    BY <1>1, <2>1 DEF DueIsNotPassed, NotPassed
  <2>3. NonePasses(wire', e)
    BY <1>2 DEF NonePasses
  <2> QED BY <1>2, <2>2, <2>3 DEF NotPassed
<1>5. DueIsKept'
  BY <1>1, <1>2, <1>3 DEF DueIsKept, NumberIsItsOwn, Kept
<1>6. DueIsNotPassed'
  BY <1>2, <1>3, <1>4 DEF DueIsNotPassed
<1> QED BY <1>5, <1>6

\* The replay has everything that is due, or refuses the cursor.
LEMMA ReplayKeepsDue ==
    ASSUME ChannelAssumption, DInv, Replay
    PROVE  DueIsKept' /\ DueIsNotPassed'
<1>1. Typed /\ NumbersAreSound /\ DueIsKept /\ DueIsNotPassed
  BY DEF DInv
<1>2. /\ phase = "subscribed" /\ phase' = "open" /\ replayed' = ReplayedSet
      /\ wire' \in Seq(Events \cup Resets)
      /\ ToSet(wire') = ReplayedSet \cup RefusedSet
      /\ \A e \in ReplayedSet :
            (\A f \in ReplayedSet : f.seq = e.seq => f = e) => NonePasses(wire', e)
      /\ UNCHANGED <<hubVars, rx, after, serving, cursor, attached, owed>>
  BY <1>1, ReplayEffect
<1>3. UNCHANGED <<numbered, journal, evicted, slot, newest, cursor, attached, owed>>
  BY <1>2 DEF hubVars
<1>4. Due' = Due
  BY <1>3 DEF Due
<1>5. wire = <<>> /\ after = cursor /\ attached \subseteq loaded
  BY <1>1, <1>2 DEF NumbersAreSound, ConnectionInStep, WayIsPublished
<1>6. ASSUME NEW e \in Due, Reset(e.seed) \notin ToSet(wire') PROVE NotPassed(e)'
  <2>1. /\ e \in Events /\ e.seed \in Seeds /\ e.seq \in Nat /\ cursor \in Nat /\ evicted[e.seed] \in Nat
        /\ e.seed \in attached /\ NumberIsItsOwn(e) /\ Kept(e)
    BY <1>1, DueIsTyped DEF DueIsKept
  <2>2. ToSet(wire) = {}
    BY <1>5 DEF ToSet
  <2>3. cursor < e.seq
    BY <1>1, <2>2 DEF DueIsNotPassed, NotPassed
  <2>4. after # 0
    BY <1>1, <1>2, <1>5 DEF DueIsNotPassed
  <2>5. ~Expired(e.seed)
    <3>1. Reset(e.seed) \notin RefusedSet
      BY <1>2, <1>6
    <3> QED BY <1>5, <2>1, <2>4, <3>1 DEF RefusedSet
  <2>6. e \in Reliable(e.seed)
    BY <1>5, <2>1, <2>3, <2>5 DEF Kept, Expired, Reliable
  <2>7. e \in ReplayedSet
    BY <1>5, <2>1, <2>4, <2>5, <2>6 DEF ReplayedSet
  <2>8. ASSUME NEW f \in ReplayedSet, f.seq = e.seq PROVE f = e
    <3>1. CASE f \in Slots
      <4>1. PICK s \in attached : f = Event(s, slot[s], "checkpoint")
        BY <3>1 DEF Slots
      <4>2. s \in Seeds /\ slot[s] \in Nat /\ "checkpoint" \in Kinds
        BY <1>1, DueIsTyped DEF Typed, ClientTyped, Kinds
      <4>3. f.seq = slot[s]
        BY <4>1, <4>2, EventIsTyped
      <4> QED BY <2>1, <2>8, <4>2, <4>3 DEF NumberIsItsOwn
    <3>2. CASE f \notin Slots
      <4>1. PICK s \in attached : f \in Reliable(s)
        BY <3>2 DEF ReplayedSet
      <4>2. s \in Seeds /\ f \in ToSet(journal[s])
        BY <1>1, <4>1 DEF Typed, ClientTyped, Reliable
      <4> QED BY <2>1, <2>8, <4>2 DEF NumberIsItsOwn
    <3> QED BY <3>1, <3>2
  <2>9. NonePasses(wire', e) /\ e \in ToSet(wire')
    BY <1>2, <2>7, <2>8
  <2> QED BY <1>3, <2>3, <2>9 DEF NotPassed
<1>7. DueIsKept'
  BY <1>1, <1>3, <1>4 DEF DueIsKept, NumberIsItsOwn, Kept
<1>8. DueIsNotPassed'
  BY <1>2, <1>4, <1>6 DEF DueIsNotPassed
<1> QED BY <1>7, <1>8

LEMMA PublishReliableKeepsDue ==
    ASSUME ChannelAssumption, DInv, NEW s \in Seeds, NEW kind \in {"delta", "done"},
           PublishReliable(s, kind)
    PROVE  DueIsKept' /\ DueIsNotPassed'
<1>1. Typed /\ NumbersAreSound /\ DueIsKept /\ DueIsNotPassed
  BY DEF DInv
<1>2. PICK e : e = Event(s, numbered[s], kind)
  OBVIOUS
<1>3. /\ numbered[s] # 0 /\ kind \in Kinds /\ e.seed = s
      /\ Appends(e) /\ Fanout(e) /\ Released(s) /\ OwesNow(s, e)
      /\ slot'[s] \in {0, slot[s]}
      /\ \A t \in Seeds : t # s => slot'[t] = slot[t]
      /\ UNCHANGED <<history, counter, loaded, after, replayed, wire, clientVars>>
  BY <1>1, <1>2, PublishReliableEffect
<1>4. /\ evicted' \in [Seeds -> Nat] /\ evicted'[s] >= evicted[s]
      /\ \A t \in Seeds : t # s => journal'[t] = journal[t] /\ evicted'[t] = evicted[t]
      /\ ToSet(journal'[s]) \subseteq ToSet(journal[s]) \cup {e}
      /\ e \in ToSet(journal'[s])
      /\ \A f \in ToSet(journal[s]) :
            \/ f \in ToSet(journal'[s]) \/ evicted'[s] >= f.seq
            \/ e.kind = "done" /\ f.kind = "delta"
  BY <1>3 DEF Appends
<1>5. ASSUME NEW d \in Due' \cap Due, Kept(d) PROVE Kept(d)'
  <2>1. d.seed \in Seeds /\ d.seq \in Nat /\ evicted[s] \in Nat /\ evicted'[s] \in Nat
    BY <1>1, <1>4, DueIsTyped
  <2>2. CASE d.seed # s
    BY <1>4, <1>5, <2>1, <2>2 DEF Kept
  <2>3. CASE d.seed = s /\ evicted[s] >= d.seq
    BY <1>4, <2>1, <2>3 DEF Kept
  <2>4. CASE d.seed = s /\ d \in ToSet(journal[s])
    <3>1. ~(e.kind = "done" /\ d.kind = "delta") \/ d = e
      BY <1>3, <2>4 DEF OwesNow
    <3> QED BY <1>4, <2>4, <3>1 DEF Kept
  <2> QED BY <1>5, <2>2, <2>3, <2>4 DEF Kept
<1>6. PublishesDue(s, e)
  BY <1>3, <1>4, <1>5 DEF PublishesDue, OwesNow
<1> QED BY <1>1, <1>2, <1>3, <1>4, <1>6, PublishingKeepsDue

LEMMA PublishReplaceableKeepsDue ==
    ASSUME ChannelAssumption, DInv, NEW s \in Seeds, PublishReplaceable(s)
    PROVE  DueIsKept' /\ DueIsNotPassed'
<1>1. Typed /\ NumbersAreSound /\ DueIsKept /\ DueIsNotPassed
  BY DEF DInv
<1>2. PICK e : e = Event(s, numbered[s], "checkpoint")
  OBVIOUS
<1>3. /\ numbered[s] # 0 /\ "checkpoint" \in Kinds
      /\ Fanout(e) /\ Released(s) /\ slot'[s] = numbered[s]
      /\ \A t \in Seeds : t # s => slot'[t] = slot[t]
      /\ UNCHANGED <<history, counter, loaded, journal, evicted, after, replayed, wire, clientVars, owed>>
  BY <1>1, <1>2, PublishReplaceableEffect
<1>4. PublishesDue(s, e)
  BY <1>3 DEF PublishesDue, Due, Kept
<1> QED BY <1>1, <1>2, <1>3, <1>4, PublishingKeepsDue

LEMMA DueStep ==
    ASSUME ChannelAssumption, ~BreakMidReplay, DInv, [Next]_vars
    PROVE  DInv'
<1>1. Typed /\ NumbersAreSound /\ DueIsKept /\ DueIsNotPassed
  BY DEF DInv
<1>2. Typed' /\ NumbersAreSound'
  BY <1>1, SoundStep
<1>3. ASSUME NEW s \in Seeds, DrawNumber(s) PROVE DueIsKept' /\ DueIsNotPassed'
  <2>1. /\ Loads(s) /\ UNCHANGED <<history, slot, connVars, phase, cursor, attached, seen>>
        /\ counter' \in Nat /\ CounterOver(s) < counter' /\ numbered' \in [Seeds -> Nat]
        /\ \A t \in Seeds : t # s => numbered'[t] = numbered[t]
        /\ numbered[s] = 0 /\ numbered'[s] = counter'
    BY <1>1, <1>3, DrawNumberLoads
  <2>2. CounterOver(s) <= counter'
    BY <2>1 DEF Loads
  <2> QED BY <1>1, <2>1, <2>2, LoadingKeepsDue
<1>4. ASSUME NEW s \in Seeds, Attach(s) PROVE DueIsKept' /\ DueIsNotPassed'
  <2>1. /\ Loads(s) /\ UNCHANGED <<history, slot, numbered, connVars, phase, cursor, seen>>
        /\ counter' \in Nat /\ CounterOver(s) <= counter' /\ numbered' \in [Seeds -> Nat]
        /\ attached' = attached \cup {s}
    BY <1>1, <1>4, AttachLoads
  <2> QED BY <1>1, <2>1, LoadingKeepsDue
<1>5. ASSUME UNCHANGED vars PROVE DueIsKept' /\ DueIsNotPassed'
  <2>1. UNCHANGED <<numbered, journal, evicted, slot, newest, rx, after, replayed, serving, wire, phase,
                    cursor, attached, owed>>
    BY <1>5 DEF vars, hubVars, connVars, clientVars
  <2>2. Due' = Due
    BY <2>1 DEF Due
  <2>3. \A e \in Due : NotPassed(e) => NotPassed(e)'
    BY <2>1 DEF NotPassed, ComesLive, AlreadySent
  <2>4. DueIsKept'
    BY <1>1, <2>1, <2>2 DEF DueIsKept, NumberIsItsOwn, Kept
  <2>5. DueIsNotPassed'
    BY <1>1, <2>1, <2>2, <2>3 DEF DueIsNotPassed
  <2> QED BY <2>4, <2>5
<1>6. ASSUME ConnectionBreaks PROVE DueIsKept' /\ DueIsNotPassed'
  BY <1>6, HangUpKeepsDue DEF ConnectionBreaks
<1>7. ASSUME ConnectionEnds PROVE DueIsKept' /\ DueIsNotPassed'
  <2>1. HangUp /\ wire = <<>>
    BY <1>7 DEF ConnectionEnds
  <2>2. ToSet(wire) \cap Resets = {}
    BY <2>1 DEF ToSet
  <2> QED BY <2>1, <2>2, HangUpKeepsDue
<1>8. DueIsKept' /\ DueIsNotPassed'
  BY <1>3, <1>4, <1>5, <1>6, <1>7, PublishReliableKeepsDue, PublishReplaceableKeepsDue, ReplayKeepsDue,
     ServeLiveKeepsDue, SubscribeKeepsDue, ReadEventKeepsDue, ReadResetKeepsDue
     DEF Next, HubNext, ClientNext
<1> QED BY <1>2, <1>8 DEF DInv

\* What is due is on its way to the client.
LEMMA DueReaches ==
    ASSUME DInv
    PROVE  NothingSlipsBehind
<1>1. Typed /\ NumbersAreSound /\ DueIsKept /\ DueIsNotPassed
  BY DEF DInv
<1>2. ConnectionInStep /\ phase \in Phases
  BY <1>1 DEF NumbersAreSound, Typed, ClientTyped
<1>3. ASSUME NEW e \in Due PROVE ReachesClient(e)
  <2>1. /\ e \in Events /\ e.seq \in Nat /\ cursor \in Nat /\ Kept(e)
        /\ wire \in Seq(Events \cup Resets) /\ ToSet(wire) \subseteq Events \cup Resets
    BY <1>1, DueIsTyped DEF DueIsKept
  <2>2. CASE Reset(e.seed) \in ToSet(wire) \/ e \in ToSet(wire)
    BY <2>2 DEF ReachesClient, OnItsWay
  <2>3. CASE Reset(e.seed) \notin ToSet(wire) /\ e \notin ToSet(wire)
    <3>1. NotPassed(e)
      BY <1>1, <2>3 DEF DueIsNotPassed
    <3>2. Recoverable(e)
      <4>1. ASSUME NEW f \in ToSet(wire) \ Resets PROVE e.seq > f.seq
        <5>1. PICK i \in 1 .. Len(wire) : wire[i] = f
          BY <2>1, Members
        <5>2. ~(f.seq >= e.seq)
          <6> SUFFICES ASSUME f.seq >= e.seq PROVE FALSE
            OBVIOUS
          <6>1. PICK j \in 1 .. i : wire[j] = e
            BY <3>1, <5>1 DEF NotPassed, NonePasses
          <6>2. j \in 1 .. Len(wire)
            <7>1. Len(wire) \in Nat
              BY <2>1, Members
            <7> QED BY <7>1
          <6> QED BY <2>1, <2>3, <6>1, <6>2, Members
        <5>3. f.seq \in Nat
          BY <2>1, FieldsOfEvents
        <5> QED BY <2>1, <5>2, <5>3
      <4>2. e.seq > cursor
        BY <2>1, <3>1 DEF NotPassed
      <4> QED BY <2>1, <4>1, <4>2 DEF Recoverable, CursorsAhead, Kept
    <3>3. CASE ~serving
      BY <3>2, <3>3 DEF ReachesClient
    <3>4. CASE serving /\ phase = "open"
      BY <2>3, <3>1, <3>4 DEF NotPassed, ComesLive, ReachesClient, OnItsWay
    <3>5. CASE serving /\ phase = "subscribed"
      BY <3>2, <3>5 DEF ReachesClient, OnItsWay
    <3>6. CASE serving /\ phase = "connect"
      BY <1>2, <3>6 DEF ConnectionInStep
    <3> QED BY <1>2, <3>3, <3>4, <3>5, <3>6 DEF Phases
  <2> QED BY <2>2, <2>3
<1> QED BY <1>3 DEF NothingSlipsBehind, Due

\* Where no connection breaks between the events of a replay and its resets: whatever lags, is
\* evicted, folded or cut, the client is told of every reliable event that nobody overtook, and
\* of none twice.
THEOREM EveryEventReaches == ASSUME ~BreakMidReplay PROVE Spec => []ExactlyOnce
<1>1. Init => DInv
  <2> SUFFICES ASSUME Init PROVE DInv
    OBVIOUS
  <2>1. Typed /\ NumbersAreSound
    BY ChannelAssumption, SoundInit
  <2>2. Due = {}
    BY DEF Init, Due
  <2> QED BY <2>1, <2>2 DEF DInv, DueIsKept, DueIsNotPassed
<1>2. DInv /\ [Next]_vars => DInv'
  BY ChannelAssumption, DueStep
<1>3. DInv => NothingSlipsBehind
  BY DueReaches
<1>4. Spec => []NothingSlipsBehind
  BY <1>1, <1>2, <1>3, PTL DEF Spec
<1>5. Spec => []OncePerConnection
  BY NoEventTwice
<1> QED BY <1>4, <1>5, PTL DEF ExactlyOnce
=============================================================================
