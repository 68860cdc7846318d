-------------------------- MODULE TimelineStreamProofs --------------------------
(***************************************************************************)
(* Proofs about the shell that follows a timeline (TimelineStream), for    *)
(* every length of the log, number of restarts and faults, and capacity of *)
(* the broadcast channel: what the listener was told is the log up to the  *)
(* cursor, what was broadcast is on its way, and the daemon's part is the  *)
(* log that EpochLog promises.                                             *)
(***************************************************************************)
EXTENDS TimelineStream, SequenceTheorems, FiniteSetTheorems, TLAPS

----------------------------------------------------------------------------
(* The promised log by itself.                                             *)

\* What a burst and a restart make of the log.
LEMMA ExtendedLog ==
    ASSUME LogTypeOK, NEW n \in 1 .. MaxBurst, Extend(n)
    PROVE  /\ log' \in Seq(1 .. epoch) /\ Len(log') = Len(log) + n
           /\ \A k \in 1 .. Len(log) : log'[k] = log[k]
           /\ \A k \in Len(log) + 1 .. Len(log) + n : log'[k] = epoch
<1>1. PICK old \in Seq(1 .. epoch), e \in 1 .. epoch : old = log /\ e = epoch
  BY DEF LogTypeOK
<1>2. n \in Nat
  BY BurstAssumption
<1>3. PICK new : new = [k \in 1 .. n |-> e]
  OBVIOUS
<1>4. new \in Seq(1 .. epoch) /\ Len(new) = n /\ \A k \in 1 .. n : new[k] = e
  BY <1>2, <1>3
<1>5. PICK N \in Nat : N = Len(old)
  OBVIOUS
<1>6. log' = old \o new
  BY <1>1, <1>3 DEF Extend
<1>7. /\ old \o new \in Seq(1 .. epoch)
      /\ Len(old \o new) = Len(old) + Len(new)
      /\ \A k \in 1 .. Len(old) + Len(new) :
           (old \o new)[k] = IF k <= Len(old) THEN old[k] ELSE new[k - Len(old)]
  BY <1>4, ConcatProperties
<1>8. /\ log' \in Seq(1 .. epoch) /\ Len(log') = N + n
      /\ \A k \in 1 .. N + n : log'[k] = IF k <= N THEN old[k] ELSE new[k - N]
  BY <1>4, <1>5, <1>6, <1>7
<1>9. ASSUME NEW k \in 1 .. N PROVE log'[k] = old[k]
  <2>1. k \in 1 .. N + n /\ k <= N
    BY <1>2
  <2> QED BY <1>8, <2>1
<1>10. ASSUME NEW k \in N + 1 .. N + n PROVE log'[k] = e
  <2>1. k \in 1 .. N + n /\ ~(k <= N) /\ k - N \in 1 .. n
    BY <1>2
  <2>2. log'[k] = new[k - N]
    BY <1>8, <2>1
  <2> QED BY <1>4, <2>1, <2>2
<1> QED BY <1>1, <1>5, <1>8, <1>9, <1>10

LEMMA CutLog ==
    ASSUME LogTypeOK, NEW n \in acked .. Len(log), Restart(n)
    PROVE  /\ log' \in Seq(1 .. epoch) /\ Len(log') = n
           /\ \A k \in 1 .. n : log'[k] = log[k]
<1>1. PICK old \in Seq(1 .. epoch), N \in Nat : old = log /\ N = Len(log)
  BY DEF LogTypeOK
<1>2. n \in 0 .. N
  BY <1>1 DEF LogTypeOK
<1>3. ASSUME NEW k \in 1 .. n PROVE old[k] \in 1 .. epoch
  <2>1. k \in 1 .. Len(old)
    BY <1>1, <1>2
  <2> QED BY <2>1, ElementOfSeq
<1>4. log' = SubSeq(old, 1, n)
  BY <1>1 DEF Restart
<1>5. 1 \in Int /\ n \in Int
  BY <1>2
<1>6. /\ SubSeq(old, 1, n) \in Seq(1 .. epoch)
      /\ Len(SubSeq(old, 1, n)) = IF 1 <= n THEN n - 1 + 1 ELSE 0
      /\ \A k \in 1 .. n - 1 + 1 : SubSeq(old, 1, n)[k] = old[1 + k - 1]
  BY <1>3, <1>5, SubSeqProperties
<1>7. PICK cut : cut = SubSeq(old, 1, n)
  OBVIOUS
<1>8. Len(cut) = n
  BY <1>2, <1>6, <1>7
<1>9. ASSUME NEW k \in 1 .. n PROVE cut[k] = old[k]
  <2>1. k \in 1 .. n - 1 + 1 /\ 1 + k - 1 = k
    BY <1>2
  <2> QED BY <1>6, <1>7, <2>1
<1>10. log' = cut /\ cut \in Seq(1 .. epoch)
  BY <1>4, <1>6, <1>7
<1> HIDE DEF Restart
<1>11. log' \in Seq(1 .. epoch) /\ Len(log') = n
  BY <1>8, <1>10
<1>12. ASSUME NEW k \in 1 .. n PROVE log'[k] = log[k]
  BY <1>1, <1>9, <1>10
<1> QED BY <1>11, <1>12

(* The log is well formed in every reachable state: entries carry epochs of *)
(* the past, and only entries that exist are acknowledged.                 *)
LEMMA LogTypeInit == LogInit => LogTypeOK
  BY DEF LogInit, LogTypeOK

LEMMA LogTypeStep == LogTypeOK /\ [LogNext]_logVars => LogTypeOK'
<1> SUFFICES ASSUME LogTypeOK, [LogNext]_logVars
             PROVE  LogTypeOK'
  OBVIOUS
<1> USE DEF LogTypeOK
<1>1. ASSUME NEW n \in 1 .. MaxBurst, Extend(n)
      PROVE  LogTypeOK'
  <2>1. log' \in Seq(1 .. epoch) /\ Len(log') = Len(log) + n
    BY <1>1, ExtendedLog
  <2>2. epoch' = epoch /\ acked' = acked
    BY <1>1 DEF Extend
  <2> QED BY <2>1, <2>2, BurstAssumption
<1>2. ASSUME NEW n \in acked + 1 .. Len(log), Acknowledge(n)
      PROVE  LogTypeOK'
  BY <1>2 DEF Acknowledge
<1>3. ASSUME NEW n \in acked .. Len(log), Restart(n)
      PROVE  LogTypeOK'
  <2>1. log' \in Seq(1 .. epoch) /\ Len(log') = n
    BY <1>3, CutLog
  <2>2. 1 .. epoch \subseteq 1 .. epoch'
    BY <1>3 DEF Restart
  <2>3. log' \in Seq(1 .. epoch')
    BY <2>1, <2>2, SeqMonotonic
  <2> QED BY <1>3, <2>1, <2>3 DEF Restart
<1>4. CASE UNCHANGED logVars
  BY <1>4 DEF logVars
<1> QED BY <1>1, <1>2, <1>3, <1>4 DEF LogNext

THEOREM LogTypeCorrect == LogSpec => []LogTypeOK
<1> QED BY LogTypeInit, LogTypeStep, PTL DEF LogSpec

(* What was acknowledged is never lost or replaced, over any number of     *)
(* restarts: the seals a client was told of survive every crash.           *)
THEOREM AcknowledgedSurvives == LogSpec => AcknowledgedKept
<1>1. LogTypeOK /\ [LogNext]_logVars =>
        [acked <= Len(log') /\ \A i \in 1 .. acked : log'[i] = log[i]]_logVars
  <2> SUFFICES ASSUME LogTypeOK, LogNext
               PROVE  acked <= Len(log') /\ \A i \in 1 .. acked : log'[i] = log[i]
    OBVIOUS
  <2> USE DEF LogTypeOK
  <2>1. ASSUME NEW n \in 1 .. MaxBurst, Extend(n)
        PROVE  acked <= Len(log') /\ \A i \in 1 .. acked : log'[i] = log[i]
    <3>1. Len(log') = Len(log) + n /\ \A k \in 1 .. Len(log) : log'[k] = log[k]
      BY <2>1, ExtendedLog
    <3> QED BY <3>1, BurstAssumption
  <2>2. ASSUME NEW n \in acked + 1 .. Len(log), Acknowledge(n)
        PROVE  acked <= Len(log') /\ \A i \in 1 .. acked : log'[i] = log[i]
    BY <2>2 DEF Acknowledge
  <2>3. ASSUME NEW n \in acked .. Len(log), Restart(n)
        PROVE  acked <= Len(log') /\ \A i \in 1 .. acked : log'[i] = log[i]
    <3>1. Len(log') = n /\ \A k \in 1 .. n : log'[k] = log[k]
      BY <2>3, CutLog
    <3> QED BY <3>1
  <2> QED BY <2>1, <2>2, <2>3 DEF LogNext
<1> QED BY <1>1, LogTypeCorrect, PTL DEF LogSpec, AcknowledgedKept

(* Epochs never decrease along the log, so a number is only ever reused by *)
(* a later run of the daemon and the epoch in a cursor tells the two apart. *)
THEOREM EpochsOrderedAlways == LogSpec => []EpochsOrdered
<1>1. LogInit => EpochsOrdered
  BY DEF LogInit, EpochsOrdered
<1>2. LogTypeOK /\ EpochsOrdered /\ [LogNext]_logVars => EpochsOrdered'
  <2> SUFFICES ASSUME LogTypeOK, EpochsOrdered, [LogNext]_logVars,
                      NEW i \in 1 .. Len(log'), NEW j \in 1 .. Len(log'), i <= j
               PROVE  log'[i] <= log'[j]
    BY DEF EpochsOrdered
  <2>0. /\ Len(log) \in Nat /\ epoch \in Nat /\ acked \in Nat
        /\ \A k \in 1 .. Len(log) : log[k] \in 1 .. epoch
        /\ \A k, l \in 1 .. Len(log) : k <= l => log[k] <= log[l]
    BY ElementOfSeq DEF LogTypeOK, EpochsOrdered
  <2>1. ASSUME NEW n \in 1 .. MaxBurst, Extend(n)
        PROVE  log'[i] <= log'[j]
    <3>1. Len(log') = Len(log) + n
      BY <2>1, ExtendedLog
    <3>2. \A k \in 1 .. Len(log) : log'[k] = log[k]
      BY <2>1, ExtendedLog
    <3>3. \A k \in Len(log) + 1 .. Len(log) + n : log'[k] = epoch
      BY <2>1, ExtendedLog
    <3>4. CASE j \in 1 .. Len(log)
      BY <2>0, <3>1, <3>2, <3>4
    <3>5. CASE i \in 1 .. Len(log) /\ j \in Len(log) + 1 .. Len(log) + n
      BY <2>0, <3>2, <3>3, <3>5
    <3>6. CASE i \in Len(log) + 1 .. Len(log) + n /\ j \in Len(log) + 1 .. Len(log) + n
      BY <2>0, <3>3, <3>6
    <3> QED BY <2>0, <3>1, <3>4, <3>5, <3>6, BurstAssumption
  <2>2. ASSUME NEW n \in acked + 1 .. Len(log), Acknowledge(n)
        PROVE  log'[i] <= log'[j]
    BY <2>0, <2>2 DEF Acknowledge
  <2>3. ASSUME NEW n \in acked .. Len(log), Restart(n)
        PROVE  log'[i] <= log'[j]
    <3>1. Len(log') = n /\ \A k \in 1 .. n : log'[k] = log[k]
      BY <2>3, CutLog
    <3> QED BY <2>0, <3>1
  <2>4. CASE UNCHANGED logVars
    BY <2>0, <2>4 DEF logVars
  <2> QED BY <2>1, <2>2, <2>3, <2>4 DEF LogNext
<1> QED BY <1>1, <1>2, LogTypeCorrect, PTL DEF LogSpec

----------------------------------------------------------------------------
(* The inductive invariant.                                                *)

\* s is the log up to n.
UpTo(s, n) == n <= Len(log) /\ Len(s) = n /\ \A i \in 1 .. n : s[i] = log[i]

\* The receiver holds numbers of the log, the wire what some daemon wrote; both belong to
\* a connection, and a connection to the daemon that runs.
ConnectionIsCurrent ==
    /\ \A j \in DOMAIN rx : rx[j] \in 1 .. Len(log)
    /\ \A j \in DOMAIN wire : wire[j][2] \in 1 .. epoch
    /\ phase \in {"off", "connect", "gap"} => wire = <<>> /\ rx = <<>> /\ ~serving
    /\ serving => home = epoch /\ after <= cursor
    /\ serving /\ phase = "subscribed" => after = cursor

\* A rebuild begins without a stream, and its page comes before the stream.
RebuildIsQuiet ==
    /\ app \in {"connect", "attach", "activate"} => phase = "off"
    /\ app = "announce" => phase = "connect"

\* A frame carries what the log has under its number, for a client of this daemon.
WireIsLog ==
    home = epoch =>
        \A j \in DOMAIN wire : wire[j][1] \in 1 .. Len(log) /\ wire[j][2] = log[wire[j][1]]

PageIsUpTo == home = epoch /\ app = "announce" => UpTo(page, cursor)

ViewIsUpTo == home = epoch /\ phase # "off" /\ app # "announce" => UpTo(view, cursor)

\* What a stream of this daemon has not shown yet, the journal still has.
JournalHasTheRest ==
    home = epoch /\ phase # "off" => cursor + 1 .. Len(log) \subseteq kept

\* What was replayed is shown, or still on the wire.
ReplayedIsSent ==
    serving /\ phase \in {"replayed", "open"} =>
        \A i \in replayed : i <= cursor \/ \E j \in DOMAIN wire : wire[j][1] = i

IInv ==
    /\ TypeOK
    /\ ConnectionIsCurrent
    /\ RebuildIsQuiet
    /\ WireIsLog
    /\ PageIsUpTo
    /\ ViewIsUpTo
    /\ JournalHasTheRest
    /\ ReplayedIsSent
    /\ BroadcastReachesClient

----------------------------------------------------------------------------
(* The daemon's part is the promised log.                                  *)

\* A step of the composition numbers entries, acknowledges one, restarts, or leaves the
\* log alone.
LEMMA LogSteps == TypeOK /\ [Next]_vars => [LogNext]_logVars
<1> SUFFICES ASSUME TypeOK, [Next]_vars PROVE [LogNext]_logVars
  OBVIOUS
<1>1. CASE Publish
  BY <1>1, BurstAssumption DEF Publish, LogNext
<1>2. CASE Checkpoint
  <2>1. unsent \in acked + 1 .. Len(log) /\ Acknowledge(unsent)
    BY <1>2 DEF Checkpoint, TypeOK, LogTypeOK
  <2>2. QED
    BY <2>1 DEF LogNext
<1>3. CASE \E n \in 1 .. MaxBurst : SealOrphansSilently(n)
  BY <1>3 DEF SealOrphansSilently, LogNext
<1>4. CASE \E n \in acked .. Len(log) : RestartDaemon(n)
  BY <1>4 DEF RestartDaemon, LogNext
<1>5. CASE Broadcast \/ ReadJournal \/ Respond \/ ServeLive \/ CloseUnleased
  BY <1>5 DEF Broadcast, ReadJournal, Respond, ServeLive, CloseUnleased
<1>6. CASE SessionNext
  BY <1>6 DEF SessionNext, LeaseRunsOut, Renegotiate
<1>7. CASE StreamNext
  BY <1>7 DEF StreamNext, Subscribe, TakeEntry, RefuseEntry, RecoverGap, RecoverGapFails,
              StreamEnds, StreamBreaks
<1>8. CASE AppNext
  BY <1>8 DEF AppNext, Rebuild, Connect, Attach, Activate, Announce, RestoreFails
<1>9. CASE UNCHANGED vars
  BY <1>9 DEF vars
<1>10. QED
  BY <1>1, <1>2, <1>3, <1>4, <1>5, <1>6, <1>7, <1>8, <1>9 DEF Next, DaemonNext

----------------------------------------------------------------------------
(* The daemon.                                                             *)

\* The log as a sequence that grows, or is cut and renumbered under a new epoch.
LEMMA ExtendGrows ==
    ASSUME LogTypeOK, NEW n \in 1 .. MaxBurst, Extend(n)
    PROVE  /\ Len(log') = Len(log) + n /\ Len(log) \in Nat /\ n \in Nat /\ n > 0
           /\ \A i \in 1 .. Len(log) : log'[i] = log[i]
           /\ epoch' = epoch /\ acked' = acked
<1>1. [i \in 1 .. n |-> epoch] \in Seq(1 .. epoch) /\ Len([i \in 1 .. n |-> epoch]) = n
  BY BurstAssumption DEF LogTypeOK
<1>2. QED
  BY <1>1, BurstAssumption DEF LogTypeOK, Extend

\* An entry that is numbered comes behind what everybody has.
LEMMA GrowthKeeps ==
    ASSUME IInv, LogTypeOK', NEW n \in 1 .. MaxBurst, Extend(n),
           kept' = kept \cup (Len(log) + 1 .. Len(log) + n), unsent' \in 0 .. Len(log) + n,
           UNCHANGED <<told, connVars, sessionVars, streamVars, appVars, view, faults>>
    PROVE  IInv'
<1>1. /\ Len(log') = Len(log) + n /\ Len(log) \in Nat /\ n \in Nat /\ n > 0
      /\ \A i \in 1 .. Len(log) : log'[i] = log[i]
      /\ epoch' = epoch /\ acked' = acked
  BY ExtendGrows DEF IInv, TypeOK
<1>2. /\ rx' = rx /\ after' = after /\ replayed' = replayed /\ serving' = serving /\ wire' = wire
      /\ home' = home /\ seat' = seat /\ phase' = phase /\ cursor' = cursor /\ app' = app
      /\ page' = page /\ view' = view /\ faults' = faults /\ told' = told
  BY DEF connVars, sessionVars, streamVars, appVars
<1>3. TypeOK'
  <2>1. TypeOK
    BY DEF IInv
  <2>2. 1 .. Len(log) \subseteq 1 .. Len(log') /\ Len(log) + 1 .. Len(log) + n \subseteq 1 .. Len(log')
    BY <1>1
  <2>3. kept \subseteq 1 .. Len(log) /\ told \in 0 .. Len(log)
    BY <2>1 DEF TypeOK
  <2>4. kept' \subseteq 1 .. Len(log')
    BY <2>2, <2>3
  <2>5. unsent' \in 0 .. Len(log') /\ told' \in 0 .. Len(log')
    BY <1>1, <1>2, <2>3
  <2>6. QED
    BY <1>1, <1>2, <2>1, <2>4, <2>5 DEF TypeOK
<1>4. ConnectionIsCurrent' /\ RebuildIsQuiet'
  BY <1>1, <1>2 DEF IInv, ConnectionIsCurrent, RebuildIsQuiet
<1>5. WireIsLog'
  BY <1>1, <1>2 DEF IInv, WireIsLog
<1>6. \A s, k : k \in Nat /\ UpTo(s, k) => UpTo(s, k)'
  BY <1>1 DEF UpTo
<1>7. cursor \in Nat
  BY DEF IInv, TypeOK
<1>8. PageIsUpTo' /\ ViewIsUpTo'
  BY <1>1, <1>2, <1>6, <1>7 DEF IInv, PageIsUpTo, ViewIsUpTo, UpTo
<1>9. JournalHasTheRest'
  BY <1>1, <1>2, <1>7 DEF IInv, JournalHasTheRest
<1>10. ReplayedIsSent'
  BY <1>2 DEF IInv, ReplayedIsSent
<1>11. BroadcastReachesClient'
  BY <1>2 DEF IInv, BroadcastReachesClient
<1>12. QED
  BY <1>3, <1>4, <1>5, <1>8, <1>9, <1>10, <1>11 DEF IInv

LEMMA NumberingKeeps ==
    ASSUME IInv, LogTypeOK', Publish \/ \E n \in 1 .. MaxBurst : SealOrphansSilently(n)
    PROVE  IInv'
<1>1. Len(log) \in Nat /\ unsent \in 0 .. Len(log)
  BY DEF IInv, TypeOK, LogTypeOK
<1>2. CASE Publish
  <2>1. 1 \in 1 .. MaxBurst /\ Len(log) + 1 .. Len(log) + 1 = {Len(log) + 1}
    BY <1>1, BurstAssumption
  <2>2. /\ Extend(1) /\ unsent' \in 0 .. Len(log) + 1
        /\ kept' = kept \cup (Len(log) + 1 .. Len(log) + 1)
        /\ UNCHANGED <<told, connVars, sessionVars, streamVars, appVars, view, faults>>
    BY <1>1, <1>2, <2>1 DEF Publish
  <2>3. QED
    BY <2>1, <2>2, GrowthKeeps
<1>3. ASSUME NEW n \in 1 .. MaxBurst, SealOrphansSilently(n) PROVE IInv'
  <2>1. unsent' \in 0 .. Len(log) + n
    BY <1>1, <1>3, BurstAssumption DEF SealOrphansSilently
  <2>2. QED
    BY <1>3, <2>1, GrowthKeeps DEF SealOrphansSilently
<1>4. QED
  BY <1>2, <1>3

LEMMA CheckpointKeeps ==
    ASSUME IInv, LogTypeOK', Checkpoint
    PROVE  IInv'
<1>1. /\ epoch' = epoch /\ log' = log /\ kept' = kept /\ unsent' = unsent /\ told' = told
      /\ rx' = rx /\ after' = after /\ replayed' = replayed /\ serving' = serving /\ wire' = wire
      /\ home' = home /\ seat' = seat /\ phase' = phase /\ cursor' = cursor /\ app' = app
      /\ page' = page /\ view' = view /\ faults' = faults
  BY DEF Checkpoint, Acknowledge, serverVars, connVars, sessionVars, streamVars, appVars
<1>2. QED
  BY <1>1 DEF IInv, TypeOK, ConnectionIsCurrent, RebuildIsQuiet, WireIsLog, PageIsUpTo, ViewIsUpTo,
              UpTo, JournalHasTheRest, ReplayedIsSent, BroadcastReachesClient

\* What is broadcast is in the receiver, or the connection ends.
LEMMA BroadcastKeeps ==
    ASSUME IInv, LogTypeOK', Broadcast
    PROVE  IInv'
<1>1. /\ unsent # 0 /\ unsent' = 0 /\ told' = unsent
      /\ \/ ~serving /\ UNCHANGED <<rx, serving>>
         \/ serving /\ Len(rx) < BroadcastSize /\ rx' = Append(rx, unsent) /\ UNCHANGED serving
         \/ rx' = <<>> /\ serving' = FALSE
  BY DEF Broadcast, Receiving, RoomInReceiver
<1>2. /\ epoch' = epoch /\ log' = log /\ acked' = acked /\ kept' = kept
      /\ after' = after /\ replayed' = replayed /\ wire' = wire
      /\ home' = home /\ seat' = seat /\ phase' = phase /\ cursor' = cursor /\ app' = app
      /\ page' = page /\ view' = view /\ faults' = faults
  BY DEF Broadcast, logVars, sessionVars, streamVars, appVars
<1>3. /\ rx \in Seq(Nat) /\ Len(rx) \in Nat /\ unsent \in 1 .. Len(log) /\ Len(log) \in Nat
      /\ \A j \in DOMAIN rx : rx[j] \in 1 .. Len(log)
  <2>1. rx \in Seq(Nat) /\ unsent \in 0 .. Len(log) /\ log \in Seq(1 .. epoch)
    BY DEF IInv, TypeOK, LogTypeOK
  <2>2. \A j \in DOMAIN rx : rx[j] \in 1 .. Len(log)
    BY DEF IInv, ConnectionIsCurrent
  <2>3. QED
    BY <1>1, <2>1, <2>2
<1>4. CASE ~serving /\ UNCHANGED <<rx, serving>>
  BY <1>1, <1>2, <1>3, <1>4 DEF IInv, TypeOK, ConnectionIsCurrent, RebuildIsQuiet, WireIsLog,
     PageIsUpTo, ViewIsUpTo, UpTo, JournalHasTheRest, ReplayedIsSent, BroadcastReachesClient
<1>5. CASE rx' = <<>> /\ serving' = FALSE
  <2>1. rx' \in Seq(Nat) /\ Len(rx') = 0 /\ DOMAIN rx' = {}
    BY <1>5
  <2>2. TypeOK'
    <3>1. unsent' \in 0 .. Len(log') /\ told' \in 0 .. Len(log') /\ Len(rx') <= BroadcastSize
      BY <1>1, <1>2, <1>3, <2>1, StreamAssumption
    <3>2. serving' \in BOOLEAN
      BY <1>5
    <3>3. QED
      BY <1>2, <2>1, <3>1, <3>2 DEF IInv, TypeOK
  <2>3. QED
    BY <1>1, <1>2, <1>5, <2>1, <2>2 DEF IInv, ConnectionIsCurrent, RebuildIsQuiet, WireIsLog,
       PageIsUpTo, ViewIsUpTo, UpTo, JournalHasTheRest, ReplayedIsSent, BroadcastReachesClient
<1>6. CASE serving /\ Len(rx) < BroadcastSize /\ rx' = Append(rx, unsent) /\ UNCHANGED serving
  <2>1. /\ rx' \in Seq(Nat) /\ Len(rx') = Len(rx) + 1 /\ rx'[Len(rx) + 1] = unsent
        /\ \A j \in 1 .. Len(rx) : rx'[j] = rx[j]
    BY <1>3, <1>6
  <2>2. TypeOK'
    <3>1. unsent' \in 0 .. Len(log') /\ told' \in 0 .. Len(log') /\ Len(rx') <= BroadcastSize
      BY <1>1, <1>2, <1>3, <1>6, <2>1, StreamAssumption
    <3>2. QED
      BY <1>2, <1>6, <2>1, <3>1 DEF IInv, TypeOK
  <2>3. \A j \in DOMAIN rx' : rx'[j] \in 1 .. Len(log')
    <3>1. \A j \in DOMAIN rx' : j = Len(rx) + 1 \/ (j \in 1 .. Len(rx) /\ j \in DOMAIN rx)
      BY <1>3, <2>1
    <3>2. QED
      BY <1>2, <1>3, <2>1, <3>1
  <2>4. ConnectionIsCurrent'
    BY <1>2, <1>6, <2>3 DEF IInv, ConnectionIsCurrent
  <2>5. BroadcastReachesClient'
    <3>1. Len(rx) + 1 \in DOMAIN rx' /\ rx'[Len(rx) + 1] >= told'
      BY <1>1, <1>3, <2>1
    <3>2. QED
      BY <3>1 DEF BroadcastReachesClient
  <2>6. QED
    BY <1>2, <1>6, <2>2, <2>4, <2>5 DEF IInv, RebuildIsQuiet, WireIsLog,
       PageIsUpTo, ViewIsUpTo, UpTo, JournalHasTheRest, ReplayedIsSent
<1>7. QED
  BY <1>1, <1>4, <1>5, <1>6

\* After a restart no client is at home, until it was rebuilt.
LEMMA RestartKeeps ==
    ASSUME IInv, LogTypeOK', NEW n \in acked .. Len(log), RestartDaemon(n)
    PROVE  IInv'
<1>1. /\ epoch' = epoch + 1 /\ log' = SubSeq(log, 1, n) /\ unsent' = 0 /\ kept' \subseteq 1 .. n
      /\ told' = (IF told > n THEN n ELSE told) /\ rx' = <<>> /\ serving' = FALSE
  BY DEF RestartDaemon, Restart
<1>2. /\ after' = after /\ replayed' = replayed /\ wire' = wire /\ home' = home /\ seat' = seat
      /\ phase' = phase /\ cursor' = cursor /\ app' = app /\ page' = page /\ view' = view
      /\ faults' = faults
  BY DEF RestartDaemon, sessionVars, streamVars, appVars
<1>3. epoch \in Nat /\ n \in Nat /\ Len(log') = n /\ home \in 0 .. epoch /\ told \in Nat
  <2>1. /\ epoch \in Nat /\ log \in Seq(1 .. epoch) /\ acked \in 0 .. Len(log)
        /\ home \in 0 .. epoch /\ told \in 0 .. Len(log)
    BY DEF IInv, TypeOK, LogTypeOK
  <2>2. QED
    BY <1>1, <2>1
<1>4. home' # epoch'
  BY <1>1, <1>2, <1>3
<1>5. TypeOK'
  <2>1. TypeOK
    BY DEF IInv
  <2>2. 1 .. epoch \subseteq 1 .. epoch'
    BY <1>1, <1>3
  <2>3. page' \in Seq(1 .. epoch') /\ view' \in Seq(1 .. epoch')
    <3>1. page \in Seq(1 .. epoch) /\ view \in Seq(1 .. epoch)
      BY <2>1 DEF TypeOK
    <3>2. page \in Seq(1 .. epoch')
      BY <2>2, <3>1, SeqMonotonic
    <3>3. view \in Seq(1 .. epoch')
      BY <2>2, <3>1, SeqMonotonic
    <3>4. QED
      BY <1>2, <3>2, <3>3
  <2>4. rx' \in Seq(Nat) /\ Len(rx') <= BroadcastSize
    BY <1>1, StreamAssumption
  <2>5. /\ kept' \subseteq 1 .. Len(log')
        /\ unsent' \in 0 .. Len(log') /\ told' \in 0 .. Len(log')
        /\ home' \in 0 .. epoch' /\ serving' \in BOOLEAN
    <3>1. kept' \subseteq 1 .. Len(log')
      BY <1>1, <1>3
    <3>2. unsent' \in 0 .. Len(log') /\ told' \in 0 .. Len(log') /\ home' \in 0 .. epoch'
      BY <1>1, <1>2, <1>3
    <3>3. serving' \in BOOLEAN
      BY <1>1
    <3>4. QED
      BY <3>1, <3>2, <3>3
  <2>6. QED
    BY <1>2, <2>1, <2>3, <2>4, <2>5 DEF TypeOK
<1>6. ConnectionIsCurrent' /\ RebuildIsQuiet'
  <2>1. 1 .. epoch \subseteq 1 .. epoch' /\ DOMAIN rx' = {}
    BY <1>1, <1>3
  <2>2. QED
    BY <1>1, <1>2, <2>1 DEF IInv, ConnectionIsCurrent, RebuildIsQuiet
<1>7. WireIsLog' /\ PageIsUpTo' /\ ViewIsUpTo' /\ JournalHasTheRest'
  BY <1>4 DEF WireIsLog, PageIsUpTo, ViewIsUpTo, JournalHasTheRest
<1>8. ReplayedIsSent' /\ BroadcastReachesClient'
  BY <1>1 DEF ReplayedIsSent, BroadcastReachesClient
<1>9. QED
  BY <1>5, <1>6, <1>7, <1>8 DEF IInv

\* An entry of the log is a number, the epoch that wrote it.
LEMMA EntriesAreEpochs ==
    ASSUME IInv
    PROVE  Len(log) \in Nat /\ \A i \in 1 .. Len(log) : log[i] \in Nat /\ log[i] \in 1 .. epoch
<1>1. log \in Seq(1 .. epoch) /\ epoch \in Nat
  BY DEF IInv, TypeOK, LogTypeOK
<1>2. QED
  BY <1>1

\* The journal is read behind the receiver, and whatever the client lacks is in it.
LEMMA ReadJournalKeeps ==
    ASSUME IInv, LogTypeOK', ReadJournal
    PROVE  IInv'
<1> DEFINE S == {i \in kept : i > after}
<1>1. /\ phase = "subscribed" /\ serving /\ phase' = "replayed" /\ replayed' = S
      /\ \E missed \in InOrder(S) : wire' = [i \in DOMAIN missed |-> <<missed[i], log[missed[i]]>>]
  BY DEF ReadJournal
<1>2. /\ epoch' = epoch /\ log' = log /\ acked' = acked /\ kept' = kept /\ unsent' = unsent
      /\ told' = told /\ rx' = rx /\ after' = after /\ serving' = serving
      /\ home' = home /\ seat' = seat /\ cursor' = cursor /\ app' = app
      /\ page' = page /\ view' = view /\ faults' = faults
  BY DEF ReadJournal, logVars, serverVars, sessionVars, appVars
<1>3. /\ kept \subseteq 1 .. Len(log) /\ Len(log) \in Nat /\ after \in Nat /\ told \in Nat
      /\ \A i \in 1 .. Len(log) : log[i] \in Nat
  <2>1. kept \subseteq 1 .. Len(log) /\ after \in Nat /\ told \in 0 .. Len(log)
    BY DEF IInv, TypeOK
  <2>2. QED
    BY <2>1, EntriesAreEpochs
<1>4. S \subseteq kept
  OBVIOUS
<1>5. Cardinality(S) \in Nat
  <2>1. IsFiniteSet(1 .. Len(log))
    BY <1>3, FS_Interval
  <2>2. IsFiniteSet(S)
    BY <1>3, <1>4, <2>1, FS_Subset
  <2>3. QED
    BY <2>2, FS_CardinalityType
<1>6. PICK missed \in [1 .. Cardinality(S) -> S] :
        /\ \A i \in S : \E j \in DOMAIN missed : missed[j] = i
        /\ wire' = [i \in DOMAIN missed |-> <<missed[i], log[missed[i]]>>]
  BY <1>1 DEF InOrder
<1> DEFINE n == Cardinality(S)
<1>7. n \in Nat /\ DOMAIN missed = 1 .. n /\ \A i \in 1 .. n : missed[i] \in S
  BY <1>5, <1>6
<1>8. \A i \in S : i \in kept /\ i > after
  OBVIOUS
<1>9. \A i \in kept : i > after => i \in S
  OBVIOUS
<1> HIDE DEF S, n
<1>10. DOMAIN wire' = 1 .. n /\ \A i \in 1 .. n : wire'[i] = <<missed[i], log[missed[i]]>>
  BY <1>6, <1>7
<1>11. \A i \in 1 .. n : missed[i] \in 1 .. Len(log) /\ missed[i] \in Nat /\ log[missed[i]] \in Nat
  <2>1. \A i \in 1 .. n : missed[i] \in kept
    BY <1>4, <1>7
  <2>2. \A i \in 1 .. n : missed[i] \in 1 .. Len(log)
    BY <1>3, <2>1
  <2>3. \A i \in 1 .. Len(log) : i \in Nat /\ log[i] \in Nat
    BY <1>3
  <2>4. QED
    BY <2>2, <2>3
<1>12. wire' \in Seq(Nat \X Nat)
  BY <1>6, <1>7, <1>11
<1>13. TypeOK'
  <2>1. replayed' \subseteq Nat
    BY <1>1, <1>3, <1>4
  <2>2. phase' \in Phases
    BY <1>1 DEF Phases
  <2>3. QED
    BY <1>2, <1>12, <2>1, <2>2 DEF IInv, TypeOK
<1>14. ConnectionIsCurrent' /\ RebuildIsQuiet'
  <2>1. \A j \in DOMAIN wire' : wire'[j][2] \in 1 .. epoch
    BY <1>10, <1>11, EntriesAreEpochs
  <2>2. QED
    BY <1>1, <1>2, <2>1 DEF IInv, ConnectionIsCurrent, RebuildIsQuiet
<1>15. WireIsLog'
  BY <1>2, <1>10, <1>11 DEF WireIsLog
<1>16. PageIsUpTo' /\ ViewIsUpTo' /\ JournalHasTheRest'
  BY <1>1, <1>2 DEF IInv, PageIsUpTo, ViewIsUpTo, UpTo, JournalHasTheRest
<1>17. \A i \in S : \E j \in DOMAIN wire' : wire'[j][1] = i
  BY <1>6, <1>7, <1>10
<1>18. ReplayedIsSent'
  BY <1>1, <1>17 DEF ReplayedIsSent
<1>19. BroadcastReachesClient'
  <2>1. CASE told <= cursor
    BY <1>2, <2>1 DEF BroadcastReachesClient
  <2>2. CASE told \in kept /\ ~(told <= cursor)
    <3>1. after = cursor
      BY <1>1 DEF IInv, ConnectionIsCurrent
    <3>2. told \in S
      BY <1>3, <1>9, <2>2, <3>1
    <3>3. PICK j \in DOMAIN wire' : wire'[j][1] = told
      BY <1>17, <3>2
    <3>4. told >= told
      BY <1>3
    <3>5. QED
      BY <1>2, <3>3, <3>4 DEF BroadcastReachesClient
  <2>3. CASE \E j \in DOMAIN rx : rx[j] >= told
    BY <1>2, <2>3 DEF BroadcastReachesClient
  <2>4. CASE \E j \in DOMAIN wire : wire[j][1] >= told
    <3>1. PICK j \in DOMAIN wire : wire[j][1] >= told
      BY <2>4
    <3>2. told \in kept \/ told <= cursor
      <4>1. home = epoch /\ cursor + 1 .. Len(log) \subseteq kept
        BY <1>1 DEF IInv, ConnectionIsCurrent, JournalHasTheRest
      <4>2. told \in 0 .. Len(log) /\ cursor \in Nat
        BY DEF IInv, TypeOK
      <4>3. QED
        BY <1>3, <4>1, <4>2
    <3>3. QED
      BY <2>1, <2>2, <3>2
  <2>5. QED
    BY <1>1, <2>1, <2>2, <2>3, <2>4 DEF IInv, BroadcastReachesClient
<1>20. QED
  BY <1>13, <1>14, <1>15, <1>16, <1>18, <1>19 DEF IInv

LEMMA RespondKeeps ==
    ASSUME IInv, LogTypeOK', Respond
    PROVE  IInv'
<1>1. phase = "replayed" /\ serving /\ phase' = "open"
  BY DEF Respond
<1>2. /\ epoch' = epoch /\ log' = log /\ acked' = acked /\ kept' = kept /\ unsent' = unsent
      /\ told' = told /\ rx' = rx /\ after' = after /\ serving' = serving /\ replayed' = replayed
      /\ wire' = wire /\ home' = home /\ seat' = seat /\ cursor' = cursor /\ app' = app
      /\ page' = page /\ view' = view /\ faults' = faults
  BY DEF Respond, logVars, serverVars, connVars, sessionVars, appVars
<1>3. TypeOK'
  BY <1>1, <1>2 DEF IInv, TypeOK, Phases
<1>4. ConnectionIsCurrent' /\ RebuildIsQuiet'
  BY <1>1, <1>2 DEF IInv, ConnectionIsCurrent, RebuildIsQuiet
<1>5. WireIsLog' /\ PageIsUpTo' /\ ViewIsUpTo' /\ JournalHasTheRest'
  BY <1>1, <1>2 DEF IInv, WireIsLog, PageIsUpTo, ViewIsUpTo, UpTo, JournalHasTheRest
<1>6. ReplayedIsSent' /\ BroadcastReachesClient'
  BY <1>1, <1>2 DEF IInv, ReplayedIsSent, BroadcastReachesClient
<1>7. QED
  BY <1>3, <1>4, <1>5, <1>6 DEF IInv

\* What the receiver drops was replayed, or is behind the client.
LEMMA ServeLiveKeeps ==
    ASSUME IInv, LogTypeOK', ServeLive
    PROVE  IInv'
<1> DEFINE h == Head(rx)
<1>1. /\ phase = "open" /\ serving /\ rx # <<>> /\ rx' = Tail(rx)
      /\ \/ (h <= after \/ h \in replayed) /\ wire' = wire
         \/ wire' = Append(wire, <<h, log[h]>>)
  BY DEF ServeLive, AlreadySent
<1>2. /\ epoch' = epoch /\ log' = log /\ acked' = acked /\ kept' = kept /\ unsent' = unsent
      /\ told' = told /\ after' = after /\ serving' = serving /\ replayed' = replayed
      /\ phase' = phase /\ home' = home /\ seat' = seat /\ cursor' = cursor /\ app' = app
      /\ page' = page /\ view' = view /\ faults' = faults
  BY DEF ServeLive, logVars, serverVars, streamVars, sessionVars, appVars
<1>3. /\ rx \in Seq(Nat) /\ wire \in Seq(Nat \X Nat) /\ Len(log) \in Nat /\ told \in Nat
      /\ after \in Nat /\ cursor \in Nat /\ Len(rx) <= BroadcastSize
      /\ \A i \in 1 .. Len(log) : log[i] \in Nat
  <2>1. /\ rx \in Seq(Nat) /\ wire \in Seq(Nat \X Nat)
        /\ after \in Nat /\ cursor \in Nat /\ told \in 0 .. Len(log) /\ Len(rx) <= BroadcastSize
    BY DEF IInv, TypeOK
  <2>2. QED
    BY <2>1, EntriesAreEpochs
<1>4. /\ rx' \in Seq(Nat) /\ Len(rx') = Len(rx) - 1 /\ Len(rx) \in Nat /\ Len(rx) > 0 /\ h = rx[1]
      /\ 1 \in DOMAIN rx /\ \A j \in 1 .. Len(rx') : rx'[j] = rx[j + 1] /\ j + 1 \in DOMAIN rx
  BY <1>1, <1>3
<1>5. h \in 1 .. Len(log) /\ h \in Nat /\ \A j \in DOMAIN rx : rx[j] \in 1 .. Len(log)
  <2>1. \A j \in DOMAIN rx : rx[j] \in 1 .. Len(log)
    BY DEF IInv, ConnectionIsCurrent
  <2>2. QED
    BY <1>4, <2>1
<1> HIDE DEF h
<1>6. /\ wire' \in Seq(Nat \X Nat) /\ DOMAIN wire \subseteq DOMAIN wire'
      /\ \A j \in DOMAIN wire : wire'[j] = wire[j]
      /\ \A j \in DOMAIN wire' \ DOMAIN wire : wire'[j] = <<h, log[h]>>
      /\ h <= after \/ h \in replayed \/ \E j \in DOMAIN wire' : wire'[j][1] = h
  <2>1. CASE (h <= after \/ h \in replayed) /\ wire' = wire
    BY <1>3, <2>1
  <2>2. CASE wire' = Append(wire, <<h, log[h]>>)
    <3>1. <<h, log[h]>> \in Nat \X Nat /\ <<h, log[h]>>[1] = h
      BY <1>3, <1>5
    <3>2. /\ wire' \in Seq(Nat \X Nat) /\ Len(wire') = Len(wire) + 1 /\ Len(wire) \in Nat
          /\ wire'[Len(wire) + 1] = <<h, log[h]>>
          /\ \A j \in 1 .. Len(wire) : wire'[j] = wire[j]
      BY <1>3, <2>2, <3>1
    <3>3. DOMAIN wire = 1 .. Len(wire) /\ DOMAIN wire' = 1 .. Len(wire) + 1
      BY <1>3, <3>2
    <3>4. /\ \A j \in DOMAIN wire' : j \in DOMAIN wire \/ j = Len(wire) + 1
          /\ DOMAIN wire \subseteq DOMAIN wire' /\ Len(wire) + 1 \in DOMAIN wire'
      BY <3>2, <3>3
    <3>5. wire'[Len(wire) + 1][1] = h
      BY <3>1, <3>2
    <3>6. QED
      BY <3>2, <3>3, <3>4, <3>5
  <2>3. QED
    BY <1>1, <2>1, <2>2
<1>7. TypeOK'
  <2>1. Len(rx') <= BroadcastSize
    BY <1>3, <1>4, StreamAssumption
  <2>2. QED
    BY <1>2, <1>4, <1>6, <2>1 DEF IInv, TypeOK
<1>8. ConnectionIsCurrent' /\ RebuildIsQuiet'
  <2>1. \A j \in DOMAIN rx' : rx'[j] \in 1 .. Len(log)
    <3>1. DOMAIN rx' = 1 .. Len(rx')
      BY <1>4
    <3>2. QED
      BY <1>4, <1>5, <3>1
  <2>2. ASSUME NEW j \in DOMAIN wire' PROVE wire'[j][2] \in 1 .. epoch
    <3>1. CASE j \in DOMAIN wire
      BY <1>6, <3>1 DEF IInv, ConnectionIsCurrent
    <3>2. CASE j \notin DOMAIN wire
      <4>1. wire'[j] = <<h, log[h]>>
        BY <1>6, <2>2, <3>2
      <4>2. wire'[j][2] = log[h]
        BY <4>1
      <4>3. QED
        BY <1>5, <4>2, EntriesAreEpochs
    <3>3. QED
      BY <3>1, <3>2
  <2>3. QED
    BY <1>1, <1>2, <2>1, <2>2 DEF IInv, ConnectionIsCurrent, RebuildIsQuiet
<1>9. WireIsLog'
  <2>1. <<h, log[h]>>[1] = h /\ <<h, log[h]>>[2] = log[h]
    OBVIOUS
  <2>2. ASSUME home = epoch, NEW j \in DOMAIN wire'
        PROVE  wire'[j][1] \in 1 .. Len(log) /\ wire'[j][2] = log[wire'[j][1]]
    <3>1. CASE j \in DOMAIN wire
      BY <1>6, <2>2, <3>1 DEF IInv, WireIsLog
    <3>2. CASE j \notin DOMAIN wire
      <4>1. wire'[j] = <<h, log[h]>>
        BY <1>6, <2>2, <3>2
      <4>2. QED
        BY <1>5, <2>1, <4>1
    <3>3. QED
      BY <3>1, <3>2
  <2>3. QED
    BY <1>2, <2>2 DEF WireIsLog
<1>10. PageIsUpTo' /\ ViewIsUpTo' /\ JournalHasTheRest'
  BY <1>2 DEF IInv, PageIsUpTo, ViewIsUpTo, UpTo, JournalHasTheRest
<1>11. ReplayedIsSent'
  BY <1>2, <1>6 DEF IInv, ReplayedIsSent
<1>12. BroadcastReachesClient'
  <2>1. CASE told <= cursor
    BY <1>2, <2>1 DEF BroadcastReachesClient
  <2>2. CASE \E j \in DOMAIN wire : wire[j][1] >= told
    BY <1>2, <1>6, <2>2 DEF BroadcastReachesClient
  <2>3. ASSUME NEW j \in DOMAIN rx, rx[j] >= told PROVE BroadcastReachesClient'
    <3>1. CASE j # 1
      <4>1. j - 1 \in 1 .. Len(rx') /\ (j - 1) + 1 = j
        BY <1>3, <1>4, <2>3, <3>1
      <4>2. j - 1 \in DOMAIN rx' /\ rx'[j - 1] >= told
        BY <1>4, <2>3, <4>1
      <4>3. QED
        BY <1>2, <4>2 DEF BroadcastReachesClient
    <3>2. CASE j = 1
      <4>1. h >= told
        BY <1>4, <2>3, <3>2
      <4>2. CASE h <= cursor
        <5>1. told <= cursor
          BY <1>3, <1>5, <4>1, <4>2
        <5>2. QED
          BY <1>2, <5>1 DEF BroadcastReachesClient
      <4>3. CASE \E i \in DOMAIN wire' : wire'[i][1] = h
        BY <1>2, <4>1, <4>3 DEF BroadcastReachesClient
      <4>4. h <= after => h <= cursor
        <5>1. after <= cursor
          BY <1>1 DEF IInv, ConnectionIsCurrent
        <5>2. QED
          BY <1>3, <1>5, <5>1
      <4>5. h \in replayed => h <= cursor \/ \E i \in DOMAIN wire' : wire'[i][1] = h
        BY <1>1, <1>6 DEF IInv, ReplayedIsSent
      <4>6. QED
        BY <1>6, <4>2, <4>3, <4>4, <4>5
    <3>3. QED
      BY <3>1, <3>2
  <2>4. QED
    BY <1>1, <2>1, <2>2, <2>3 DEF IInv, BroadcastReachesClient
<1>13. QED
  BY <1>7, <1>8, <1>9, <1>10, <1>11, <1>12 DEF IInv

LEMMA CloseUnleasedKeeps ==
    ASSUME IInv, LogTypeOK', CloseUnleased
    PROVE  IInv'
<1>1. serving' = FALSE /\ rx' = <<>>
  BY DEF CloseUnleased
<1>2. /\ epoch' = epoch /\ log' = log /\ acked' = acked /\ kept' = kept /\ unsent' = unsent
      /\ told' = told /\ after' = after /\ replayed' = replayed /\ wire' = wire
      /\ phase' = phase /\ home' = home /\ seat' = seat /\ cursor' = cursor /\ app' = app
      /\ page' = page /\ view' = view /\ faults' = faults
  BY DEF CloseUnleased, logVars, serverVars, streamVars, sessionVars, appVars
<1>3. TypeOK'
  <2>1. rx' \in Seq(Nat) /\ Len(rx') <= BroadcastSize /\ serving' \in BOOLEAN
    <3>1. <<>> \in Seq(Nat) /\ Len(<<>>) = 0
      OBVIOUS
    <3>2. Len(rx') <= BroadcastSize
      BY <1>1, <3>1, StreamAssumption
    <3>3. QED
      BY <1>1, <3>1, <3>2
  <2>2. QED
    BY <1>2, <2>1 DEF IInv, TypeOK
<1>4. ConnectionIsCurrent' /\ RebuildIsQuiet'
  BY <1>1, <1>2 DEF IInv, ConnectionIsCurrent, RebuildIsQuiet
<1>5. WireIsLog' /\ PageIsUpTo' /\ ViewIsUpTo' /\ JournalHasTheRest'
  BY <1>2 DEF IInv, WireIsLog, PageIsUpTo, ViewIsUpTo, UpTo, JournalHasTheRest
<1>6. ReplayedIsSent' /\ BroadcastReachesClient'
  BY <1>1 DEF ReplayedIsSent, BroadcastReachesClient
<1>7. QED
  BY <1>3, <1>4, <1>5, <1>6 DEF IInv

----------------------------------------------------------------------------
(* The session and the stream's loop.                                      *)

\* The lease has no part in what was told.
LEMMA SessionKeeps ==
    ASSUME IInv, LogTypeOK', SessionNext
    PROVE  IInv'
<1>1. seat' \in Seats /\ faults' \in 0 .. MaxFaults
  <2>1. faults \in 0 .. MaxFaults
    BY DEF IInv, TypeOK
  <2>2. QED
    BY <2>1, StreamAssumption DEF SessionNext, LeaseRunsOut, Renegotiate, Fault, Seats
<1>2. /\ epoch' = epoch /\ log' = log /\ acked' = acked /\ kept' = kept /\ unsent' = unsent
      /\ told' = told /\ rx' = rx /\ after' = after /\ serving' = serving /\ replayed' = replayed
      /\ wire' = wire /\ phase' = phase /\ home' = home /\ cursor' = cursor /\ app' = app
      /\ page' = page /\ view' = view
  BY DEF SessionNext, LeaseRunsOut, Renegotiate, logVars, serverVars, connVars, streamVars, appVars
<1>3. TypeOK'
  BY <1>1, <1>2 DEF IInv, TypeOK
<1>4. ConnectionIsCurrent' /\ RebuildIsQuiet'
  BY <1>2 DEF IInv, ConnectionIsCurrent, RebuildIsQuiet
<1>5. WireIsLog' /\ PageIsUpTo' /\ ViewIsUpTo' /\ JournalHasTheRest'
  BY <1>2 DEF IInv, WireIsLog, PageIsUpTo, ViewIsUpTo, UpTo, JournalHasTheRest
<1>6. ReplayedIsSent' /\ BroadcastReachesClient'
  BY <1>2 DEF IInv, ReplayedIsSent, BroadcastReachesClient
<1>7. QED
  BY <1>3, <1>4, <1>5, <1>6 DEF IInv

\* A new connection begins behind the cursor, with the journal still to be read.
LEMMA SubscribeKeeps ==
    ASSUME IInv, LogTypeOK', Subscribe
    PROVE  IInv'
<1>1. /\ phase = "connect" /\ home = epoch /\ app # "announce" /\ after' = cursor
      /\ rx' = <<>> /\ serving' = TRUE /\ phase' = "subscribed"
  BY DEF Subscribe, Served
<1>2. /\ epoch' = epoch /\ log' = log /\ acked' = acked /\ kept' = kept /\ unsent' = unsent
      /\ told' = told /\ replayed' = replayed /\ wire' = wire /\ home' = home /\ seat' = seat
      /\ cursor' = cursor /\ app' = app /\ page' = page /\ view' = view /\ faults' = faults
  BY DEF Subscribe, logVars, serverVars, sessionVars, appVars
<1>3. TypeOK'
  <2>1. rx' \in Seq(Nat) /\ Len(rx') <= BroadcastSize
    <3>1. <<>> \in Seq(Nat) /\ Len(<<>>) = 0
      OBVIOUS
    <3>2. QED
      BY <1>1, <3>1, StreamAssumption
  <2>2. serving' \in BOOLEAN /\ phase' \in Phases
    BY <1>1 DEF Phases
  <2>3. QED
    BY <1>1, <1>2, <2>1, <2>2 DEF IInv, TypeOK
<1>4. ConnectionIsCurrent' /\ RebuildIsQuiet'
  <2>1. cursor <= cursor
    BY DEF IInv, TypeOK
  <2>2. QED
    BY <1>1, <1>2, <2>1 DEF IInv, ConnectionIsCurrent, RebuildIsQuiet
<1>5. WireIsLog' /\ PageIsUpTo' /\ ViewIsUpTo' /\ JournalHasTheRest'
  BY <1>1, <1>2 DEF IInv, WireIsLog, PageIsUpTo, ViewIsUpTo, UpTo, JournalHasTheRest
<1>6. ReplayedIsSent'
  BY <1>1 DEF ReplayedIsSent
<1>7. BroadcastReachesClient'
  <2>1. told <= cursor \/ told \in kept
    <3>1. cursor + 1 .. Len(log) \subseteq kept
      BY <1>1 DEF IInv, JournalHasTheRest
    <3>2. told \in 0 .. Len(log) /\ cursor \in Nat
      BY DEF IInv, TypeOK
    <3>3. QED
      BY <3>1, <3>2, EntriesAreEpochs
  <2>2. QED
    BY <1>1, <1>2, <2>1 DEF BroadcastReachesClient
<1>8. QED
  BY <1>3, <1>4, <1>5, <1>6, <1>7 DEF IInv

\* The entry that is next in the log is the one that is told next.
LEMMA TakeEntryKeeps ==
    ASSUME IInv, LogTypeOK', TakeEntry
    PROVE  IInv'
<1> DEFINE f == Head(wire)
<1>1. /\ phase = "open" /\ wire # <<>> /\ f[1] = cursor + 1 /\ cursor' = f[1]
      /\ view' = Append(view, f[2]) /\ wire' = Tail(wire)
  BY DEF TakeEntry, InSequence
<1>2. /\ epoch' = epoch /\ log' = log /\ acked' = acked /\ kept' = kept /\ unsent' = unsent
      /\ told' = told /\ rx' = rx /\ after' = after /\ serving' = serving /\ replayed' = replayed
      /\ phase' = phase /\ home' = home /\ seat' = seat /\ app' = app
      /\ page' = page /\ faults' = faults
  BY DEF TakeEntry, logVars, serverVars, sessionVars, appVars
<1>3. /\ wire \in Seq(Nat \X Nat) /\ view \in Seq(1 .. epoch) /\ cursor \in Nat /\ told \in Nat
      /\ after \in Nat /\ replayed \subseteq Nat /\ epoch \in Nat
  <2>1. /\ wire \in Seq(Nat \X Nat) /\ view \in Seq(1 .. epoch) /\ cursor \in Nat
        /\ told \in 0 .. Len(log) /\ after \in Nat /\ replayed \subseteq Nat /\ epoch \in Nat
    BY DEF IInv, TypeOK, LogTypeOK
  <2>2. QED
    BY <2>1
<1>4. /\ wire' \in Seq(Nat \X Nat) /\ Len(wire') = Len(wire) - 1 /\ Len(wire) \in Nat
      /\ Len(wire) > 0 /\ f = wire[1] /\ 1 \in DOMAIN wire
      /\ DOMAIN wire' = 1 .. Len(wire') /\ DOMAIN wire = 1 .. Len(wire)
      /\ \A j \in 1 .. Len(wire') : wire'[j] = wire[j + 1] /\ j + 1 \in DOMAIN wire
  BY <1>1, <1>3
<1>5. \A j \in DOMAIN wire : j # 1 => j - 1 \in DOMAIN wire' /\ wire'[j - 1] = wire[j]
  <2>1. ASSUME NEW j \in DOMAIN wire, j # 1 PROVE j - 1 \in DOMAIN wire' /\ wire'[j - 1] = wire[j]
    <3>1. j - 1 \in 1 .. Len(wire') /\ (j - 1) + 1 = j
      BY <1>4, <2>1
    <3>2. QED
      BY <1>4, <3>1
  <2>2. QED
    BY <2>1
<1>6. wire[1] \in Nat \X Nat
  BY <1>3, <1>4
<1>7. /\ cursor' = cursor + 1 /\ cursor' \in Nat /\ wire[1][1] = cursor'
  BY <1>1, <1>3, <1>4
<1> HIDE DEF f
<1>8. app # "announce" /\ app \notin {"connect", "attach", "activate"}
  BY <1>1 DEF IInv, RebuildIsQuiet
<1>9. home = epoch => f[1] \in 1 .. Len(log) /\ f[2] = log[f[1]] /\ UpTo(view, cursor)
  <2>1. home = epoch => f[1] \in 1 .. Len(log) /\ f[2] = log[f[1]]
    BY <1>4 DEF IInv, WireIsLog
  <2>2. home = epoch => UpTo(view, cursor)
    BY <1>1, <1>8 DEF IInv, ViewIsUpTo
  <2>3. QED
    BY <2>1, <2>2
<1>10. ViewIsUpTo'
  <2>1. ASSUME home = epoch PROVE UpTo(view, cursor)'
    <3>1. /\ f[1] \in 1 .. Len(log) /\ f[2] = log[cursor + 1] /\ Len(view) = cursor
          /\ \A i \in 1 .. cursor : view[i] = log[i]
      BY <1>1, <1>9, <2>1 DEF UpTo
    <3>2. /\ Len(view') = cursor + 1 /\ view'[cursor + 1] = f[2]
          /\ \A i \in 1 .. cursor : view'[i] = view[i]
      BY <1>1, <1>3, <3>1
    <3>3. cursor + 1 <= Len(log)
      BY <1>1, <1>3, <3>1, EntriesAreEpochs
    <3>4. \A i \in 1 .. cursor + 1 : view'[i] = log[i]
      <4>1. \A i \in 1 .. cursor + 1 : i \in 1 .. cursor \/ i = cursor + 1
        BY <1>3
      <4>2. QED
        BY <3>1, <3>2, <4>1
    <3>5. QED
      BY <1>2, <1>7, <3>2, <3>3, <3>4 DEF UpTo
  <2>2. QED
    BY <1>2, <2>1 DEF ViewIsUpTo
<1>11. TypeOK'
  <2>1. view' \in Seq(1 .. epoch)
    <3>1. f[2] \in 1 .. epoch
      BY <1>4 DEF IInv, ConnectionIsCurrent
    <3>2. QED
      BY <1>1, <1>3, <3>1
  <2>2. QED
    BY <1>2, <1>4, <1>7, <2>1 DEF IInv, TypeOK
<1>12. ConnectionIsCurrent' /\ RebuildIsQuiet'
  <2>1. after <= cursor => after <= cursor'
    BY <1>3, <1>7
  <2>2. \A j \in DOMAIN wire' : wire'[j][2] \in 1 .. epoch
    BY <1>4 DEF IInv, ConnectionIsCurrent
  <2>3. QED
    BY <1>1, <1>2, <2>1, <2>2 DEF IInv, ConnectionIsCurrent, RebuildIsQuiet
<1>13. WireIsLog' /\ PageIsUpTo'
  <2>1. WireIsLog'
    BY <1>2, <1>4 DEF IInv, WireIsLog
  <2>2. PageIsUpTo'
    BY <1>2, <1>8 DEF PageIsUpTo
  <2>3. QED
    BY <2>1, <2>2
<1>14. JournalHasTheRest'
  <2>1. cursor' + 1 .. Len(log) \subseteq cursor + 1 .. Len(log)
    BY <1>3, <1>7, EntriesAreEpochs
  <2>2. QED
    BY <1>2, <2>1 DEF IInv, JournalHasTheRest
<1>15. ReplayedIsSent'
  <2>1. ASSUME serving, NEW i \in replayed
        PROVE  i <= cursor' \/ \E j \in DOMAIN wire' : wire'[j][1] = i
    <3>1. i <= cursor \/ \E j \in DOMAIN wire : wire[j][1] = i
      BY <1>1, <2>1 DEF IInv, ReplayedIsSent
    <3>2. CASE i <= cursor
      BY <1>3, <1>7, <2>1, <3>2
    <3>3. ASSUME NEW j \in DOMAIN wire, wire[j][1] = i
          PROVE  i <= cursor' \/ \E k \in DOMAIN wire' : wire'[k][1] = i
      BY <1>5, <1>7, <3>3
    <3>4. QED
      BY <3>1, <3>2, <3>3
  <2>2. QED
    BY <1>2, <2>1 DEF ReplayedIsSent
<1>16. BroadcastReachesClient'
  <2>1. CASE serving
    <3>1. CASE told <= cursor
      <4>1. told <= cursor'
        BY <1>3, <1>7, <3>1
      <4>2. QED
        BY <1>2, <4>1 DEF BroadcastReachesClient
    <3>2. ASSUME NEW j \in DOMAIN wire, wire[j][1] >= told PROVE BroadcastReachesClient'
      <4>1. CASE j = 1
        <5>1. told <= cursor'
          BY <1>3, <1>7, <3>2, <4>1
        <5>2. QED
          BY <1>2, <5>1 DEF BroadcastReachesClient
      <4>2. CASE j # 1
        <5>1. j - 1 \in DOMAIN wire' /\ wire'[j - 1][1] >= told
          BY <1>5, <3>2, <4>2
        <5>2. QED
          BY <1>2, <5>1 DEF BroadcastReachesClient
      <4>3. QED
        BY <4>1, <4>2
    <3>3. CASE \E j \in DOMAIN rx : rx[j] >= told
      BY <1>2, <3>3 DEF BroadcastReachesClient
    <3>4. QED
      BY <1>1, <2>1, <3>1, <3>2, <3>3 DEF IInv, BroadcastReachesClient
  <2>2. CASE ~serving
    BY <1>2, <2>2 DEF BroadcastReachesClient
  <2>3. QED
    BY <2>1, <2>2
<1>17. QED
  BY <1>10, <1>11, <1>12, <1>13, <1>14, <1>15, <1>16 DEF IInv

\* Hanging up forgets the connection on both ends, and nothing else.
LEMMA HangUpKeeps ==
    ASSUME IInv, LogTypeOK', HangUp, phase \notin {"off", "connect", "gap"},
           phase' \in {"connect", "gap"}, faults' \in 0 .. MaxFaults,
           UNCHANGED <<logVars, serverVars, sessionVars, cursor, appVars, view>>
    PROVE  IInv'
<1>1. rx' = <<>> /\ wire' = <<>> /\ serving' = FALSE /\ after' = 0 /\ replayed' = {}
  BY DEF HangUp
<1>2. /\ epoch' = epoch /\ log' = log /\ acked' = acked /\ kept' = kept /\ unsent' = unsent
      /\ told' = told /\ home' = home /\ seat' = seat /\ cursor' = cursor /\ app' = app
      /\ page' = page /\ view' = view
  BY DEF logVars, serverVars, sessionVars, appVars
<1>3. /\ rx' \in Seq(Nat) /\ Len(rx') = 0 /\ DOMAIN rx' = {} /\ wire' \in Seq(Nat \X Nat)
      /\ DOMAIN wire' = {}
  BY <1>1
<1>4. TypeOK'
  <2>1. Len(rx') <= BroadcastSize /\ serving' \in BOOLEAN /\ after' \in Nat /\ replayed' \subseteq Nat
    <3>1. Len(rx') <= BroadcastSize
      BY <1>3, StreamAssumption
    <3>2. serving' \in BOOLEAN /\ after' \in Nat /\ replayed' \subseteq Nat
      BY <1>1
    <3>3. QED
      BY <3>1, <3>2
  <2>2. phase' \in Phases
    BY DEF Phases
  <2>3. QED
    BY <1>2, <1>3, <2>1, <2>2 DEF IInv, TypeOK
<1>5. app # "announce" /\ app \notin {"connect", "attach", "activate"}
  BY DEF IInv, RebuildIsQuiet
<1>6. ConnectionIsCurrent' /\ RebuildIsQuiet'
  BY <1>1, <1>2, <1>3, <1>5 DEF ConnectionIsCurrent, RebuildIsQuiet
<1>7. WireIsLog' /\ PageIsUpTo' /\ ReplayedIsSent' /\ BroadcastReachesClient'
  BY <1>1, <1>2, <1>3, <1>5 DEF WireIsLog, PageIsUpTo, ReplayedIsSent, BroadcastReachesClient
<1>8. ViewIsUpTo' /\ JournalHasTheRest'
  BY <1>2, <1>5 DEF IInv, ViewIsUpTo, UpTo, JournalHasTheRest
<1>9. QED
  BY <1>4, <1>6, <1>7, <1>8 DEF IInv

LEMMA EndingKeeps ==
    ASSUME IInv, LogTypeOK', RefuseEntry \/ StreamEnds \/ StreamBreaks
    PROVE  IInv'
<1>1. faults \in 0 .. MaxFaults /\ MaxFaults \in Nat
  BY StreamAssumption DEF IInv, TypeOK
<1>2. HangUp /\ phase \notin {"off", "connect", "gap"} /\ phase' \in {"connect", "gap"}
  BY DEF RefuseEntry, StreamEnds, StreamBreaks
<1>3. UNCHANGED <<logVars, serverVars, sessionVars, cursor, appVars, view>>
  BY DEF RefuseEntry, StreamEnds, StreamBreaks
<1>4. faults' \in 0 .. MaxFaults
  BY <1>1 DEF RefuseEntry, StreamEnds, StreamBreaks, Fault
<1>5. QED
  BY <1>2, <1>3, <1>4, HangUpKeeps

\* The log is up to its own length.
LEMMA WholeLog == ASSUME LogTypeOK PROVE UpTo(log, Len(log)) /\ Len(log) \in Nat
  BY DEF LogTypeOK, UpTo

\* A recovered gap ends at the watermark of the snapshot; one that is not stays open.
LEMMA GapKeeps ==
    ASSUME IInv, LogTypeOK', RecoverGap \/ RecoverGapFails
    PROVE  IInv'
<1>1. /\ epoch' = epoch /\ log' = log /\ acked' = acked /\ kept' = kept /\ unsent' = unsent
      /\ told' = told /\ rx' = rx /\ after' = after /\ serving' = serving /\ replayed' = replayed
      /\ wire' = wire /\ home' = home /\ seat' = seat /\ app' = app /\ page' = page
  BY DEF RecoverGap, RecoverGapFails, logVars, serverVars, connVars, sessionVars, appVars
<1>2. phase = "gap" /\ phase' = "connect"
  BY DEF RecoverGap, RecoverGapFails
<1>3. /\ wire = <<>> /\ rx = <<>> /\ ~serving
      /\ app # "announce" /\ app \notin {"connect", "attach", "activate"}
  BY <1>2 DEF IInv, ConnectionIsCurrent, RebuildIsQuiet
<1>4. \/ cursor' = Len(log) /\ view' = log /\ UNCHANGED faults
      \/ cursor' = cursor /\ view' = view /\ faults' \in 0 .. MaxFaults
  <2>1. faults \in 0 .. MaxFaults /\ MaxFaults \in Nat
    BY StreamAssumption DEF IInv, TypeOK
  <2>2. QED
    BY <2>1 DEF RecoverGap, RecoverGapFails, Fault
<1>5. UpTo(log, Len(log)) /\ Len(log) \in Nat /\ log \in Seq(1 .. epoch)
  BY WholeLog DEF IInv, TypeOK, LogTypeOK
<1>6. TypeOK'
  <2>1. cursor' \in Nat /\ view' \in Seq(1 .. epoch) /\ faults' \in 0 .. MaxFaults
    <3>1. cursor \in Nat /\ view \in Seq(1 .. epoch) /\ faults \in 0 .. MaxFaults
      BY DEF IInv, TypeOK
    <3>2. QED
      BY <1>4, <1>5, <3>1
  <2>2. phase' \in Phases
    BY <1>2 DEF Phases
  <2>3. QED
    BY <1>1, <2>1, <2>2 DEF IInv, TypeOK
<1>7. ConnectionIsCurrent' /\ RebuildIsQuiet'
  BY <1>1, <1>2, <1>3 DEF IInv, ConnectionIsCurrent, RebuildIsQuiet
<1>8. WireIsLog' /\ PageIsUpTo' /\ ReplayedIsSent' /\ BroadcastReachesClient'
  BY <1>1, <1>2, <1>3 DEF IInv, WireIsLog, PageIsUpTo, ReplayedIsSent, BroadcastReachesClient
<1>9. ViewIsUpTo'
  <2>1. home = epoch => UpTo(view', cursor')
    BY <1>2, <1>3, <1>4, <1>5 DEF IInv, ViewIsUpTo
  <2>2. QED
    BY <1>1, <2>1 DEF ViewIsUpTo, UpTo
<1>10. JournalHasTheRest'
  <2>1. Len(log) + 1 .. Len(log) = {}
    BY <1>5
  <2>2. QED
    BY <1>1, <1>2, <1>4, <2>1 DEF IInv, JournalHasTheRest
<1>11. QED
  BY <1>6, <1>7, <1>8, <1>9, <1>10 DEF IInv

----------------------------------------------------------------------------
(* The shell.                                                              *)

LEMMA RebuildKeeps ==
    ASSUME IInv, LogTypeOK', Rebuild
    PROVE  IInv'
<1>1. /\ app' = "connect" /\ home' = 0 /\ seat' = "expired" /\ phase' = "off"
      /\ rx' = <<>> /\ wire' = <<>> /\ serving' = FALSE /\ after' = 0 /\ replayed' = {}
  BY DEF Rebuild, HangUp, None
<1>2. /\ epoch' = epoch /\ log' = log /\ acked' = acked /\ kept' = kept /\ unsent' = unsent
      /\ told' = told /\ cursor' = cursor /\ page' = page /\ view' = view /\ faults' = faults
  BY DEF Rebuild, logVars, serverVars
<1>3. /\ rx' \in Seq(Nat) /\ Len(rx') = 0 /\ DOMAIN rx' = {} /\ wire' \in Seq(Nat \X Nat)
      /\ DOMAIN wire' = {}
  BY <1>1
<1>4. TypeOK'
  <2>1. Len(rx') <= BroadcastSize /\ serving' \in BOOLEAN /\ after' \in Nat /\ replayed' \subseteq Nat
    <3>1. Len(rx') <= BroadcastSize
      BY <1>3, StreamAssumption
    <3>2. serving' \in BOOLEAN /\ after' \in Nat /\ replayed' \subseteq Nat
      BY <1>1
    <3>3. QED
      BY <3>1, <3>2
  <2>2. home' \in 0 .. epoch'
    BY <1>1, <1>2 DEF IInv, TypeOK, LogTypeOK
  <2>3. phase' \in Phases /\ app' \in AppSteps /\ seat' \in Seats
    BY <1>1 DEF Phases, AppSteps, Seats
  <2>4. QED
    BY <1>2, <1>3, <2>1, <2>2, <2>3 DEF IInv, TypeOK
<1>5. ConnectionIsCurrent' /\ RebuildIsQuiet'
  BY <1>1, <1>3 DEF ConnectionIsCurrent, RebuildIsQuiet
<1>6. WireIsLog' /\ PageIsUpTo' /\ ViewIsUpTo' /\ JournalHasTheRest'
  BY <1>1, <1>3 DEF WireIsLog, PageIsUpTo, ViewIsUpTo, JournalHasTheRest
<1>7. ReplayedIsSent' /\ BroadcastReachesClient'
  BY <1>1 DEF ReplayedIsSent, BroadcastReachesClient
<1>8. QED
  BY <1>4, <1>5, <1>6, <1>7 DEF IInv

\* Discovery, the attachment and a restoration that fails find no stream.
LEMMA RestoringKeeps ==
    ASSUME IInv, LogTypeOK', Connect \/ Attach \/ RestoreFails
    PROVE  IInv'
<1>1. /\ app \in {"connect", "attach", "activate"} /\ app' \in {"attach", "activate", "idle"}
      /\ home' \in {home, epoch} /\ seat' \in Seats /\ faults' \in 0 .. MaxFaults
  <2>1. faults \in 0 .. MaxFaults /\ MaxFaults \in Nat /\ seat \in Seats
    BY StreamAssumption DEF IInv, TypeOK
  <2>2. CASE Connect
    BY <2>1, <2>2 DEF Connect, Seats
  <2>3. CASE Attach
    BY <2>1, <2>3 DEF Attach, Seats
  <2>4. CASE RestoreFails
    BY <2>1, <2>4 DEF RestoreFails, Fault, sessionVars
  <2>5. QED
    BY <2>2, <2>3, <2>4
<1>2. /\ epoch' = epoch /\ log' = log /\ acked' = acked /\ kept' = kept /\ unsent' = unsent
      /\ told' = told /\ rx' = rx /\ after' = after /\ serving' = serving /\ replayed' = replayed
      /\ wire' = wire /\ phase' = phase /\ cursor' = cursor /\ page' = page /\ view' = view
  BY DEF Connect, Attach, RestoreFails, logVars, serverVars, connVars, streamVars
<1>3. phase = "off" /\ wire = <<>> /\ ~serving
  BY <1>1 DEF IInv, ConnectionIsCurrent, RebuildIsQuiet
<1>4. TypeOK'
  <2>1. home' \in 0 .. epoch'
    BY <1>1, <1>2 DEF IInv, TypeOK, LogTypeOK
  <2>2. app' \in AppSteps
    BY <1>1 DEF AppSteps
  <2>3. QED
    BY <1>1, <1>2, <2>1, <2>2 DEF IInv, TypeOK
<1>5. ConnectionIsCurrent' /\ RebuildIsQuiet'
  BY <1>1, <1>2, <1>3 DEF IInv, ConnectionIsCurrent, RebuildIsQuiet
<1>6. WireIsLog' /\ PageIsUpTo' /\ ViewIsUpTo' /\ JournalHasTheRest'
  BY <1>1, <1>2, <1>3 DEF WireIsLog, PageIsUpTo, ViewIsUpTo, JournalHasTheRest
<1>7. ReplayedIsSent' /\ BroadcastReachesClient'
  BY <1>2, <1>3 DEF ReplayedIsSent, BroadcastReachesClient
<1>8. QED
  BY <1>4, <1>5, <1>6, <1>7 DEF IInv

\* The page is the log and the stream begins behind it.
LEMMA ActivateKeeps ==
    ASSUME IInv, LogTypeOK', Activate
    PROVE  IInv'
<1>1. /\ app = "activate" /\ page' = log /\ cursor' = Len(log) /\ phase' = "connect"
      /\ app' = "announce"
  BY DEF Activate
<1>2. /\ epoch' = epoch /\ log' = log /\ acked' = acked /\ kept' = kept /\ unsent' = unsent
      /\ told' = told /\ rx' = rx /\ after' = after /\ serving' = serving /\ replayed' = replayed
      /\ wire' = wire /\ home' = home /\ seat' = seat /\ view' = view /\ faults' = faults
  BY DEF Activate, logVars, serverVars, connVars, sessionVars
<1>3. phase = "off" /\ wire = <<>> /\ rx = <<>> /\ ~serving
  BY <1>1 DEF IInv, ConnectionIsCurrent, RebuildIsQuiet
<1>4. UpTo(log, Len(log)) /\ Len(log) \in Nat /\ log \in Seq(1 .. epoch)
  BY WholeLog DEF IInv, TypeOK, LogTypeOK
<1>5. TypeOK'
  <2>1. phase' \in Phases /\ app' \in AppSteps /\ cursor' \in Nat /\ page' \in Seq(1 .. epoch)
    BY <1>1, <1>4 DEF Phases, AppSteps
  <2>2. QED
    BY <1>2, <2>1 DEF IInv, TypeOK
<1>6. ConnectionIsCurrent' /\ RebuildIsQuiet'
  BY <1>1, <1>2, <1>3 DEF IInv, ConnectionIsCurrent, RebuildIsQuiet
<1>7. WireIsLog' /\ ViewIsUpTo' /\ ReplayedIsSent' /\ BroadcastReachesClient'
  BY <1>1, <1>2, <1>3 DEF WireIsLog, ViewIsUpTo, ReplayedIsSent, BroadcastReachesClient
<1>8. PageIsUpTo'
  BY <1>1, <1>2, <1>4 DEF PageIsUpTo, UpTo
<1>9. JournalHasTheRest'
  <2>1. Len(log) + 1 .. Len(log) = {}
    BY <1>4
  <2>2. QED
    BY <1>1, <1>2, <2>1 DEF JournalHasTheRest
<1>10. QED
  BY <1>5, <1>6, <1>7, <1>8, <1>9 DEF IInv

\* What is announced is the page the stream begins behind.
LEMMA AnnounceKeeps ==
    ASSUME IInv, LogTypeOK', Announce
    PROVE  IInv'
<1>1. app = "announce" /\ view' = page /\ page' = <<>> /\ app' = "idle"
  BY DEF Announce
<1>2. /\ epoch' = epoch /\ log' = log /\ acked' = acked /\ kept' = kept /\ unsent' = unsent
      /\ told' = told /\ rx' = rx /\ after' = after /\ serving' = serving /\ replayed' = replayed
      /\ wire' = wire /\ phase' = phase /\ cursor' = cursor /\ home' = home /\ seat' = seat
      /\ faults' = faults
  BY DEF Announce, logVars, serverVars, connVars, sessionVars, streamVars
<1>3. TypeOK'
  <2>1. app' \in AppSteps /\ page' \in Seq(1 .. epoch)
    BY <1>1 DEF AppSteps
  <2>2. page \in Seq(1 .. epoch)
    BY DEF IInv, TypeOK
  <2>3. QED
    BY <1>1, <1>2, <2>1, <2>2 DEF IInv, TypeOK
<1>4. ConnectionIsCurrent' /\ RebuildIsQuiet'
  BY <1>1, <1>2 DEF IInv, ConnectionIsCurrent, RebuildIsQuiet
<1>5. WireIsLog' /\ JournalHasTheRest' /\ ReplayedIsSent' /\ BroadcastReachesClient'
  BY <1>2 DEF IInv, WireIsLog, JournalHasTheRest, ReplayedIsSent, BroadcastReachesClient
<1>6. PageIsUpTo' /\ ViewIsUpTo'
  BY <1>1, <1>2 DEF IInv, PageIsUpTo, ViewIsUpTo, UpTo
<1>7. QED
  BY <1>3, <1>4, <1>5, <1>6 DEF IInv

----------------------------------------------------------------------------
(* The theorems.                                                           *)

LEMMA InitHolds == Init => IInv
<1> SUFFICES ASSUME Init PROVE IInv
  OBVIOUS
<1>1. LogTypeOK /\ Len(log) = 0 /\ epoch \in Nat
  <2>1. LogTypeOK
    BY LogTypeInit DEF Init
  <2>2. QED
    BY <2>1 DEF Init, LogInit, LogTypeOK
<1>2. TypeOK
  <2>1. /\ rx \in Seq(Nat) /\ Len(rx) = 0 /\ wire \in Seq(Nat \X Nat)
        /\ page \in Seq(1 .. epoch) /\ view \in Seq(1 .. epoch)
    BY DEF Init
  <2>2. phase \in Phases /\ seat \in Seats /\ app \in AppSteps /\ serving \in BOOLEAN
    BY DEF Init, Phases, Seats, AppSteps
  <2>3. /\ kept \subseteq 1 .. Len(log) /\ unsent \in 0 .. Len(log) /\ told \in 0 .. Len(log)
        /\ Len(rx) <= BroadcastSize /\ after \in Nat /\ replayed \subseteq Nat
        /\ home \in 0 .. epoch /\ cursor \in Nat /\ faults \in 0 .. MaxFaults
    BY <1>1, <2>1, StreamAssumption DEF Init, None
  <2>4. QED
    BY <1>1, <2>1, <2>2, <2>3 DEF TypeOK
<1>3. phase = "off" /\ rx = <<>> /\ wire = <<>> /\ ~serving /\ app = "idle"
  BY DEF Init
<1>4. QED
  BY <1>2, <1>3 DEF IInv, ConnectionIsCurrent, RebuildIsQuiet, WireIsLog, PageIsUpTo, ViewIsUpTo,
     JournalHasTheRest, ReplayedIsSent, BroadcastReachesClient

LEMMA NextKeeps == IInv /\ [Next]_vars => IInv'
<1> SUFFICES ASSUME IInv, [Next]_vars PROVE IInv'
  OBVIOUS
<1>1. LogTypeOK'
  BY LogSteps, LogTypeStep DEF IInv, TypeOK
<1>2. CASE DaemonNext
  BY <1>1, <1>2, NumberingKeeps, CheckpointKeeps, BroadcastKeeps, RestartKeeps, ReadJournalKeeps,
     RespondKeeps, ServeLiveKeeps, CloseUnleasedKeeps DEF DaemonNext
<1>3. CASE SessionNext
  BY <1>1, <1>3, SessionKeeps
<1>4. CASE StreamNext
  BY <1>1, <1>4, SubscribeKeeps, TakeEntryKeeps, EndingKeeps, GapKeeps DEF StreamNext
<1>5. CASE AppNext
  BY <1>1, <1>5, RebuildKeeps, RestoringKeeps, ActivateKeeps, AnnounceKeeps DEF AppNext
<1>6. CASE UNCHANGED vars
  <2>1. /\ epoch' = epoch /\ log' = log /\ acked' = acked /\ kept' = kept /\ unsent' = unsent
        /\ told' = told /\ rx' = rx /\ after' = after /\ serving' = serving /\ replayed' = replayed
        /\ wire' = wire /\ phase' = phase /\ cursor' = cursor /\ home' = home /\ seat' = seat
        /\ app' = app /\ page' = page /\ view' = view /\ faults' = faults
    BY <1>6 DEF vars, logVars, serverVars, connVars, sessionVars, streamVars, appVars
  <2>2. QED
    BY <1>1, <2>1 DEF IInv, TypeOK, ConnectionIsCurrent, RebuildIsQuiet, WireIsLog, PageIsUpTo,
       ViewIsUpTo, UpTo, JournalHasTheRest, ReplayedIsSent, BroadcastReachesClient
<1>7. QED
  BY <1>2, <1>3, <1>4, <1>5, <1>6 DEF Next

\* The invariant holds of every reachable state.
THEOREM Invariance == Spec => []IInv
<1>1. QED
  BY InitHolds, NextKeeps, PTL DEF Spec

THEOREM TypeCorrect == Spec => []TypeOK
<1>1. IInv => TypeOK
  BY DEF IInv
<1>2. QED
  BY <1>1, Invariance, PTL

\* A stream of the running daemon has told the listener exactly the log up to its
\* cursor, over any number of lost streams, expired leases, gaps and restarts
\* (connect_once, dispatch and recover_gap of timeline.rs against handle_timeline_sse).
THEOREM ViewIsTheLog == Spec => []ViewIsLogPrefix
<1>1. IInv => ViewIsLogPrefix
  <2>1. SUFFICES ASSUME IInv, home = epoch, phase # "off", app # "announce"
                 PROVE  view = SubSeq(log, 1, cursor) /\ Len(view) = cursor
    BY DEF ViewIsLogPrefix
  <2>2. view \in Seq(1 .. epoch) /\ log \in Seq(1 .. epoch) /\ cursor \in Nat
    BY <2>1 DEF IInv, TypeOK, LogTypeOK
  <2>3. cursor <= Len(log) /\ Len(view) = cursor /\ \A i \in 1 .. cursor : view[i] = log[i]
    BY <2>1 DEF IInv, ViewIsUpTo, UpTo
  <2>4. DEFINE s == SubSeq(log, 1, cursor)
  <2>5. s \in Seq(1 .. epoch) /\ Len(s) = cursor /\ \A i \in 1 .. cursor : s[i] = log[i]
    <3>1. 1 \in Int /\ cursor \in Int /\ \A i \in 1 .. cursor : log[i] \in 1 .. epoch
      <4>1. Len(log) \in Nat /\ \A i \in 1 .. Len(log) : log[i] \in 1 .. epoch
        BY <2>1, EntriesAreEpochs
      <4>2. cursor \in Nat /\ cursor <= Len(log)
        BY <2>2, <2>3
      <4>3. QED
        BY <4>1, <4>2
    <3>2. /\ s \in Seq(1 .. epoch)
          /\ Len(s) = IF 1 <= cursor THEN cursor - 1 + 1 ELSE 0
          /\ \A i \in 1 .. cursor - 1 + 1 : s[i] = log[1 + i - 1]
      BY <3>1, SubSeqProperties
    <3>3. cursor - 1 + 1 = cursor /\ \A i \in 1 .. cursor : 1 + i - 1 = i
      BY <2>2
    <3>4. cursor = IF 1 <= cursor THEN cursor - 1 + 1 ELSE 0
      BY <2>2
    <3>5. QED
      BY <3>2, <3>3, <3>4
  <2>6. HIDE DEF s
  <2>7. view = s
    BY <2>2, <2>3, <2>5, SeqEqual
  <2>8. QED
    BY <2>3, <2>7 DEF s
<1>2. QED
  BY <1>1, Invariance, PTL

\* While a stream is open, what was broadcast is replayed, on the wire or in the receiver,
\* or something later is, however the journal is read between two broadcasts and whatever
\* the receiver loses.
THEOREM BroadcastIsOnItsWay == Spec => []BroadcastReachesClient
<1>1. IInv => BroadcastReachesClient
  BY DEF IInv
<1>2. QED
  BY <1>1, Invariance, PTL

\* The daemon behind the stream keeps the promise of EpochLog: every step of the
\* composition is one of the log's or leaves it alone.
THEOREM StreamKeepsTheLog == Spec => LogSpec
<1>1. Init => LogInit
  BY DEF Init
<1>2. TypeOK /\ [Next]_vars => [LogNext]_logVars
  BY LogSteps
<1>3. QED
  BY <1>1, <1>2, TypeCorrect, PTL DEF Spec, LogSpec

\* So nothing that was checkpointed is lost or renumbered under a shell.
COROLLARY StreamKeepsAcknowledged == Spec => AcknowledgedKept
  BY StreamKeepsTheLog, AcknowledgedSurvives, PTL
=============================================================================
