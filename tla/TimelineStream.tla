---------------------------- MODULE TimelineStream ----------------------------
(***************************************************************************)
(* A shell following the timeline of one seed over SSE, against a daemon   *)
(* that may restart and a lease that may run out:                          *)
(*   the daemon   crates/deepx-daemon/src/ringing_http.rs                  *)
(*                (handle_timeline_sse, RingingLeaseStore)                 *)
(*   the library  crates/deepx-client/src/timeline.rs (the stream's loop), *)
(*                client.rs (activate_timeline), session.rs (renewal)      *)
(*   the shell    apps/winui/src/bridge.rs (stall detection and rebuild)   *)
(*                                                                         *)
(* The daemon's timeline is the log of EpochLog.  What the shell's         *)
(* listener has been told is `view`: the entries, each as the epoch that   *)
(* wrote it, that the last snapshot and the entries after it add up to.    *)
(*                                                                         *)
(* A daemon draws its port, its token and its epoch when it starts, so one *)
(* client object can only ever talk to the daemon it was made for: what    *)
(* connect_once does when the epoch changed under it is never reached.     *)
(***************************************************************************)
EXTENDS EpochLog, FiniteSets

LOCAL INSTANCE SequencesExt

CONSTANTS
    MaxLog,          \* bound: entries numbered
    MaxEpochs,       \* bound: daemon starts
    MaxFaults,       \* bound: faults without a restart
    FaultKinds,      \* what may fail: a lease, an open stream, gap recovery, restoring the seed
    BroadcastSize    \* capacity of the broadcast channel (1024 in the code)

ASSUME StreamAssumption ==
    /\ MaxLog \in Nat /\ MaxEpochs \in Nat /\ MaxFaults \in Nat
    /\ FaultKinds \subseteq {"lease", "stream", "recover", "restore"}
    /\ BroadcastSize \in Nat \ {0}

VARIABLES
    kept,       \* numbers the journal in memory still has (a restart loses those of sealed turns)
    unsent,     \* number appended to the log and not yet broadcast, 0 when there is none
    rx,         \* broadcast receiver of the connection
    after,      \* Last-Event-ID the connection was opened with
    replayed,   \* numbers the connection replayed before going live
    serving,    \* the daemon's end of the connection is open
    wire,       \* frames sent and not yet read: <<number, epoch that wrote it>>
    home,       \* epoch of the daemon the client was made for, 0 when there is no client
    seat,       \* what its session is there: expired, open, or open with the seed attached
    phase,      \* where the stream's loop stands
    cursor,     \* TimelineStream.cursor
    app,        \* where the shell's rebuild stands
    page,       \* the snapshot activate_timeline is about to announce
    view,       \* what the listener has been told
    told,       \* number of the last entry that was broadcast, for the properties
    faults      \* faults so far

serverVars == <<kept, unsent, told>>
connVars == <<rx, after, replayed, serving, wire>>
streamVars == <<phase, cursor>>
sessionVars == <<home, seat>>
appVars == <<app, page>>
vars == <<logVars, serverVars, connVars, sessionVars, streamVars, appVars, view, faults>>

None == 0

Phases == {"off", "connect", "subscribed", "replayed", "open", "gap"}
Seats == {"expired", "open", "attached"}
AppSteps == {"idle", "connect", "attach", "activate", "announce"}

\* A seed-scoped request of the client is served (owns_seed).
Served == home = epoch /\ seat = "attached"

Fault(kind) ==
    /\ kind \in FaultKinds
    /\ faults < MaxFaults
    /\ faults' = faults + 1

----------------------------------------------------------------------------
(* The daemon.                                                             *)

\* publish_timeline: number and journal, checkpoint a terminal entry, then
\* broadcast.  One thread per worker does all three.
Publish ==
    /\ unsent = 0
    /\ Len(log) < MaxLog
    /\ Extend(1)
    /\ unsent' = Len(log) + 1
    /\ kept' = kept \cup {Len(log) + 1}
    /\ UNCHANGED <<told, connVars, sessionVars, streamVars, appVars, view, faults>>

Checkpoint ==
    /\ unsent > acked
    /\ Acknowledge(unsent)
    /\ UNCHANGED <<serverVars, connVars, sessionVars, streamVars, appVars, view, faults>>

RoomInReceiver == Len(rx) < BroadcastSize

\* Mutant: the receiver is made after the journal was read.
ReceivingOnceOpen == serving /\ phase = "open"

\* The connection has its broadcast receiver.
Receiving == serving

\* A receiver that is full loses its oldest entry, is told so, and the stream
\* ends: the client has to come back and replay.
Broadcast ==
    /\ unsent # 0
    /\ unsent' = 0 /\ told' = unsent
    /\ IF ~Receiving THEN UNCHANGED <<rx, serving>>
       ELSE IF RoomInReceiver THEN rx' = Append(rx, unsent) /\ UNCHANGED serving
       ELSE rx' = <<>> /\ serving' = FALSE
    /\ UNCHANGED <<logVars, kept, after, replayed, wire, sessionVars, streamVars, appVars, view,
                   faults>>

\* seal_orphan_running_turns appends and journals, and broadcasts nothing.
\* Attaching a seed may spawn its worker and so runs it before anyone reads;
\* respawning a dead worker runs it under whoever is connected.
SealOrphansSilently(n) ==
    /\ unsent = 0
    /\ Len(log) + n <= MaxLog
    /\ Extend(n)
    /\ kept' = kept \cup (Len(log) + 1 .. Len(log) + n)
    /\ UNCHANGED <<unsent, told, connVars, sessionVars, streamVars, appVars, view, faults>>

RestartDaemon(n) ==
    /\ epoch < MaxEpochs
    /\ Restart(n)
    /\ kept' \in SUBSET (1 .. n)
    /\ unsent' = 0 /\ told' = IF told > n THEN n ELSE told
    /\ rx' = <<>> /\ serving' = FALSE
    /\ UNCHANGED <<after, replayed, wire, sessionVars, streamVars, appVars, view, faults>>

\* The numbers of S as the journal has them, the lower ones first.
InOrder(S) ==
    {s \in [1 .. Cardinality(S) -> S] :
        /\ \A i \in S : \E j \in DOMAIN s : s[j] = i
        /\ \A i, j \in DOMAIN s : i < j => s[i] < s[j]}

\* handle_timeline_sse has its receiver and now reads the journal.
ReadJournal ==
    /\ phase = "subscribed" /\ serving
    /\ replayed' = {i \in kept : i > after}
    /\ \E missed \in InOrder({i \in kept : i > after}) :
          wire' = [i \in DOMAIN missed |-> <<missed[i], log[missed[i]]>>]
    /\ phase' = "replayed"
    /\ UNCHANGED <<logVars, serverVars, rx, after, serving, sessionVars, cursor, appVars, view,
                   faults>>

\* The head of the response and the replayed entries go out.
Respond ==
    /\ phase = "replayed" /\ serving
    /\ phase' = "open"
    /\ UNCHANGED <<logVars, serverVars, connVars, sessionVars, cursor, appVars, view, faults>>

\* Mutant: what was replayed is sent again when it comes live.
OldOnly(i) == i <= after

AlreadySent(i) == i <= after \/ i \in replayed

ServeLive ==
    /\ phase = "open" /\ serving /\ rx # <<>>
    /\ rx' = Tail(rx)
    /\ wire' = IF AlreadySent(Head(rx)) THEN wire
               ELSE Append(wire, <<Head(rx), log[Head(rx)]>>)
    /\ UNCHANGED <<logVars, serverVars, after, replayed, serving, sessionVars, streamVars, appVars,
                   view, faults>>

\* The keepalive tick closes a connection whose session is gone.
CloseUnleased ==
    /\ serving /\ ~Served
    /\ serving' = FALSE /\ rx' = <<>>
    /\ UNCHANGED <<logVars, serverVars, after, replayed, wire, sessionVars, streamVars, appVars,
                   view, faults>>

----------------------------------------------------------------------------
(* The session: run_renewal and the daemon's lease store.                  *)

\* The client does not renew in time (a suspended machine, failed requests):
\* the daemon drops the lease and what was attached under it.  (Bound: in the
\* middle of a rebuild only where restoring the seed may fail anyway.)
LeaseRunsOut ==
    /\ home = epoch /\ seat # "expired"
    /\ app = "idle" \/ "restore" \in FaultKinds
    /\ Fault("lease")
    /\ seat' = "expired"
    /\ UNCHANGED <<logVars, serverVars, connVars, home, streamVars, appVars, view>>

\* Two renewals have failed: open a new session.  Nothing is attached to it.
Renegotiate ==
    /\ home = epoch /\ seat = "expired"
    /\ seat' = "open"
    /\ UNCHANGED <<logVars, serverVars, connVars, home, streamVars, appVars, view, faults>>

----------------------------------------------------------------------------
(* The stream's loop.                                                      *)

\* Both ends forget the connection.
HangUp ==
    /\ rx' = <<>> /\ wire' = <<>> /\ serving' = FALSE
    /\ after' = 0 /\ replayed' = {}

\* connect_once, up to the response.  A request that is refused or lost is
\* tried again and changes nothing.  (Assumption: activate_timeline has announced
\* its page before the task it spawned has a connection.)
Subscribe ==
    /\ phase = "connect" /\ Served
    /\ app # "announce"
    /\ after' = cursor
    /\ rx' = <<>> /\ serving' = TRUE
    /\ phase' = "subscribed"
    /\ UNCHANGED <<logVars, serverVars, replayed, wire, sessionVars, cursor, appVars, view, faults>>

\* Mutant: entries may be skipped.
Newer(frame) == frame[1] > cursor

InSequence(frame) == frame[1] = cursor + 1

\* dispatch, one action per way it ends.
TakeEntry ==
    /\ phase = "open" /\ wire # <<>>
    /\ InSequence(Head(wire))
    /\ cursor' = Head(wire)[1]
    /\ view' = Append(view, Head(wire)[2])
    /\ wire' = Tail(wire)
    /\ UNCHANGED <<logVars, serverVars, rx, after, replayed, serving, sessionVars, phase, appVars,
                   faults>>

RefuseEntry ==
    /\ phase = "open" /\ wire # <<>>
    /\ ~InSequence(Head(wire))
    /\ HangUp
    /\ phase' = IF Head(wire)[1] <= cursor THEN "connect" ELSE "gap"
    /\ UNCHANGED <<logVars, serverVars, sessionVars, cursor, appVars, view, faults>>

\* The snapshot the daemon sends becomes the view, its watermark the cursor.
RecoverGap ==
    /\ phase = "gap" /\ Served
    /\ cursor' = Len(log)
    /\ view' = log
    /\ phase' = "connect"
    /\ UNCHANGED <<logVars, serverVars, connVars, sessionVars, appVars, faults>>

RecoverGapFails ==
    /\ phase = "gap"
    /\ IF Served THEN Fault("recover") ELSE UNCHANGED faults
    /\ phase' = "connect"
    /\ UNCHANGED <<logVars, serverVars, connVars, sessionVars, cursor, appVars, view>>

\* The daemon closed its end, or it is gone: the client reads to the end.
StreamEnds ==
    /\ \/ phase \in {"subscribed", "replayed"}
       \/ phase = "open" /\ wire = <<>>
    /\ ~serving
    /\ HangUp
    /\ phase' = "connect"
    /\ UNCHANGED <<logVars, serverVars, sessionVars, cursor, appVars, view, faults>>

\* The transport fails under an open stream; what was in flight is lost.
StreamBreaks ==
    /\ phase \in {"subscribed", "replayed", "open"}
    /\ Fault("stream")
    /\ HangUp
    /\ phase' = "connect"
    /\ UNCHANGED <<logVars, serverVars, sessionVars, cursor, appVars, view>>

----------------------------------------------------------------------------
(* The shell: check_daemon_health, rebuild_client, restore_seed.           *)

\* Mutant: only a daemon out of reach counts as a stall.
Unreachable == home # epoch

\* The stream has not been open for so long that no request of it can succeed,
\* or no channel of the client is open.  A timeline that has no stream is not
\* missed.
Stalled ==
    \/ home # epoch
    \/ phase \in {"connect", "gap"} /\ ~Served

\* Close the client with its stream.
Rebuild ==
    /\ app = "idle" /\ Stalled
    /\ app' = "connect"
    /\ home' = None /\ seat' = "expired"
    /\ phase' = "off"
    /\ HangUp
    /\ UNCHANGED <<logVars, serverVars, cursor, page, view, faults>>

\* connect_client: discovery leads to the daemon that runs now.
Connect ==
    /\ app = "connect"
    /\ home' = epoch /\ seat' = "open"
    /\ app' = "attach"
    /\ UNCHANGED <<logVars, serverVars, connVars, streamVars, page, view, faults>>

Attach ==
    /\ app = "attach" /\ home = epoch /\ seat # "expired"
    /\ seat' = "attached"
    /\ app' = "activate"
    /\ UNCHANGED <<logVars, serverVars, connVars, home, streamVars, page, view, faults>>

\* activate_timeline fetches the page, starts the stream at its watermark...
Activate ==
    /\ app = "activate" /\ Served
    /\ page' = log
    /\ cursor' = Len(log)
    /\ phase' = "connect"
    /\ app' = "announce"
    /\ UNCHANGED <<logVars, serverVars, connVars, sessionVars, view, faults>>

\* ... and then announces the page to the listener.
Announce ==
    /\ app = "announce"
    /\ view' = page
    /\ page' = <<>>
    /\ app' = "idle"
    /\ UNCHANGED <<logVars, serverVars, connVars, sessionVars, streamVars, faults>>

\* The daemon is gone, the lease is, or the seed is not attached under it.
RestoreRefused ==
    \/ home # epoch
    \/ seat = "expired"
    \/ app = "activate" /\ seat = "open"

\* restore_seed logs the error and returns.
RestoreFails ==
    /\ app \in {"attach", "activate"}
    /\ IF RestoreRefused THEN UNCHANGED faults ELSE Fault("restore")
    /\ app' = "idle"
    /\ UNCHANGED <<logVars, serverVars, connVars, sessionVars, streamVars, page, view>>

----------------------------------------------------------------------------
Init ==
    /\ LogInit
    /\ kept = {} /\ unsent = 0 /\ told = 0
    /\ rx = <<>> /\ wire = <<>> /\ serving = FALSE /\ after = 0 /\ replayed = {}
    /\ home = None /\ seat = "expired"
    /\ phase = "off" /\ cursor = 0
    /\ app = "idle" /\ page = <<>>
    /\ view = <<>> /\ faults = 0

DaemonNext ==
    \/ Publish \/ Checkpoint \/ Broadcast
    \/ \E n \in 1 .. MaxBurst : SealOrphansSilently(n)
    \/ \E n \in acked .. Len(log) : RestartDaemon(n)
    \/ ReadJournal \/ Respond \/ ServeLive \/ CloseUnleased

SessionNext == LeaseRunsOut \/ Renegotiate

StreamNext ==
    \/ Subscribe \/ TakeEntry \/ RefuseEntry
    \/ RecoverGap \/ RecoverGapFails
    \/ StreamEnds \/ StreamBreaks

AppNext == Rebuild \/ Connect \/ Attach \/ Activate \/ Announce \/ RestoreFails

Next == DaemonNext \/ SessionNext \/ StreamNext \/ AppNext

Spec == Init /\ [][Next]_vars

\* The daemon's tasks, the renewal and stream loops and the shell's health
\* check run whenever they can; nobody owes an entry, a restart or a fault.
Fairness ==
    /\ WF_vars(Broadcast) /\ WF_vars(ReadJournal) /\ WF_vars(Respond) /\ WF_vars(ServeLive)
    /\ WF_vars(CloseUnleased) /\ WF_vars(Renegotiate)
    /\ WF_vars(Subscribe) /\ WF_vars(TakeEntry) /\ WF_vars(RefuseEntry)
    /\ WF_vars(RecoverGap) /\ WF_vars(StreamEnds)
    /\ WF_vars(Rebuild) /\ WF_vars(Connect) /\ WF_vars(Attach) /\ WF_vars(Activate)
    /\ WF_vars(Announce)
    /\ WF_vars(~Served /\ RecoverGapFails)
    /\ WF_vars(RestoreRefused /\ RestoreFails)

FairSpec == Spec /\ Fairness

----------------------------------------------------------------------------
(* Properties.                                                             *)

TypeOK ==
    /\ LogTypeOK
    /\ kept \subseteq 1 .. Len(log) /\ unsent \in 0 .. Len(log) /\ told \in 0 .. Len(log)
    /\ rx \in Seq(Nat) /\ Len(rx) <= BroadcastSize /\ after \in Nat /\ replayed \subseteq Nat
    /\ serving \in BOOLEAN /\ wire \in Seq(Nat \X Nat)
    /\ home \in 0 .. epoch /\ seat \in Seats /\ phase \in Phases /\ cursor \in Nat
    /\ app \in AppSteps /\ page \in Seq(1 .. epoch)
    /\ view \in Seq(1 .. epoch) /\ faults \in 0 .. MaxFaults

\* A stream of the running daemon has told the listener exactly the log up to
\* its cursor: nothing missing, nothing twice, and nothing a crash took back
\* and numbered again.
ViewIsLogPrefix ==
    home = epoch /\ phase # "off" /\ app # "announce" =>
        view = SubSeq(log, 1, cursor) /\ Len(view) = cursor

\* While the stream is open, every entry that was broadcast is on its way to the
\* client, or a later one is, which will show it the gap it has to recover.
BroadcastReachesClient ==
    phase \in {"subscribed", "replayed", "open"} /\ serving =>
        \/ told <= cursor
        \/ phase = "subscribed" /\ told \in kept
        \/ \E j \in DOMAIN wire : wire[j][1] >= told
        \/ \E j \in DOMAIN rx : rx[j] >= told

\* Once the daemon and the network stop changing, the shell ends up with the
\* timeline up to the last entry that was broadcast, and nothing a crash took
\* back, whatever failed before: streams, leases, the daemon itself.
CatchesUp == <>[](told <= Len(view) /\ IsPrefix(view, log))
=============================================================================
