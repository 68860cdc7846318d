---------------------------- MODULE CommandReceipts ----------------------------
(***************************************************************************)
(* Commands posted to the daemon, the receipts that make a retry harmless, *)
(* and the worker that runs them (crates/deepx-daemon/src/ringing_http.rs: *)
(* PendingCommandStore, RingingLeaseStore, handle_command; server.rs, the  *)
(* observers; deepx-runtime registry.rs, send_ringing).  One seed, one     *)
(* client.                                                                 *)
(*                                                                         *)
(* A request is a task: it checks the lease, records a receipt, dispatches *)
(* the command and settles the receipt, each under a lock of its own, and  *)
(* other requests, the observers of the three channels and the worker run  *)
(* in between.  A client that got no answer sends the same command id      *)
(* again, at any time.  Receipts are saved at every change; a restart      *)
(* loads those that have not expired.                                      *)
(*                                                                         *)
(* Time is the order of acceptance: `at` numbers the receipts, and those   *)
(* up to `horizon` are older than RECEIPT_TTL.                             *)
(***************************************************************************)
EXTENDS Naturals, Sequences, FiniteSets

CONSTANTS
    Ids,            \* command ids
    PayloadsOf(_),  \* what a client may post under an id
    Requests,       \* requests that may be in the daemon at a time
    MaxEntries,     \* receipts kept (4096 in the code)
    MaxRecords,     \* bound: receipts recorded
    MaxSessions,    \* bound: client sessions opened
    MaxFaults,      \* bound: deaths of the worker, daemon restarts, leases run out
    BroadcastSize   \* capacity of the channel an observer reads (1024 in the code)

ASSUME ReceiptAssumption ==
    /\ MaxEntries \in Nat \ {0} /\ BroadcastSize \in Nat \ {0}
    /\ \A k \in Ids : PayloadsOf(k) \subseteq {"send", "resume", "close"}
    /\ MaxRecords \in Nat /\ MaxSessions \in Nat /\ MaxFaults \in Nat

VARIABLES
    accepted,   \* PendingCommandStore.accepted: receipts by command id
    disk,       \* ringing-command-receipts.json
    clock,      \* receipts recorded so far
    horizon,    \* receipts up to this number have expired
    session,    \* the session the client opened last, 0 when none
    lease,      \* its lease: none, open, or lapsed and still in the table
    seeds,      \* seed_leases: the sessions the seed is attached to
    requests,   \* the requests in the daemon
    alive,      \* the worker of the seed runs
    inbox,      \* command ids in the pipe to the worker
    job,        \* the command it runs, None when idle
    bus,        \* events an observer has not read, by channel: <<causation, outcome>>
    faults,
    ran,        \* ghost: for every id, the acceptances under which a worker was given it
    evicted,    \* ghost: ids that lost their receipt to a younger one
    lost        \* ghost: ids whose result will not be observed: the worker died, the daemon
                \* was restarted, the observer was overrun, or the turn was suspended

receiptVars == <<accepted, disk, clock, horizon>>
leaseVars == <<session, lease, seeds>>
workerVars == <<alive, inbox, job>>
ghosts == <<ran, evicted, lost>>
vars == <<receiptVars, leaseVars, requests, workerVars, bus, faults, ghosts>>

None == [none |-> TRUE]
Payloads == {"send", "resume", "close"}
Channels == {"control", "conversation", "tool"}
Outcomes == {"succeeded", "failed"}
States == {"accepted", "running"} \cup Outcomes
Idle == [pc |-> "idle"]

Receipts == [session : 1 .. MaxSessions, payload : Payloads, at : 1 .. MaxRecords, state : States]

IsReceiptMap(m) == DOMAIN m \subseteq Ids /\ \A k \in DOMAIN m : m[k] \in Receipts

----------------------------------------------------------------------------
(* The store of receipts.                                                  *)

Live(m, h) == {k \in DOMAIN m : m[k].at > h}
Keep(m, S) == [k \in S |-> m[k]]
Put(m, k, r) == [j \in DOMAIN m \cup {k} |-> IF j = k THEN r ELSE m[j]]

\* persist: what has expired stays in memory and leaves the file.
Save(m) == accepted' = m /\ disk' = Keep(m, Live(m, horizon))

\* The oldest receipt.
Victim(m) == CHOOSE k \in DOMAIN m : \A j \in DOMAIN m : m[k].at <= m[j].at

\* A receipt more than the store holds pushes the oldest one out.
Evict(m) == IF Cardinality(DOMAIN m) > MaxEntries THEN Keep(m, DOMAIN m \ {Victim(m)}) ELSE m

\* mark_terminal overwrites whatever the receipt says.
MarkTerminal(m, k, outcome) ==
    IF k \in DOMAIN m THEN [m EXCEPT ![k].state = outcome] ELSE m

MarkRunning(m, k) ==
    IF k \in DOMAIN m /\ m[k].state = "accepted" THEN [m EXCEPT ![k].state = "running"] ELSE m

\* record_fingerprint_owned, of a command that has no living receipt.
Insert(k, r) ==
    LET m == Put(accepted, k, r)
    IN  /\ Save(Evict(m))
        /\ clock' = r.at
        /\ evicted' = evicted \cup (DOMAIN m \ DOMAIN Evict(m))

----------------------------------------------------------------------------
(* The lease.                                                              *)

\* handle_open: the entry of the client's instance is replaced; the seeds of the
\* session it had stay behind.  (The shipped client draws a new instance at each
\* open; the daemon does not rely on it.)
Open ==
    /\ session < MaxSessions
    /\ session' = session + 1
    /\ lease' = "open"
    /\ UNCHANGED <<receiptVars, seeds, requests, workerVars, bus, faults, ghosts>>

Fault == faults < MaxFaults /\ faults' = faults + 1

LeaseLapses ==
    /\ Fault
    /\ lease = "open" /\ lease' = "lapsed"
    /\ UNCHANGED <<receiptVars, session, seeds, requests, workerVars, bus, ghosts>>

\* handle_renew of a lease that has lapsed drops it and its seeds.
Renew ==
    /\ lease = "lapsed" /\ lease' = "none"
    /\ seeds' = seeds \ {session}
    /\ UNCHANGED <<receiptVars, session, requests, workerVars, bus, faults, ghosts>>

IsActive(s) == lease = "open" /\ s = session

----------------------------------------------------------------------------
(* A request.                                                              *)

To(r, pc) == requests' = [requests EXCEPT ![r].pc = pc]
Answer(r) == requests' = [requests EXCEPT ![r] = Idle]

\* A new command arrives, or one the client was not answered; a request of another
\* session, or for a seed that is not attached, is answered 401 and leaves no trace.
Arrive(r, k, payload) ==
    /\ requests[r] = Idle
    /\ lease = "open"
    /\ payload # "resume" => session \in seeds
    /\ requests' = [requests EXCEPT ![r] =
                       [pc |-> "leased", id |-> k, payload |-> payload, session |-> session, at |-> 0]]
    /\ UNCHANGED <<receiptVars, leaseVars, workerVars, bus, faults, ghosts>>

\* Mutant: a receipt stops counting once its command is done.
KnownWhileOpen(k) ==
    k \in Live(accepted, horizon) /\ accepted[k].state \in {"accepted", "running"}

Known(k) == k \in Live(accepted, horizon)

\* 409 when the receipt is another session's or another payload's, 200 without
\* doing anything when it is this command's.
AnswerKnown(r) ==
    /\ requests[r].pc = "leased" /\ Known(requests[r].id)
    /\ Answer(r)
    /\ UNCHANGED <<receiptVars, leaseVars, workerVars, bus, faults, ghosts>>

Record(r) ==
    /\ requests[r].pc = "leased" /\ ~Known(requests[r].id)
    /\ clock < MaxRecords
    /\ Insert(requests[r].id,
              [session |-> requests[r].session, payload |-> requests[r].payload,
               at |-> clock + 1, state |-> "accepted"])
    /\ requests' = [requests EXCEPT ![r].pc = "recorded", ![r].at = clock + 1]
    /\ UNCHANGED <<horizon, leaseVars, workerVars, bus, faults, ran, lost>>

Ran(r) == ran' = [ran EXCEPT ![requests[r].id] = @ \cup {requests[r].at}]

\* send_ringing: a worker that died is replaced; one that dies again, or cannot be
\* started, fails the command.
Dispatch(r) ==
    /\ requests[r].pc = "recorded" /\ requests[r].payload = "send"
    /\ alive' = TRUE
    /\ inbox' = Append(inbox, requests[r].id)
    /\ Ran(r)
    /\ To(r, "sent")
    /\ UNCHANGED <<receiptVars, leaseVars, job, bus, faults, evicted, lost>>

\* hydrate_attachment_previews, or a worker that cannot be started.
DispatchFails(r) ==
    /\ requests[r].pc = "recorded" /\ requests[r].payload # "close"
    /\ requests[r].payload = "resume" => ~alive
    /\ To(r, "failed")
    /\ UNCHANGED <<receiptVars, leaseVars, workerVars, bus, faults, ghosts>>

\* Mutant: the receipt of a command that failed is left.
KeepReceipt(r) ==
    /\ requests[r].pc = "failed"
    /\ Answer(r)
    /\ UNCHANGED <<receiptVars, leaseVars, workerVars, bus, faults, ghosts>>

\* The command may be sent again under the same id.
Rollback(r) ==
    /\ requests[r].pc = "failed"
    /\ Save(Keep(accepted, DOMAIN accepted \ {requests[r].id}))
    /\ Answer(r)
    /\ UNCHANGED <<clock, horizon, leaseVars, workerVars, bus, faults, ghosts>>

Settle(r) ==
    /\ requests[r].pc = "sent"
    /\ Save(MarkRunning(accepted, requests[r].id))
    /\ Answer(r)
    /\ UNCHANGED <<clock, horizon, leaseVars, workerVars, bus, faults, ghosts>>

\* An event that overruns the observer's channel takes the oldest one with it.
Publish(channel, event) ==
    LET q == Append(bus[channel], event)
    IN  IF Len(q) > BroadcastSize
        THEN bus' = [bus EXCEPT ![channel] = Tail(q)] /\ lost' = lost \cup {Head(q)[1]}
        ELSE bus' = [bus EXCEPT ![channel] = q] /\ UNCHANGED lost

Working == {inbox[i] : i \in DOMAIN inbox} \cup (IF job = None THEN {} ELSE {job.id})

\* The registry closes the worker, whatever it was doing.
CloseWorker(r) ==
    /\ requests[r].pc = "recorded" /\ requests[r].payload = "close"
    /\ alive' = FALSE /\ inbox' = <<>> /\ job' = None
    /\ lost' = lost \cup Working
    /\ Ran(r)
    /\ To(r, "stopped")
    /\ UNCHANGED <<receiptVars, leaseVars, bus, faults, evicted>>

\* SessionStateChanged{Closed}, caused by the command.
PublishClosed(r) ==
    /\ requests[r].pc = "stopped"
    /\ Publish("control", <<requests[r].id, "succeeded">>)
    /\ To(r, "closed")
    /\ UNCHANGED <<receiptVars, leaseVars, workerVars, faults, ran, evicted>>

\* session.resume: the worker is started unless it runs.
Resume(r) ==
    /\ requests[r].pc = "recorded" /\ requests[r].payload = "resume"
    /\ alive' = TRUE
    /\ Ran(r)
    /\ To(r, "resumed")
    /\ UNCHANGED <<receiptVars, leaseVars, inbox, job, bus, faults, evicted, lost>>

\* attach_seed needs a session that is still active; detach_seed does not.
AttachOrDetach(r) ==
    \/ /\ requests[r].pc = "closed"
       /\ seeds' = seeds \ {requests[r].session}
    \/ /\ requests[r].pc = "resumed"
       /\ seeds' = IF IsActive(requests[r].session) THEN seeds \cup {requests[r].session} ELSE seeds

Conclude(r) ==
    /\ AttachOrDetach(r)
    /\ Save(MarkTerminal(accepted, requests[r].id, "succeeded"))
    /\ Answer(r)
    /\ UNCHANGED <<clock, horizon, session, lease, workerVars, bus, faults, ghosts>>

Request(r) ==
    \/ AnswerKnown(r) \/ Record(r)
    \/ Dispatch(r) \/ DispatchFails(r) \/ Rollback(r) \/ Settle(r)
    \/ CloseWorker(r) \/ PublishClosed(r) \/ Resume(r) \/ Conclude(r)

----------------------------------------------------------------------------
(* The worker: every event of a turn carries the id of the command.        *)

Start ==
    /\ job = None /\ inbox # <<>>
    /\ job' = [id |-> Head(inbox), tool |-> FALSE]
    /\ inbox' = Tail(inbox)
    /\ UNCHANGED <<receiptVars, leaseVars, requests, alive, bus, faults, ghosts>>

\* OperationCompleted or OperationFailed: a message that is blocked, or a command
\* that is not a message.
FinishOperation(outcome) ==
    /\ job # None /\ ~job.tool
    /\ Publish("control", <<job.id, outcome>>)
    /\ job' = None
    /\ UNCHANGED <<receiptVars, leaseVars, requests, alive, inbox, faults, ran, evicted>>

\* ToolFinished, of a tool that succeeded or not.  (Bound: once in a turn.)
FinishTool(outcome) ==
    /\ job # None /\ ~job.tool
    /\ Publish("tool", <<job.id, outcome>>)
    /\ job' = [job EXCEPT !.tool = TRUE]
    /\ UNCHANGED <<receiptVars, leaseVars, requests, alive, inbox, faults, ran, evicted>>

\* TurnCompleted, TurnFailed
FinishTurn(outcome) ==
    /\ job # None
    /\ Publish("conversation", <<job.id, outcome>>)
    /\ job' = None
    /\ UNCHANGED <<receiptVars, leaseVars, requests, alive, inbox, faults, ran, evicted>>

\* The turn asks the user and is suspended: what is left of it will be caused by the
\* answer, and no event will carry the id of the message again.
Yield ==
    /\ job # None /\ job' = None
    /\ lost' = lost \cup {job.id}
    /\ UNCHANGED <<receiptVars, leaseVars, requests, alive, inbox, bus, faults, ran, evicted>>

WorkerDies ==
    /\ Fault
    /\ alive /\ alive' = FALSE
    /\ inbox' = <<>> /\ job' = None
    /\ lost' = lost \cup Working
    /\ UNCHANGED <<receiptVars, leaseVars, requests, bus, ran, evicted>>

----------------------------------------------------------------------------
(* The observers, time and the end of the daemon.                          *)

\* observe_terminal_event
Observe(channel) ==
    /\ bus[channel] # <<>>
    /\ LET event == Head(bus[channel])
       IN  IF event[1] \in DOMAIN accepted
           THEN Save(MarkTerminal(accepted, event[1], event[2]))
           ELSE UNCHANGED <<accepted, disk>>
    /\ bus' = [bus EXCEPT ![channel] = Tail(@)]
    /\ UNCHANGED <<clock, horizon, leaseVars, requests, workerVars, faults, ghosts>>

\* RECEIPT_TTL is minutes, a request is done long before its receipt expires.
Expire ==
    /\ horizon < clock
    /\ \A r \in Requests : requests[r] # Idle => requests[r].at \notin 1 .. horizon + 1
    /\ horizon' = horizon + 1
    /\ UNCHANGED <<accepted, disk, clock, leaseVars, requests, workerVars, bus, faults, ghosts>>

\* Leases, requests and what was published are gone, the workers follow.
Restart ==
    /\ Fault
    /\ accepted' = Keep(disk, Live(disk, horizon))
    /\ requests' = [r \in Requests |-> Idle]
    /\ lease' = "none" /\ seeds' = {}
    /\ alive' = FALSE /\ inbox' = <<>> /\ job' = None
    /\ bus' = [c \in Channels |-> <<>>]
    /\ lost' = Ids
    /\ UNCHANGED <<disk, clock, horizon, session, ran, evicted>>

Init ==
    /\ accepted = <<>> /\ disk = <<>> /\ clock = 0 /\ horizon = 0
    /\ session = 0 /\ lease = "none" /\ seeds = {}
    /\ requests = [r \in Requests |-> Idle]
    /\ alive = FALSE /\ inbox = <<>> /\ job = None
    /\ bus = [c \in Channels |-> <<>>]
    /\ faults = 0
    /\ ran = [k \in Ids |-> {}] /\ evicted = {} /\ lost = {}

Next ==
    \/ Open \/ LeaseLapses \/ Renew
    \/ \E r \in Requests :
          Request(r) \/ \E k \in Ids : \E payload \in PayloadsOf(k) : Arrive(r, k, payload)
    \/ Start \/ Yield \/ WorkerDies
    \/ \E outcome \in Outcomes :
          FinishOperation(outcome) \/ FinishTool(outcome) \/ FinishTurn(outcome)
    \/ \E channel \in Channels : Observe(channel)
    \/ Expire \/ Restart

Spec == Init /\ [][Next]_vars
----------------------------------------------------------------------------
ReceiptsTypeOK ==
    /\ IsReceiptMap(accepted) /\ IsReceiptMap(disk)
    /\ clock \in 0 .. MaxRecords /\ horizon \in 0 .. clock
    /\ session \in 0 .. MaxSessions /\ seeds \subseteq 1 .. session
    /\ lease \in {"none", "open", "lapsed"}
    /\ alive \in BOOLEAN
    /\ job = None \/ job \in [id : Ids, tool : BOOLEAN]
    /\ ~alive => inbox = <<>> /\ job = None
    /\ Cardinality(DOMAIN accepted) <= MaxEntries
    /\ ran \in [Ids -> SUBSET (1 .. clock)]

\* "A retry after the connection broke must not run an accepted command
\* twice" (docs/PLAN.md): while the receipt of a command is young enough and
\* was not pushed out, no other acceptance of its id reaches a worker,
\* whatever retries, late results, rollbacks and restarts come between.
AtMostOnce ==
    \A k \in Ids \ evicted : Cardinality({at \in ran[k] : at > horizon}) <= 1

\* A receipt without a result has one coming: a request is dispatching the
\* command, or the worker has it, or its event is on the way to an observer,
\* unless a worker, the daemon or an event was lost or the turn suspended.  A
\* result that is observed before the receipt is marked running would leave it
\* waiting for nothing.  An id that lost its receipt while a request was sending it
\* may get another, which that request then marks: such ids are left out.
ResultIsComing ==
    \A k \in DOMAIN accepted \ (lost \cup evicted) :
        /\ accepted[k].state = "accepted" =>
              \E r \in Requests : requests[r] # Idle /\ requests[r].id = k
                                  /\ requests[r].at = accepted[k].at
        /\ accepted[k].state = "running" =>
              \/ k \in Working
              \/ \E c \in Channels : \E i \in DOMAIN bus[c] : bus[c][i][1] = k
=============================================================================
