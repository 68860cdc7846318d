---------------------------- MODULE WorkspaceServe ----------------------------
(* The workspace service: where the tools of the agents run.                  *)
(*                                                                            *)
(* The daemon keeps one service process and gives its endpoint to the agents  *)
(* it starts.  An agent sends a tool call to the service and runs it itself   *)
(* only if nobody listens there.  In the service one worker thread runs the   *)
(* calls in turn, under the session and the workspace of the call, which are  *)
(* global to the process; the calls of the tool `process` do not wait for the *)
(* worker.  A command that runs too long goes on as a child process that      *)
(* `process` can look after, through a table of children.                     *)
(*                                                                            *)
(* In WSL mode the daemon's child is wsl.exe, and the service a process of    *)
(* the distribution: killing the child leaves the service running, and the    *)
(* agents that have its endpoint go on using it.                              *)
EXTENDS Integers, Sequences, FiniteSets, SequencesExt

CONSTANTS
  Agents,      \* the agent processes: one session and one workspace each
  Calls,       \* the tool calls
  Owner,       \* [Calls -> Agents]
  QueueSize,   \* calls that wait for the worker (EXECUTE_QUEUE_CAPACITY)
  MaxServes,   \* bound: service processes started
  MaxCrashes,  \* bound: crashes of services and ends of wsl.exe
  MaxRestarts, \* bound: restarts of agents and cancels
  Kinds        \* bound: which tools each call may be of

Serve == "serve"  \* a service's own session and workspace
ToolKinds == {"edit", "exec", "check", "kill"}

ASSUME OwnerAssumption == Owner \in [Calls -> Agents]
ASSUME ServeIsNoAgent == Serve \notin Agents /\ Agents \cap Nat = {}
ASSUME BoundsAssumption ==
  /\ QueueSize \in Nat /\ MaxServes \in Nat \ {0}
  /\ Kinds \in [Calls -> SUBSET ToolKinds]

Services == 1..MaxServes
Hosts == Agents \cup Services  \* a call runs in a service or in its agent
Bindings == Agents \cup {Serve}

VARIABLES
  alive,    \* the service processes that run
  clients,  \* the children of the daemon that run: the same, or wsl.exe
  sup,      \* the supervisor in the daemon
  registry, \* the service whose endpoint new agents are given
  agent,    \* the agents: endpoint, cancel flag, changes in the ledger
  call,     \* the calls
  queue,    \* by service: the calls that wait for the worker
  ctx,      \* by service: its session and workspace
  pending,  \* by service: the changes that it has not reported yet
  procs,    \* the tables of children, by host
  ran,      \* history: where each call ran
  spent     \* the bounds used so far

vars == <<alive, clients, sup, registry, agent, call, queue, ctx, pending, procs, ran, spent>>
service == <<queue, ctx, pending>>
daemon == <<alive, clients, sup, registry>>

NewCall == [phase |-> "idle", kind |-> "none", host |-> 0, waits |-> FALSE,
            session |-> Serve, workspace |-> Serve, target |-> 0, answer |-> "none",
            delta |-> {}, result |-> "none"]

(* ProcEntry: what the table says, whether the child can be reached from it,  *)
(* what the child really does, and the thread that reads its output; `early`: *)
(* it was to be killed before it could be reached.                            *)
NewProc(c) == [status |-> "running", handle |-> FALSE, child |-> "running", handoff |-> FALSE,
               reader |-> "reading", by |-> c, early |-> FALSE]

Spend(what, max) == spent[what] < max /\ spent' = [spent EXCEPT ![what] = @ + 1]

(* One service is up: in local mode, in WSL mode, or in local mode after an   *)
(* attempt in WSL mode that failed and left its service behind.               *)
Up(n, wsl, left) ==
  /\ alive = left \cup {n} /\ clients = {n} /\ registry = n
  /\ sup = [pc |-> "watch", child |-> n, conn |-> n, new |-> 0, next |-> n + 1, stop |-> FALSE,
            wsl |-> wsl, left |-> left]
  /\ agent = [a \in Agents |-> [endpoint |-> n, cancel |-> FALSE, known |-> {}]]

Init ==
  /\ Up(1, FALSE, {}) \/ Up(1, TRUE, {}) \/ (MaxServes >= 2 /\ Up(2, FALSE, {1}))
  /\ call = [c \in Calls |-> NewCall]
  /\ queue = [s \in Services |-> <<>>]
  /\ ctx = [s \in Services |-> [session |-> Serve, workspace |-> Serve]]
  /\ pending = [s \in Services |-> {}]
  /\ procs = [h \in Hosts |-> <<>>]
  /\ ran = [c \in Calls |-> <<>>]
  /\ spent = [crashes |-> 0, restarts |-> 0]

-----------------------------------------------------------------------------
(* The calls.                                                                 *)

To(c, phase) == [call EXCEPT ![c].phase = phase]
IsProcess(c) == call[c].kind \in {"check", "kill"}
AtServe(c) == call[c].host \in Services
InServe(c) == AtServe(c) /\ call[c].phase \notin {"idle", "done"}

(* The number of a child is given by the model, who may have it from an       *)
(* earlier service or have made it up.                                        *)
Ids == 0 .. Cardinality({c \in Calls : "exec" \in Kinds[c]})

Sent(c, kind, id) ==
  LET a == Owner[c]
      there == agent[a].endpoint \in alive
  IN  [NewCall EXCEPT !.kind = kind, !.target = id, !.waits = TRUE,
         !.host = IF there THEN agent[a].endpoint ELSE a,
         !.phase = IF there THEN "sent" ELSE "admitted"]

(* An agent calls a tool.  Only a refused connection makes it run the tool    *)
(* itself; its own cancel flag is looked at before that.                      *)
Call(c, kind, id) ==
  /\ call[c].phase = "idle"
  /\ id # 0 <=> kind \in {"check", "kill"}
  /\ call' = [call EXCEPT ![c] = IF agent[Owner[c]].cancel
                THEN [NewCall EXCEPT !.kind = kind, !.phase = "done", !.result = "cancelled"]
                ELSE Sent(c, kind, id)]
  /\ UNCHANGED <<daemon, agent, service, procs, ran, spent>>

(* Mutant: if the answer cannot be read, the call is run locally.             *)
FailedRunsLocally(c) ==
  IF call[c].phase = "answered" THEN [call[c] EXCEPT !.host = Owner[c], !.phase = "admitted"]
  ELSE [call[c] EXCEPT !.waits = FALSE, !.result = "failed"]

(* The answer did not come in time, or in no form that can be read.           *)
Failed(c) == [call[c] EXCEPT !.waits = FALSE, !.result = "failed"]

TimeOut(c) ==
  /\ call[c].waits /\ InServe(c) /\ call[c].phase # "sent"
  /\ call' = [call EXCEPT ![c] = Failed(c)]
  /\ UNCHANGED <<daemon, agent, service, procs, ran, spent>>

Receive(c) ==
  /\ call[c].phase = "answered"
  /\ IF call[c].waits
     THEN /\ call' = [call EXCEPT ![c].phase = "done", ![c].waits = FALSE,
                                  ![c].result = call[c].answer]
          /\ agent' = [agent EXCEPT ![Owner[c]].known = @ \cup call[c].delta]
     ELSE /\ call' = To(c, "done")
          /\ UNCHANGED agent
  /\ UNCHANGED <<daemon, service, procs, ran, spent>>

-----------------------------------------------------------------------------
(* The service: handle_execute, the worker and run_tool.                      *)

Working(c) == InServe(c) /\ ~IsProcess(c) /\ call[c].phase \notin {"sent", "queued", "answered"}

Enqueue(c) ==
  LET s == call[c].host IN
  /\ call[c].phase = "sent" /\ ~IsProcess(c)
  /\ Len(queue[s]) < QueueSize
  /\ queue' = [queue EXCEPT ![s] = Append(@, c)]
  /\ call' = To(c, "queued")
  /\ UNCHANGED <<daemon, agent, ctx, pending, procs, ran, spent>>

WorkerBegins(s) ==
  /\ queue[s] # <<>> /\ ~\E c \in Calls : Working(c) /\ call[c].host = s
  /\ call' = To(Head(queue[s]), "begun")
  /\ ctx' = [ctx EXCEPT ![s] = [session |-> Owner[Head(queue[s])],
                               workspace |-> Owner[Head(queue[s])]]]
  /\ queue' = [queue EXCEPT ![s] = Tail(@)]
  /\ UNCHANGED <<daemon, agent, pending, procs, ran, spent>>

CtxOf(c) == ctx[call[c].host]

(* Mutant: the workspace is set, too.                                         *)
InlineContextWithWorkspace(c) == [session |-> Owner[c], workspace |-> Owner[c]]

(* A process call sets the session of the whole process, not the workspace.   *)
InlineContext(c) == [CtxOf(c) EXCEPT !.session = Owner[c]]

InlineBegins(c) ==
  /\ call[c].phase = "sent" /\ IsProcess(c)
  /\ call' = To(c, "begun")
  /\ ctx' = [ctx EXCEPT ![call[c].host] = InlineContext(c)]
  /\ UNCHANGED <<daemon, agent, queue, pending, procs, ran, spent>>

(* run_tool has the result; what the call was admitted under has served.      *)
Ended(c, answer) ==
  [call EXCEPT ![c].phase = "ran", ![c].answer = answer,
               ![c].session = Serve, ![c].workspace = Serve]

(* execute_with_context: the call is admitted under what is set now.          *)
Admit(c) ==
  /\ call[c].phase = "begun"
  /\ call' = [call EXCEPT ![c].phase = "admitted", ![c].session = CtxOf(c).session,
                          ![c].workspace = CtxOf(c).workspace]
  /\ UNCHANGED <<daemon, agent, service, procs, ran, spent>>

(* execute_authorized: refused if something else is set by then.              *)
StillBound(c) ==
  AtServe(c) => call[c].session = CtxOf(c).session /\ call[c].workspace = CtxOf(c).workspace

Mismatch(c) ==
  /\ call[c].phase = "admitted" /\ ~StillBound(c)
  /\ call' = Ended(c, "mismatch")
  /\ UNCHANGED <<daemon, agent, service, procs, ran, spent>>

Place(c) ==
  [host |-> call[c].host, workspace |-> IF AtServe(c) THEN CtxOf(c).workspace ELSE Owner[c]]
Runs(c) == ran' = [ran EXCEPT ![c] = Append(@, Place(c))]
MayRun(c, kind) == call[c].phase = "admitted" /\ StillBound(c) /\ call[c].kind = kind

(* A tool that changes a file: the change is noted in the ledger of the host. *)
Edit(c) ==
  /\ MayRun(c, "edit") /\ Runs(c)
  /\ call' = Ended(c, "ok")
  /\ IF AtServe(c)
     THEN pending' = [pending EXCEPT ![call[c].host] = @ \cup {c}] /\ UNCHANGED agent
     ELSE agent' = [agent EXCEPT ![Owner[c]].known = @ \cup {c}] /\ UNCHANGED pending
  /\ UNCHANGED <<daemon, queue, ctx, procs, spent>>

(* take_pending: whatever changes are pending, whoever made them.             *)
TakePending(s) == [taken |-> pending[s], left |-> {}]

Answer(c) ==
  /\ call[c].phase = "ran" /\ AtServe(c)
  /\ call' = [call EXCEPT ![c].phase = "answered", ![c].delta = TakePending(call[c].host).taken]
  /\ pending' = [pending EXCEPT ![call[c].host] = TakePending(call[c].host).left]
  /\ UNCHANGED <<daemon, agent, queue, ctx, procs, ran, spent>>

AnswerLocally(c) ==
  /\ call[c].phase = "ran" /\ ~AtServe(c)
  /\ call' = [call EXCEPT ![c].phase = "done", ![c].waits = FALSE, ![c].result = call[c].answer]
  /\ UNCHANGED <<daemon, agent, service, procs, ran, spent>>

-----------------------------------------------------------------------------
(* The table of children (ProcessRegistry).                                   *)

ProcOf(c) == procs[call[c].host][call[c].target]
Exists(h, id) == id \in DOMAIN procs[h]

(* try_wait: the table learns of an exit from whoever looks.                  *)
TryWait(p) ==
  IF p.status = "running" /\ p.handle /\ p.child # "running"
  THEN [p EXCEPT !.status = "exited", !.handle = FALSE] ELSE p

MarkExited(p) == [p EXCEPT !.status = "exited", !.handle = FALSE]

Kill(p) ==
  [p EXCEPT !.status = "killed", !.handle = FALSE,
            !.child = IF p.handle /\ @ = "running" THEN "killed" ELSE @,
            !.early = @ \/ (p.status = "running" /\ ~p.handle)]

SetProc(h, id, p) == procs' = [procs EXCEPT ![h][id] = p]

(* exec: the child is started and entered in the table.                       *)
Exec(c) ==
  /\ MayRun(c, "exec") /\ Runs(c)
  /\ procs' = [procs EXCEPT ![call[c].host] = Append(@, NewProc(c))]
  /\ call' = [call EXCEPT ![c].phase = "spawned", ![c].target = Len(procs[call[c].host]) + 1]
  /\ UNCHANGED <<daemon, agent, service, spent>>

(* attach_child: whatever the table says of it by now.  Then it is polled.    *)
AttachChild(c) ==
  /\ call[c].phase = "spawned"
  /\ SetProc(call[c].host, call[c].target, [ProcOf(c) EXCEPT !.handle = TRUE])
  /\ call' = To(c, "polling")
  /\ UNCHANGED <<daemon, agent, service, ran, spent>>

PollExit(c) ==
  /\ call[c].phase = "polling" /\ TryWait(ProcOf(c)).status = "exited"
  /\ SetProc(call[c].host, call[c].target, MarkExited(TryWait(ProcOf(c))))
  /\ call' = Ended(c, "completed")
  /\ UNCHANGED <<daemon, agent, service, ran, spent>>

(* The cancel flag is the agent's: the service never sees it.                 *)
PollCancel(c) ==
  /\ call[c].phase = "polling" /\ TryWait(ProcOf(c)).status # "exited"
  /\ ~AtServe(c) /\ agent[Owner[c]].cancel
  /\ SetProc(call[c].host, call[c].target, Kill(ProcOf(c)))
  /\ call' = Ended(c, "cancelled")
  /\ UNCHANGED <<daemon, agent, service, ran, spent>>

(* At the deadline the child is left to itself; the thread that reads its     *)
(* output is told in a later step.                                            *)
PollDeadline(c) ==
  /\ call[c].phase = "polling" /\ TryWait(ProcOf(c)).status # "exited"
  /\ call' = To(c, "handing")
  /\ UNCHANGED <<daemon, agent, service, procs, ran, spent>>

HandOff(c) ==
  /\ call[c].phase = "handing"
  /\ SetProc(call[c].host, call[c].target, [ProcOf(c) EXCEPT !.handoff = TRUE])
  /\ call' = Ended(c, "backgrounded")
  /\ UNCHANGED <<daemon, agent, service, ran, spent>>

ChildExits(h, id) ==
  /\ procs[h][id].child = "running"
  /\ SetProc(h, id, [procs[h][id] EXCEPT !.child = "exited"])
  /\ UNCHANGED <<daemon, agent, call, service, ran, spent>>

(* The output ends with the child, or because the child closes it.            *)
ReaderEof(h, id) ==
  /\ procs[h][id].reader = "reading"
  /\ SetProc(h, id, [procs[h][id] EXCEPT !.reader = IF procs[h][id].handoff THEN "reap" ELSE "over"])
  /\ UNCHANGED <<daemon, agent, call, service, ran, spent>>

(* Mutant: the end of the output is taken for the end of the child.           *)
SeenAtEof(p) == [p EXCEPT !.reader = "mark"]

(* A reader of a child that was left to itself polls for its exit, for a      *)
(* while, and enters it.                                                      *)
Seen(p) == IF p.status = "exited" THEN [p EXCEPT !.reader = "mark"] ELSE [p EXCEPT !.reader = "over"]

ReaderReaps(h, id) ==
  /\ procs[h][id].reader = "reap"
  /\ SetProc(h, id, Seen(TryWait(procs[h][id])))
  /\ UNCHANGED <<daemon, agent, call, service, ran, spent>>

ReaderMarks(h, id) ==
  /\ procs[h][id].reader = "mark"
  /\ SetProc(h, id, [MarkExited(procs[h][id]) EXCEPT !.reader = "over"])
  /\ UNCHANGED <<daemon, agent, call, service, ran, spent>>

(* process check (or wait): the table is brought up to date and shown.        *)
Looked(p) == TryWait(p)

Check(c) ==
  /\ MayRun(c, "check") /\ Runs(c)
  /\ IF Exists(call[c].host, call[c].target)
     THEN /\ SetProc(call[c].host, call[c].target, Looked(ProcOf(c)))
          /\ call' = Ended(c, Looked(ProcOf(c)).status)
     ELSE /\ call' = Ended(c, "not_found")
          /\ UNCHANGED procs
  /\ UNCHANGED <<daemon, agent, service, spent>>

KillProcess(c) ==
  /\ MayRun(c, "kill") /\ Runs(c)
  /\ IF Exists(call[c].host, call[c].target)
     THEN /\ SetProc(call[c].host, call[c].target, Kill(ProcOf(c)))
          /\ call' = Ended(c, "ok")
     ELSE /\ call' = Ended(c, "not_found")
          /\ UNCHANGED procs
  /\ UNCHANGED <<daemon, agent, service, spent>>

-----------------------------------------------------------------------------
(* The agents.                                                                *)

(* The turn is interrupted; the flag is cleared when the next one begins.     *)
Cancel(a) ==
  /\ Spend("restarts", MaxRestarts)
  /\ \E c \in Calls : Owner[c] = a /\ call[c].waits
  /\ agent' = [agent EXCEPT ![a].cancel = TRUE]
  /\ UNCHANGED <<daemon, call, service, procs, ran>>

NextTurn(a) ==
  /\ agent[a].cancel
  /\ ~\E c \in Calls : Owner[c] = a /\ call[c].waits
  /\ agent' = [agent EXCEPT ![a].cancel = FALSE]
  /\ UNCHANGED <<daemon, call, service, procs, ran, spent>>

(* The process ends, with the calls that it runs itself, and the daemon       *)
(* starts another one with the endpoint that the registry has.                *)
AgentRestarts(a) ==
  /\ Spend("restarts", MaxRestarts)
  /\ agent' = [agent EXCEPT ![a] = [endpoint |-> registry, cancel |-> FALSE, known |-> {}]]
  /\ call' = [c \in Calls |->
       IF Owner[c] # a \/ call[c].phase = "idle" THEN call[c]
       ELSE [call[c] EXCEPT !.waits = FALSE, !.phase = IF InServe(c) THEN @ ELSE "done"]]
  /\ procs' = [procs EXCEPT ![a] = <<>>]
  /\ UNCHANGED <<daemon, service, ran>>

-----------------------------------------------------------------------------
(* The supervisor and the service process.                                    *)

(* What ends with these service processes.                                    *)
ServesEnd(gone) ==
  /\ alive' = alive \ gone
  /\ queue' = [s \in Services |-> IF s \in gone THEN <<>> ELSE queue[s]]
  /\ ctx' = [s \in Services |->
       IF s \in gone THEN [session |-> Serve, workspace |-> Serve] ELSE ctx[s]]
  /\ pending' = [s \in Services |-> IF s \in gone THEN {} ELSE pending[s]]
  /\ procs' = [h \in Hosts |-> IF h \in gone THEN <<>> ELSE procs[h]]
  /\ call' = [c \in Calls |->
       IF ~(InServe(c) /\ call[c].host \in gone) THEN call[c]
       ELSE [call[c] EXCEPT !.phase = "done", !.waits = FALSE,
                            !.result = IF call[c].waits THEN "failed" ELSE @]]

(* A service ends, and wsl.exe with what it ran.                              *)
Crash(s) ==
  /\ s \in alive /\ Spend("crashes", MaxCrashes)
  /\ ServesEnd({s})
  /\ clients' = clients \ {s}
  /\ UNCHANGED <<sup, registry, agent, ran>>

(* wsl.exe ends alone.                                                        *)
ClientEnds(s) ==
  /\ sup.wsl /\ s \in clients /\ Spend("crashes", MaxCrashes)
  /\ clients' = clients \ {s}
  /\ UNCHANGED <<alive, sup, registry, agent, call, service, procs, ran>>

ExitSeen == sup.child \notin clients

(* The watchdog: it sees the exit, waits, and starts another service unless   *)
(* the daemon stops.                                                          *)
Watch ==
  /\ sup.pc = "watch"
  /\ sup.stop \/ ExitSeen
  /\ sup' = [sup EXCEPT !.pc = IF sup.stop THEN "off" ELSE "backoff"]
  /\ UNCHANGED <<alive, clients, registry, agent, call, service, procs, ran, spent>>

TryStart ==
  /\ sup.pc = "backoff" /\ sup.next <= MaxServes
  /\ IF sup.stop
     THEN sup' = [sup EXCEPT !.pc = "off"] /\ UNCHANGED <<alive, clients>>
     ELSE /\ sup' = [sup EXCEPT !.pc = "starting", !.new = sup.next, !.next = @ + 1]
          /\ alive' = alive \cup {sup.next} /\ clients' = clients \cup {sup.next}
  /\ UNCHANGED <<registry, agent, call, service, procs, ran, spent>>

(* No READY, no health: the child is killed, and with it a local service.     *)
StartFails ==
  /\ sup.pc = "starting"
  /\ clients' = clients \ {sup.new}
  /\ alive' = IF sup.wsl THEN alive ELSE alive \ {sup.new}
  /\ sup' = [sup EXCEPT !.pc = "watch"]
  /\ UNCHANGED <<registry, agent, call, service, procs, ran, spent>>

(* Mutant: the connection is published before the registry has it.            *)
OnConnectionLate ==
  /\ sup.pc = "starting" /\ sup.new \in alive
  /\ sup' = [sup EXCEPT !.pc = "publish", !.conn = sup.new]
  /\ UNCHANGED <<alive, clients, registry, agent, call, service, procs, ran, spent>>

(* Ready and healthy: first the registry, then the connection, then the child.*)
OnConnection ==
  /\ sup.pc = "starting" /\ sup.new \in alive
  /\ registry' = sup.new
  /\ sup' = [sup EXCEPT !.pc = "publish"]
  /\ UNCHANGED <<alive, clients, agent, call, service, procs, ran, spent>>

Publish ==
  /\ sup.pc = "publish"
  /\ sup' = [sup EXCEPT !.pc = "keep", !.conn = sup.new]
  /\ UNCHANGED <<alive, clients, registry, agent, call, service, procs, ran, spent>>

KeepChild ==
  /\ sup.pc = "keep"
  /\ sup' = [sup EXCEPT !.pc = "watch", !.child = sup.new]
  /\ UNCHANGED <<alive, clients, registry, agent, call, service, procs, ran, spent>>

(* The daemon stops: it kills the child it has, be that the one that runs,    *)
(* and in WSL mode before that, if it can, every service of the distribution. *)
Stop ==
  /\ ~sup.stop
  /\ sup' = [sup EXCEPT !.stop = TRUE, !.child = 0]
  /\ \E gone \in IF sup.wsl /\ sup.child # 0 THEN {{}, alive} ELSE {{sup.child}} :
       ServesEnd(gone) /\ clients' = clients \ (gone \cup {sup.child})
  /\ UNCHANGED <<registry, agent, ran, spent>>

-----------------------------------------------------------------------------
Next ==
  \/ \E c \in Calls, id \in Ids : \E kind \in Kinds[c] : Call(c, kind, id)
  \/ \E c \in Calls :
       \/ TimeOut(c) \/ Receive(c)
       \/ Enqueue(c) \/ InlineBegins(c) \/ Admit(c) \/ Mismatch(c)
       \/ Edit(c) \/ Answer(c) \/ AnswerLocally(c)
       \/ Exec(c) \/ AttachChild(c) \/ PollExit(c) \/ PollCancel(c) \/ PollDeadline(c) \/ HandOff(c)
       \/ Check(c) \/ KillProcess(c)
  \/ \E s \in Services : WorkerBegins(s) \/ Crash(s) \/ ClientEnds(s)
  \/ \E h \in Hosts : \E id \in DOMAIN procs[h] :
       ChildExits(h, id) \/ ReaderEof(h, id) \/ ReaderReaps(h, id) \/ ReaderMarks(h, id)
  \/ \E a \in Agents : Cancel(a) \/ NextTurn(a) \/ AgentRestarts(a)
  \/ Watch \/ TryStart \/ StartFails \/ OnConnection \/ Publish \/ KeepChild \/ Stop

Spec == Init /\ [][Next]_vars

-----------------------------------------------------------------------------
(* The state has its types: what waits for the worker is in the queue once,   *)
(* each worker has one call at a time, and a call that is over is not waited  *)
(* for (serve.rs).                                                            *)
TypeOK ==
  /\ clients \subseteq alive /\ alive \subseteq Services
  /\ \A s \in Services :
       /\ Len(queue[s]) <= QueueSize /\ IsInjective(queue[s])
       /\ ToSet(queue[s]) = {c \in Calls : call[c].phase = "queued" /\ call[c].host = s}
       /\ Cardinality({c \in Calls : Working(c) /\ call[c].host = s}) <= 1
  /\ \A c \in Calls : call[c].waits => call[c].phase \notin {"idle", "done"}

(* No call runs twice, whatever times out or crashes: after a failure on the  *)
(* way nobody can tell whether the tool has run, and the call is not repeated *)
(* locally (backend.rs, HttpToolExecutionBackend::execute).                   *)
RunsAtMostOnce == \A c \in Calls : Len(ran[c]) <= 1

(* A tool that works on files or starts commands does so in the workspace of  *)
(* its own agent, also while calls of other agents come in between (serve.rs: *)
(* the inline calls do not set the workspace).                                *)
RunsInItsWorkspace ==
  \A c \in Calls : ~IsProcess(c) => \A p \in ToSet(ran[c]) : p.workspace = Owner[c]

(* The table of children does not lose one that runs: from the moment its     *)
(* handle is there it can be killed, and it is shown as running, whatever     *)
(* polls, readers and kills interleave; and the command of a call that was    *)
(* answered as completed or cancelled is over (process_registry.rs, exec.rs   *)
(* direct_exec).  The one exception is shown as killed and runs: a child that *)
(* was to be killed between its entry and its handle.                         *)
TableIsTrue ==
  \A h \in Hosts : \A p \in ToSet(procs[h]) :
    p.child = "running" =>
      /\ p.handle \/ call[p.by].phase = "spawned"
      /\ p.status = (IF p.early THEN "killed" ELSE "running")
      /\ call[p.by].answer \notin {"completed", "cancelled"}

(* The daemon has one child at a time, and where that is the service itself   *)
(* no other service runs, but for one that a failed attempt in WSL mode has   *)
(* left: the calls of a workspace run one after the other.  In WSL mode a     *)
(* service may outlive its wsl.exe and run beside the next one.  In either    *)
(* mode an agent that is started is given no older one than the supervisor    *)
(* shows, and the supervisor shows none before it is healthy                  *)
(* (workspace_supervisor.rs, watchdog: "先更新 registry，随后再暴露新进程").  *)
ServeIsCurrent ==
  /\ Cardinality(clients) <= 1
  /\ ~sup.wsl => alive \subseteq clients \cup sup.left
  /\ sup.child <= sup.conn /\ sup.conn <= registry
  /\ \A a \in Agents : agent[a].endpoint <= registry /\ agent[a].endpoint \notin sup.left
  /\ sup.pc = "starting" => registry < sup.new
=============================================================================
