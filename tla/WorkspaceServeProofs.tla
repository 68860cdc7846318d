------------------------- MODULE WorkspaceServeProofs -------------------------
(* Proofs about the workspace service (WorkspaceServe), for every number of   *)
(* agents, calls, services, crashes and restarts, in local and in WSL mode:   *)
(* no call runs twice, a tool that works on files runs in the workspace of    *)
(* its own agent, the table of children loses none that can be reached, and   *)
(* the children of the daemon are one after the other.                        *)
EXTENDS WorkspaceServe, FiniteSetTheorems, TLAPS

-----------------------------------------------------------------------------
(* The inductive invariant.                                                   *)

Phases == {"idle", "sent", "queued", "begun", "admitted", "spawned", "polling", "handing",
           "ran", "answered", "done"}
BeforeItRuns == {"idle", "sent", "queued", "begun", "admitted"}
InTheServiceOnly == {"sent", "queued", "begun", "answered"}
InTheTable == {"spawned", "polling", "handing"}

Answers == {"none", "mismatch", "ok", "completed", "cancelled", "backgrounded",
            "running", "exited", "killed", "not_found"}

CallRecord ==
  [phase : Phases, kind : ToolKinds \cup {"none"}, host : Hosts \cup {0}, waits : BOOLEAN,
   session : Bindings, workspace : Bindings, target : Nat, answer : Answers,
   delta : SUBSET Calls, result : Answers \cup {"failed"}]

ProcRecord ==
  [status : {"running", "exited", "killed"}, handle : BOOLEAN,
   child : {"running", "exited", "killed"}, handoff : BOOLEAN,
   reader : {"reading", "reap", "mark", "over"}, by : Calls, early : BOOLEAN]

PlaceRecord == [host : Hosts, workspace : Bindings]
CtxRecord == [session : Bindings, workspace : Bindings]
AgentRecord == [endpoint : Nat, cancel : BOOLEAN, known : SUBSET Calls]

SupRecord ==
  [pc : {"watch", "backoff", "starting", "publish", "keep", "off"},
   child : Nat, conn : Nat, new : Nat, next : Nat, stop : BOOLEAN,
   wsl : BOOLEAN, left : SUBSET Nat]

Shapes ==
  /\ alive \subseteq Nat /\ clients \subseteq Nat /\ sup \in SupRecord /\ registry \in Nat
  /\ agent \in [Agents -> AgentRecord]
  /\ call \in [Calls -> CallRecord]
  /\ queue \in [Services -> Seq(Calls)]
  /\ ctx \in [Services -> CtxRecord]
  /\ pending \in [Services -> SUBSET Calls]
  /\ procs \in [Hosts -> Seq(ProcRecord)]
  /\ ran \in [Calls -> Seq(PlaceRecord)]

(* What is true of one call, whatever the others do.                          *)
CallIsSound(c) ==
  /\ call[c].host \in Services \cup {Owner[c], 0}
  /\ call[c].host = 0 => call[c].phase \in {"idle", "done"}
  /\ call[c].phase \in InTheServiceOnly => call[c].host \in Services
  /\ call[c].waits => call[c].phase \notin {"idle", "done"}
  /\ call[c].phase \in BeforeItRuns \cup InTheTable => call[c].answer = "none"
  /\ call[c].phase \in BeforeItRuns => ran[c] = <<>>
  /\ ran[c] = <<>> \/ Len(ran[c]) = 1

CallsAreSound == \A c \in Calls : CallIsSound(c)

(* The queue of a service holds its calls that wait for the worker, each once.*)
QueueOf(s) ==
  /\ Len(queue[s]) <= QueueSize
  /\ \A i, j \in 1..Len(queue[s]) : queue[s][i] = queue[s][j] => i = j
  /\ \A i \in 1..Len(queue[s]) :
       /\ call[queue[s][i]].phase = "queued" /\ call[queue[s][i]].host = s
       /\ ~IsProcess(queue[s][i])
  /\ \A c \in Calls : call[c].phase = "queued" /\ call[c].host = s
       => \E i \in 1..Len(queue[s]) : queue[s][i] = c

QueueIsSound == \A s \in Services : QueueOf(s)

(* A worker has one call, and its workspace is the one that is set.           *)
WorkerIsBound ==
  \A c \in Calls : Working(c) =>
    /\ CtxOf(c).workspace = Owner[c]
    /\ \A d \in Calls : Working(d) /\ call[d].host = call[c].host => c = d

(* What an entry says of a child that runs.                                   *)
Shown(p) ==
  /\ p.status = (IF p.early THEN "killed" ELSE "running")
  /\ p.reader # "mark"

(* An entry of the table belongs to the call that started the child, and to   *)
(* no other; the thread that enters an exit has seen it; without a handle is  *)
(* only a child that its call is about to attach.                             *)
EntryIsSound(h, id) ==
  LET p == procs[h][id] IN
    /\ call[p.by].host = h /\ call[p.by].target = id
    /\ call[p.by].phase \notin BeforeItRuns
    /\ p.child = "running" =>
         /\ Shown(p)
         /\ p.handle \/ call[p.by].phase = "spawned"
         /\ call[p.by].answer \notin {"completed", "cancelled"}

TableIsSound ==
  /\ \A h \in Hosts : \A id \in 1..Len(procs[h]) : EntryIsSound(h, id)
  /\ \A c \in Calls : call[c].phase \in InTheTable =>
       call[c].target \in 1..Len(procs[call[c].host]) /\ ProcOf(c).by = c

(* Which children the daemon can have, by what the supervisor is about to do, *)
(* and which services can run.                                                *)
SupIsSound ==
  /\ sup.pc \in {"watch", "off"} => clients \subseteq {sup.child}
  /\ sup.pc = "backoff" => clients = {}
  /\ sup.pc \in {"starting", "publish", "keep"} => clients \subseteq {sup.new}
  /\ clients \subseteq alive /\ alive \subseteq Services
  /\ ~sup.wsl => alive \subseteq clients \cup sup.left
  /\ sup.child <= sup.conn /\ sup.conn <= registry /\ registry < sup.next
  /\ sup.pc = "starting" => registry < sup.new /\ sup.new < sup.next
  /\ sup.pc \in {"publish", "keep"} => sup.new = registry
  /\ sup.pc = "keep" => sup.conn = sup.new
  /\ \A a \in Agents : agent[a].endpoint <= registry /\ agent[a].endpoint \notin sup.left
  /\ \A s \in sup.left : s < registry
  /\ sup.next <= MaxServes + 1

IInv ==
  /\ Shapes
  /\ CallsAreSound
  /\ QueueIsSound
  /\ WorkerIsBound
  /\ RunsInItsWorkspace
  /\ TableIsSound
  /\ SupIsSound

-----------------------------------------------------------------------------
(* What most actions do: they move one call, and leave the others alone.      *)

Moves(c) ==
  /\ call' \in [Calls -> CallRecord]
  /\ \A d \in Calls \ {c} : call'[d] = call[d]
  /\ call'[c].kind = call[c].kind /\ call'[c].host = call[c].host

SameWorkspaces == \A s \in Services : ctx'[s].workspace = ctx[s].workspace

(* A service is no agent, and has a number above 0.                           *)
LEMMA Places ==
  /\ Services \subseteq Nat /\ 0 \notin Services /\ 0 \notin Agents
  /\ Services \cap Agents = {} /\ Serve \in Bindings
  /\ \A c \in Calls : Owner[c] \in Agents /\ Owner[c] \in Bindings
  /\ Hosts = Agents \cup Services
BY OwnerAssumption, ServeIsNoAgent, BoundsAssumption DEF Services, Bindings, Hosts

(* Where a call runs that is neither idle nor over.                           *)
LEMMA HostOf ==
  ASSUME IInv, NEW c \in Calls, call[c].phase \notin {"idle", "done"}
  PROVE  /\ call[c].host \in Hosts
         /\ call[c].host \in Services \/ call[c].host = Owner[c]
BY Places DEF IInv, CallsAreSound, CallIsSound

(* A call that is neither taken to the queue nor from it leaves the queue     *)
(* sound (serve.rs, handle_execute).                                          *)
LEMMA MovesQueue ==
  ASSUME IInv, NEW c \in Calls, Moves(c), UNCHANGED queue,
         call[c].phase = "queued" <=> call'[c].phase = "queued"
  PROVE  QueueIsSound'
<1>1. \A d \in Calls : /\ call'[d].kind = call[d].kind /\ call'[d].host = call[d].host
                       /\ (call[d].phase = "queued" <=> call'[d].phase = "queued")
  BY DEF Moves
<1>2. ASSUME NEW s \in Services, NEW i \in 1..Len(queue[s])
      PROVE  queue[s][i] \in Calls
  BY DEF IInv, Shapes
<1>3. QED
  BY <1>1, <1>2 DEF IInv, QueueIsSound, QueueOf, IsProcess

(* A call that does not become the worker's leaves the worker bound.          *)
LEMMA MovesWorker ==
  ASSUME IInv, NEW c \in Calls, Moves(c), SameWorkspaces,
         Working(c)' => Working(c)
  PROVE  WorkerIsBound'
<1>1. \A d \in Calls : (Working(d)' => Working(d)) /\ call'[d].host = call[d].host
  BY DEF Moves, Working, InServe, AtServe, IsProcess
<1>2. \A d \in Calls : Working(d) => call[d].host \in Services
  BY DEF Working, InServe, AtServe
<1>3. QED
  BY <1>1, <1>2 DEF IInv, WorkerIsBound, CtxOf, SameWorkspaces

(* The other calls stay what they are.                                        *)
LEMMA MovesCalls ==
  ASSUME IInv, NEW c \in Calls, Moves(c),
         \A d \in Calls \ {c} : ran'[d] = ran[d], CallIsSound(c)'
  PROVE  CallsAreSound'
<1>1. \A d \in Calls \ {c} : CallIsSound(d)'
  BY DEF IInv, CallsAreSound, CallIsSound, Moves
<1>2. QED
  BY <1>1 DEF CallsAreSound

(* An entry of the table has its types.                                       *)
LEMMA Entries ==
  ASSUME IInv
  PROVE  \A h \in Hosts : \A id \in 1..Len(procs[h]) :
           procs[h][id] \in ProcRecord /\ procs[h][id].by \in Calls
<1>1. \A h \in Hosts : \A id \in 1..Len(procs[h]) : procs[h][id] \in ProcRecord
  BY DEF IInv, Shapes
<1>2. QED
  BY <1>1 DEF ProcRecord

(* A call that starts no child leaves the table sound.                        *)
LEMMA MovesTable ==
  ASSUME IInv, NEW c \in Calls, Moves(c), UNCHANGED procs,
         call'[c].target = call[c].target,
         call'[c].phase \in BeforeItRuns => call[c].phase \in BeforeItRuns,
         call'[c].answer \in {"completed", "cancelled"} => call[c].answer = call'[c].answer,
         call'[c].phase \in InTheTable => call[c].phase \in InTheTable,
         call[c].phase = "spawned" => call'[c].phase = "spawned"
  PROVE  TableIsSound'
<1>1. ASSUME NEW h \in Hosts, NEW id \in 1..Len(procs[h])
      PROVE  EntryIsSound(h, id)'
  <2>1. procs[h][id].by \in Calls
    BY Entries
  <2>2. EntryIsSound(h, id)
    BY <1>1 DEF IInv, TableIsSound
  <2>3. QED
    BY <2>1, <2>2 DEF EntryIsSound, Moves
<1>2. ASSUME NEW d \in Calls, call'[d].phase \in InTheTable
      PROVE  call'[d].target \in 1..Len(procs'[call'[d].host]) /\ ProcOf(d)'.by = d
  BY <1>2 DEF ProcOf, IInv, TableIsSound, Moves
<1>3. QED
  BY <1>1, <1>2 DEF TableIsSound

(* The supervisor sees nothing of the calls.                                  *)
LEMMA SupKept ==
  ASSUME IInv, UNCHANGED daemon, \A a \in Agents : agent'[a].endpoint = agent[a].endpoint
  PROVE  SupIsSound'
BY DEF IInv, SupIsSound, daemon

(* A call that moves while it is neither before nor after the queue, in the   *)
(* service or in its agent: what is left to show of the action.               *)
LEMMA MoveKeeps ==
  ASSUME IInv, NEW c \in Calls, Moves(c), Shapes', UNCHANGED <<daemon, queue>>,
         \A a \in Agents : agent'[a].endpoint = agent[a].endpoint,
         SameWorkspaces,
         call[c].phase = "queued" <=> call'[c].phase = "queued", Working(c)' => Working(c),
         \A d \in Calls \ {c} : ran'[d] = ran[d],
         CallIsSound(c)', TableIsSound', RunsInItsWorkspace'
  PROVE  IInv'
<1>1. CallsAreSound' /\ QueueIsSound'
  BY MovesCalls, MovesQueue
<1>2. WorkerIsBound' /\ SupIsSound'
  BY MovesWorker, SupKept DEF daemon
<1>3. QED
  BY <1>1, <1>2 DEF IInv

(* A call that runs has not run, and runs where it may.                       *)
LEMMA RunsHere ==
  ASSUME IInv, NEW c \in Calls, call[c].phase = "admitted", StillBound(c), Runs(c), Moves(c)
  PROVE  /\ ran' \in [Calls -> Seq(PlaceRecord)]
         /\ \A d \in Calls \ {c} : ran'[d] = ran[d]
         /\ Len(ran'[c]) = 1
         /\ RunsInItsWorkspace'
<1>1. /\ ran \in [Calls -> Seq(PlaceRecord)]
      /\ ran[c] = <<>> /\ call[c].host \in Hosts
      /\ ctx \in [Services -> CtxRecord] /\ Owner[c] \in Bindings
  BY Places, HostOf DEF IInv, Shapes, CallsAreSound, CallIsSound, BeforeItRuns
<1>2. Place(c) \in PlaceRecord
  BY <1>1 DEF Place, PlaceRecord, AtServe, CtxOf, CtxRecord
<1>3. ~IsProcess(c) => Place(c).workspace = Owner[c]
  BY DEF IInv, WorkerIsBound, Working, InServe, AtServe, Place
<1>4. /\ ran' \in [Calls -> Seq(PlaceRecord)]
      /\ ran'[c] = <<Place(c)>>
      /\ \A d \in Calls \ {c} : ran'[d] = ran[d]
  BY <1>1, <1>2 DEF Runs
<1>5. ToSet(ran'[c]) = {Place(c)}
  BY <1>4 DEF ToSet
<1>6. \A d \in Calls : ~IsProcess(d)' => ~IsProcess(d)
  BY DEF Moves, IsProcess
<1>7. RunsInItsWorkspace'
  BY <1>3, <1>4, <1>5, <1>6 DEF IInv, RunsInItsWorkspace
<1>8. QED
  BY <1>4, <1>7

-----------------------------------------------------------------------------
(* The actions that move one call and leave the children alone.               *)

(* The agent gives up; the service may still work on the call.                 *)
LEMMA TimeOutKeeps ==
  ASSUME IInv, NEW c \in Calls, TimeOut(c)
  PROVE  IInv'
<1> DEFINE r == [call[c] EXCEPT !.waits = FALSE, !.result = "failed"]
<1>1. /\ call \in [Calls -> CallRecord] /\ call[c] \in CallRecord
      /\ ctx \in [Services -> CtxRecord]
      /\ pending \in [Services -> SUBSET Calls]
      /\ agent \in [Agents -> AgentRecord]
      /\ Owner[c] \in Agents /\ Serve \in Bindings /\ Owner[c] \in Bindings
  BY Places DEF IInv, Shapes
<1>2. /\ r \in CallRecord /\ r.waits = FALSE /\ r.result = "failed"
      /\ r.answer = call[c].answer /\ r.target = call[c].target /\ r.kind = call[c].kind
      /\ r.host = call[c].host /\ r.phase = call[c].phase
      /\ call[c].phase \notin {"idle", "done", "sent"}
  BY <1>1 DEF CallRecord, Phases, Answers, TimeOut, InServe, Failed
<1>3. /\ call' = [call EXCEPT ![c] = r]
      /\ UNCHANGED <<daemon, queue, procs, ran>>
      /\ pending' \in [Services -> SUBSET Calls]
      /\ ctx' \in [Services -> CtxRecord] /\ SameWorkspaces
      /\ agent' \in [Agents -> AgentRecord]
      /\ \A a \in Agents : agent'[a].endpoint = agent[a].endpoint
  BY <1>1 DEF SameWorkspaces, TimeOut, service, InServe, Failed
<1> HIDE DEF r
<1>4. Moves(c) /\ call'[c] = r
  BY <1>1, <1>2, <1>3 DEF Moves
<1>5. RunsInItsWorkspace'
  BY <1>3, <1>4 DEF IInv, RunsInItsWorkspace, IsProcess, Moves
<1>6. Shapes'
  BY <1>3, <1>4, <1>5 DEF IInv, Shapes, daemon, Moves
<1>7. CallIsSound(c)'
  BY <1>2, <1>3, <1>4, <1>5 DEF IInv, CallsAreSound, CallIsSound, BeforeItRuns, InTheServiceOnly, InTheTable
<1>8. TableIsSound'
  BY <1>2, <1>3, <1>4, MovesTable DEF BeforeItRuns, InTheTable
<1>9. Working(c)' => Working(c)
  BY <1>2, <1>4 DEF Working, InServe, AtServe, IsProcess, Moves
<1>10. QED
  BY <1>2, <1>3, <1>4, <1>5, <1>6, <1>7, <1>8, <1>9, MoveKeeps

(* A process call begins: it is not the worker's, and the workspace stays.     *)
LEMMA InlineBeginsKeeps ==
  ASSUME IInv, NEW c \in Calls, InlineBegins(c)
  PROVE  IInv'
<1> DEFINE r == [call[c] EXCEPT !.phase = "begun"]
<1>1. /\ call \in [Calls -> CallRecord] /\ call[c] \in CallRecord
      /\ ctx \in [Services -> CtxRecord]
      /\ pending \in [Services -> SUBSET Calls]
      /\ agent \in [Agents -> AgentRecord]
      /\ Owner[c] \in Agents /\ Serve \in Bindings /\ Owner[c] \in Bindings
  BY Places DEF IInv, Shapes
<1>2. /\ r \in CallRecord /\ r.phase = "begun"
      /\ r.answer = call[c].answer /\ r.target = call[c].target /\ r.kind = call[c].kind
      /\ r.host = call[c].host /\ r.waits = call[c].waits
      /\ call[c].phase = "sent" /\ IsProcess(c) /\ call[c].host \in Services
  BY <1>1 DEF CallRecord, Phases, InlineBegins, IInv, CallsAreSound, CallIsSound, InTheServiceOnly
<1>3. /\ call' = [call EXCEPT ![c] = r]
      /\ UNCHANGED <<daemon, queue, pending, procs, ran, agent>>
      /\ ctx' \in [Services -> CtxRecord] /\ SameWorkspaces
  <2>1. PICK s \in Services, new \in CtxRecord :
          /\ s = call[c].host /\ new = InlineContext(c) /\ new.workspace = ctx[s].workspace
    <3>1. PICK old \in CtxRecord : old = ctx[call[c].host]
      BY <1>1, <1>2
    <3>2. /\ [old EXCEPT !.session = Owner[c]] \in CtxRecord
          /\ [old EXCEPT !.session = Owner[c]].workspace = old.workspace
      BY <1>1 DEF CtxRecord
    <3>3. InlineContext(c) \in CtxRecord /\ InlineContext(c).workspace = ctx[call[c].host].workspace
      BY <3>1, <3>2 DEF InlineContext, CtxOf
    <3>4. QED
      BY <1>2, <3>3
  <2>2. ctx' = [ctx EXCEPT ![s] = new]
    BY <2>1 DEF InlineBegins
  <2>3. ctx' \in [Services -> CtxRecord] /\ SameWorkspaces
    BY <1>1, <2>1, <2>2 DEF SameWorkspaces
  <2>4. QED
    BY <1>1, <2>3 DEF InlineBegins, To
<1> HIDE DEF r
<1>4. Moves(c) /\ call'[c] = r
  BY <1>1, <1>2, <1>3 DEF Moves
<1>5. RunsInItsWorkspace'
  BY <1>3, <1>4 DEF IInv, RunsInItsWorkspace, IsProcess, Moves
<1>6. Shapes'
  BY <1>3, <1>4, <1>5 DEF IInv, Shapes, daemon, Moves
<1>7. CallIsSound(c)'
  BY <1>2, <1>3, <1>4, <1>5 DEF IInv, CallsAreSound, CallIsSound, BeforeItRuns, InTheServiceOnly, InTheTable
<1>8. TableIsSound'
  BY <1>2, <1>3, <1>4, MovesTable DEF BeforeItRuns, InTheTable
<1>9. Working(c)' => Working(c)
  BY <1>2, <1>4 DEF Working, InServe, AtServe, IsProcess, Moves
<1>10. QED
  BY <1>2, <1>3, <1>4, <1>5, <1>6, <1>7, <1>8, <1>9, MoveKeeps

(* The call is admitted.                                                       *)
LEMMA AdmitKeeps ==
  ASSUME IInv, NEW c \in Calls, Admit(c)
  PROVE  IInv'
<1> DEFINE r == [call[c] EXCEPT !.phase = "admitted", !.session = CtxOf(c).session,
                                !.workspace = CtxOf(c).workspace]
<1>1. /\ call \in [Calls -> CallRecord] /\ call[c] \in CallRecord
      /\ ctx \in [Services -> CtxRecord]
      /\ pending \in [Services -> SUBSET Calls]
      /\ agent \in [Agents -> AgentRecord]
      /\ Owner[c] \in Agents /\ Serve \in Bindings /\ Owner[c] \in Bindings
  BY Places DEF IInv, Shapes
<1>a. CtxOf(c) \in CtxRecord /\ call[c].host \in Services
  BY <1>1 DEF CtxOf, Admit, IInv, CallsAreSound, CallIsSound, InTheServiceOnly
<1>2. /\ r \in CallRecord /\ r.phase = "admitted"
      /\ r.answer = call[c].answer /\ r.target = call[c].target /\ r.kind = call[c].kind
      /\ r.host = call[c].host /\ r.waits = call[c].waits
      /\ call[c].phase = "begun"
  BY <1>1, <1>a DEF CallRecord, CtxRecord, Phases, Admit
<1>3. /\ call' = [call EXCEPT ![c] = r]
      /\ UNCHANGED <<daemon, queue, procs, ran>>
      /\ pending' \in [Services -> SUBSET Calls]
      /\ ctx' \in [Services -> CtxRecord] /\ SameWorkspaces
      /\ agent' \in [Agents -> AgentRecord]
      /\ \A a \in Agents : agent'[a].endpoint = agent[a].endpoint
  BY <1>1 DEF Admit, service, SameWorkspaces
<1> HIDE DEF r
<1>4. Moves(c) /\ call'[c] = r
  BY <1>1, <1>2, <1>3 DEF Moves
<1>5. RunsInItsWorkspace'
  BY <1>3, <1>4 DEF IInv, RunsInItsWorkspace, IsProcess, Moves
<1>6. Shapes'
  BY <1>3, <1>4, <1>5 DEF IInv, Shapes, daemon, Moves
<1>7. CallIsSound(c)'
  BY <1>2, <1>3, <1>4, <1>5 DEF IInv, CallsAreSound, CallIsSound, BeforeItRuns, InTheServiceOnly, InTheTable
<1>8. TableIsSound'
  BY <1>2, <1>3, <1>4, MovesTable DEF BeforeItRuns, InTheTable
<1>9. Working(c)' => Working(c)
  BY <1>2, <1>4 DEF Working, InServe, AtServe, IsProcess, Moves
<1>10. QED
  BY <1>2, <1>3, <1>4, <1>5, <1>6, <1>7, <1>8, <1>9, MoveKeeps

(* The call is refused: something else is set by then.                         *)
LEMMA MismatchKeeps ==
  ASSUME IInv, NEW c \in Calls, Mismatch(c)
  PROVE  IInv'
<1> DEFINE r == [call[c] EXCEPT !.phase = "ran", !.answer = "mismatch",
                                !.session = Serve, !.workspace = Serve]
<1>1. /\ call \in [Calls -> CallRecord] /\ call[c] \in CallRecord
      /\ ctx \in [Services -> CtxRecord]
      /\ pending \in [Services -> SUBSET Calls]
      /\ agent \in [Agents -> AgentRecord]
      /\ Owner[c] \in Agents /\ Serve \in Bindings /\ Owner[c] \in Bindings
  BY Places DEF IInv, Shapes
<1>2. /\ r \in CallRecord /\ r.phase = "ran" /\ r.answer = "mismatch"
      /\ r.session = Serve /\ r.workspace = Serve
      /\ r.target = call[c].target /\ r.kind = call[c].kind /\ r.host = call[c].host
      /\ r.waits = call[c].waits
      /\ call[c].phase = "admitted"
  BY <1>1 DEF CallRecord, Phases, Answers, Mismatch, Ended
<1>3. /\ call' = [call EXCEPT ![c] = r]
      /\ UNCHANGED <<daemon, queue, procs, ran>>
      /\ pending' \in [Services -> SUBSET Calls]
      /\ ctx' \in [Services -> CtxRecord] /\ SameWorkspaces
      /\ agent' \in [Agents -> AgentRecord]
      /\ \A a \in Agents : agent'[a].endpoint = agent[a].endpoint
  BY <1>1 DEF SameWorkspaces, Mismatch, service, Ended
<1> HIDE DEF r
<1>4. Moves(c) /\ call'[c] = r
  BY <1>1, <1>2, <1>3 DEF Moves
<1>5. RunsInItsWorkspace'
  BY <1>3, <1>4 DEF IInv, RunsInItsWorkspace, IsProcess, Moves
<1>6. Shapes'
  BY <1>3, <1>4, <1>5 DEF IInv, Shapes, daemon, Moves
<1>7. CallIsSound(c)'
  BY <1>2, <1>3, <1>4, <1>5 DEF IInv, CallsAreSound, CallIsSound, BeforeItRuns, InTheServiceOnly, InTheTable
<1>8. TableIsSound'
  BY <1>2, <1>3, <1>4, MovesTable DEF BeforeItRuns, InTheTable
<1>9. Working(c)' => Working(c)
  BY <1>2, <1>4 DEF Working, InServe, AtServe, IsProcess, Moves
<1>10. QED
  BY <1>2, <1>3, <1>4, <1>5, <1>6, <1>7, <1>8, <1>9, MoveKeeps

(* A tool changes a file.                                                      *)
LEMMA EditKeeps ==
  ASSUME IInv, NEW c \in Calls, Edit(c)
  PROVE  IInv'
<1> DEFINE r == [call[c] EXCEPT !.phase = "ran", !.answer = "ok",
                                !.session = Serve, !.workspace = Serve]
<1>1. /\ call \in [Calls -> CallRecord] /\ call[c] \in CallRecord
      /\ ctx \in [Services -> CtxRecord]
      /\ pending \in [Services -> SUBSET Calls]
      /\ agent \in [Agents -> AgentRecord]
      /\ Owner[c] \in Agents /\ Serve \in Bindings /\ Owner[c] \in Bindings
  BY Places DEF IInv, Shapes
<1>2. /\ r \in CallRecord /\ r.phase = "ran" /\ r.answer = "ok"
      /\ r.session = Serve /\ r.workspace = Serve
      /\ r.target = call[c].target /\ r.kind = call[c].kind /\ r.host = call[c].host
      /\ r.waits = call[c].waits
      /\ call[c].phase = "admitted" /\ StillBound(c) /\ Runs(c)
  BY <1>1 DEF CallRecord, Phases, Answers, Edit, Ended, MayRun
<1>3. /\ call' = [call EXCEPT ![c] = r]
      /\ UNCHANGED <<daemon, queue, procs>>
      /\ pending' \in [Services -> SUBSET Calls]
      /\ ctx' \in [Services -> CtxRecord] /\ SameWorkspaces
      /\ agent' \in [Agents -> AgentRecord]
      /\ \A a \in Agents : agent'[a].endpoint = agent[a].endpoint
  <2>1. /\ call' = [call EXCEPT ![c] = r]
        /\ UNCHANGED <<daemon, queue, ctx, procs>> /\ SameWorkspaces
    BY <1>1 DEF Edit, Ended, SameWorkspaces
  <2>2. CASE AtServe(c)
    <3>1. call[c].host \in Services BY <2>2 DEF AtServe
    <3>2. pending' = [pending EXCEPT ![call[c].host] = @ \cup {c}] /\ UNCHANGED agent
      BY <2>2 DEF Edit
    <3>3. pending' \in [Services -> SUBSET Calls]
      BY <1>1, <3>1, <3>2
    <3>4. QED BY <1>1, <2>1, <3>2, <3>3
  <2>3. CASE ~AtServe(c)
    <3>1. agent' = [agent EXCEPT ![Owner[c]].known = @ \cup {c}] /\ UNCHANGED pending
      BY <2>3 DEF Edit
    <3>2. \A a \in Agents : /\ agent'[a] \in AgentRecord
                            /\ agent'[a].endpoint = agent[a].endpoint
      BY <1>1, <3>1 DEF AgentRecord
    <3>3. QED
      BY <1>1, <2>1, <3>1, <3>2
  <2>4. QED
    BY <2>2, <2>3
<1> HIDE DEF r
<1>4. Moves(c) /\ call'[c] = r
  BY <1>1, <1>2, <1>3 DEF Moves
<1>5. /\ ran' \in [Calls -> Seq(PlaceRecord)]
      /\ \A d \in Calls \ {c} : ran'[d] = ran[d]
      /\ Len(ran'[c]) = 1
      /\ RunsInItsWorkspace'
  BY <1>2, <1>4, RunsHere DEF Edit, MayRun
<1>6. Shapes'
  BY <1>3, <1>4, <1>5 DEF IInv, Shapes, daemon, Moves
<1>7. CallIsSound(c)'
  BY <1>2, <1>3, <1>4, <1>5 DEF IInv, CallsAreSound, CallIsSound, BeforeItRuns, InTheServiceOnly, InTheTable
<1>8. TableIsSound'
  BY <1>2, <1>3, <1>4, MovesTable DEF BeforeItRuns, InTheTable
<1>9. Working(c)' => Working(c)
  BY <1>2, <1>4 DEF Working, InServe, AtServe, IsProcess, Moves
<1>10. QED
  BY <1>2, <1>3, <1>4, <1>5, <1>6, <1>7, <1>8, <1>9, MoveKeeps

(* The service answers.                                                        *)
LEMMA AnswerKeeps ==
  ASSUME IInv, NEW c \in Calls, Answer(c)
  PROVE  IInv'
<1> DEFINE r == [call[c] EXCEPT !.phase = "answered", !.delta = pending[call[c].host]]
<1>1. /\ call \in [Calls -> CallRecord] /\ call[c] \in CallRecord
      /\ ctx \in [Services -> CtxRecord]
      /\ pending \in [Services -> SUBSET Calls]
      /\ agent \in [Agents -> AgentRecord]
      /\ Owner[c] \in Agents /\ Serve \in Bindings /\ Owner[c] \in Bindings
  BY Places DEF IInv, Shapes
<1>2. /\ r \in CallRecord /\ r.phase = "answered"
      /\ r.answer = call[c].answer /\ r.target = call[c].target /\ r.kind = call[c].kind
      /\ r.host = call[c].host /\ r.waits = call[c].waits
      /\ call[c].phase = "ran" /\ call[c].host \in Services
  BY <1>1 DEF CallRecord, Phases, Answers, Answer, AtServe
<1>3. /\ call' = [call EXCEPT ![c] = r]
      /\ UNCHANGED <<daemon, queue, procs, ran>>
      /\ pending' \in [Services -> SUBSET Calls]
      /\ ctx' \in [Services -> CtxRecord] /\ SameWorkspaces
      /\ agent' \in [Agents -> AgentRecord]
      /\ \A a \in Agents : agent'[a].endpoint = agent[a].endpoint
  BY <1>1, <1>2 DEF SameWorkspaces, Answer, service, TakePending
<1> HIDE DEF r
<1>4. Moves(c) /\ call'[c] = r
  BY <1>1, <1>2, <1>3 DEF Moves
<1>5. RunsInItsWorkspace'
  BY <1>3, <1>4 DEF IInv, RunsInItsWorkspace, IsProcess, Moves
<1>6. Shapes'
  BY <1>3, <1>4, <1>5 DEF IInv, Shapes, daemon, Moves
<1>7. CallIsSound(c)'
  BY <1>2, <1>3, <1>4, <1>5 DEF IInv, CallsAreSound, CallIsSound, BeforeItRuns, InTheServiceOnly, InTheTable
<1>8. TableIsSound'
  BY <1>2, <1>3, <1>4, MovesTable DEF BeforeItRuns, InTheTable
<1>9. Working(c)' => Working(c)
  BY <1>2, <1>4 DEF Working, InServe, AtServe, IsProcess, Moves
<1>10. QED
  BY <1>2, <1>3, <1>4, <1>5, <1>6, <1>7, <1>8, <1>9, MoveKeeps

(* The agent has the answer of what it ran itself.                             *)
LEMMA AnswerLocallyKeeps ==
  ASSUME IInv, NEW c \in Calls, AnswerLocally(c)
  PROVE  IInv'
<1> DEFINE r == [call[c] EXCEPT !.phase = "done", !.waits = FALSE,
                                !.result = call[c].answer]
<1>1. /\ call \in [Calls -> CallRecord] /\ call[c] \in CallRecord
      /\ ctx \in [Services -> CtxRecord]
      /\ pending \in [Services -> SUBSET Calls]
      /\ agent \in [Agents -> AgentRecord]
      /\ Owner[c] \in Agents /\ Serve \in Bindings /\ Owner[c] \in Bindings
  BY Places DEF IInv, Shapes
<1>2. /\ r \in CallRecord /\ r.phase = "done" /\ r.waits = FALSE
      /\ r.result = call[c].answer
      /\ r.answer = call[c].answer /\ r.target = call[c].target /\ r.kind = call[c].kind
      /\ r.host = call[c].host
      /\ call[c].phase = "ran"
  BY <1>1 DEF CallRecord, Phases, Answers, AnswerLocally
<1>3. /\ call' = [call EXCEPT ![c] = r]
      /\ UNCHANGED <<daemon, queue, procs, ran>>
      /\ pending' \in [Services -> SUBSET Calls]
      /\ ctx' \in [Services -> CtxRecord] /\ SameWorkspaces
      /\ agent' \in [Agents -> AgentRecord]
      /\ \A a \in Agents : agent'[a].endpoint = agent[a].endpoint
  BY <1>1 DEF SameWorkspaces, AnswerLocally, service
<1> HIDE DEF r
<1>4. Moves(c) /\ call'[c] = r
  BY <1>1, <1>2, <1>3 DEF Moves
<1>5. RunsInItsWorkspace'
  BY <1>3, <1>4 DEF IInv, RunsInItsWorkspace, IsProcess, Moves
<1>6. Shapes'
  BY <1>3, <1>4, <1>5 DEF IInv, Shapes, daemon, Moves
<1>7. CallIsSound(c)'
  BY <1>2, <1>3, <1>4, <1>5 DEF IInv, CallsAreSound, CallIsSound, BeforeItRuns, InTheServiceOnly, InTheTable
<1>8. TableIsSound'
  BY <1>2, <1>3, <1>4, MovesTable DEF BeforeItRuns, InTheTable
<1>9. Working(c)' => Working(c)
  BY <1>2, <1>4 DEF Working, InServe, AtServe, IsProcess, Moves
<1>10. QED
  BY <1>2, <1>3, <1>4, <1>5, <1>6, <1>7, <1>8, <1>9, MoveKeeps

(* The call ends before the child.                                             *)
LEMMA PollDeadlineKeeps ==
  ASSUME IInv, NEW c \in Calls, PollDeadline(c)
  PROVE  IInv'
<1> DEFINE r == [call[c] EXCEPT !.phase = "handing"]
<1>1. /\ call \in [Calls -> CallRecord] /\ call[c] \in CallRecord
      /\ ctx \in [Services -> CtxRecord]
      /\ pending \in [Services -> SUBSET Calls]
      /\ agent \in [Agents -> AgentRecord]
      /\ Owner[c] \in Agents /\ Serve \in Bindings /\ Owner[c] \in Bindings
  BY Places DEF IInv, Shapes
<1>2. /\ r \in CallRecord /\ r.phase = "handing"
      /\ r.answer = call[c].answer /\ r.target = call[c].target /\ r.kind = call[c].kind
      /\ r.host = call[c].host /\ r.waits = call[c].waits
      /\ call[c].phase = "polling"
  BY <1>1 DEF CallRecord, Phases, Answers, PollDeadline, To
<1>3. /\ call' = [call EXCEPT ![c] = r]
      /\ UNCHANGED <<daemon, queue, procs, ran>>
      /\ pending' \in [Services -> SUBSET Calls]
      /\ ctx' \in [Services -> CtxRecord] /\ SameWorkspaces
      /\ agent' \in [Agents -> AgentRecord]
      /\ \A a \in Agents : agent'[a].endpoint = agent[a].endpoint
  BY <1>1 DEF SameWorkspaces, PollDeadline, service, To
<1> HIDE DEF r
<1>4. Moves(c) /\ call'[c] = r
  BY <1>1, <1>2, <1>3 DEF Moves
<1>5. RunsInItsWorkspace'
  BY <1>3, <1>4 DEF IInv, RunsInItsWorkspace, IsProcess, Moves
<1>6. Shapes'
  BY <1>3, <1>4, <1>5 DEF IInv, Shapes, daemon, Moves
<1>7. CallIsSound(c)'
  BY <1>2, <1>3, <1>4, <1>5 DEF IInv, CallsAreSound, CallIsSound, BeforeItRuns, InTheServiceOnly, InTheTable
<1>8. TableIsSound'
  BY <1>2, <1>3, <1>4, MovesTable DEF BeforeItRuns, InTheTable
<1>9. Working(c)' => Working(c)
  BY <1>2, <1>4 DEF Working, InServe, AtServe, IsProcess, Moves
<1>10. QED
  BY <1>2, <1>3, <1>4, <1>5, <1>6, <1>7, <1>8, <1>9, MoveKeeps

(* The agent takes the answer, if it still waits for it.                      *)
LEMMA ReceiveKeeps ==
  ASSUME IInv, NEW c \in Calls, Receive(c)
  PROVE  IInv'
<1> DEFINE r == IF call[c].waits
                THEN [call[c] EXCEPT !.phase = "done", !.waits = FALSE, !.result = call[c].answer]
                ELSE [call[c] EXCEPT !.phase = "done"]
           known == [agent EXCEPT ![Owner[c]].known = @ \cup call[c].delta]
<1>1. /\ call \in [Calls -> CallRecord] /\ call[c] \in CallRecord
      /\ agent \in [Agents -> AgentRecord]
      /\ Owner[c] \in Agents /\ Serve \in Bindings /\ Owner[c] \in Bindings
  BY Places DEF IInv, Shapes
<1>2. /\ r \in CallRecord /\ r.phase = "done" /\ (r.waits => call[c].waits /\ FALSE)
      /\ r.answer = call[c].answer /\ r.target = call[c].target
      /\ r.kind = call[c].kind /\ r.host = call[c].host
      /\ call[c].phase = "answered" /\ call[c].delta \subseteq Calls
  BY <1>1 DEF CallRecord, Phases, Answers, Receive
<1>3. /\ call' = [call EXCEPT ![c] = r]
      /\ UNCHANGED <<daemon, queue, ctx, pending, procs, ran>> /\ SameWorkspaces
      /\ agent' \in {agent, known}
  <2>1. CASE call[c].waits BY <1>1, <2>1 DEF Receive, service, SameWorkspaces
  <2>2. CASE ~call[c].waits BY <1>1, <2>2 DEF Receive, To, service, SameWorkspaces
  <2>3. QED BY <2>1, <2>2
<1>4. /\ agent' \in [Agents -> AgentRecord]
      /\ \A a \in Agents : agent'[a].endpoint = agent[a].endpoint
  <2>1. \A a \in Agents : /\ known[a] \in AgentRecord
                          /\ known[a].endpoint = agent[a].endpoint
    BY <1>1, <1>2 DEF AgentRecord
  <2>2. QED BY <1>1, <1>3, <2>1
<1> HIDE DEF r, known
<1>5. Moves(c) /\ call'[c] = r
  BY <1>1, <1>2, <1>3 DEF Moves
<1>6. RunsInItsWorkspace'
  BY <1>3, <1>5 DEF IInv, RunsInItsWorkspace, IsProcess, Moves
<1>7. Shapes'
  BY <1>3, <1>4, <1>5 DEF IInv, Shapes, daemon, Moves
<1>8. CallIsSound(c)'
  BY <1>2, <1>3, <1>5 DEF IInv, CallsAreSound, CallIsSound, BeforeItRuns, InTheServiceOnly, InTheTable
<1>9. TableIsSound'
  BY <1>2, <1>3, <1>5, MovesTable DEF BeforeItRuns, InTheTable
<1>10. ~Working(c)'
  BY <1>2, <1>5 DEF Working, InServe
<1>11. QED
  BY <1>2, <1>3, <1>4, <1>5, <1>6, <1>7, <1>8, <1>9, <1>10, MoveKeeps

-----------------------------------------------------------------------------
(* The actions that change the table of children.                             *)

(* An entry of the table is replaced.                                         *)
LEMMA Replaced ==
  ASSUME IInv, NEW h \in Hosts, NEW id \in 1..Len(procs[h]), NEW p \in ProcRecord,
         SetProc(h, id, p)
  PROVE  /\ procs' \in [Hosts -> Seq(ProcRecord)]
         /\ \A g \in Hosts : Len(procs'[g]) = Len(procs[g])
         /\ \A g \in Hosts : \A j \in 1..Len(procs[g]) :
              procs'[g][j] = IF g = h /\ j = id THEN p ELSE procs[g][j]
<1>1. procs \in [Hosts -> Seq(ProcRecord)]
  BY DEF IInv, Shapes
<1>2. /\ procs' = [procs EXCEPT ![h] = [procs[h] EXCEPT ![id] = p]]
      /\ [procs[h] EXCEPT ![id] = p] \in Seq(ProcRecord)
      /\ Len([procs[h] EXCEPT ![id] = p]) = Len(procs[h])
  BY <1>1 DEF SetProc
<1>3. QED
  BY <1>1, <1>2

(* What an entry may become: a child that has ended does not run again, and   *)
(* what runs is shown.                                                        *)
MayBecome(h, id, p) ==
  /\ p \in ProcRecord /\ p.by = procs[h][id].by
  /\ p.child = "running" =>
       /\ procs[h][id].child = "running" /\ Shown(p)
       /\ procs[h][id].handle => p.handle

(* A call that changes an entry leaves the table sound, if it says that a     *)
(* command is over only of its own, and of one that does not run.             *)
LEMMA EntryMoves ==
  ASSUME IInv, NEW c \in Calls, Moves(c), NEW h \in Hosts, NEW id \in 1..Len(procs[h]),
         NEW p, MayBecome(h, id, p), SetProc(h, id, p),
         call'[c].target = call[c].target, call'[c].phase \notin BeforeItRuns,
         call'[c].phase \in InTheTable => call[c].phase \in InTheTable,
         call[c].phase = "spawned" => h = call[c].host /\ id = call[c].target /\ p.handle,
         call'[c].answer \in {"completed", "cancelled"} =>
           /\ call[c].phase \in InTheTable
           /\ h = call[c].host /\ id = call[c].target /\ p.child # "running"
  PROVE  TableIsSound' /\ procs' \in [Hosts -> Seq(ProcRecord)]
<1>1. /\ procs' \in [Hosts -> Seq(ProcRecord)]
      /\ \A g \in Hosts : Len(procs'[g]) = Len(procs[g])
      /\ \A g \in Hosts : \A j \in 1..Len(procs[g]) :
           procs'[g][j] = IF g = h /\ j = id THEN p ELSE procs[g][j]
  BY Replaced DEF MayBecome
<1>2. ASSUME NEW g \in Hosts, NEW j \in 1..Len(procs'[g])
      PROVE  EntryIsSound(g, j)'
  <2>1. j \in 1..Len(procs[g])
    BY <1>1
  <2>2. procs[g][j].by \in Calls /\ procs'[g][j].by = procs[g][j].by
    BY <1>1, <2>1, Entries DEF MayBecome
  <2>3. EntryIsSound(g, j)
    BY <2>1 DEF IInv, TableIsSound
  <2>4. procs'[g][j].child = "running" =>
          /\ procs[g][j].child = "running" /\ Shown(procs'[g][j])
          /\ procs[g][j].handle => procs'[g][j].handle
    BY <1>1, <2>1, <2>3 DEF EntryIsSound, MayBecome
  <2>5. ASSUME procs'[g][j].child = "running"
        PROVE  /\ procs'[g][j].handle \/ call'[procs[g][j].by].phase = "spawned"
               /\ call'[procs[g][j].by].answer \notin {"completed", "cancelled"}
    <3>1. CASE procs[g][j].by = c
      <4>1. call[c].host = g /\ call[c].target = j
        BY <2>3, <3>1 DEF EntryIsSound
      <4>2. CASE call[c].phase = "spawned"
        BY <1>1, <2>1, <2>5, <3>1, <4>1, <4>2
      <4>3. CASE call[c].phase # "spawned"
        BY <1>1, <2>1, <2>3, <2>4, <2>5, <3>1, <4>1, <4>3 DEF EntryIsSound
      <4>4. QED BY <4>2, <4>3
    <3>2. CASE procs[g][j].by # c
      <4>1. call'[procs[g][j].by] = call[procs[g][j].by]
        BY <2>2, <3>2 DEF Moves
      <4>2. QED BY <2>3, <2>4, <2>5, <4>1 DEF EntryIsSound
    <3>3. QED BY <3>1, <3>2
  <2>6. /\ call'[procs[g][j].by].host = g /\ call'[procs[g][j].by].target = j
        /\ call'[procs[g][j].by].phase \notin BeforeItRuns
    BY <2>2, <2>3 DEF EntryIsSound, Moves
  <2>7. QED
    BY <2>2, <2>4, <2>5, <2>6 DEF EntryIsSound
<1>3. ASSUME NEW d \in Calls, call'[d].phase \in InTheTable
      PROVE  call'[d].target \in 1..Len(procs'[call'[d].host]) /\ ProcOf(d)'.by = d
  <2>1. /\ call'[d].target = call[d].target /\ call'[d].host = call[d].host
        /\ call[d].phase \in InTheTable
    BY <1>3 DEF Moves
  <2>2. call[d].target \in 1..Len(procs[call[d].host]) /\ ProcOf(d).by = d
    BY <2>1 DEF IInv, TableIsSound
  <2>3. call[d].host \in Hosts
    BY <2>1, HostOf DEF InTheTable
  <2>4. QED
    BY <1>1, <2>1, <2>2, <2>3 DEF ProcOf, MayBecome
<1>4. QED
  BY <1>1, <1>2, <1>3 DEF TableIsSound

(* Reader and child: the same without a call.                                 *)
LEMMA ChildMoves ==
  ASSUME IInv, NEW h \in Hosts, NEW id \in 1..Len(procs[h]),
         NEW p, MayBecome(h, id, p), SetProc(h, id, p),
         UNCHANGED <<daemon, agent, call, service, ran, spent>>
  PROVE  IInv'
<1>1. /\ procs' \in [Hosts -> Seq(ProcRecord)]
      /\ \A g \in Hosts : Len(procs'[g]) = Len(procs[g])
      /\ \A g \in Hosts : \A j \in 1..Len(procs[g]) :
           procs'[g][j] = IF g = h /\ j = id THEN p ELSE procs[g][j]
  BY Replaced DEF MayBecome
<1>2. ASSUME NEW g \in Hosts, NEW j \in 1..Len(procs'[g])
      PROVE  EntryIsSound(g, j)'
  <2>1. j \in 1..Len(procs[g]) /\ EntryIsSound(g, j) /\ procs[g][j].by \in Calls
    BY <1>1, <1>2, Entries DEF IInv, TableIsSound
  <2>2. /\ procs'[g][j].by = procs[g][j].by
        /\ procs'[g][j].child = "running" =>
             /\ procs[g][j].child = "running" /\ Shown(procs'[g][j])
             /\ procs[g][j].handle => procs'[g][j].handle
    BY <1>1, <2>1 DEF EntryIsSound, MayBecome
  <2>3. QED
    BY <2>1, <2>2 DEF EntryIsSound
<1>3. ASSUME NEW d \in Calls, call'[d].phase \in InTheTable
      PROVE  call'[d].target \in 1..Len(procs'[call'[d].host]) /\ ProcOf(d)'.by = d
  <2>1. call[d].target \in 1..Len(procs[call[d].host]) /\ ProcOf(d).by = d
    BY <1>3 DEF IInv, TableIsSound
  <2>2. call[d].host \in Hosts
    BY <1>3, HostOf DEF InTheTable
  <2>3. QED
    BY <1>1, <2>1, <2>2 DEF ProcOf, MayBecome
<1>4. TableIsSound'
  BY <1>2, <1>3 DEF TableIsSound
<1>5. Shapes'
  BY <1>1 DEF IInv, Shapes, daemon, service
<1>6. CallsAreSound' /\ QueueIsSound' /\ RunsInItsWorkspace'
  BY DEF IInv, CallsAreSound, CallIsSound, QueueIsSound, QueueOf, RunsInItsWorkspace, IsProcess, service
<1>7. WorkerIsBound' /\ SupIsSound'
  BY DEF IInv, WorkerIsBound, Working, InServe, AtServe, IsProcess, CtxOf, SupIsSound, service, daemon
<1>8. QED
  BY <1>4, <1>5, <1>6, <1>7 DEF IInv

(* A child that ends is still shown as running until somebody looks.          *)
LEMMA ChildExitsKeeps ==
  ASSUME IInv, NEW h \in Hosts, NEW id \in DOMAIN procs[h], ChildExits(h, id)
  PROVE  IInv'
<1> DEFINE p == [procs[h][id] EXCEPT !.child = "exited"]
<1>1. /\ id \in 1..Len(procs[h]) /\ procs[h][id] \in ProcRecord
  BY Entries DEF IInv, Shapes
<1>2. MayBecome(h, id, p)
  BY <1>1 DEF MayBecome, Shown, ProcRecord
<1>3. QED
  BY <1>1, <1>2, ChildMoves DEF ChildExits

(* The end of the output is not taken for the end of the child.               *)
LEMMA ReaderEofKeeps ==
  ASSUME IInv, NEW h \in Hosts, NEW id \in DOMAIN procs[h], ReaderEof(h, id)
  PROVE  IInv'
<1> DEFINE p == [procs[h][id] EXCEPT !.reader = IF procs[h][id].handoff THEN "reap" ELSE "over"]
<1>1. /\ id \in 1..Len(procs[h]) /\ procs[h][id] \in ProcRecord
  BY Entries DEF IInv, Shapes
<1>2. EntryIsSound(h, id)
  BY <1>1 DEF IInv, TableIsSound
<1>3. MayBecome(h, id, p)
  BY <1>1, <1>2 DEF MayBecome, Shown, ProcRecord, EntryIsSound
<1>4. QED
  BY <1>1, <1>3, ChildMoves DEF ReaderEof

(* The reader of a child left to itself enters only an exit it has seen.      *)
LEMMA ReaderReapsKeeps ==
  ASSUME IInv, NEW h \in Hosts, NEW id \in DOMAIN procs[h], ReaderReaps(h, id)
  PROVE  IInv'
<1> DEFINE p == Seen(TryWait(procs[h][id]))
<1>1. /\ id \in 1..Len(procs[h]) /\ procs[h][id] \in ProcRecord
  BY Entries DEF IInv, Shapes
<1>2. EntryIsSound(h, id)
  BY <1>1 DEF IInv, TableIsSound
<1>3. MayBecome(h, id, p)
  BY <1>1, <1>2 DEF MayBecome, Shown, ProcRecord, EntryIsSound, Seen, TryWait
<1>4. QED
  BY <1>1, <1>3, ChildMoves DEF ReaderReaps

(* Who marks an exit has seen it, so the child is over.                       *)
LEMMA ReaderMarksKeeps ==
  ASSUME IInv, NEW h \in Hosts, NEW id \in DOMAIN procs[h], ReaderMarks(h, id)
  PROVE  IInv'
<1> DEFINE p == [MarkExited(procs[h][id]) EXCEPT !.reader = "over"]
<1>1. /\ id \in 1..Len(procs[h]) /\ procs[h][id] \in ProcRecord
  BY Entries DEF IInv, Shapes
<1>2. EntryIsSound(h, id)
  BY <1>1 DEF IInv, TableIsSound
<1>3. procs[h][id].reader = "mark" /\ SetProc(h, id, p)
  BY DEF ReaderMarks
<1>4. MayBecome(h, id, p)
  BY <1>1, <1>2, <1>3 DEF MayBecome, Shown, ProcRecord, EntryIsSound, MarkExited
<1>5. QED
  BY <1>1, <1>3, <1>4, ChildMoves DEF ReaderMarks

(* The child of a call that polls is in the table, and it is its own.         *)
LEMMA PolledEntry ==
  ASSUME IInv, NEW c \in Calls, call[c].phase \in InTheTable
  PROVE  /\ call[c].host \in Hosts /\ call[c].target \in 1..Len(procs[call[c].host])
         /\ ProcOf(c) \in ProcRecord
         /\ EntryIsSound(call[c].host, call[c].target) /\ ProcOf(c).by = c
         /\ ProcOf(c).child = "running" =>
              Shown(ProcOf(c)) /\ (call[c].phase # "spawned" => ProcOf(c).handle)
<1>1. call[c].host \in Hosts
  BY HostOf DEF InTheTable
<1>2. call[c].target \in 1..Len(procs[call[c].host])
  BY DEF IInv, TableIsSound
<1>3. /\ ProcOf(c) \in ProcRecord /\ EntryIsSound(call[c].host, call[c].target)
      /\ ProcOf(c).by = c
  BY <1>1, <1>2, Entries DEF IInv, TableIsSound, ProcOf
<1>4. QED
  BY <1>1, <1>2, <1>3 DEF ProcOf, EntryIsSound

(* The poll of a call ends, and the call with it.                             *)
LEMMA PollEnds ==
  ASSUME IInv, NEW c \in Calls, NEW p, NEW answer \in Answers,
         call[c].phase \in {"polling", "handing"},
         MayBecome(call[c].host, call[c].target, p), SetProc(call[c].host, call[c].target, p),
         answer \in {"completed", "cancelled"} => p.child # "running",
         call' = Ended(c, answer), UNCHANGED <<daemon, agent, service, ran, spent>>
  PROVE  IInv'
<1> DEFINE r == [call[c] EXCEPT !.phase = "ran", !.answer = answer,
                                !.session = Serve, !.workspace = Serve]
<1>1. /\ call \in [Calls -> CallRecord] /\ call[c] \in CallRecord
  BY DEF IInv, Shapes
<1>2. /\ r \in CallRecord /\ r.phase = "ran" /\ r.answer = answer
      /\ r.target = call[c].target /\ r.kind = call[c].kind /\ r.host = call[c].host
      /\ r.waits = call[c].waits
  BY <1>1 DEF CallRecord, Phases, Bindings
<1>3. call' = [call EXCEPT ![c] = r]
  BY <1>1 DEF Ended
<1> HIDE DEF r
<1>4. Moves(c) /\ call'[c] = r
  BY <1>1, <1>2, <1>3 DEF Moves
<1>5. RunsInItsWorkspace'
  BY <1>4 DEF IInv, RunsInItsWorkspace, IsProcess, Moves
<1>6. TableIsSound' /\ procs' \in [Hosts -> Seq(ProcRecord)]
  <2>1. /\ call[c].phase \in InTheTable /\ call[c].phase # "spawned"
        /\ call'[c].phase \notin BeforeItRuns \cup InTheTable
        /\ call'[c].target = call[c].target /\ call'[c].answer = answer
    BY <1>2, <1>4 DEF BeforeItRuns, InTheTable
  <2>2. call[c].host \in Hosts /\ call[c].target \in 1..Len(procs[call[c].host])
    BY <2>1, PolledEntry
  <2>3. QED
    BY <1>4, <2>1, <2>2, EntryMoves
<1>7. Shapes'
  BY <1>4, <1>6 DEF IInv, Shapes, daemon, service, Moves
<1>7a. UNCHANGED <<queue, ctx>> /\ SameWorkspaces
  BY DEF service, SameWorkspaces
<1>8. CallIsSound(c)'
  BY <1>2, <1>4 DEF IInv, CallsAreSound, CallIsSound, BeforeItRuns, InTheServiceOnly, InTheTable
<1>9. Working(c)' => Working(c)
  BY <1>2, <1>4 DEF Working, InServe, AtServe, IsProcess, Moves
<1>10. QED
  BY <1>2, <1>4, <1>5, <1>6, <1>7, <1>7a, <1>8, <1>9, MoveKeeps

(* A look at an entry says nothing else than the child does.                  *)
LEMMA LookedEntry ==
  ASSUME NEW p \in ProcRecord
  PROVE  /\ Looked(p) \in ProcRecord /\ Looked(p).by = p.by
         /\ Looked(p).child = p.child /\ Looked(p).reader = p.reader
         /\ p.child = "running" => Looked(p) = p
<1>1. CASE p.status = "running" /\ p.handle /\ p.child # "running"
  BY <1>1 DEF Looked, TryWait, ProcRecord
<1>2. CASE ~(p.status = "running" /\ p.handle /\ p.child # "running")
  BY <1>2 DEF Looked, TryWait
<1>3. QED
  BY <1>1, <1>2

(* What is done to an entry keeps who it is of.                               *)
LEMMA MarkedEntry ==
  ASSUME NEW p \in ProcRecord
  PROVE  /\ MarkExited(p) \in ProcRecord /\ MarkExited(p).by = p.by
         /\ MarkExited(p).child = p.child
  BY DEF MarkExited, ProcRecord

LEMMA KilledEntry ==
  ASSUME NEW p \in ProcRecord, p.child = "running" => Shown(p)
  PROVE  /\ Kill(p) \in ProcRecord /\ Kill(p).by = p.by
         /\ Kill(p).child = "running" => p.child = "running" /\ ~p.handle /\ Shown(Kill(p))
<1>1. PICK early \in BOOLEAN, child \in {"running", "exited", "killed"} :
        /\ early = (p.early \/ (p.status = "running" /\ ~p.handle))
        /\ child = IF p.handle /\ p.child = "running" THEN "killed" ELSE p.child
        /\ Kill(p) = [p EXCEPT !.status = "killed", !.handle = FALSE, !.child = child,
                               !.early = early]
  BY DEF Kill, ProcRecord
<1>2. /\ Kill(p) \in ProcRecord /\ Kill(p).by = p.by /\ Kill(p).child = child
      /\ Kill(p).status = "killed" /\ Kill(p).early = early /\ Kill(p).reader = p.reader
  BY <1>1 DEF ProcRecord
<1>3. ASSUME child = "running"
      PROVE  p.child = "running" /\ ~p.handle /\ early /\ p.reader # "mark"
  <2>1. p.child = "running" /\ ~p.handle
    BY <1>1, <1>3
  <2>2. p.status = (IF p.early THEN "killed" ELSE "running") /\ p.reader # "mark"
    BY <2>1 DEF Shown
  <2>3. QED
    BY <1>1, <2>1, <2>2
<1>4. QED
  BY <1>2, <1>3 DEF Shown

LEMMA HandedEntry ==
  ASSUME NEW p \in ProcRecord
  PROVE  LET q == [p EXCEPT !.handoff = TRUE]
         IN  /\ q \in ProcRecord /\ q.by = p.by /\ q.child = p.child /\ q.early = p.early
             /\ q.status = p.status /\ q.handle = p.handle /\ q.reader = p.reader
  BY DEF ProcRecord

LEMMA AttachedEntry ==
  ASSUME NEW p \in ProcRecord
  PROVE  LET q == [p EXCEPT !.handle = TRUE]
         IN  /\ q \in ProcRecord /\ q.by = p.by /\ q.child = p.child /\ q.early = p.early
             /\ q.status = p.status /\ q.handle /\ q.reader = p.reader
  BY DEF ProcRecord

(* What a kill makes of an entry is one that the call may leave.              *)
LEMMA KillLeaves ==
  ASSUME NEW h, NEW id, procs[h][id] \in ProcRecord,
         procs[h][id].child = "running" => Shown(procs[h][id])
  PROVE  MayBecome(h, id, Kill(procs[h][id]))
<1>1. PICK p \in ProcRecord : p = procs[h][id] /\ (p.child = "running" => Shown(p))
  OBVIOUS
<1>2. PICK r \in ProcRecord :
        /\ r = Kill(p) /\ r.by = p.by
        /\ r.child = "running" => p.child = "running" /\ ~p.handle /\ Shown(r)
  BY <1>1, KilledEntry
<1>3. MayBecome(h, id, r)
  BY <1>1, <1>2 DEF MayBecome
<1>4. QED BY <1>1, <1>2, <1>3

(* An entry may become any record of its call that is not said to run.        *)
LEMMA EndedEntry ==
  ASSUME NEW h, NEW id, NEW r \in ProcRecord, r.by = procs[h][id].by, r.child # "running"
  PROVE  MayBecome(h, id, r)
  BY DEF MayBecome

(* A command is answered as completed when the child has ended.               *)
LEMMA PollExitKeeps ==
  ASSUME IInv, NEW c \in Calls, PollExit(c)
  PROVE  IInv'
<1>1. /\ call[c].phase = "polling" /\ TryWait(ProcOf(c)).status = "exited"
      /\ SetProc(call[c].host, call[c].target, MarkExited(TryWait(ProcOf(c))))
      /\ call' = Ended(c, "completed") /\ UNCHANGED <<daemon, agent, service, ran, spent>>
  BY DEF PollExit
<1>2. /\ MayBecome(call[c].host, call[c].target, MarkExited(TryWait(ProcOf(c))))
      /\ MarkExited(TryWait(ProcOf(c))).child # "running"
  <2>1. PICK p \in ProcRecord : /\ p = ProcOf(c)
                                /\ p.child = "running" => p.status # "exited"
    BY <1>1, PolledEntry DEF Shown, InTheTable
  <2>2. PICK q \in ProcRecord : /\ q = TryWait(p) /\ q.by = p.by /\ q.child = p.child
                                /\ p.child = "running" => q = p
    BY LookedEntry DEF Looked
  <2>3. q.status = "exited"
    BY <1>1, <2>1, <2>2
  <2>4. q.child # "running"
    BY <2>1, <2>2, <2>3
  <2>5. PICK r \in ProcRecord : r = MarkExited(q) /\ r.by = q.by /\ r.child = q.child
    BY MarkedEntry
  <2>6. r = MarkExited(TryWait(ProcOf(c)))
    BY <2>1, <2>2, <2>5
  <2>7. r.by = procs[call[c].host][call[c].target].by /\ r.child # "running"
    BY <2>1, <2>2, <2>4, <2>5 DEF ProcOf
  <2>8. MayBecome(call[c].host, call[c].target, r)
    BY <2>7, EndedEntry
  <2> QED BY <2>6, <2>7, <2>8
<1>3. QED
  BY <1>1, <1>2, PollEnds DEF Answers

(* A command is answered as cancelled when the child was killed.              *)
LEMMA PollCancelKeeps ==
  ASSUME IInv, NEW c \in Calls, PollCancel(c)
  PROVE  IInv'
<1>1. /\ call[c].phase = "polling"
      /\ SetProc(call[c].host, call[c].target, Kill(ProcOf(c)))
      /\ call' = Ended(c, "cancelled") /\ UNCHANGED <<daemon, agent, service, ran, spent>>
  BY DEF PollCancel
<1>2. /\ MayBecome(call[c].host, call[c].target, Kill(ProcOf(c)))
      /\ Kill(ProcOf(c)).child # "running"
  <2>1. PICK p \in ProcRecord :
          /\ p = ProcOf(c)
          /\ p.child = "running" => Shown(p) /\ p.handle
    BY <1>1, PolledEntry DEF InTheTable
  <2>2. PICK r \in ProcRecord : r = Kill(p) /\ r.by = p.by /\ r.child # "running"
    BY <2>1, KilledEntry
  <2>3. r = Kill(ProcOf(c)) /\ r.by = procs[call[c].host][call[c].target].by
    BY <2>1, <2>2 DEF ProcOf
  <2>4. MayBecome(call[c].host, call[c].target, r)
    BY <2>2, <2>3, EndedEntry
  <2> QED BY <2>2, <2>3, <2>4
<1>3. QED
  BY <1>1, <1>2, PollEnds DEF Answers

(* A command that is left to itself is answered as backgrounded.              *)
LEMMA HandOffKeeps ==
  ASSUME IInv, NEW c \in Calls, HandOff(c)
  PROVE  IInv'
<1>1. /\ call[c].phase = "handing"
      /\ SetProc(call[c].host, call[c].target, [ProcOf(c) EXCEPT !.handoff = TRUE])
      /\ call' = Ended(c, "backgrounded") /\ UNCHANGED <<daemon, agent, service, ran, spent>>
  BY DEF HandOff
<1>2. MayBecome(call[c].host, call[c].target, [ProcOf(c) EXCEPT !.handoff = TRUE])
  <2>1. PICK p \in ProcRecord : p = ProcOf(c) /\ (p.child = "running" => Shown(p))
    BY <1>1, PolledEntry DEF InTheTable
  <2>2. PICK r \in ProcRecord :
          /\ r = [p EXCEPT !.handoff = TRUE] /\ r.by = p.by /\ r.child = p.child
          /\ r.status = p.status /\ r.handle = p.handle /\ r.reader = p.reader
          /\ r.early = p.early
    BY HandedEntry
  <2>3. r = [ProcOf(c) EXCEPT !.handoff = TRUE] /\ p = procs[call[c].host][call[c].target]
    BY <2>1, <2>2 DEF ProcOf
  <2>4. MayBecome(call[c].host, call[c].target, r)
    BY <2>1, <2>2, <2>3 DEF MayBecome, Shown
  <2> QED BY <2>3, <2>4
<1>3. QED
  BY <1>1, <1>2, PollEnds DEF Answers

(* The child is attached, whatever the table says of it by then.              *)
LEMMA AttachChildKeeps ==
  ASSUME IInv, NEW c \in Calls, AttachChild(c)
  PROVE  IInv'
<1> DEFINE r == [call[c] EXCEPT !.phase = "polling"]
<1>1. /\ call \in [Calls -> CallRecord] /\ call[c] \in CallRecord
      /\ call[c].phase = "spawned"
      /\ SetProc(call[c].host, call[c].target, [ProcOf(c) EXCEPT !.handle = TRUE])
      /\ UNCHANGED <<daemon, agent, service, ran, spent>>
  BY DEF IInv, Shapes, AttachChild
<1>2. /\ r \in CallRecord /\ r.phase = "polling" /\ r.answer = call[c].answer
      /\ r.target = call[c].target /\ r.kind = call[c].kind /\ r.host = call[c].host
      /\ r.waits = call[c].waits
  BY <1>1 DEF CallRecord, Phases
<1>3. call' = [call EXCEPT ![c] = r]
  BY <1>1 DEF AttachChild, To
<1> HIDE DEF r
<1>4. Moves(c) /\ call'[c] = r
  BY <1>1, <1>2, <1>3 DEF Moves
<1>5. RunsInItsWorkspace'
  BY <1>1, <1>4 DEF IInv, RunsInItsWorkspace, IsProcess, Moves
<1>6. TableIsSound' /\ procs' \in [Hosts -> Seq(ProcRecord)]
  <2>1. PICK p \in ProcRecord : p = ProcOf(c) /\ (p.child = "running" => Shown(p))
    BY <1>1, PolledEntry DEF InTheTable
  <2>2. PICK q \in ProcRecord :
          /\ q = [p EXCEPT !.handle = TRUE] /\ q.by = p.by /\ q.child = p.child
          /\ q.status = p.status /\ q.handle /\ q.reader = p.reader /\ q.early = p.early
    BY AttachedEntry
  <2>3. MayBecome(call[c].host, call[c].target, q)
    BY <2>1, <2>2 DEF MayBecome, Shown, ProcOf
  <2>4. SetProc(call[c].host, call[c].target, q)
    BY <1>1, <2>1, <2>2
  <2>5. call[c].host \in Hosts /\ call[c].target \in 1..Len(procs[call[c].host])
    BY <1>1, PolledEntry DEF InTheTable
  <2>6. /\ call'[c].target = call[c].target /\ call'[c].phase \notin BeforeItRuns
        /\ call[c].phase \in InTheTable
        /\ call'[c].answer \notin {"completed", "cancelled"}
    BY <1>1, <1>2, <1>4 DEF BeforeItRuns, InTheTable, IInv, CallsAreSound, CallIsSound
  <2>7. QED
    BY <1>4, <2>2, <2>3, <2>4, <2>5, <2>6, EntryMoves
<1>7. Shapes'
  BY <1>1, <1>4, <1>6 DEF IInv, Shapes, daemon, service, Moves
<1>8. UNCHANGED <<queue, ctx>> /\ SameWorkspaces
  BY <1>1 DEF service, SameWorkspaces
<1>9. CallIsSound(c)'
  BY <1>1, <1>2, <1>4 DEF IInv, CallsAreSound, CallIsSound, BeforeItRuns, InTheServiceOnly,
     InTheTable
<1>10. Working(c)' => Working(c)
  BY <1>1, <1>2, <1>4 DEF Working, InServe, AtServe, IsProcess, Moves
<1>11. QED
  BY <1>1, <1>2, <1>4, <1>5, <1>6, <1>7, <1>8, <1>9, <1>10, MoveKeeps

(* `process` looks after a child, or finds none.                              *)
LEMMA ProcessEnds ==
  ASSUME IInv, NEW c \in Calls, NEW p, NEW answer \in Answers \ {"completed", "cancelled"},
         call[c].phase = "admitted", StillBound(c), Runs(c),
         \/ UNCHANGED procs
         \/ /\ Exists(call[c].host, call[c].target)
            /\ MayBecome(call[c].host, call[c].target, p)
            /\ SetProc(call[c].host, call[c].target, p),
         call' = Ended(c, answer), UNCHANGED <<daemon, agent, service, spent>>
  PROVE  IInv'
<1> DEFINE r == [call[c] EXCEPT !.phase = "ran", !.answer = answer,
                                !.session = Serve, !.workspace = Serve]
<1>1. /\ call \in [Calls -> CallRecord] /\ call[c] \in CallRecord /\ call[c].host \in Hosts
  BY HostOf DEF IInv, Shapes
<1>2. /\ r \in CallRecord /\ r.phase = "ran" /\ r.answer = answer
      /\ r.target = call[c].target /\ r.kind = call[c].kind /\ r.host = call[c].host
      /\ r.waits = call[c].waits
  BY <1>1 DEF CallRecord, Phases, Bindings
<1>3. call' = [call EXCEPT ![c] = r]
  BY <1>1 DEF Ended
<1> HIDE DEF r
<1>4. Moves(c) /\ call'[c] = r
  BY <1>1, <1>2, <1>3 DEF Moves
<1>5. /\ ran' \in [Calls -> Seq(PlaceRecord)]
      /\ \A d \in Calls \ {c} : ran'[d] = ran[d]
      /\ Len(ran'[c]) = 1
      /\ RunsInItsWorkspace'
  BY <1>4, RunsHere
<1>6. TableIsSound' /\ procs' \in [Hosts -> Seq(ProcRecord)]
  <2>1. CASE UNCHANGED procs
    BY <1>2, <1>4, <2>1, MovesTable DEF BeforeItRuns, InTheTable, IInv, Shapes
  <2>2. CASE /\ Exists(call[c].host, call[c].target)
             /\ MayBecome(call[c].host, call[c].target, p)
             /\ SetProc(call[c].host, call[c].target, p)
    <3>1. call[c].target \in 1..Len(procs[call[c].host])
      BY <1>1, <2>2 DEF Exists, IInv, Shapes
    <3>2. QED
      BY <1>1, <1>2, <1>4, <2>2, <3>1, EntryMoves DEF BeforeItRuns, InTheTable
  <2>3. QED BY <2>1, <2>2
<1>7. Shapes'
  BY <1>4, <1>5, <1>6 DEF IInv, Shapes, daemon, service, Moves
<1>7a. UNCHANGED <<queue, ctx>> /\ SameWorkspaces
  BY DEF service, SameWorkspaces
<1>8. CallIsSound(c)'
  BY <1>2, <1>4, <1>5 DEF IInv, CallsAreSound, CallIsSound, BeforeItRuns, InTheServiceOnly, InTheTable
<1>9. Working(c)' => Working(c)
  BY <1>2, <1>4 DEF Working, InServe, AtServe, IsProcess, Moves
<1>10. QED
  BY <1>2, <1>4, <1>5, <1>6, <1>7, <1>7a, <1>8, <1>9, MoveKeeps

(* An entry that is looked up is there, with its types.                       *)
LEMMA FoundEntry ==
  ASSUME IInv, NEW c \in Calls, call[c].phase = "admitted",
         Exists(call[c].host, call[c].target)
  PROVE  /\ ProcOf(c) \in ProcRecord
         /\ ProcOf(c).child = "running" => Shown(ProcOf(c))
<1>1. call[c].host \in Hosts
  BY HostOf
<1>2. call[c].target \in 1..Len(procs[call[c].host])
  BY <1>1 DEF Exists, IInv, Shapes
<1>3. ProcOf(c) \in ProcRecord /\ EntryIsSound(call[c].host, call[c].target)
  BY <1>1, <1>2, Entries DEF IInv, TableIsSound, ProcOf
<1>4. QED
  BY <1>3 DEF ProcOf, EntryIsSound

(* `process check` enters an exit it sees.                                    *)
LEMMA CheckKeeps ==
  ASSUME IInv, NEW c \in Calls, Check(c)
  PROVE  IInv'
<1>1. call[c].phase = "admitted" /\ StillBound(c) /\ Runs(c)
  BY DEF Check, MayRun
<1>2. CASE Exists(call[c].host, call[c].target)
  <2>1. MayBecome(call[c].host, call[c].target, Looked(ProcOf(c)))
    <3>1. PICK p \in ProcRecord : p = ProcOf(c) /\ (p.child = "running" => Shown(p))
      BY <1>1, <1>2, FoundEntry
    <3>2. /\ Looked(p) \in ProcRecord /\ Looked(p).by = p.by /\ Looked(p).child = p.child
          /\ p.child = "running" => Looked(p) = p
      BY LookedEntry
    <3>3. p = procs[call[c].host][call[c].target]
      BY <3>1 DEF ProcOf
    <3>4. MayBecome(call[c].host, call[c].target, Looked(p))
      BY <3>1, <3>2, <3>3 DEF MayBecome
    <3>5. QED BY <3>1, <3>4
  <2>2. Looked(ProcOf(c)).status \in Answers \ {"completed", "cancelled"}
    BY <2>1 DEF MayBecome, ProcRecord, Answers
  <2>3. /\ SetProc(call[c].host, call[c].target, Looked(ProcOf(c)))
        /\ call' = Ended(c, Looked(ProcOf(c)).status)
        /\ UNCHANGED <<daemon, agent, service, spent>>
    BY <1>2 DEF Check
  <2>4. QED
    BY <1>1, <1>2, <2>1, <2>2, <2>3, ProcessEnds
<1>3. CASE ~Exists(call[c].host, call[c].target)
  <2>1. /\ call' = Ended(c, "not_found") /\ UNCHANGED procs
        /\ UNCHANGED <<daemon, agent, service, spent>>
    BY <1>3 DEF Check
  <2>2. "not_found" \in Answers \ {"completed", "cancelled"}
    BY DEF Answers
  <2>3. QED
    BY <1>1, <2>1, <2>2, ProcessEnds
<1>4. QED
  BY <1>2, <1>3

(* `process kill` ends a child it can reach.                                  *)
LEMMA KillProcessKeeps ==
  ASSUME IInv, NEW c \in Calls, KillProcess(c)
  PROVE  IInv'
<1>1. call[c].phase = "admitted" /\ StillBound(c) /\ Runs(c)
  BY DEF KillProcess, MayRun
<1>2. CASE Exists(call[c].host, call[c].target)
  <2>1. MayBecome(call[c].host, call[c].target, Kill(ProcOf(c)))
    BY <1>1, <1>2, FoundEntry, KillLeaves DEF ProcOf
  <2>2. /\ SetProc(call[c].host, call[c].target, Kill(ProcOf(c)))
        /\ call' = Ended(c, "ok") /\ UNCHANGED <<daemon, agent, service, spent>>
    BY <1>2 DEF KillProcess
  <2>3. "ok" \in Answers \ {"completed", "cancelled"}
    BY DEF Answers
  <2>4. QED
    BY <1>1, <1>2, <2>1, <2>2, <2>3, ProcessEnds
<1>3. CASE ~Exists(call[c].host, call[c].target)
  <2>1. /\ call' = Ended(c, "not_found") /\ UNCHANGED procs
        /\ UNCHANGED <<daemon, agent, service, spent>>
    BY <1>3 DEF KillProcess
  <2>2. "not_found" \in Answers \ {"completed", "cancelled"}
    BY DEF Answers
  <2>3. QED
    BY <1>1, <2>1, <2>2, ProcessEnds
<1>4. QED
  BY <1>2, <1>3

(* exec starts a child: the entry is new, and no other is the call's.         *)
LEMMA ExecKeeps ==
  ASSUME IInv, NEW c \in Calls, Exec(c)
  PROVE  IInv'
<1> DEFINE h == call[c].host
           id == Len(procs[h]) + 1
           r == [call[c] EXCEPT !.phase = "spawned", !.target = id]
<1>1. /\ call \in [Calls -> CallRecord] /\ call[c] \in CallRecord /\ h \in Hosts
      /\ procs \in [Hosts -> Seq(ProcRecord)] /\ procs[h] \in Seq(ProcRecord) /\ id \in Nat
  <2>1. h \in Hosts
    BY HostOf DEF Exec, MayRun
  <2>2. /\ call \in [Calls -> CallRecord] /\ call[c] \in CallRecord
        /\ procs \in [Hosts -> Seq(ProcRecord)] /\ procs[h] \in Seq(ProcRecord)
    BY <2>1 DEF IInv, Shapes
  <2> HIDE DEF h
  <2>3. QED BY <2>1, <2>2
<1>2. /\ call[c].phase = "admitted" /\ StillBound(c) /\ Runs(c)
      /\ procs' = [procs EXCEPT ![h] = Append(procs[h], NewProc(c))]
      /\ call' = [call EXCEPT ![c].phase = "spawned", ![c].target = id]
      /\ UNCHANGED <<daemon, agent, service, spent>>
  BY <1>1 DEF Exec, MayRun
<1>3. r \in CallRecord /\ r.phase = "spawned" /\ r.target = id /\ r.kind = call[c].kind
      /\ r.host = h /\ r.waits = call[c].waits /\ r.answer = call[c].answer
  BY <1>1 DEF CallRecord, Phases
<1>4. call' = [call EXCEPT ![c] = r]
  BY <1>1, <1>2
<1> HIDE DEF r
<1>5. Moves(c) /\ call'[c] = r
  BY <1>1, <1>3, <1>4 DEF Moves
<1>6. /\ ran' \in [Calls -> Seq(PlaceRecord)]
      /\ \A d \in Calls \ {c} : ran'[d] = ran[d]
      /\ Len(ran'[c]) = 1
      /\ RunsInItsWorkspace'
  BY <1>2, <1>5, RunsHere
<1>7. NewProc(c) \in ProcRecord
  BY DEF NewProc, ProcRecord
<1>8. /\ procs' \in [Hosts -> Seq(ProcRecord)]
      /\ \A g \in Hosts \ {h} : procs'[g] = procs[g]
      /\ Len(procs'[h]) = id /\ procs'[h][id] = NewProc(c)
      /\ \A j \in 1..Len(procs[h]) : procs'[h][j] = procs[h][j]
  BY <1>1, <1>2, <1>7
<1>9. \A g \in Hosts : \A j \in 1..Len(procs[g]) : procs[g][j].by # c
  BY <1>2 DEF IInv, TableIsSound, EntryIsSound, BeforeItRuns
<1>10. TableIsSound'
  <2>1. ASSUME NEW g \in Hosts, NEW j \in 1..Len(procs'[g])
        PROVE  EntryIsSound(g, j)'
    <3>1. CASE g = h /\ j = id
      <4>1. procs'[g][j] = NewProc(c)
        BY <1>8, <3>1
      <4>2. call[c].answer = "none"
        BY <1>2 DEF IInv, CallsAreSound, CallIsSound, BeforeItRuns
      <4>3. QED
        BY <1>3, <1>5, <3>1, <4>1, <4>2 DEF EntryIsSound, Shown, NewProc, BeforeItRuns
    <3>2. CASE ~(g = h /\ j = id)
      <4>1. j \in 1..Len(procs[g]) /\ procs'[g][j] = procs[g][j]
        BY <1>1, <1>8, <3>2
      <4>2. EntryIsSound(g, j) /\ procs[g][j].by \in Calls \ {c}
        BY <1>9, <4>1, Entries DEF IInv, TableIsSound
      <4>3. QED
        BY <1>5, <4>1, <4>2 DEF EntryIsSound, Moves
    <3>3. QED BY <3>1, <3>2
  <2>2. ASSUME NEW d \in Calls, call'[d].phase \in InTheTable
        PROVE  call'[d].target \in 1..Len(procs'[call'[d].host]) /\ ProcOf(d)'.by = d
    <3>1. CASE d = c
      <4>1. ProcOf(c)' = NewProc(c)
        BY <1>3, <1>5, <1>8 DEF ProcOf
      <4>2. id \in 1..id
        BY <1>1
      <4>3. QED
        BY <1>3, <1>5, <1>8, <3>1, <4>1, <4>2 DEF NewProc
    <3>2. CASE d # c
      <4>1. call'[d] = call[d]
        BY <1>5, <3>2 DEF Moves
      <4>2. /\ call[d].host \in Hosts /\ call[d].target \in 1..Len(procs[call[d].host])
            /\ ProcOf(d).by = d
        BY <2>2, <4>1, PolledEntry DEF IInv, TableIsSound
      <4>3. call[d].target \in 1..Len(procs'[call[d].host]) /\ ProcOf(d)' = ProcOf(d)
        <5>1. CASE call[d].host = h
          BY <1>1, <1>8, <4>1, <4>2, <5>1 DEF ProcOf
        <5>2. CASE call[d].host # h
          BY <1>8, <4>1, <4>2, <5>2 DEF ProcOf
        <5>3. QED BY <5>1, <5>2
      <4>4. QED
        BY <4>1, <4>2, <4>3
    <3>3. QED BY <3>1, <3>2
  <2>3. QED
    BY <2>1, <2>2 DEF TableIsSound
<1>11. Shapes'
  BY <1>2, <1>5, <1>6, <1>8 DEF IInv, Shapes, daemon, service, Moves
<1>12. CallIsSound(c)'
  BY <1>2, <1>3, <1>5, <1>6 DEF IInv, CallsAreSound, CallIsSound, BeforeItRuns, InTheServiceOnly, InTheTable
<1>13. Working(c)' => Working(c)
  BY <1>2, <1>3, <1>5 DEF Working, InServe, AtServe, IsProcess, Moves
<1>13a. UNCHANGED <<queue, ctx>> /\ SameWorkspaces
  BY <1>2 DEF service, SameWorkspaces
<1>14. QED
  BY <1>2, <1>3, <1>5, <1>6, <1>10, <1>11, <1>12, <1>13, <1>13a, MoveKeeps

-----------------------------------------------------------------------------
(* A call begins, waits for the worker, and becomes the worker's.             *)

LEMMA NewCalls ==
  /\ NewCall \in CallRecord /\ NewCall.phase = "idle" /\ NewCall.host = 0
  /\ NewCall.waits = FALSE /\ NewCall.answer = "none"
BY DEF NewCall, CallRecord, Phases, Answers, Bindings

(* A call starts as one that has not run, in the service or in its agent.     *)
LEMMA CallKeeps ==
  ASSUME IInv, NEW c \in Calls, NEW kind \in Kinds[c], NEW id \in Ids, Call(c, kind, id)
  PROVE  IInv'
<1> DEFINE r == call'[c]
<1>1. /\ call \in [Calls -> CallRecord] /\ Owner[c] \in Agents /\ kind \in ToolKinds
      /\ call[c].phase = "idle"
  BY OwnerAssumption, BoundsAssumption DEF IInv, Shapes, Call
<1>2. id \in Nat
  BY DEF Ids
<1>3. /\ r \in CallRecord
      /\ r.phase \in {"sent", "admitted", "done"} /\ r.answer = "none"
      /\ r.host \in Services \cup {Owner[c], 0} /\ (r.host = 0 => r.phase = "done")
      /\ r.phase = "sent" => r.host \in Services
      /\ r.phase = "admitted" => r.host \notin Services
      /\ r.waits => r.phase # "done"
  <2>1. r = IF agent[Owner[c]].cancel
              THEN [NewCall EXCEPT !.kind = kind, !.phase = "done", !.result = "cancelled"]
              ELSE Sent(c, kind, id)
    BY <1>1 DEF Call
  <2>2. PICK n \in CallRecord : n = NewCall /\ n.answer = "none" /\ n.host = 0 /\ n.waits = FALSE
    BY NewCalls
  <2>3. CASE agent[Owner[c]].cancel
    <3>1. r = [n EXCEPT !.kind = kind, !.phase = "done", !.result = "cancelled"]
      BY <2>1, <2>2, <2>3
    <3>2. r \in CallRecord
      <4>1. "done" \in Phases /\ "cancelled" \in Answers \cup {"failed"}
        BY DEF Phases, Answers
      <4>2. kind \in ToolKinds \cup {"none"}
        BY <1>1
      <4> HIDE DEF r
      <4>3. QED
        BY <3>1, <4>1, <4>2 DEF CallRecord
    <3>3. r.phase = "done" /\ r.answer = "none" /\ r.host = 0 /\ r.waits = FALSE
      BY <2>2, <3>1 DEF CallRecord
    <3>4. QED
      BY <3>2, <3>3
  <2>4. CASE ~agent[Owner[c]].cancel
    <3>1. r = Sent(c, kind, id) BY <2>1, <2>4
    <3>2. /\ Owner[c] \notin Services /\ Owner[c] # 0 /\ 0 \notin Services
          /\ Owner[c] \in Hosts /\ Services \subseteq Hosts
      BY <1>1, Places
    <3>3. alive \subseteq Services
      BY DEF IInv, SupIsSound
    <3>4. PICK host \in Hosts, phase \in Phases :
            /\ r = [n EXCEPT !.kind = kind, !.target = id, !.waits = TRUE,
                             !.host = host, !.phase = phase]
            /\ \/ phase = "sent" /\ host \in Services
               \/ phase = "admitted" /\ host = Owner[c]
      <4>1. CASE agent[Owner[c]].endpoint \in alive
        BY <2>2, <3>1, <3>2, <3>3, <4>1 DEF Phases, Sent
      <4>2. CASE agent[Owner[c]].endpoint \notin alive
        BY <2>2, <3>1, <3>2, <4>2 DEF Phases, Sent
      <4>3. QED BY <4>1, <4>2
    <3>5. r \in CallRecord
      <4>1. kind \in ToolKinds \cup {"none"} /\ id \in Nat
        BY <1>1, <1>2
      <4> HIDE DEF r
      <4>2. QED
        BY <3>4, <4>1 DEF CallRecord
    <3>6. r.phase = phase /\ r.host = host /\ r.answer = "none"
      BY <2>2, <3>4 DEF CallRecord
    <3>7. QED
      BY <3>2, <3>4, <3>5, <3>6
  <2>5. QED BY <2>3, <2>4
<1>4. /\ call' \in [Calls -> CallRecord] /\ \A d \in Calls \ {c} : call'[d] = call[d]
      /\ UNCHANGED <<daemon, agent, service, procs, ran, spent>>
  BY <1>1, <1>3 DEF Call
<1> HIDE DEF r
<1>5. Shapes'
  BY <1>4 DEF IInv, Shapes, daemon, service
<1>6. CallsAreSound'
  <2>1. CallIsSound(c)'
    BY <1>1, <1>3, <1>4 DEF IInv, CallsAreSound, CallIsSound, BeforeItRuns, InTheServiceOnly,
       InTheTable, r
  <2>2. QED
    BY <1>4, <2>1 DEF IInv, CallsAreSound, CallIsSound
<1>7. QueueIsSound'
  <2>1. \A d \in Calls : call[d].phase = "queued" <=> call'[d].phase = "queued"
    BY <1>1, <1>3, <1>4 DEF r
  <2>2. \A d \in Calls : call[d].phase = "queued" => call'[d] = call[d]
    BY <1>1, <1>4
  <2>3. ASSUME NEW s \in Services, NEW i \in 1..Len(queue[s])
        PROVE  queue[s][i] \in Calls
    BY DEF IInv, Shapes
  <2>4. queue' = queue
    BY <1>4 DEF service
  <2>5. QED
    BY <2>1, <2>2, <2>3, <2>4 DEF IInv, QueueIsSound, QueueOf, IsProcess
<1>8. WorkerIsBound'
  <2>1. \A d \in Calls : Working(d)' => Working(d) /\ call'[d] = call[d]
    BY <1>1, <1>3, <1>4 DEF r, Working, InServe, AtServe, IsProcess
  <2>2. QED
    BY <1>4, <2>1 DEF IInv, WorkerIsBound, CtxOf, service
<1>9. RunsInItsWorkspace'
  <2>1. ToSet(ran[c]) = {}
    BY <1>1 DEF IInv, CallsAreSound, CallIsSound, BeforeItRuns, ToSet
  <2>2. QED
    BY <1>4, <2>1 DEF IInv, RunsInItsWorkspace, IsProcess
<1>10. TableIsSound'
  <2>1. \A g \in Hosts : \A j \in 1..Len(procs[g]) : procs[g][j].by \in Calls \ {c}
    BY <1>1, Entries DEF IInv, TableIsSound, EntryIsSound, BeforeItRuns
  <2>2. \A g \in Hosts : \A j \in 1..Len(procs[g]) : EntryIsSound(g, j)'
    BY <1>4, <2>1 DEF IInv, TableIsSound, EntryIsSound
  <2>3. \A d \in Calls : call'[d].phase \in InTheTable => d # c
    BY <1>3 DEF r, InTheTable
  <2>4. QED
    BY <1>4, <2>2, <2>3 DEF IInv, TableIsSound, ProcOf
<1>11. SupIsSound'
  BY <1>4, SupKept DEF daemon
<1>12. QED
  BY <1>5, <1>6, <1>7, <1>8, <1>9, <1>10, <1>11 DEF IInv

(* A phase is all that changes, and it is one before the tool runs.           *)
LEMMA Prepares ==
  ASSUME IInv, NEW c \in Calls, NEW phase \in {"queued", "begun"}, call' = To(c, phase),
         call[c].phase \in BeforeItRuns, call[c].host \in Services, call[c].phase # "idle"
  PROVE  /\ Moves(c) /\ call'[c].phase = phase
         /\ (UNCHANGED ran => CallsAreSound' /\ RunsInItsWorkspace')
         /\ (UNCHANGED procs => TableIsSound')
<1> DEFINE r == [call[c] EXCEPT !.phase = phase]
<1>1. /\ call \in [Calls -> CallRecord] /\ call[c] \in CallRecord
  BY DEF IInv, Shapes
<1>2. /\ r \in CallRecord /\ r.phase = phase /\ r.answer = call[c].answer
      /\ r.target = call[c].target /\ r.kind = call[c].kind /\ r.host = call[c].host
      /\ r.waits = call[c].waits
  BY <1>1 DEF CallRecord, Phases
<1>3. call' = [call EXCEPT ![c] = r]
  BY <1>1 DEF To
<1> HIDE DEF r
<1>4. Moves(c) /\ call'[c] = r
  BY <1>1, <1>2, <1>3 DEF Moves
<1>5. ASSUME UNCHANGED ran PROVE CallsAreSound' /\ RunsInItsWorkspace'
  <2>1. CallIsSound(c)'
    BY <1>2, <1>4, <1>5 DEF IInv, CallsAreSound, CallIsSound, BeforeItRuns, InTheServiceOnly, InTheTable
  <2>2. CallsAreSound'
    BY <1>4, <1>5, <2>1, MovesCalls
  <2>3. RunsInItsWorkspace'
    BY <1>4, <1>5 DEF IInv, RunsInItsWorkspace, IsProcess, Moves
  <2>4. QED BY <2>2, <2>3
<1>6. ASSUME UNCHANGED procs PROVE TableIsSound'
  BY <1>2, <1>4, <1>6, MovesTable DEF BeforeItRuns, InTheTable
<1>7. QED
  BY <1>2, <1>4, <1>5, <1>6

(* The call takes the last place of the queue; nobody else has it.            *)
LEMMA EnqueueKeeps ==
  ASSUME IInv, NEW c \in Calls, Enqueue(c)
  PROVE  IInv'
<1>1. PICK s : s = call[c].host
  OBVIOUS
<1>2. /\ call[c].phase = "sent" /\ ~IsProcess(c) /\ Len(queue[s]) < QueueSize
      /\ queue' = [queue EXCEPT ![s] = Append(@, c)] /\ call' = To(c, "queued")
      /\ UNCHANGED <<daemon, agent, ctx, pending, procs, ran, spent>>
      /\ queue \in [Services -> Seq(Calls)]
  BY <1>1 DEF Enqueue, IInv, Shapes
<1>3. s \in Services
  BY <1>1, <1>2 DEF IInv, CallsAreSound, CallIsSound, InTheServiceOnly
<1>4. Moves(c) /\ call'[c].phase = "queued" /\ call'[c].host = s
      /\ CallsAreSound' /\ RunsInItsWorkspace' /\ TableIsSound'
  BY <1>1, <1>2, <1>3, Prepares DEF BeforeItRuns, Moves
<1>5. Shapes'
  BY <1>2, <1>3, <1>4 DEF IInv, Shapes, daemon, Moves
<1>6. QueueIsSound'
  <2>1. PICK q \in Seq(Calls) : q = queue[s] /\ Len(q) < QueueSize
    BY <1>2, <1>3
  <2>2. PICK new \in Seq(Calls) : new = Append(q, c)
    <3>1. Append(q, c) \in Seq(Calls) OBVIOUS
    <3>2. QED BY <3>1
  <2>3. queue'[s] = new /\ \A z \in Services \ {s} : queue'[z] = queue[z]
    BY <1>2, <1>3, <2>1, <2>2
  <2>4. \A d \in Calls \ {c} : call'[d] = call[d]
    BY <1>4 DEF Moves
  <2>5. call'[c].kind \notin {"check", "kill"}
    BY <1>2, <1>4 DEF IsProcess, Moves
  <2>6. /\ Len(q) <= QueueSize
        /\ \A i, j \in 1..Len(q) : q[i] = q[j] => i = j
        /\ \A i \in 1..Len(q) : /\ call[q[i]].phase = "queued" /\ call[q[i]].host = s
                               /\ call[q[i]].kind \notin {"check", "kill"}
        /\ \A d \in Calls : call[d].phase = "queued" /\ call[d].host = s
             => \E i \in 1..Len(q) : q[i] = d
    BY <1>3, <2>1 DEF IInv, QueueIsSound, QueueOf, IsProcess
  <2>7. /\ Len(new) = Len(q) + 1 /\ Len(q) \in Nat
        /\ \A i \in 1..Len(new) :
             \/ i \in 1..Len(q) /\ new[i] = q[i] /\ q[i] \in Calls \ {c}
             \/ i = Len(q) + 1 /\ new[i] = c
        /\ \A i \in 1..Len(q) : i \in 1..Len(new) /\ new[i] = q[i]
        /\ Len(q) + 1 \in 1..Len(new) /\ new[Len(q) + 1] = c
    BY <1>2, <2>2, <2>6
  <2>8. /\ Len(new) <= QueueSize
        /\ \A i, j \in 1..Len(new) : new[i] = new[j] => i = j
    <3>1. QueueSize \in Nat BY BoundsAssumption
    <3>2. Len(new) <= QueueSize BY <2>1, <2>7, <3>1
    <3>3. \A i, j \in 1..Len(new) : new[i] = new[j] => i = j BY <2>6, <2>7
    <3>4. QED BY <3>2, <3>3
  <2>9. ASSUME NEW i \in 1..Len(new)
        PROVE  /\ call'[new[i]].phase = "queued" /\ call'[new[i]].host = s
               /\ call'[new[i]].kind \notin {"check", "kill"}
    <3>1. CASE i \in 1..Len(q) /\ new[i] = q[i] /\ q[i] \in Calls \ {c}
      BY <2>4, <2>6, <3>1
    <3>2. CASE new[i] = c
      BY <1>4, <2>5, <3>2
    <3>3. QED BY <2>7, <3>1, <3>2
  <2>10. \A d \in Calls : call'[d].phase = "queued" /\ call'[d].host = s
           => \E i \in 1..Len(new) : new[i] = d
    BY <2>4, <2>6, <2>7
  <2>11. ASSUME NEW z \in Services \ {s}
         PROVE  QueueOf(z)'
    <3>1. queue'[z] = queue[z] /\ \A k \in 1..Len(queue[z]) : queue[z][k] \in Calls
      BY <2>3 DEF IInv, Shapes
    <3>2. QueueOf(z)
      BY DEF IInv, QueueIsSound
    <3>3. \A k \in 1..Len(queue[z]) : queue[z][k] # c
      BY <1>2, <3>2 DEF QueueOf
    <3>4. /\ Len(queue'[z]) <= QueueSize
          /\ \A i, j \in 1..Len(queue'[z]) : queue'[z][i] = queue'[z][j] => i = j
      BY <3>1, <3>2 DEF QueueOf
    <3>5. ASSUME NEW k \in 1..Len(queue'[z])
          PROVE  /\ call'[queue'[z][k]].phase = "queued" /\ call'[queue'[z][k]].host = z
                 /\ call'[queue'[z][k]].kind \notin {"check", "kill"}
      <4>1. k \in 1..Len(queue[z]) /\ queue'[z][k] = queue[z][k]
        BY <3>1
      <4>2. call'[queue[z][k]] = call[queue[z][k]]
        BY <2>4, <3>1, <3>3, <4>1
      <4>3. QED
        BY <3>2, <4>1, <4>2 DEF QueueOf, IsProcess
    <3>6. \A d \in Calls : call'[d].phase = "queued" /\ call'[d].host = z
            => \E i \in 1..Len(queue'[z]) : queue'[z][i] = d
      <4>1. ASSUME NEW d \in Calls, call'[d].phase = "queued", call'[d].host = z
            PROVE  \E i \in 1..Len(queue'[z]) : queue'[z][i] = d
        <5>1. d # c
          BY <1>4, <4>1
        <5>2. call[d].phase = "queued" /\ call[d].host = z
          BY <2>4, <4>1, <5>1
        <5>3. \E i \in 1..Len(queue[z]) : queue[z][i] = d
          BY <3>2, <5>2 DEF QueueOf
        <5>4. QED
          BY <3>1, <5>3
      <4>2. QED
        BY <4>1
    <3>7. QED
      BY <3>4, <3>5, <3>6 DEF QueueOf, IsProcess
  <2>12. QueueOf(s)'
    BY <2>3, <2>8, <2>9, <2>10 DEF QueueOf, IsProcess
  <2>13. QED
    BY <2>11, <2>12 DEF QueueIsSound
<1>7. WorkerIsBound'
  BY <1>2, <1>4, MovesWorker DEF Working, SameWorkspaces
<1>8. SupIsSound'
  BY <1>2, SupKept DEF daemon
<1>9. QED
  BY <1>4, <1>5, <1>6, <1>7, <1>8 DEF IInv

(* The first call of the queue becomes the worker's, and its workspace is set.*)
LEMMA WorkerBeginsKeeps ==
  ASSUME IInv, NEW s \in Services, WorkerBegins(s)
  PROVE  IInv'
<1>1. PICK q \in Seq(Calls) : q = queue[s] /\ q # <<>>
  BY DEF WorkerBegins, IInv, Shapes
<1>2. PICK c \in Calls : c = Head(q) /\ c = q[1] /\ 1 \in 1..Len(q) /\ Len(q) \in Nat
  BY <1>1
<1>3. /\ ~\E d \in Calls : Working(d) /\ call[d].host = s
      /\ call' = To(c, "begun")
      /\ ctx' = [ctx EXCEPT ![s] = [session |-> Owner[c], workspace |-> Owner[c]]]
      /\ queue' = [queue EXCEPT ![s] = Tail(q)]
      /\ UNCHANGED <<daemon, agent, pending, procs, ran, spent>>
  BY <1>1, <1>2 DEF WorkerBegins
<1>4. /\ Len(q) <= QueueSize
      /\ \A i, j \in 1..Len(q) : q[i] = q[j] => i = j
      /\ \A i \in 1..Len(q) : /\ call[q[i]].phase = "queued" /\ call[q[i]].host = s
                             /\ call[q[i]].kind \notin {"check", "kill"}
      /\ \A d \in Calls : call[d].phase = "queued" /\ call[d].host = s
           => \E i \in 1..Len(q) : q[i] = d
  BY <1>1 DEF IInv, QueueIsSound, QueueOf, IsProcess
<1>5. call[c].phase = "queued" /\ call[c].host = s
  BY <1>2, <1>4
<1>6. Moves(c) /\ call'[c].phase = "begun" /\ call'[c].host = s
      /\ CallsAreSound' /\ RunsInItsWorkspace' /\ TableIsSound'
  BY <1>3, <1>5, Prepares DEF BeforeItRuns, Moves
<1>7. Shapes'
  <2>1. /\ queue \in [Services -> Seq(Calls)] /\ ctx \in [Services -> CtxRecord]
        /\ Tail(q) \in Seq(Calls)
    BY <1>1 DEF IInv, Shapes
  <2>2. [session |-> Owner[c], workspace |-> Owner[c]] \in CtxRecord
    BY Places DEF CtxRecord
  <2>3. queue' \in [Services -> Seq(Calls)] /\ ctx' \in [Services -> CtxRecord]
    BY <1>3, <2>1, <2>2
  <2>4. QED
    BY <1>3, <1>6, <2>3 DEF IInv, Shapes, daemon, Moves
<1>8. QueueIsSound'
  <2>1. PICK new \in Seq(Calls) : new = Tail(q)
    <3>1. Tail(q) \in Seq(Calls) BY <1>1
    <3>2. QED BY <3>1
  <2>2. queue'[s] = new /\ \A z \in Services \ {s} : queue'[z] = queue[z]
    BY <1>3, <2>1 DEF IInv, Shapes
  <2>3. \A d \in Calls \ {c} : call'[d] = call[d]
    BY <1>6 DEF Moves
  <2>4. /\ Len(new) = Len(q) - 1
        /\ \A i \in 1..Len(new) : new[i] = q[i + 1] /\ i + 1 \in 1..Len(q)
    BY <1>1, <1>2, <2>1
  <2>5. \A i \in 1..Len(new) : new[i] \in Calls \ {c}
    BY <1>2, <1>4, <2>4
  <2>6. Len(new) <= QueueSize
    <3>1. QueueSize \in Nat BY BoundsAssumption
    <3>2. QED BY <1>2, <1>4, <2>4, <3>1
  <2>7. \A i, j \in 1..Len(new) : new[i] = new[j] => i = j
    BY <1>2, <1>4, <2>4
  <2>8. \A i \in 1..Len(new) : /\ call'[new[i]].phase = "queued" /\ call'[new[i]].host = s
                              /\ call'[new[i]].kind \notin {"check", "kill"}
    BY <1>4, <2>3, <2>4, <2>5
  <2>9. ASSUME NEW d \in Calls, call'[d].phase = "queued", call'[d].host = s
        PROVE  \E i \in 1..Len(new) : new[i] = d
    <3>1. d # c
      BY <1>6, <2>9
    <3>2. PICK i \in 1..Len(q) : q[i] = d
      BY <1>4, <2>3, <2>9, <3>1
    <3>3. i # 1
      BY <1>2, <3>1, <3>2
    <3>4. i - 1 \in 1..Len(new) /\ (i - 1) + 1 = i
      BY <1>2, <2>4, <3>3
    <3>5. new[i - 1] = d
      BY <2>4, <3>2, <3>4
    <3>6. QED BY <3>4, <3>5
  <2>10. ASSUME NEW z \in Services \ {s}
         PROVE  QueueOf(z)'
    <3>1. queue'[z] = queue[z] /\ \A k \in 1..Len(queue[z]) : queue[z][k] \in Calls
      BY <2>2 DEF IInv, Shapes
    <3>2. QueueOf(z)
      BY DEF IInv, QueueIsSound
    <3>3. \A k \in 1..Len(queue[z]) : queue[z][k] # c
      BY <1>5, <3>2 DEF QueueOf
    <3>4. QED
      BY <1>6, <2>3, <3>1, <3>2, <3>3 DEF QueueOf, IsProcess
  <2>11. QueueOf(s)'
    BY <2>2, <2>6, <2>7, <2>8, <2>9 DEF QueueOf, IsProcess
  <2>12. QED
    BY <2>10, <2>11 DEF QueueIsSound
<1>9. WorkerIsBound'
  <2>1. \A d \in Calls : Working(d)' => d = c \/ (Working(d) /\ call[d].host # s)
    BY <1>3, <1>6 DEF Working, InServe, AtServe, IsProcess, Moves
  <2>2. \A d \in Calls \ {c} : call'[d] = call[d]
    BY <1>6 DEF Moves
  <2>3. ctx'[s].workspace = Owner[c] /\ \A z \in Services \ {s} : ctx'[z] = ctx[z]
    BY <1>3 DEF IInv, Shapes
  <2>4. \A d \in Calls : Working(d) => call[d].host \in Services
    BY DEF Working, InServe, AtServe
  <2>5. QED
    BY <1>6, <2>1, <2>2, <2>3, <2>4 DEF IInv, WorkerIsBound, CtxOf
<1>10. SupIsSound'
  BY <1>3, SupKept DEF daemon
<1>11. QED
  BY <1>6, <1>7, <1>8, <1>9, <1>10 DEF IInv

-----------------------------------------------------------------------------
(* The agents.                                                                *)

(* Only the flag and the ledger of an agent change.                           *)
LEMMA AgentKept ==
  ASSUME IInv, UNCHANGED <<daemon, call, service, procs, ran>>,
         agent' \in [Agents -> AgentRecord],
         \A a \in Agents : agent'[a].endpoint = agent[a].endpoint
  PROVE  IInv'
<1>1. Shapes'
  BY DEF IInv, Shapes, daemon, service
<1>2. CallsAreSound' /\ QueueIsSound' /\ RunsInItsWorkspace'
  BY DEF IInv, CallsAreSound, CallIsSound, QueueIsSound, QueueOf, RunsInItsWorkspace, IsProcess, service
<1>3. WorkerIsBound' /\ TableIsSound'
  BY DEF IInv, WorkerIsBound, Working, InServe, AtServe, IsProcess, CtxOf, TableIsSound,
         EntryIsSound, ProcOf, service
<1>4. QED
  BY <1>1, <1>2, <1>3, SupKept DEF IInv

(* The cancel flag is the agent's alone.                                      *)
LEMMA CancelKeeps ==
  ASSUME IInv, NEW a \in Agents, Cancel(a) \/ NextTurn(a)
  PROVE  IInv'
<1>1. agent \in [Agents -> AgentRecord]
  BY DEF IInv, Shapes
<1>2. \E flag \in BOOLEAN : agent' = [agent EXCEPT ![a].cancel = flag]
  BY DEF Cancel, NextTurn
<1>3. UNCHANGED <<daemon, call, service, procs, ran>>
  BY DEF Cancel, NextTurn
<1>4. QED
  <2>1. PICK flag \in BOOLEAN : agent' = [agent EXCEPT ![a].cancel = flag]
    BY <1>2
  <2>2. agent' \in [Agents -> AgentRecord] /\ \A b \in Agents : agent'[b].endpoint = agent[b].endpoint
    BY <1>1, <2>1 DEF AgentRecord
  <2>3. QED
    BY <1>3, <2>2, AgentKept

(* Some calls end: they are what they were, but over, and nobody waits.       *)
EndsSome(ends) ==
  \A c \in Calls :
    /\ call'[c].kind = call[c].kind /\ call'[c].host = call[c].host
    /\ call'[c].target = call[c].target /\ call'[c].answer = call[c].answer
    /\ call'[c].waits => call[c].waits /\ c \notin ends
    /\ call'[c].phase = IF c \in ends THEN "done" ELSE call[c].phase

(* What goes with the hosts that end: their calls, queues and tables.         *)
LEMMA SomeEnd ==
  ASSUME IInv, NEW ends \in SUBSET Calls, NEW gone \in SUBSET Hosts,
         EndsSome(ends), Shapes', SupIsSound', UNCHANGED ran,
         \A h \in Hosts : procs'[h] = IF h \in gone THEN <<>> ELSE procs[h],
         \A c \in Calls : call[c].host \in gone /\ call[c].phase # "idle"
                            => c \in ends \/ call[c].phase = "done",
         \A c \in ends : call[c].phase # "idle" /\ call[c].host \in gone,
         \A s \in Services : queue'[s] = IF s \in gone THEN <<>> ELSE queue[s],
         \A s \in Services \ gone : ctx'[s] = ctx[s]
  PROVE  IInv'
<1>1. \A c \in Calls :
        /\ call'[c].kind = call[c].kind /\ call'[c].host = call[c].host
        /\ call'[c].target = call[c].target /\ call'[c].answer = call[c].answer
        /\ call'[c].waits => call[c].waits /\ c \notin ends
        /\ call'[c].phase = IF c \in ends THEN "done" ELSE call[c].phase
  BY DEF EndsSome
<1>2. CallsAreSound'
  BY <1>1 DEF IInv, CallsAreSound, CallIsSound, BeforeItRuns, InTheServiceOnly, InTheTable
<1>3. QueueIsSound'
  <2>1. ASSUME NEW s \in Services
        PROVE  QueueOf(s)'
    <3>1. CASE s \in gone
      <4>1. Len(queue'[s]) = 0 /\ 1..Len(queue'[s]) = {}
        BY <3>1
      <4>2. \A c \in Calls : ~(call'[c].phase = "queued" /\ call'[c].host = s)
        BY <1>1, <3>1
      <4>3. QED BY <4>1, <4>2, BoundsAssumption DEF QueueOf
    <3>2. CASE s \notin gone
      <4>1. queue'[s] = queue[s] /\ \A k \in 1..Len(queue[s]) : queue[s][k] \in Calls
        BY <3>2 DEF IInv, Shapes
      <4>2. QueueOf(s)
        BY DEF IInv, QueueIsSound
      <4>3. \A k \in 1..Len(queue[s]) : queue[s][k] \notin ends
        BY <3>2, <4>2 DEF QueueOf
      <4>4. QED BY <1>1, <4>1, <4>2, <4>3 DEF QueueOf, IsProcess
    <3>3. QED BY <3>1, <3>2
  <2>2. QED BY <2>1 DEF QueueIsSound
<1>4. WorkerIsBound'
  <2>1. \A c \in Calls : Working(c)' => Working(c) /\ c \notin ends /\ call'[c].host = call[c].host
    BY <1>1 DEF Working, InServe, AtServe, IsProcess
  <2>2. \A c \in Calls : Working(c) /\ c \notin ends => call[c].host \in Services \ gone
    BY DEF Working, InServe, AtServe
  <2>3. QED
    BY <2>1, <2>2 DEF IInv, WorkerIsBound, CtxOf
<1>5. RunsInItsWorkspace'
  BY <1>1 DEF IInv, RunsInItsWorkspace, IsProcess
<1>6. TableIsSound'
  <2>1. ASSUME NEW g \in Hosts, NEW j \in 1..Len(procs'[g])
        PROVE  EntryIsSound(g, j)'
    <3>1. g \notin gone /\ procs'[g] = procs[g]
      <4>1. CASE g \in gone
        <5>1. 1..Len(procs'[g]) = {} BY <4>1
        <5>2. QED BY <5>1
      <4>2. CASE g \notin gone BY <4>2
      <4>3. QED BY <4>1, <4>2
    <3>2. procs[g][j].by \in Calls /\ EntryIsSound(g, j)
      BY <3>1, Entries DEF IInv, TableIsSound
    <3>3. procs[g][j].by \notin ends
      BY <3>1, <3>2 DEF EntryIsSound
    <3>4. QED
      BY <1>1, <3>1, <3>2, <3>3 DEF EntryIsSound
  <2>2. ASSUME NEW d \in Calls, call'[d].phase \in InTheTable
        PROVE  call'[d].target \in 1..Len(procs'[call'[d].host]) /\ ProcOf(d)'.by = d
    <3>1. call[d].phase \in InTheTable /\ d \notin ends
      BY <1>1, <2>2 DEF InTheTable
    <3>2. call[d].host \in Hosts \ gone
      BY <3>1, PolledEntry DEF InTheTable
    <3>3. QED
      BY <1>1, <3>1, <3>2 DEF ProcOf, IInv, TableIsSound
  <2>3. QED BY <2>1, <2>2 DEF TableIsSound
<1>7. QED
  BY <1>2, <1>3, <1>4, <1>5, <1>6 DEF IInv

(* The process of an agent ends with the calls that it runs itself.           *)
LEMMA AgentRestartsKeeps ==
  ASSUME IInv, NEW a \in Agents, AgentRestarts(a)
  PROVE  IInv'
<1> DEFINE ends == {c \in Calls :
                     Owner[c] = a /\ call[c].phase \notin {"idle", "done"} /\ ~InServe(c)}
           r(c) == IF Owner[c] # a \/ call[c].phase = "idle" THEN call[c]
                   ELSE [call[c] EXCEPT !.waits = FALSE, !.phase = IF InServe(c) THEN @ ELSE "done"]
<1>1. /\ call \in [Calls -> CallRecord] /\ registry \in Nat
      /\ agent \in [Agents -> AgentRecord]
      /\ procs \in [Hosts -> Seq(ProcRecord)]
  BY DEF IInv, Shapes
<1>2. /\ call' = [c \in Calls |-> r(c)]
      /\ agent' = [agent EXCEPT ![a] = [endpoint |-> registry, cancel |-> FALSE, known |-> {}]]
      /\ procs' = [procs EXCEPT ![a] = <<>>]
      /\ UNCHANGED <<daemon, service, ran>>
  BY DEF AgentRestarts
<1>3. ASSUME NEW c \in Calls
      PROVE  /\ r(c) \in CallRecord
             /\ r(c).kind = call[c].kind /\ r(c).host = call[c].host
             /\ r(c).target = call[c].target /\ r(c).answer = call[c].answer
             /\ r(c).waits => call[c].waits /\ c \notin ends
             /\ r(c).phase = IF c \in ends THEN "done" ELSE call[c].phase
  <2>1. call[c] \in CallRecord
    BY <1>1
  <2>2. CASE Owner[c] # a \/ call[c].phase = "idle"
    <3>1. r(c) = call[c] /\ c \notin ends
      BY <2>2
    <3> HIDE DEF r, ends
    <3>2. call[c].waits \in BOOLEAN
      BY <2>1 DEF CallRecord
    <3>3. QED BY <2>1, <3>1, <3>2
  <2>3. CASE ~(Owner[c] # a \/ call[c].phase = "idle")
    BY <2>1, <2>3 DEF CallRecord, Phases
  <2>4. QED BY <2>2, <2>3
<1>4. \A c \in Calls : call'[c] = r(c)
  BY <1>2
<1> HIDE DEF r
<1>5. EndsSome(ends)
  BY <1>3, <1>4 DEF EndsSome
<1>6. Shapes'
  <2>1. call' \in [Calls -> CallRecord]
    BY <1>2, <1>3
  <2>2. agent' \in [Agents -> AgentRecord]
    <3>1. [endpoint |-> registry, cancel |-> FALSE, known |-> {}] \in AgentRecord
      BY <1>1 DEF AgentRecord
    <3>2. QED BY <1>1, <1>2, <3>1
  <2>3. procs' \in [Hosts -> Seq(ProcRecord)]
    BY <1>1, <1>2 DEF Hosts
  <2>4. QED
    BY <1>2, <2>1, <2>2, <2>3 DEF IInv, Shapes, daemon, service
<1>7. SupIsSound'
  <2>1. registry \notin sup.left /\ \A s \in sup.left : s < registry
    <3>1. \A s \in sup.left : s < registry /\ s \in Nat
      BY DEF IInv, SupIsSound, Shapes, SupRecord
    <3>2. QED BY <1>1, <3>1
  <2>2. \A b \in Agents : agent'[b].endpoint = registry \/ agent'[b] = agent[b]
    BY <1>1, <1>2
  <2>3. \A b \in Agents : agent'[b].endpoint <= registry /\ agent'[b].endpoint \notin sup.left
    BY <1>1, <2>1, <2>2 DEF IInv, SupIsSound
  <2>4. QED
    BY <1>2, <2>3 DEF IInv, SupIsSound, daemon
<1>8. a \in Hosts /\ a \notin Services
  BY Places
<1>9. \A c \in Calls : call[c].host = a /\ call[c].phase # "idle"
                         => c \in ends \/ call[c].phase = "done"
  BY <1>8, HostOf DEF InServe, AtServe
<1>10. \A c \in ends : call[c].host = a /\ call[c].phase # "idle"
  BY HostOf DEF InServe, AtServe
<1>11. ends \in SUBSET Calls /\ {a} \in SUBSET Hosts
  BY <1>8
<1>12. /\ \A h \in Hosts : procs'[h] = IF h \in {a} THEN <<>> ELSE procs[h]
       /\ \A s \in Services : queue'[s] = IF s \in {a} THEN <<>> ELSE queue[s]
       /\ \A s \in Services \ {a} : ctx'[s] = ctx[s]
       /\ UNCHANGED ran
  BY <1>1, <1>2, <1>8 DEF service
<1> HIDE DEF ends
<1>13. QED
  BY <1>5, <1>6, <1>7, <1>9, <1>10, <1>11, <1>12, SomeEnd

-----------------------------------------------------------------------------
(* The supervisor and the services.                                           *)

(* What ends with these services.                                             *)
LEMMA ServesEndKeeps ==
  ASSUME IInv, NEW gone \in SUBSET Nat, ServesEnd(gone), UNCHANGED <<registry, agent, ran>>,
         SupIsSound', clients' \subseteq Nat, sup' \in SupRecord
  PROVE  IInv'
<1> DEFINE ends == {c \in Calls : InServe(c) /\ call[c].host \in gone}
           r(c) == IF ~(InServe(c) /\ call[c].host \in gone) THEN call[c]
                   ELSE [call[c] EXCEPT !.phase = "done", !.waits = FALSE,
                                        !.result = IF call[c].waits THEN "failed" ELSE @]
<1>1. /\ call \in [Calls -> CallRecord] /\ procs \in [Hosts -> Seq(ProcRecord)]
      /\ queue \in [Services -> Seq(Calls)] /\ ctx \in [Services -> CtxRecord]
      /\ pending \in [Services -> SUBSET Calls] /\ alive \subseteq Nat
  BY DEF IInv, Shapes
<1>2. /\ call' = [c \in Calls |-> r(c)] /\ alive' = alive \ gone
      /\ procs' = [h \in Hosts |-> IF h \in gone THEN <<>> ELSE procs[h]]
      /\ queue' = [s \in Services |-> IF s \in gone THEN <<>> ELSE queue[s]]
      /\ pending' = [s \in Services |-> IF s \in gone THEN {} ELSE pending[s]]
      /\ ctx' = [s \in Services |->
           IF s \in gone THEN [session |-> Serve, workspace |-> Serve] ELSE ctx[s]]
  BY DEF ServesEnd
<1>3. ASSUME NEW c \in Calls
      PROVE  /\ r(c) \in CallRecord
             /\ r(c).kind = call[c].kind /\ r(c).host = call[c].host
             /\ r(c).target = call[c].target /\ r(c).answer = call[c].answer
             /\ r(c).waits => call[c].waits /\ c \notin ends
             /\ r(c).phase = IF c \in ends THEN "done" ELSE call[c].phase
  <2>1. call[c] \in CallRecord
    BY <1>1
  <2>2. CASE ~(InServe(c) /\ call[c].host \in gone)
    <3>1. r(c) = call[c] /\ c \notin ends
      BY <2>2
    <3> HIDE DEF r, ends
    <3>2. call[c].waits \in BOOLEAN
      BY <2>1 DEF CallRecord
    <3>3. QED BY <2>1, <3>1, <3>2
  <2>3. CASE InServe(c) /\ call[c].host \in gone
    <3>1. PICK old \in CallRecord, result \in Answers \cup {"failed"} :
            /\ old = call[c]
            /\ r(c) = [old EXCEPT !.phase = "done", !.waits = FALSE, !.result = result]
      BY <2>1, <2>3 DEF CallRecord
    <3>2. c \in ends
      BY <2>3
    <3> HIDE DEF r, ends
    <3>3. r(c) \in CallRecord
      <4>1. "done" \in Phases
        BY DEF Phases
      <4>2. QED
        BY <3>1, <4>1 DEF CallRecord
    <3>4. /\ r(c).kind = old.kind /\ r(c).host = old.host /\ r(c).target = old.target
          /\ r(c).answer = old.answer /\ r(c).waits = FALSE /\ r(c).phase = "done"
      BY <3>1 DEF CallRecord
    <3>5. QED
      BY <3>1, <3>2, <3>3, <3>4
  <2>4. QED BY <2>2, <2>3
<1>4. \A c \in Calls : call'[c] = r(c)
  BY <1>2
<1> HIDE DEF r
<1>5. EndsSome(ends)
  BY <1>3, <1>4 DEF EndsSome
<1>6. Shapes'
  <2>1. call' \in [Calls -> CallRecord]
    BY <1>2, <1>3
  <2>2. procs' \in [Hosts -> Seq(ProcRecord)] /\ queue' \in [Services -> Seq(Calls)]
    BY <1>1, <1>2
  <2>3. pending' \in [Services -> SUBSET Calls] /\ alive' \subseteq Nat
    BY <1>1, <1>2
  <2>4. ctx' \in [Services -> CtxRecord]
    <3>1. [session |-> Serve, workspace |-> Serve] \in CtxRecord
      BY Places DEF CtxRecord
    <3>2. QED BY <1>1, <1>2, <3>1
  <2>5. QED
    BY <2>1, <2>2, <2>3, <2>4 DEF IInv, Shapes
<1> DEFINE hosts == gone \cap Hosts
<1>7. hosts \in SUBSET Hosts /\ ends \in SUBSET Calls
  OBVIOUS
<1>8. \A c \in Calls : call[c].host \in hosts /\ call[c].phase # "idle"
                         => c \in ends \/ call[c].phase = "done"
  <2>1. \A h \in hosts : h \in Services
    BY Places, ServeIsNoAgent
  <2>2. QED BY <2>1 DEF InServe, AtServe
<1>9. \A c \in ends : call[c].phase # "idle" /\ call[c].host \in hosts
  BY Places DEF InServe, AtServe
<1>10. /\ \A h \in Hosts : procs'[h] = IF h \in hosts THEN <<>> ELSE procs[h]
       /\ \A s \in Services : queue'[s] = IF s \in hosts THEN <<>> ELSE queue[s]
       /\ \A s \in Services \ hosts : ctx'[s] = ctx[s]
  BY <1>2, Places
<1> HIDE DEF ends, hosts
<1>11. QED
  BY <1>5, <1>6, <1>7, <1>8, <1>9, <1>10, SomeEnd

(* What the supervisor has, with its types.                                   *)
LEMMA SupTypes ==
  ASSUME IInv
  PROVE  /\ SupIsSound /\ sup \in SupRecord /\ registry \in Nat /\ MaxServes \in Nat \ {0}
         /\ clients \subseteq Nat /\ alive \subseteq Nat
         /\ sup.child \in Nat /\ sup.conn \in Nat /\ sup.new \in Nat /\ sup.next \in Nat
BY BoundsAssumption DEF IInv, Shapes, SupRecord

(* Some services end, and some children: no invariant of the supervisor says  *)
(* that one runs.                                                             *)
LEMMA FewerRun ==
  ASSUME IInv, UNCHANGED <<sup, registry, agent>>, alive' \subseteq alive,
         clients' \subseteq clients, clients' \subseteq alive',
         ~sup.wsl => alive' \subseteq clients' \cup sup.left
  PROVE  SupIsSound' /\ clients' \subseteq Nat /\ sup' \in SupRecord
<1>1. SupIsSound'
  BY SupTypes DEF SupIsSound
<1>2. QED
  BY <1>1, SupTypes

(* A crash ends every call in the service.                                    *)
LEMMA CrashKeeps ==
  ASSUME IInv, NEW s \in Services, Crash(s)
  PROVE  IInv'
<1>1. /\ ServesEnd({s}) /\ clients' = clients \ {s} /\ alive' = alive \ {s}
      /\ UNCHANGED <<sup, registry, agent, ran>>
  BY DEF Crash, ServesEnd
<1>2. SupIsSound' /\ clients' \subseteq Nat /\ sup' \in SupRecord
  BY <1>1, SupTypes, FewerRun DEF SupIsSound
<1>3. {s} \in SUBSET Nat
  BY Places
<1>4. QED
  BY <1>1, <1>2, <1>3, ServesEndKeeps

(* Only the supervisor, the registry and the services change.                 *)
LEMMA SupervisorKeeps ==
  ASSUME IInv, SupIsSound', UNCHANGED <<agent, call, service, procs, ran>>,
         alive' \subseteq Nat, clients' \subseteq Nat, sup' \in SupRecord, registry' \in Nat
  PROVE  IInv'
<1>1. Shapes'
  BY DEF IInv, Shapes, service
<1>2. CallsAreSound' /\ QueueIsSound' /\ RunsInItsWorkspace'
  BY DEF IInv, CallsAreSound, CallIsSound, QueueIsSound, QueueOf, RunsInItsWorkspace, IsProcess, service
<1>3. WorkerIsBound' /\ TableIsSound'
  BY DEF IInv, WorkerIsBound, Working, InServe, AtServe, IsProcess, CtxOf, TableIsSound,
         EntryIsSound, ProcOf, service
<1>4. QED
  BY <1>1, <1>2, <1>3 DEF IInv

(* wsl.exe ends, and the service goes on.                                     *)
LEMMA ClientEndsKeeps ==
  ASSUME IInv, NEW s \in Services, ClientEnds(s)
  PROVE  IInv'
<1>1. /\ sup.wsl /\ clients' = clients \ {s} /\ alive' = alive
      /\ UNCHANGED <<sup, registry, agent, call, service, procs, ran>>
  BY DEF ClientEnds
<1>2. SupIsSound' /\ clients' \subseteq Nat /\ sup' \in SupRecord
  BY <1>1, SupTypes, FewerRun DEF SupIsSound
<1>3. QED
  BY <1>1, <1>2, SupTypes, SupervisorKeeps

(* The daemon stops: the service ends with it, or in WSL mode may go on.      *)
LEMMA StopKeeps ==
  ASSUME IInv, Stop
  PROVE  IInv'
<1>1. PICK gone \in IF sup.wsl /\ sup.child # 0 THEN {{}, alive} ELSE {{sup.child}} :
        ServesEnd(gone) /\ clients' = clients \ (gone \cup {sup.child})
  BY DEF Stop
<1>2. /\ sup' = [sup EXCEPT !.stop = TRUE, !.child = 0] /\ alive' = alive \ gone
      /\ UNCHANGED <<registry, agent, ran>>
  BY <1>1 DEF Stop, ServesEnd
<1>3. /\ sup' \in SupRecord /\ sup'.child = 0 /\ sup'.pc = sup.pc /\ sup'.conn = sup.conn
      /\ sup'.new = sup.new /\ sup'.next = sup.next /\ sup'.wsl = sup.wsl /\ sup'.left = sup.left
  BY <1>2, SupTypes DEF SupRecord
<1>4. /\ clients' \subseteq clients \ {sup.child} /\ clients' \subseteq alive'
      /\ gone \in SUBSET Nat
      /\ ~sup.wsl => alive' \subseteq clients' \cup sup.left
  <2>1. clients \subseteq alive /\ (~sup.wsl => alive \subseteq clients \cup sup.left)
    BY SupTypes DEF SupIsSound
  <2>2. CASE sup.wsl /\ sup.child # 0
    BY <1>1, <1>2, <2>1, <2>2, SupTypes
  <2>3. CASE ~(sup.wsl /\ sup.child # 0)
    BY <1>1, <1>2, <2>1, <2>3, SupTypes
  <2>4. QED BY <2>2, <2>3
<1>5. SupIsSound'
  <2>1. alive' \subseteq alive
    BY <1>2
  <2>2. 0 <= sup.conn
    BY SupTypes
  <2>3. QED
    BY <1>2, <1>3, <1>4, <2>1, <2>2, SupTypes DEF SupIsSound
<1>6. QED
  BY <1>1, <1>2, <1>3, <1>4, <1>5, SupTypes, ServesEndKeeps

(* The watchdog goes on, and nothing else of the supervisor changes.          *)
SupMoves(pc) ==
  /\ sup' \in SupRecord /\ sup'.pc = pc /\ sup'.child = sup.child /\ sup'.conn = sup.conn
  /\ sup'.new = sup.new /\ sup'.next = sup.next /\ sup'.wsl = sup.wsl /\ sup'.left = sup.left

LEMMA SupMovesTo ==
  ASSUME sup \in SupRecord, NEW pc \in {"watch", "backoff", "starting", "publish", "keep", "off"},
         sup' = [sup EXCEPT !.pc = pc]
  PROVE  SupMoves(pc)
BY DEF SupMoves, SupRecord

(* A start replaces what ended: the watchdog has no second child, and shows   *)
(* no service that the registry does not have.                                *)
LEMMA WatchdogKeeps ==
  ASSUME IInv, Watch \/ TryStart \/ StartFails \/ OnConnection \/ Publish \/ KeepChild
  PROVE  IInv'
<1>1. /\ SupIsSound /\ sup \in SupRecord /\ registry \in Nat /\ MaxServes \in Nat \ {0}
      /\ clients \subseteq Nat /\ alive \subseteq Nat
      /\ sup.child \in Nat /\ sup.conn \in Nat /\ sup.new \in Nat /\ sup.next \in Nat
  BY SupTypes
<1>2. UNCHANGED <<agent, call, service, procs, ran>>
  BY DEF Watch, TryStart, StartFails, OnConnection, Publish, KeepChild, service
<1>3. /\ alive' \subseteq Nat /\ clients' \subseteq Nat /\ sup' \in SupRecord /\ registry' \in Nat
      /\ SupIsSound'
  <2>1. CASE Watch
    <3>1. /\ sup' = [sup EXCEPT !.pc = IF sup.stop THEN "off" ELSE "backoff"]
          /\ sup.pc = "watch" /\ (sup.stop \/ sup.child \notin clients)
          /\ UNCHANGED <<alive, clients, registry, agent>>
      BY <2>1 DEF Watch, ExitSeen
    <3>2. PICK pc \in {"off", "backoff"} :
            sup' = [sup EXCEPT !.pc = pc] /\ (pc = "off" <=> sup.stop)
      BY <3>1
    <3>3. SupMoves(pc)
      BY <1>1, <3>2, SupMovesTo
    <3>4. clients \subseteq {sup.child} /\ (pc = "backoff" => clients = {})
      BY <1>1, <3>1, <3>2 DEF SupIsSound
    <3>5. QED
      BY <1>1, <3>1, <3>3, <3>4 DEF SupIsSound, SupMoves
  <2>2. CASE TryStart
    <3>1. CASE sup.stop
      <4>1. /\ sup' = [sup EXCEPT !.pc = "off"] /\ sup.pc = "backoff"
            /\ UNCHANGED <<alive, clients, registry, agent>>
        BY <2>2, <3>1 DEF TryStart
      <4>2. SupMoves("off")
        BY <1>1, <4>1, SupMovesTo
      <4>3. QED
        BY <1>1, <4>1, <4>2 DEF SupIsSound, SupMoves
    <3>2. CASE ~sup.stop
      <4>1. /\ sup.pc = "backoff" /\ sup.next <= MaxServes
            /\ sup' = [sup EXCEPT !.pc = "starting", !.new = sup.next, !.next = sup.next + 1]
            /\ alive' = alive \cup {sup.next} /\ clients' = clients \cup {sup.next}
            /\ UNCHANGED <<registry, agent>>
        BY <2>2, <3>2 DEF TryStart
      <4>2. clients = {} /\ sup.next > 0 /\ registry < sup.next /\ sup.next + 1 \in Nat
        BY <1>1, <4>1 DEF SupIsSound
      <4>3. clients' = {sup.next} /\ sup.next \in Services
        BY <1>1, <4>1, <4>2 DEF Services
      <4>4. sup' \in SupRecord /\ sup'.pc = "starting" /\ sup'.new = sup.next
            /\ sup'.next = sup.next + 1 /\ sup'.child = sup.child /\ sup'.conn = sup.conn
            /\ sup'.wsl = sup.wsl /\ sup'.left = sup.left
        BY <1>1, <4>1, <4>2 DEF SupRecord
      <4>5. /\ clients' \subseteq alive' /\ alive' \subseteq Services /\ alive' \subseteq Nat
            /\ ~sup.wsl => alive' \subseteq clients' \cup sup.left
        BY <1>1, <4>1, <4>2, <4>3 DEF SupIsSound
      <4>6. sup.next < sup.next + 1 /\ sup.next + 1 <= MaxServes + 1 /\ registry < sup.next + 1
        BY <1>1, <4>1, <4>2
      <4>7. SupIsSound'
        BY <1>1, <4>1, <4>2, <4>3, <4>4, <4>5, <4>6 DEF SupIsSound
      <4>8. QED
        BY <1>1, <4>1, <4>3, <4>4, <4>5, <4>7
    <3>3. QED BY <3>1, <3>2
  <2>3. CASE StartFails
    <3>1. /\ sup.pc = "starting" /\ clients' = clients \ {sup.new}
          /\ alive' = IF sup.wsl THEN alive ELSE alive \ {sup.new}
          /\ sup' = [sup EXCEPT !.pc = "watch"] /\ UNCHANGED <<registry, agent>>
      BY <2>3 DEF StartFails
    <3>2. SupMoves("watch")
      BY <1>1, <3>1, SupMovesTo
    <3>3. clients' = {} /\ alive' \subseteq alive /\ (~sup.wsl => alive' \subseteq sup.left)
      BY <1>1, <3>1 DEF SupIsSound
    <3>4. QED
      BY <1>1, <3>1, <3>2, <3>3 DEF SupIsSound, SupMoves
  <2>4. CASE OnConnection
    <3>1. /\ sup.pc = "starting" /\ registry' = sup.new
          /\ sup' = [sup EXCEPT !.pc = "publish"] /\ UNCHANGED <<alive, clients, agent>>
      BY <2>4 DEF OnConnection
    <3>2. SupMoves("publish")
      BY <1>1, <3>1, SupMovesTo
    <3>3. /\ sup.child <= sup.conn /\ sup.conn <= registry /\ registry < sup.new
          /\ sup.new < sup.next /\ sup.next <= MaxServes + 1
          /\ clients \subseteq {sup.new}
      BY <1>1, <3>1 DEF SupIsSound
    <3>4. \A a \in Agents : agent[a].endpoint <= sup.new /\ agent[a].endpoint \notin sup.left
      <4>1. \A a \in Agents : /\ agent[a].endpoint \in Nat /\ agent[a].endpoint <= registry
                              /\ agent[a].endpoint \notin sup.left
        BY DEF IInv, Shapes, AgentRecord, SupIsSound
      <4>2. QED BY <1>1, <3>3, <4>1
    <3>5. sup.conn <= sup.new /\ \A s \in sup.left : s < sup.new
      <4>1. \A s \in sup.left : s \in Nat /\ s < registry
        BY <1>1 DEF SupIsSound, SupRecord
      <4>2. QED BY <1>1, <3>3, <4>1
    <3>6. SupIsSound'
      BY <1>1, <3>1, <3>2, <3>3, <3>4, <3>5 DEF SupIsSound, SupMoves
    <3>7. QED
      BY <1>1, <3>1, <3>2, <3>6 DEF SupMoves
  <2>5. CASE Publish
    <3>1. /\ sup.pc = "publish" /\ sup' = [sup EXCEPT !.pc = "keep", !.conn = sup.new]
          /\ UNCHANGED <<alive, clients, registry, agent>>
      BY <2>5 DEF Publish
    <3>2. /\ sup' \in SupRecord /\ sup'.pc = "keep" /\ sup'.next = sup.next
          /\ sup'.child = sup.child /\ sup'.conn = sup.new /\ sup'.new = sup.new
          /\ sup'.wsl = sup.wsl /\ sup'.left = sup.left
      BY <1>1, <3>1 DEF SupRecord
    <3>3. /\ sup.new = registry /\ sup.child <= registry /\ registry < sup.next
          /\ clients \subseteq {sup.new}
      BY <1>1, <3>1 DEF SupIsSound
    <3>4. SupIsSound'
      BY <1>1, <3>1, <3>2, <3>3 DEF SupIsSound
    <3>5. QED
      BY <1>1, <3>1, <3>2, <3>4
  <2>6. CASE KeepChild
    <3>1. /\ sup.pc = "keep" /\ sup' = [sup EXCEPT !.pc = "watch", !.child = sup.new]
          /\ UNCHANGED <<alive, clients, registry, agent>>
      BY <2>6 DEF KeepChild
    <3>2. /\ sup' \in SupRecord /\ sup'.pc = "watch" /\ sup'.next = sup.next
          /\ sup'.child = sup.new /\ sup'.conn = sup.conn /\ sup'.new = sup.new
          /\ sup'.wsl = sup.wsl /\ sup'.left = sup.left
      BY <1>1, <3>1 DEF SupRecord
    <3>3. /\ sup.conn = sup.new /\ sup.new = registry /\ registry < sup.next
          /\ clients \subseteq {sup.new}
      BY <1>1, <3>1 DEF SupIsSound
    <3>4. SupIsSound'
      BY <1>1, <3>1, <3>2, <3>3 DEF SupIsSound
    <3>5. QED
      BY <1>1, <3>1, <3>2, <3>4
  <2>7. QED
    BY <2>1, <2>2, <2>3, <2>4, <2>5, <2>6
<1>4. QED
  BY <1>2, <1>3, SupervisorKeeps

-----------------------------------------------------------------------------
(* The daemon begins with one service it has the endpoint of, and no calls.   *)
LEMMA InitHolds == Init => IInv
<1> SUFFICES ASSUME Init PROVE IInv
  OBVIOUS
<1>1. NewCall \in CallRecord /\ NewCall.phase = "idle" /\ NewCall.host = 0
      /\ NewCall.waits = FALSE /\ NewCall.answer = "none"
  BY NewCalls
<1>2. /\ call = [c \in Calls |-> NewCall] /\ queue = [s \in Services |-> <<>>]
      /\ ctx = [s \in Services |-> [session |-> Serve, workspace |-> Serve]]
      /\ pending = [s \in Services |-> {}]
      /\ procs = [h \in Hosts |-> <<>>] /\ ran = [c \in Calls |-> <<>>]
  BY DEF Init
<1>3. PICK n \in Nat, wsl \in BOOLEAN, left \in SUBSET Nat :
        /\ Up(n, wsl, left) /\ n \in 1..MaxServes /\ left \subseteq 1..MaxServes
        /\ \A s \in left : s < n
  <2>1. MaxServes \in Nat \ {0}
    BY BoundsAssumption
  <2>2. CASE Up(1, FALSE, {})
    <3>1. 1 \in Nat /\ 1 \in 1..MaxServes /\ {} \in SUBSET Nat /\ {} \subseteq 1..MaxServes
          /\ \A s \in {} : s < 1
      BY <2>1
    <3>2. FALSE \in BOOLEAN
      OBVIOUS
    <3>3. Up(1, FALSE, {})
      BY <2>2
    <3>4. QED BY <3>1, <3>2, <3>3, Zenon
  <2>3. CASE Up(1, TRUE, {})
    <3>1. 1 \in Nat /\ 1 \in 1..MaxServes /\ {} \in SUBSET Nat /\ {} \subseteq 1..MaxServes
          /\ \A s \in {} : s < 1
      BY <2>1
    <3>2. TRUE \in BOOLEAN
      OBVIOUS
    <3>3. Up(1, TRUE, {})
      BY <2>3
    <3>4. QED BY <3>1, <3>2, <3>3, Zenon
  <2>4. CASE MaxServes >= 2 /\ Up(2, FALSE, {1})
    <3>1. 2 \in Nat /\ 2 \in 1..MaxServes /\ {1} \in SUBSET Nat /\ {1} \subseteq 1..MaxServes
          /\ \A s \in {1} : s < 2
      BY <2>1, <2>4
    <3>2. FALSE \in BOOLEAN
      OBVIOUS
    <3>3. Up(2, FALSE, {1})
      BY <2>4
    <3>4. QED BY <3>1, <3>2, <3>3, Zenon
  <2>5. QED BY <2>2, <2>3, <2>4 DEF Init
<1>4. /\ alive = left \cup {n} /\ clients = {n} /\ registry = n
      /\ sup \in SupRecord /\ sup.pc = "watch" /\ sup.child = n /\ sup.conn = n
      /\ sup.next = n + 1 /\ sup.wsl = wsl /\ sup.left = left
      /\ agent = [a \in Agents |-> [endpoint |-> n, cancel |-> FALSE, known |-> {}]]
  BY <1>3 DEF Up, SupRecord
<1>5. Shapes
  <2>1. call \in [Calls -> CallRecord]
    BY <1>1, <1>2
  <2>2. [session |-> Serve, workspace |-> Serve] \in CtxRecord
    BY Places DEF CtxRecord
  <2>3. /\ queue \in [Services -> Seq(Calls)] /\ ctx \in [Services -> CtxRecord]
        /\ procs \in [Hosts -> Seq(ProcRecord)] /\ ran \in [Calls -> Seq(PlaceRecord)]
        /\ pending \in [Services -> SUBSET Calls]
    BY <1>2, <2>2
  <2>4. agent \in [Agents -> AgentRecord]
    BY <1>4 DEF AgentRecord
  <2>5. QED BY <1>3, <1>4, <2>1, <2>3, <2>4 DEF Shapes
<1>6. \A c \in Calls : call[c].phase = "idle" /\ call[c].host = 0 /\ call[c].answer = "none"
                       /\ ~call[c].waits /\ ran[c] = <<>>
  BY <1>1, <1>2
<1>7. CallsAreSound
  BY <1>6 DEF CallsAreSound, CallIsSound, InTheServiceOnly
<1>8. \A s \in Services : Len(queue[s]) = 0 /\ 1..Len(queue[s]) = {}
  BY <1>2
<1>9. QueueIsSound
  BY <1>6, <1>8, BoundsAssumption DEF QueueIsSound, QueueOf
<1>10. WorkerIsBound
  BY <1>6 DEF WorkerIsBound, Working, InServe
<1>11. RunsInItsWorkspace
  BY <1>6 DEF RunsInItsWorkspace, ToSet
<1>12. TableIsSound
  <2>1. \A h \in Hosts : 1..Len(procs[h]) = {}
    BY <1>2
  <2>2. QED BY <1>6, <2>1 DEF TableIsSound, InTheTable
<1>13. SupIsSound
  <2>1. \A a \in Agents : agent[a].endpoint = n
    BY <1>4
  <2>2. n \notin left /\ n + 1 <= MaxServes + 1 /\ n <= n /\ n < n + 1
    BY <1>3, BoundsAssumption
  <2>3. /\ clients \subseteq {sup.child} /\ clients \subseteq alive
        /\ alive \subseteq clients \cup sup.left /\ alive \subseteq Services
    BY <1>3, <1>4 DEF Services
  <2>4. QED
    BY <1>3, <1>4, <2>1, <2>2, <2>3 DEF SupIsSound
<1>14. QED
  BY <1>5, <1>7, <1>9, <1>10, <1>11, <1>12, <1>13 DEF IInv

(* Every action keeps the invariant.                                          *)
LEMMA NextKeeps == IInv /\ [Next]_vars => IInv'
<1> SUFFICES ASSUME IInv, [Next]_vars PROVE IInv'
  OBVIOUS
<1>1. CASE UNCHANGED vars
  <2>1. UNCHANGED <<agent, call, service, procs, ran, daemon>>
    BY <1>1 DEF vars, service, daemon
  <2>2. /\ SupIsSound' /\ alive' \subseteq Nat /\ clients' \subseteq Nat /\ sup' \in SupRecord
        /\ registry' \in Nat
    BY <2>1 DEF IInv, Shapes, SupIsSound, daemon
  <2>3. QED
    BY <2>1, <2>2, SupervisorKeeps
<1>2. ASSUME NEW c \in Calls, NEW id \in Ids, NEW kind \in Kinds[c], Call(c, kind, id)
      PROVE  IInv'
  BY <1>2, CallKeeps
<1>3. ASSUME NEW c \in Calls,
             \/ TimeOut(c) \/ Receive(c)
             \/ Enqueue(c) \/ InlineBegins(c) \/ Admit(c) \/ Mismatch(c)
             \/ Edit(c) \/ Answer(c) \/ AnswerLocally(c)
             \/ Exec(c) \/ AttachChild(c) \/ PollExit(c) \/ PollCancel(c) \/ PollDeadline(c)
             \/ HandOff(c) \/ Check(c) \/ KillProcess(c)
      PROVE  IInv'
  BY <1>3, TimeOutKeeps, ReceiveKeeps, EnqueueKeeps, InlineBeginsKeeps, AdmitKeeps,
     MismatchKeeps, EditKeeps, AnswerKeeps, AnswerLocallyKeeps, ExecKeeps, AttachChildKeeps,
     PollExitKeeps, PollCancelKeeps, PollDeadlineKeeps, HandOffKeeps, CheckKeeps,
     KillProcessKeeps
<1>4. ASSUME NEW s \in Services, WorkerBegins(s) \/ Crash(s) \/ ClientEnds(s)
      PROVE  IInv'
  BY <1>4, WorkerBeginsKeeps, CrashKeeps, ClientEndsKeeps
<1>5. ASSUME NEW h \in Hosts, NEW id \in DOMAIN procs[h],
             \/ ChildExits(h, id) \/ ReaderEof(h, id)
             \/ ReaderReaps(h, id) \/ ReaderMarks(h, id)
      PROVE  IInv'
  BY <1>5, ChildExitsKeeps, ReaderEofKeeps, ReaderReapsKeeps, ReaderMarksKeeps
<1>6. ASSUME NEW a \in Agents, Cancel(a) \/ NextTurn(a) \/ AgentRestarts(a)
      PROVE  IInv'
  BY <1>6, CancelKeeps, AgentRestartsKeeps
<1>7. CASE Watch \/ TryStart \/ StartFails \/ OnConnection \/ Publish \/ KeepChild \/ Stop
  BY <1>7, WatchdogKeeps, StopKeeps
<1>8. QED
  BY <1>1, <1>2, <1>3, <1>4, <1>5, <1>6, <1>7 DEF Next

-----------------------------------------------------------------------------
(* The state of the service has its types, and the invariants above hold in   *)
(* every reachable state, whatever crashes, times out and restarts.           *)
THEOREM Invariance == Spec => []IInv
<1>1. QED
  BY InitHolds, NextKeeps, PTL DEF Spec

(* No call runs twice: after a failure the agent does not repeat it           *)
(* (backend.rs, HttpToolExecutionBackend::execute).                           *)
THEOREM NoCallRunsTwice == Spec => []RunsAtMostOnce
<1>1. ASSUME IInv PROVE RunsAtMostOnce
  <2>1. \A c \in Calls : ran[c] = <<>> \/ Len(ran[c]) = 1
    BY <1>1 DEF IInv, CallsAreSound, CallIsSound
  <2>2. ASSUME NEW c \in Calls PROVE Len(ran[c]) <= 1
    <3>1. CASE ran[c] = <<>> BY <3>1
    <3>2. CASE Len(ran[c]) = 1 BY <3>2
    <3>3. QED BY <2>1, <3>1, <3>2
  <2>3. QED
    BY <2>2 DEF RunsAtMostOnce
<1>2. QED
  BY Invariance, <1>1, PTL

(* A tool that works on files or starts commands does so in the workspace of  *)
(* its agent, whatever inline calls come between (serve.rs, exec.rs).         *)
THEOREM ToolsStayInTheirWorkspace == Spec => []RunsInItsWorkspace
<1>1. IInv => RunsInItsWorkspace
  BY DEF IInv
<1>2. QED
  BY Invariance, <1>1, PTL

(* Every child that runs can be reached once its handle is there and is shown *)
(* as running, but for one that was to be killed before that, which is shown  *)
(* as killed; and no command that is answered as over runs on, with the       *)
(* child, its entry and its handle in three steps and kills in between        *)
(* (process_registry.rs, exec.rs).                                            *)
THEOREM TheTableIsTrue == Spec => []TableIsTrue
<1>1. ASSUME IInv PROVE TableIsTrue
  <2>1. SUFFICES ASSUME NEW h \in Hosts, NEW p \in ToSet(procs[h]), p.child = "running"
                 PROVE  /\ p.handle \/ call[p.by].phase = "spawned"
                        /\ p.status = (IF p.early THEN "killed" ELSE "running")
                        /\ call[p.by].answer \notin {"completed", "cancelled"}
    BY DEF TableIsTrue
  <2>2. PICK id \in 1..Len(procs[h]) : p = procs[h][id]
    <3>1. procs[h] \in Seq(ProcRecord)
      BY <1>1 DEF IInv, Shapes
    <3>2. QED BY <2>1, <3>1 DEF ToSet
  <2>3. QED
    BY <1>1, <2>1, <2>2 DEF IInv, TableIsSound, EntryIsSound, Shown
<1>2. QED
  BY Invariance, <1>1, PTL

(* The daemon has at most one child, in local mode no other service runs but  *)
(* what a failed attempt in WSL mode has left, and no agent is given one      *)
(* older than what the supervisor shows, although in WSL mode a service       *)
(* outlives its wsl.exe (workspace_supervisor.rs, watchdog, try_start, stop). *)
THEOREM TheServeIsCurrent == Spec => []ServeIsCurrent
<1>1. ASSUME IInv PROVE ServeIsCurrent
  <2>1. clients \subseteq {sup.child} \/ clients \subseteq {sup.new}
    BY <1>1 DEF IInv, Shapes, SupRecord, SupIsSound
  <2>2. PICK x : clients = {} \/ clients = {x}
    BY <2>1
  <2>3. Cardinality(clients) <= 1
    <3>1. Cardinality({}) = 0 BY FS_EmptySet
    <3>2. Cardinality({x}) = 1 BY FS_Singleton
    <3>3. CASE clients = {} BY <3>1, <3>3
    <3>4. CASE clients = {x} BY <3>2, <3>4
    <3>5. QED BY <2>2, <3>3, <3>4
  <2>4. QED
    BY <1>1, <2>3 DEF IInv, SupIsSound, ServeIsCurrent
<1>2. QED
  BY Invariance, <1>1, PTL

(* The state has its types: what waits for a worker is in its queue once,     *)
(* each worker has one call at a time, and a call that is over is not waited  *)
(* for (serve.rs).                                                            *)
THEOREM TypeCorrect == Spec => []TypeOK
<1>1. ASSUME IInv PROVE TypeOK
  <2>1. clients \subseteq alive /\ alive \subseteq Services
    BY <1>1 DEF IInv, SupIsSound
  <2>2. ASSUME NEW s \in Services
        PROVE  /\ Len(queue[s]) <= QueueSize /\ IsInjective(queue[s])
               /\ ToSet(queue[s]) = {c \in Calls : call[c].phase = "queued" /\ call[c].host = s}
               /\ Cardinality({c \in Calls : Working(c) /\ call[c].host = s}) <= 1
    <3>1. PICK q \in Seq(Calls) : q = queue[s]
      BY <1>1 DEF IInv, Shapes
    <3>2. /\ Len(q) <= QueueSize
          /\ \A i, j \in 1..Len(q) : q[i] = q[j] => i = j
          /\ \A i \in 1..Len(q) : call[q[i]].phase = "queued" /\ call[q[i]].host = s
          /\ \A c \in Calls : call[c].phase = "queued" /\ call[c].host = s
               => \E i \in 1..Len(q) : q[i] = c
      BY <1>1, <3>1 DEF IInv, QueueIsSound, QueueOf
    <3>3. IsInjective(q)
      BY <3>2 DEF IsInjective
    <3>4. ToSet(q) = {c \in Calls : call[c].phase = "queued" /\ call[c].host = s}
      BY <3>2 DEF ToSet
    <3>5. Cardinality({c \in Calls : Working(c) /\ call[c].host = s}) <= 1
      <4> DEFINE at == {c \in Calls : Working(c) /\ call[c].host = s}
      <4>1. \A c, d \in at : c = d
        <5>1. \A c, d \in Calls :
                Working(c) /\ Working(d) /\ call[d].host = call[c].host => c = d
          <6>1. WorkerIsBound
            BY <1>1 DEF IInv
          <6>2. QED
            BY <6>1 DEF WorkerIsBound
        <5>2. QED BY <5>1
      <4> HIDE DEF at
      <4>2. PICK x : at = {} \/ at = {x}
        <5>1. CASE at = {}
          BY <5>1, Zenon
        <5>2. CASE at # {}
          <6>1. PICK y : y \in at
            BY <5>2
          <6>2. at = {y}
            BY <4>1, <6>1
          <6>3. QED
            BY <6>2, Zenon
        <5>3. QED
          BY <5>1, <5>2
      <4>3. Cardinality({}) = 0 BY FS_EmptySet
      <4>4. Cardinality({x}) = 1 BY FS_Singleton
      <4>5. Cardinality(at) <= 1
        <5>1. CASE at = {} BY <4>3, <5>1
        <5>2. CASE at = {x} BY <4>4, <5>2
        <5>3. QED BY <4>2, <5>1, <5>2
      <4>6. QED BY <4>5 DEF at
    <3>6. QED BY <3>1, <3>2, <3>3, <3>4, <3>5
  <2>3. \A c \in Calls : call[c].waits => call[c].phase \notin {"idle", "done"}
    BY <1>1 DEF IInv, CallsAreSound, CallIsSound
  <2>4. QED
    BY <2>1, <2>2, <2>3 DEF TypeOK
<1>2. QED
  BY Invariance, <1>1, PTL
=============================================================================
