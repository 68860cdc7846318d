-------------------------- MODULE TimelinePersistence --------------------------
(***************************************************************************)
(* How the timeline of one seed reaches the disk and survives the daemon   *)
(* (the timeline half of crates/deepx-runtime/src/ringing/hub.rs,          *)
(* timeline_store.rs, and the worker lifecycle of registry.rs).            *)
(*                                                                         *)
(* Four threads write the one record of the seed:                          *)
(*   reader   the thread that reads the worker's stdout and publishes its  *)
(*            intents; it checkpoints terminal intents itself              *)
(*   saver    the deepx-timeline-persist thread, woken by a channel, which *)
(*            checkpoints what is pending when its window ends             *)
(*   loader   whoever touches the seed first after a start                 *)
(*   stopper  the handler of /control/v1/stop                              *)
(* Each takes the store lock, snapshots the timeline, and replaces the     *)
(* file in two system calls.  A crash may come between any two steps.      *)
(***************************************************************************)
EXTENDS TimelineReplay

CONSTANTS
    MaxEpochs,      \* bound: daemon starts
    CrashInReplace, \* may the process die between remove_file and rename?
    SpawnAfterStop  \* may a command still arrive once a stop has begun?

ASSUME PersistenceAssumption ==
    MaxEpochs \in Nat /\ CrashInReplace \in BOOLEAN /\ SpawnAfterStop \in BOOLEAN

Threads == {"reader", "saver", "loader", "stopper"}
None == [watermark |-> 0, turns |-> <<>>]

VARIABLES
    file,       \* the record on disk, None when there is none
    writing,    \* writing[th]: the record th is replacing the file with, or None
    removed,    \* removed[th]: th has removed the old file
    pc,         \* what each thread is about to do
    pending,    \* the seed is in pending_seeds
    wakes,      \* tokens in the saver's wake channel
    worker,     \* an agent process is running for the seed
    loaded,     \* the seed has been looked up on disk since this start
    epoch,      \* which start of the daemon this is
    published,  \* sequence of the last entry publish_timeline appended since the start
    terminal,   \* highest sequence of a terminal entry whose publish_timeline returned
    written     \* written[i]: the epoch that numbered entry i

persistVars == <<file, writing, removed, pc, pending, wakes>>
lifeVars == <<worker, loaded, epoch>>
ghostVars == <<published, terminal, written>>
vars == <<appenderVars, persistVars, lifeVars, ghostVars>>

Goto(th, label) == pc' = [pc EXCEPT ![th] = label]

----------------------------------------------------------------------------
(* Snapshots and recovery, as values.                                      *)

Timeline == [nextSeq |-> nextSeq, turns |-> turns, rounds |-> rounds,
             blocks |-> blocks, journal |-> journal]

\* prune_sealed_timeline_journal: entries of sealed turns are not persisted.
Retain(kept, entry) == IF turns[entry.turn].sealed THEN kept ELSE Append(kept, entry)

LiveTail ==
    LET kept[n \in 0 .. Len(journal)] ==
            IF n = 0 THEN <<>> ELSE Retain(kept[n - 1], journal[n])
    IN  kept[Len(journal)]

Checkpoint == [watermark |-> nextSeq, turns |-> turns, rounds |-> rounds,
               blocks |-> blocks, journal |-> LiveTail]

\* restore: next_fragment is rebuilt from the persisted entries alone; a later
\* TextDelta of a block overwrites an earlier one.
FragmentsIn(entries) ==
    LET deltas == {i \in DOMAIN entries : entries[i].event.type = "TextDelta"}
        keys == {entries[i].event.key : i \in deltas}
        last(k) == CHOOSE i \in deltas :
                      /\ entries[i].event.key = k
                      /\ \A j \in deltas : entries[j].event.key = k => j <= i
    IN  [k \in keys |-> entries[last(k)].event.fragment + 1]

Orphans(tl) == {t \in DOMAIN tl.turns : ~tl.turns[t].sealed}

\* Mutant: the rounds of an orphan are closed without an entry that says so.
NoRoundSeals(tl) == {}

RoundSeals(tl) ==
    {[turn |-> k[1], stage |-> 2, round |-> k[2], order |-> 0,
      event |-> [type |-> "RoundSealed", key |-> k, final |-> TRUE]] :
        k \in {j \in DOMAIN tl.rounds : j[1] \in Orphans(tl) /\ ~tl.rounds[j].sealed}}

BlockSeals(tl) ==
    {[turn |-> k[1], stage |-> 1, round |-> k[2], order |-> tl.blocks[k].order,
      event |-> [type |-> "BlockSealed", key |-> k]] :
        k \in {j \in DOMAIN tl.blocks : j[1] \in Orphans(tl) /\ ~tl.blocks[j].sealed}}

TurnSeals(tl) ==
    {[turn |-> t, stage |-> 3, round |-> 0, order |-> 0,
      event |-> [type |-> "TurnSealed", state |-> "Interrupted"]] : t \in Orphans(tl)}

\* The seals the unsealed turns are owed.
OwedSeals(tl) == BlockSeals(tl) \cup RoundSeals(tl) \cup TurnSeals(tl)

\* Turn by turn in snapshot order: its open blocks, its open rounds, itself.
SealedBefore(tl, a, b) ==
    LET created(s) == tl.turns[s.turn].created
    IN  \/ created(a) < created(b)
        \/ /\ created(a) = created(b)
           /\ \/ a.stage < b.stage
              \/ a.stage = b.stage /\ a.round < b.round
              \/ a.stage = b.stage /\ a.round = b.round /\ a.order < b.order

FirstSeal(tl, seals) == CHOOSE s \in seals : \A other \in seals : ~SealedBefore(tl, other, s)

OrphanSeals(tl) ==
    LET inOrder[seals \in SUBSET OwedSeals(tl)] ==
            IF seals = {} THEN <<>>
            ELSE <<FirstSeal(tl, seals)>> \o inOrder[seals \ {FirstSeal(tl, seals)}]
    IN  inOrder[OwedSeals(tl)]

RoundsClosed(tl) ==
    [k \in DOMAIN tl.rounds |->
        IF k[1] \in Orphans(tl) /\ ~tl.rounds[k].sealed THEN [sealed |-> TRUE, final |-> TRUE]
        ELSE tl.rounds[k]]

\* seal_orphan_running_turns: every unsealed turn ends as Interrupted.
SealOrphans(tl) ==
    LET seals == OrphanSeals(tl)
        orphan(t) == t \in Orphans(tl)
    IN  [nextSeq |-> tl.nextSeq + Cardinality(OwedSeals(tl)),
         turns |-> [t \in DOMAIN tl.turns |->
                      IF orphan(t) THEN [tl.turns[t] EXCEPT !.sealed = TRUE, !.state = "Interrupted"]
                      ELSE tl.turns[t]],
         rounds |-> RoundsClosed(tl),
         blocks |-> [k \in DOMAIN tl.blocks |->
                      IF orphan(k[1]) THEN [tl.blocks[k] EXCEPT !.sealed = TRUE] ELSE tl.blocks[k]],
         journal |-> tl.journal \o [i \in DOMAIN seals |->
                        [seq |-> tl.nextSeq + i, turn |-> seals[i].turn, event |-> seals[i].event]]]

Become(tl) ==
    /\ nextSeq' = tl.nextSeq /\ journal' = tl.journal
    /\ turns' = tl.turns /\ rounds' = tl.rounds /\ blocks' = tl.blocks

\* This epoch gives out the numbers up to n.
Stamp(n) == written' = written \o [i \in 1 .. n - Len(written) |-> epoch]

\* Mutant: what a dead worker left running stays so.
LeaveOrphans == UNCHANGED <<nextSeq, turns, rounds, blocks, journal, written>>

SealOrphansInMemory == Become(SealOrphans(Timeline)) /\ Stamp(nextSeq')

----------------------------------------------------------------------------
(* Replacing the file, by whichever thread.                                *)

StoreUnlocked == \A th \in Threads : writing[th] = None

\* Lock the store, then snapshot the timeline under its own lock.
BeginWrite(th) ==
    /\ pc[th] = "lock"
    /\ StoreUnlocked
    /\ writing' = [writing EXCEPT ![th] = Checkpoint]
    /\ Goto(th, "remove")
    /\ UNCHANGED <<appenderVars, file, removed, pending, wakes, lifeVars, ghostVars>>

RemoveOld(th) ==
    /\ pc[th] = "remove"
    /\ file' = None
    /\ removed' = [removed EXCEPT ![th] = TRUE]
    /\ Goto(th, "rename")
    /\ UNCHANGED <<appenderVars, writing, pending, wakes, lifeVars, ghostVars>>

Afterwards(th) ==
    CASE th = "reader" -> "announceTerminal"
      [] th = "saver" -> "recv"
      [] th = "loader" -> "idle"
      [] th = "stopper" -> "stopped"

RenameNew(th) ==
    /\ pc[th] = "rename"
    /\ file' = writing[th]
    /\ writing' = [writing EXCEPT ![th] = None]
    /\ removed' = [removed EXCEPT ![th] = FALSE]
    /\ Goto(th, Afterwards(th))
    /\ UNCHANGED <<appenderVars, pending, wakes, lifeVars, ghostVars>>

\* persist_timeline_sync drops the pending flag before it takes the lock.
DropPending(th) ==
    /\ pc[th] = "unpend"
    /\ pending' = FALSE
    /\ Goto(th, "lock")
    /\ UNCHANGED <<appenderVars, file, writing, removed, wakes, lifeVars, ghostVars>>

----------------------------------------------------------------------------
(* publish_timeline, on the thread that reads the worker's stdout.         *)

Apply(intent, label) ==
    /\ worker /\ loaded
    /\ pc["reader"] = "idle" /\ pc["loader"] = "idle"
    /\ intent
    /\ published' = nextSeq'
    /\ Stamp(nextSeq')
    /\ Goto("reader", label)
    /\ UNCHANGED <<file, writing, removed, pending, wakes, lifeVars, terminal>>

PublishStreaming == Apply(StreamingIntent, "request")

\* Mutant: a seal is announced before it is saved.
AnnounceBeforeSaving == Apply(TerminalIntent, "announceTerminal")

PublishTerminal == Apply(TerminalIntent, "unpend")

\* Mutant: the test of HashSet::insert is inverted.
WakeIfPending == wakes' = IF pending THEN wakes + 1 ELSE wakes

WakeIfNew == wakes' = IF pending THEN wakes ELSE wakes + 1

\* request_timeline_persistence wakes the saver only for a new pending seed.
RequestCheckpoint ==
    /\ pc["reader"] = "request"
    /\ pending' = TRUE
    /\ WakeIfNew
    /\ Goto("reader", "idle")
    /\ UNCHANGED <<appenderVars, file, writing, removed, lifeVars, ghostVars>>

\* The entry is broadcast only after its checkpoint; publish_timeline returns.
AnnounceTerminal ==
    /\ pc["reader"] = "announceTerminal"
    /\ terminal' = published
    /\ Goto("reader", "idle")
    /\ UNCHANGED <<appenderVars, file, writing, removed, pending, wakes, lifeVars, published, written>>

----------------------------------------------------------------------------
(* The saver thread.                                                       *)

TakeToken == wakes > 0 /\ wakes' = wakes - 1

SaverWakes ==
    /\ pc["saver"] = "recv"
    /\ TakeToken
    /\ Goto("saver", "window")
    /\ UNCHANGED <<appenderVars, file, writing, removed, pending, lifeVars, ghostVars>>

\* Further tokens are swallowed while the checkpoint window is open.
SaverSwallows ==
    /\ pc["saver"] = "window"
    /\ TakeToken
    /\ UNCHANGED <<appenderVars, file, writing, removed, pc, pending, lifeVars, ghostVars>>

SaverDrains ==
    /\ pc["saver"] = "window"
    /\ pending' = FALSE
    /\ Goto("saver", IF pending THEN "lock" ELSE "recv")
    /\ UNCHANGED <<appenderVars, file, writing, removed, wakes, lifeVars, ghostVars>>

----------------------------------------------------------------------------
(* Worker processes.                                                       *)

\* The worker exits; its stdout has been read to the end.
WorkerDies ==
    /\ worker /\ pc["reader"] = "idle"
    /\ worker' = FALSE
    /\ UNCHANGED <<appenderVars, persistVars, loaded, epoch, ghostVars>>

\* ensure_timeline_loaded: restore what the disk has, seal the turns nobody
\* runs any more and, when there were any, write the result back.
Load ==
    /\ ~loaded
    /\ StoreUnlocked
    /\ loaded' = TRUE
    /\ IF file = None
       THEN UNCHANGED <<appenderVars, pc, written>>
       ELSE LET restored == [nextSeq |-> file.watermark, turns |-> file.turns,
                             rounds |-> file.rounds, blocks |-> file.blocks,
                             journal |-> file.journal]
            IN  /\ Become(SealOrphans(restored))
                /\ Stamp(nextSeq')
                /\ nextFragment' = FragmentsIn(file.journal)
                /\ Goto("loader", IF OrphanSeals(restored) = <<>> THEN "idle" ELSE "lock")
    /\ UNCHANGED <<file, writing, removed, pending, wakes, worker, epoch, published, terminal>>

\* get_or_spawn and respawn_dead_agents: a new worker takes over, and what the
\* dead one left running is sealed in memory.  Nothing is requested of the
\* saver and nothing is broadcast.  get_or_spawn does not ask whether the
\* registry is shutting down.
Spawn ==
    /\ SpawnAfterStop \/ pc["stopper"] = "off"
    /\ ~worker /\ loaded /\ pc["loader"] = "idle"
    /\ worker' = TRUE
    /\ SealOrphansInMemory
    /\ UNCHANGED <<nextFragment, persistVars, loaded, epoch, published, terminal>>

----------------------------------------------------------------------------
(* A graceful stop, and the end of the process.                            *)

\* service.shutdown() ends the workers and joins their readers.
StopWorkers ==
    /\ pc["stopper"] = "off" /\ pc["reader"] = "idle"
    /\ worker' = FALSE
    /\ Goto("stopper", "seal")
    /\ UNCHANGED <<appenderVars, file, writing, removed, pending, wakes, loaded, epoch, ghostVars>>

\* seal_all_orphans
StopSeals ==
    /\ pc["stopper"] = "seal" /\ pc["loader"] = "idle"
    /\ SealOrphansInMemory
    /\ Goto("stopper", "flush")
    /\ UNCHANGED <<nextFragment, file, writing, removed, pending, wakes, lifeVars, published,
                   terminal>>

\* flush_timeline_persistence writes the seeds that are pending, no others;
\* then the 200 goes out.
StopFlushes ==
    /\ pc["stopper"] = "flush"
    /\ pending' = FALSE
    /\ Goto("stopper", IF pending THEN "unpend" ELSE "stopped")
    /\ UNCHANGED <<appenderVars, file, writing, removed, wakes, lifeVars, ghostVars>>

\* The process is gone, wherever its threads stood, and another one starts.
\* A temporary file left behind is never read.
EndOfProcess ==
    /\ epoch < MaxEpochs
    /\ CrashInReplace \/ \A th \in Threads : ~removed[th]
    /\ epoch' = epoch + 1
    /\ nextSeq' = 0 /\ journal' = <<>> /\ nextFragment' = <<>>
    /\ turns' = <<>> /\ rounds' = <<>> /\ blocks' = <<>>
    /\ writing' = [th \in Threads |-> None]
    /\ removed' = [th \in Threads |-> FALSE]
    /\ pc' = [reader |-> "idle", saver |-> "recv", loader |-> "idle", stopper |-> "off"]
    /\ pending' = FALSE /\ wakes' = 0
    /\ worker' = FALSE /\ loaded' = FALSE
    /\ published' = 0
    /\ written' = SubSeq(written, 1, file.watermark)
    /\ UNCHANGED <<file, terminal>>

----------------------------------------------------------------------------
Init ==
    /\ AppenderInit
    /\ file = None
    /\ writing = [th \in Threads |-> None]
    /\ removed = [th \in Threads |-> FALSE]
    /\ pc = [reader |-> "idle", saver |-> "recv", loader |-> "idle", stopper |-> "off"]
    /\ pending = FALSE /\ wakes = 0
    /\ worker = FALSE /\ loaded = FALSE /\ epoch = 1
    /\ published = 0 /\ terminal = 0 /\ written = <<>>

Write(th) == BeginWrite(th) \/ RemoveOld(th) \/ RenameNew(th)

ReaderNext ==
    PublishStreaming \/ PublishTerminal \/ RequestCheckpoint \/ AnnounceTerminal
    \/ DropPending("reader") \/ Write("reader")
SaverNext == SaverWakes \/ SaverSwallows \/ SaverDrains \/ Write("saver")
StopperNext == StopWorkers \/ StopSeals \/ StopFlushes \/ DropPending("stopper") \/ Write("stopper")
LifeNext == WorkerDies \/ Spawn \/ Load \/ EndOfProcess

Next == ReaderNext \/ SaverNext \/ StopperNext \/ Write("loader") \/ LifeNext

Spec == Init /\ [][Next]_vars

\* The periodic check of the registry finds a dead worker that left a turn
\* open; it stops looking once the daemon shuts down.
Respawn ==
    /\ pc["stopper"] = "off"
    /\ \E t \in DOMAIN turns : ~turns[t].sealed
    /\ Spawn

\* Threads keep running: a step a thread can take is taken while the process
\* lives.  The worker's intents, its death, a stop and the end of the process
\* are never owed.
Fairness ==
    /\ \A th \in Threads : WF_vars(Write(th)) /\ WF_vars(DropPending(th))
    /\ WF_vars(RequestCheckpoint) /\ WF_vars(AnnounceTerminal)
    /\ WF_vars(SaverWakes) /\ WF_vars(SaverDrains)
    /\ WF_vars(StopSeals) /\ WF_vars(StopFlushes)
    /\ WF_vars(Respawn)

FairSpec == Spec /\ Fairness

----------------------------------------------------------------------------
(* Properties.                                                             *)

TypeOK ==
    /\ AppenderTypeOK
    /\ DOMAIN writing = Threads /\ removed \in [Threads -> BOOLEAN]
    /\ pc \in [Threads -> {"idle", "recv", "window", "request", "unpend", "lock", "remove",
                           "rename", "announceTerminal", "off", "seal", "flush", "stopped"}]
    /\ pending \in BOOLEAN /\ worker \in BOOLEAN /\ loaded \in BOOLEAN
    /\ wakes \in Nat /\ published \in Nat /\ terminal \in Nat /\ epoch \in 1 .. MaxEpochs

\* The record on disk, or the one that is replacing it.
Durable ==
    IF \E th \in Threads : removed[th]
    THEN writing[CHOOSE th \in Threads : removed[th]]
    ELSE file

\* The record on disk and the entries numbered after it rebuild the current
\* transcript, over restarts, pruned journals and reused turn ids: a client
\* that joins with a snapshot and a watermark misses nothing.
RecordPlusTailIsCurrent ==
    loaded /\ file # None =>
        Replay([turns |-> file.turns, rounds |-> file.rounds, blocks |-> file.blocks],
               file.watermark, journal) = View

\* The four threads together keep the promise a client relies on: numbers are
\* given out once per epoch, nothing is taken back while the daemon runs, and
\* a restart loses no announced seal.
Log == INSTANCE EpochLog WITH log <- written, acked <- terminal,
                              MaxBurst <- 2 * MaxSeq + 1
ImplementsEpochLog == Log!LogSpec

\* Every entry published is on disk eventually, unless the process ends first
\* (and `published` starts again).
EveryEntrySaved ==
    \A n \in 1 .. MaxSeq : (published >= n) ~> (file.watermark >= n \/ published < n)

\* A turn whose worker died does not stay running for ever, unless the daemon
\* is being stopped: then nobody looks after workers any more.
OrphansEventuallySealed ==
    \A t \in TurnIds :
        (t \in DOMAIN turns /\ ~turns[t].sealed /\ ~worker)
            ~> (t \notin DOMAIN turns \/ turns[t].sealed \/ pc["stopper"] # "off")
=============================================================================
