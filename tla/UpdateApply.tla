----------------------------- MODULE UpdateApply -----------------------------
(* Installing and updating DeepX: the installer that copies a bundle into the *)
(* installation directory, the planner that picks bundles for a catalog, and  *)
(* the updater that stages them, applies them file by file, restarts the      *)
(* application, waits for its health receipt and rolls back.                  *)
(*                                                                            *)
(* The unit of interleaving is one operation on the file system: a process    *)
(* may be killed between any two, and each may fail for good after its        *)
(* retries.  The operations that a running process still has to do are a      *)
(* queue of steps.  A file's content is the build of the component that       *)
(* shipped it; hashes and sizes agree exactly when the builds do.  Of         *)
(* install-state.json only what a decision reads is kept: the release and the *)
(* current build of each component (its protocol is a function of the build). *)
EXTENDS Integers, Sequences, FiniteSets, SequencesExt

CONSTANTS
  Files,        \* the files an installation can have
  AppFile,      \* DeepX.exe, by which an installation is told
  Payload,      \* Payload[c][b]: the files that build b of component c ships
  Protocol,     \* Protocol[c][b]: its control protocol, 0 when it names none
  Catalogs,     \* what update sources offer, see CatalogOK
  MaxTroubles,  \* bound: processes killed in the middle of their work, and file
                \* operations that fail after all retries
  MaxStages,    \* bound: operations staged
  MaxInstalls,  \* bound: runs of the installer
  MaxRollbacks  \* bound: rollback-staged commands

Components == {"runtime", "frontend", "backend"}
Kinds == Components \cup {"full"}
Builds == DOMAIN Payload["runtime"]

(* Catalog::validate: an artifact's targets agree with the catalog where the  *)
(* catalog names the component.  `full` lists the builds of the full bundle.  *)
CatalogOK(cat) ==
  /\ cat.release \in Nat \ {0}
  /\ cat.artifacts \subseteq Kinds /\ cat.artifacts # {}
  /\ DOMAIN cat.builds \subseteq Components /\ cat.full \in [Components -> Builds]
  /\ cat.artifacts \ {"full"} \subseteq DOMAIN cat.builds
  /\ \A c \in DOMAIN cat.builds : cat.full[c] = cat.builds[c]

(* A release names one catalog. *)
ASSUME CatalogsAssumption ==
  /\ \A cat \in Catalogs : CatalogOK(cat)
  /\ \A cat, other \in Catalogs : cat.release = other.release => cat = other

(* A bundle is collected from a directory tree and names a file once; no two  *)
(* components ship the same file.  BundleManifest::validate checks neither.   *)
ASSUME PayloadAssumption ==
  /\ Builds \subseteq Nat \ {0} /\ AppFile \in Files
  /\ \A c \in Components, b \in Builds :
        /\ Payload[c][b] \in Seq(Files) /\ Protocol[c][b] \in Nat
        /\ \A i, j \in DOMAIN Payload[c][b] : Payload[c][b][i] = Payload[c][b][j] => i = j
  /\ \A c, other \in Components : c # other =>
        \A b, later \in Builds :
          ToSet(Payload[c][b]) \cap ToSet(Payload[other][later]) = {}

VARIABLES
  marked,     \* the root marker is in place, without which nothing is changed
  installed,  \* installed[f]: the build whose copy of f is installed, 0 = no file
  backup,     \* backup[f]: the build whose copy is kept as f.previous
  state,      \* install-state.json: release and build per component
  staged,     \* the operation that pending.json names
  run,        \* the operation the running (or last) process works on
  mode,       \* what that process is doing
  work,       \* the file operations it still has to do
  entry,      \* history: files, backups, state and faults when the work began
  used        \* the bounds used so far

updateVars == <<marked, installed, backup, state, staged, run, mode, work, entry, used>>

(* The value of a missing install-state.json.  Every state that is written has *)
(* a release and a component, so no file has this value.                      *)
NoState == [release |-> 0, builds |-> [c \in Components |-> 0]]
NoOp == [release |-> 0, arts |-> <<>>, previous |-> NoState]
NoEntry == [installed |-> <<>>, backup |-> <<>>, state |-> NoState, faults |-> 0]

Trouble == used.crash + used.fault < MaxTroubles
Use(what) == used' = [used EXCEPT ![what] = @ + 1]

-----------------------------------------------------------------------------
(* The planner.                                                               *)

ProtocolOf(builds, c) ==
  IF c \in DOMAIN builds /\ builds[c] # 0 THEN Protocol[c][builds[c]] ELSE 0

ComponentChanged(s, cat, c) ==
  c \in DOMAIN cat.builds /\ s.builds[c] # cat.builds[c]

FullPlan(cat) == IF "full" \in cat.artifacts THEN <<"full">> ELSE <<>>

ComponentPlan(cat, kinds) ==
  IF ToSet(kinds) \subseteq cat.artifacts THEN kinds ELSE FullPlan(cat)

(* Mutant: the protocol of the installed side is not looked at. *)
OneSidedPlanBlind(s, cat, c, other) == ComponentPlan(cat, <<c>>)

(* One component changes: it must speak the protocol of the other one as it   *)
(* is installed.                                                              *)
OneSidedPlan(s, cat, c, other) ==
  IF ProtocolOf(cat.builds, c) # ProtocolOf(s.builds, other)
    THEN FullPlan(cat)
    ELSE ComponentPlan(cat, <<c>>)

(* The artifacts to apply, in order; <<>> when there is nothing to do, or no  *)
(* artifact that would do it.                                                 *)
PlanUpdate(s, cat) ==
  LET changed == {c \in Components : ComponentChanged(s, cat, c)} IN
  IF s = NoState THEN FullPlan(cat)
  ELSE IF changed = {} THEN <<>>
  ELSE IF "runtime" \in changed THEN ComponentPlan(cat, <<"runtime">>)
  ELSE IF changed = {"frontend", "backend"} THEN
    IF ProtocolOf(cat.builds, "frontend") # ProtocolOf(cat.builds, "backend")
      THEN FullPlan(cat)
      ELSE ComponentPlan(cat, <<"frontend", "backend">>)
  ELSE IF changed = {"backend"} THEN OneSidedPlan(s, cat, "backend", "frontend")
  ELSE OneSidedPlan(s, cat, "frontend", "backend")

-----------------------------------------------------------------------------
(* Bundles and the steps that install, commit and restore them.               *)

BundleComponents(cat, kind) ==
  IF kind = "full" THEN cat.full ELSE [c \in {kind} |-> cat.builds[c]]

(* The manifest of a bundle: its files in order, each with its build.         *)
Shipped(c, build) ==
  [i \in DOMAIN Payload[c][build] |-> [file |-> Payload[c][build][i], build |-> build]]
Manifest(cat, kind) ==
  LET builds == BundleComponents(cat, kind)
      part(c) == IF c \in DOMAIN builds THEN Shipped(c, builds[c]) ELSE <<>>
  IN part("runtime") \o part("frontend") \o part("backend")

(* One file operation: on behalf of artifact art (0: of none), on which file,   *)
(* with which build's copy, keeping the old copy or not, writing which state.  *)
FileStep(do, art, item, preserve) ==
  [do |-> do, art |-> art, file |-> item.file, build |-> item.build,
   preserve |-> preserve, state |-> NoState]
StateStep(do, art, s) ==
  [do |-> do, art |-> art, file |-> AppFile, build |-> 0, preserve |-> FALSE, state |-> s]
PlainStep(do, art) == StateStep(do, art, NoState)

(* install_file: verify the copy and drop an old backup, set the installed    *)
(* file aside (or, without a backup, delete it), move the new file into place. *)
InstallFile(art, item, preserve) ==
  LET step(do) == FileStep(do, art, item, preserve)
  IN IF preserve THEN <<step("drop"), step("keep"), step("place")>>
                 ELSE <<step("keep"), step("place")>>

ApplyBundle(cat, kind, art) ==
  LET files == Manifest(cat, kind) IN
  <<PlainStep("open", art)>>
    \o FlattenSeq([i \in DOMAIN files |-> InstallFile(art, files[i], kind # "full")])
    \o <<PlainStep("commit", art)>>

(* Rolling back a bundle walks its whole manifest backwards, whether or not a *)
(* file had been installed; a full bundle is refused.                         *)
RollbackBundle(cat, kind, art) ==
  LET files == Reverse(Manifest(cat, kind)) IN
  IF kind = "full" THEN <<>>
  ELSE FlattenSeq([i \in DOMAIN files |->
         <<FileStep("clear", art, files[i], FALSE), FileStep("return", art, files[i], FALSE)>>])

(* write_installed_state: the old file is removed before the new one is renamed. *)
WriteState(art, s) == <<PlainStep("remove", art), StateStep("rename", art, s)>>

CatalogOf(op) == CHOOSE cat \in Catalogs : cat.release = op.release

ApplyArtifacts(op) ==
  FlattenSeq([i \in DOMAIN op.arts |->
    <<PlainStep("check", i)>> \o ApplyBundle(CatalogOf(op), op.arts[i], i)])
  \o <<PlainStep("finish", 0)>>

(* Mutant: the artifact that failed is not rolled back itself. *)
RollbackBefore(op, n) ==
  FlattenSeq([i \in 1..(n - 1) |-> RollbackBundle(CatalogOf(op), op.arts[n - i], n - i)])
  \o (IF op.previous = NoState THEN <<>> ELSE WriteState(0, op.previous))

(* Roll back the artifacts 1..n, the last one first, then put the recorded    *)
(* state back when there was one.                                             *)
RollbackArtifacts(op, n) ==
  FlattenSeq([i \in 1..n |->
    RollbackBundle(CatalogOf(op), op.arts[n + 1 - i], n + 1 - i)])
  \o (IF op.previous = NoState THEN <<>> ELSE WriteState(0, op.previous))

(* commit_bundle_state: the bundle's components get their new build.          *)
Committed(s, cat, kind) ==
  LET new == BundleComponents(cat, kind) IN
  [release |-> cat.release,
   builds |-> [c \in Components |-> IF c \in DOMAIN new THEN new[c] ELSE s.builds[c]]]

-----------------------------------------------------------------------------
UpdateInit ==
  /\ marked = FALSE
  /\ installed = [f \in Files |-> 0] /\ backup = [f \in Files |-> 0]
  /\ state = NoState /\ staged = NoOp /\ run = NoOp
  /\ mode = "idle" /\ work = <<>> /\ entry = NoEntry
  /\ used = [what \in {"crash", "fault", "stage", "install", "rollback"} |-> 0]

(* A process starts to work on op with the given steps.                       *)
Begin(op, how, steps) ==
  /\ mode = "idle" /\ steps # <<>>
  /\ run' = op /\ mode' = how /\ work' = steps
  /\ entry' = [installed |-> installed, backup |-> backup, state |-> state, faults |-> used.fault]
  /\ UNCHANGED <<marked, installed, backup, state, staged>>

(* The installer installs the bundle it carries; a component bundle only over *)
(* an existing installation.  A full one then marks the root: post_install.   *)
Install(cat, kind) ==
  /\ used.install < MaxInstalls /\ Use("install")
  /\ kind \in cat.artifacts
  /\ kind = "full" \/ installed[AppFile] # 0
  /\ Begin([release |-> cat.release, arts |-> <<kind>>, previous |-> NoState],
           "installing",
           ApplyBundle(cat, kind, 1)
             \o (IF kind = "full" THEN <<PlainStep("mark", 0)>> ELSE <<>>))

(* stage: plan against the state as it is now, copy and verify the artifacts,  *)
(* record the operation and name it in pending.json.                          *)
Stage(cat) ==
  /\ used.stage < MaxStages /\ Use("stage")
  /\ marked
  /\ PlanUpdate(state, cat) # <<>>
  /\ staged' = [release |-> cat.release, arts |-> PlanUpdate(state, cat),
                 previous |-> state]
  /\ UNCHANGED <<marked, installed, backup, state, run, mode, work, entry>>

(* The application hands over to the updater and exits: apply_staged.         *)
ApplyStaged ==
  /\ marked /\ staged # NoOp
  /\ Begin(staged, "applying", ApplyArtifacts(staged))
  /\ UNCHANGED used

(* rollback-staged, for an operation that was applied.                        *)
RollbackStaged ==
  /\ used.rollback < MaxRollbacks /\ Use("rollback")
  /\ marked /\ run.release # 0 /\ run.arts # <<"full">> /\ run.previous # NoState
  /\ Begin(run, "reverting", RollbackArtifacts(run, Len(run.arts)))


-----------------------------------------------------------------------------
(* One file operation of the running process.                                 *)

Doing(what) == work # <<>> /\ Head(work).do = what

End == /\ mode' = "idle" /\ work' = <<>> /\ entry' = NoEntry /\ UNCHANGED run

(* Go on with the steps `more`; without any the process is done.              *)
Proceed(more) ==
  IF more = <<>> THEN End ELSE work' = more /\ UNCHANGED <<mode, entry, run>>

KeepsRest == UNCHANGED <<marked, state, staged, used>>

(* What makes a step fail whatever the file system does: a component bundle   *)
(* without an installation, a finished apply without a state.                 *)
Hopeless(s) ==
  \/ s.do = "open" /\ run.arts[s.art] # "full" /\ installed[AppFile] = 0
  \/ s.do = "finish" /\ state = NoState

Check ==   \* the staged artifact still has its size and hash; the ZIP opens
  /\ Doing("check") \/ Doing("open")
  /\ ~Hopeless(Head(work))
  /\ Proceed(Tail(work)) /\ KeepsRest /\ UNCHANGED <<installed, backup>>

DropBackup ==
  LET s == Head(work) IN
  /\ Doing("drop")
  /\ backup' = IF installed[s.file] # 0 THEN [backup EXCEPT ![s.file] = 0] ELSE backup
  /\ Proceed(Tail(work)) /\ KeepsRest /\ UNCHANGED installed

KeepPrevious ==
  LET s == Head(work) IN
  /\ Doing("keep")
  /\ backup' = IF installed[s.file] # 0 /\ s.preserve
                 THEN [backup EXCEPT ![s.file] = installed[s.file]] ELSE backup
  /\ installed' = [installed EXCEPT ![s.file] = 0]
  /\ Proceed(Tail(work)) /\ KeepsRest

(* Mutant: only a file that was installed before is activated. *)
PlaceOverOld ==
  LET s == Head(work) IN
  /\ Doing("place")
  /\ installed' = IF entry.installed[s.file] = 0 /\ entry.installed[AppFile] # 0
               THEN installed ELSE [installed EXCEPT ![s.file] = s.build]
  /\ Proceed(Tail(work)) /\ KeepsRest /\ UNCHANGED backup

Place ==
  LET s == Head(work) IN
  /\ Doing("place")
  /\ installed' = [installed EXCEPT ![s.file] = s.build]
  /\ Proceed(Tail(work)) /\ KeepsRest /\ UNCHANGED backup

(* Mutant: the hash of a file without a kept copy is not compared. *)
ClearAny ==
  LET s == Head(work) IN
  /\ Doing("clear")
  /\ installed' = [installed EXCEPT ![s.file] = 0]
  /\ Proceed(Tail(work)) /\ KeepsRest /\ UNCHANGED backup

(* rollback_bundle_zip, per file: when a copy is kept the installed file goes  *)
(* and the copy comes back; else the file goes if it is the bundle's own.     *)
ClearInstalled ==
  LET s == Head(work) IN
  /\ Doing("clear")
  /\ installed' = IF backup[s.file] # 0 \/ installed[s.file] = s.build
               THEN [installed EXCEPT ![s.file] = 0] ELSE installed
  /\ Proceed(Tail(work)) /\ KeepsRest /\ UNCHANGED backup

ReturnPrevious ==
  LET s == Head(work) IN
  /\ Doing("return")
  /\ IF backup[s.file] # 0
       THEN /\ installed' = [installed EXCEPT ![s.file] = backup[s.file]]
            /\ backup' = [backup EXCEPT ![s.file] = 0]
       ELSE UNCHANGED <<installed, backup>>
  /\ Proceed(Tail(work)) /\ KeepsRest

(* Both read the state file, decide what it becomes and write it.             *)
CommitBundle ==
  LET s == Head(work) IN
  /\ Doing("commit")
  /\ Proceed(WriteState(s.art, Committed(state, CatalogOf(run), run.arts[s.art]))
               \o Tail(work))
  /\ KeepsRest /\ UNCHANGED <<installed, backup>>

FinishApply ==
  /\ Doing("finish") /\ ~Hopeless(Head(work))
  /\ Proceed(WriteState(0, [state EXCEPT !.release = run.release])
               \o <<PlainStep("conclude", 0)>>)
  /\ KeepsRest /\ UNCHANGED <<installed, backup>>

WriteStateFile ==
  /\ Doing("remove") \/ Doing("rename")
  /\ state' = Head(work).state   \* "remove" carries NoState
  /\ Proceed(Tail(work))
  /\ UNCHANGED <<marked, installed, backup, staged, used>>

(* The operation is over: pending.json goes when it names this operation, and *)
(* the application is started again and watched, unless nobody asked for it.  *)
Conclude(relaunch) ==
  /\ Doing("conclude")
  /\ staged' = IF <<staged.release, staged.arts>> = <<run.release, run.arts>>
                  THEN NoOp ELSE staged
  /\ IF relaunch THEN mode' = "verifying" /\ work' = <<>> /\ UNCHANGED <<entry, run>>
                 ELSE End
  /\ UNCHANGED <<marked, installed, backup, state, used>>

Healthy == mode = "verifying" /\ End /\ KeepsRest /\ UNCHANGED <<installed, backup>>

(* No receipt within 30 seconds, or the application exited: it is killed and  *)
(* the operation is rolled back, unless it was a full bundle.                 *)
Unhealthy ==
  /\ mode = "verifying"
  /\ IF run.arts = <<"full">>
       THEN End
       ELSE /\ mode' = "reverting"
            /\ work' = RollbackArtifacts(run, Len(run.arts))
            /\ UNCHANGED <<entry, run>>
  /\ KeepsRest /\ UNCHANGED <<installed, backup>>

MarkRoot ==
  /\ Doing("mark")
  /\ marked' = TRUE
  /\ Proceed(Tail(work))
  /\ UNCHANGED <<installed, backup, state, staged, used>>

-----------------------------------------------------------------------------
(* Failures.                                                                  *)

CostOf(s) ==
  IF Hopeless(s) THEN UNCHANGED used
  ELSE Trouble /\ Use("fault")

(* A failed activation puts the kept copy back when it can.                   *)
PlaceBack(s) ==
  IF s.do = "place" /\ s.preserve /\ backup[s.file] # 0 /\ installed[s.file] = 0
    THEN /\ installed' = [installed EXCEPT ![s.file] = backup[s.file]]
         /\ backup' = [backup EXCEPT ![s.file] = 0]
    ELSE UNCHANGED <<installed, backup>>

(* A failure inside apply_bundle_zip rolls back the artifacts up to this one. *)
ApplyFails ==
  LET s == Head(work) IN
  /\ mode = "applying" /\ work # <<>> /\ s.art # 0 /\ s.do # "check"
  /\ CostOf(s) /\ PlaceBack(s)
  /\ IF RollbackArtifacts(run, s.art) = <<>>
       THEN End
       ELSE /\ mode' = "undoing" /\ work' = RollbackArtifacts(run, s.art)
            /\ UNCHANGED <<run, entry>>
  /\ UNCHANGED <<marked, state, staged>>

(* Every other failure of the updater and any of the installer just ends it.  *)
StepFails ==
  LET s == Head(work) IN
  /\ work # <<>> /\ s.do # "conclude"
  /\ \/ mode = "applying" /\ (s.art = 0 \/ s.do = "check")
     \/ mode \in {"installing", "reverting"}
  /\ CostOf(s) /\ PlaceBack(s) /\ End
  /\ UNCHANGED <<marked, state, staged>>

(* While undoing, a failure ends the rollback of that bundle, not the others'. *)
UndoFails ==
  /\ mode = "undoing" /\ work # <<>>
  /\ CostOf(Head(work))
  /\ \E n \in 1 .. Len(work) :
       /\ \A i \in 1 .. n : work[i].art = Head(work).art
       /\ n < Len(work) => work[n + 1].art # Head(work).art
       /\ Proceed(SubSeq(work, n + 1, Len(work)))
  /\ UNCHANGED <<marked, installed, backup, state, staged>>

(* The process is killed.                                                     *)
Killed ==
  /\ mode # "idle" /\ Trouble /\ Use("crash")
  /\ End
  /\ UNCHANGED <<marked, installed, backup, state, staged>>

UpdateNext ==
  \/ \E cat \in Catalogs : Stage(cat) \/ \E kind \in Kinds : Install(cat, kind)
  \/ ApplyStaged \/ RollbackStaged
  \/ Check \/ DropBackup \/ KeepPrevious \/ Place
  \/ ClearInstalled \/ ReturnPrevious
  \/ CommitBundle \/ FinishApply \/ WriteStateFile
  \/ \E relaunch \in BOOLEAN : Conclude(relaunch)
  \/ Healthy \/ Unhealthy
  \/ MarkRoot
  \/ ApplyFails \/ StepFails \/ UndoFails \/ Killed

UpdateSpec == UpdateInit /\ [][UpdateNext]_updateVars

-----------------------------------------------------------------------------
Operations ==
  [release : {0} \cup {cat.release : cat \in Catalogs},
   arts : UNION {[1..n -> Kinds] : n \in 0..2},
   previous : [release : Nat, builds : [Components -> Nat]]]

(* Type correctness; work is queued exactly while a process is busy.          *)
UpdateTypeOK ==
  /\ marked \in BOOLEAN
  /\ installed \in [Files -> Nat] /\ backup \in [Files -> Nat]
  /\ state \in [release : Nat, builds : [Components -> Nat]]
  /\ staged \in Operations /\ run \in Operations
  /\ mode \in {"idle", "installing", "applying", "undoing", "verifying",
               "reverting"}
  /\ (mode \in {"idle", "verifying"}) <=> (work = <<>>)
  /\ \A what \in DOMAIN used : used[what] \in Nat

(* A run of the updater that ends well (Conclude) leaves every file of every  *)
(* component it was to update at the build that install-state.json then names, *)
(* whatever was interrupted, failed or rolled back before it.                 *)
Targets(op) ==
  UNION {DOMAIN BundleComponents(CatalogOf(op), op.arts[i]) : i \in DOMAIN op.arts}
InPlace(c) == \A f \in ToSet(Payload[c][state.builds[c]]) : installed[f] = state.builds[c]
CommittedIsInstalled ==
  Doing("conclude") => \A c \in Targets(run) :
    state.builds[c] # 0 /\ InPlace(c) /\ state.release = run.release

(* An update never leaves a frontend and a backend that speak different       *)
(* protocols when they agreed as it was planned and agree in the full bundle  *)
(* (planner.rs plan_update).  What else was installed, rolled back or applied *)
(* in part since then does not matter, as long as the sides that it does not  *)
(* replace speak as they did: the plan is made at staging and is not looked   *)
(* at again, so a stale one can pair a frontend with a backend it was not     *)
(* compared with.                                                             *)
Agree(builds) == ProtocolOf(builds, "frontend") = ProtocolOf(builds, "backend")
OtherSidesSpeakAsPlanned ==
  \A c \in {"frontend", "backend"} \ Targets(run) :
    ProtocolOf(entry.state.builds, c) = ProtocolOf(run.previous.builds, c)
ProtocolsAgree ==
  Doing("conclude") /\ OtherSidesSpeakAsPlanned
    /\ Agree(run.previous.builds) /\ Agree(CatalogOf(run).full)
    => Agree(state.builds)

OpFiles(op) ==
  UNION {{[file |-> i.file, build |-> i.build] : i \in ToSet(Manifest(CatalogOf(op), op.arts[n]))}
           : n \in DOMAIN op.arts}

(* No component update leaves a file neither installed nor kept that was      *)
(* installed, not being the update's own, when the run began; and one that    *)
(* repeats an interrupted run keeps what that one kept unless something fails. *)
NothingLost ==
  mode \in {"installing", "applying", "undoing", "reverting"} /\ run.arts # <<"full">>
    => \A f \in Files :
         LET foreign(b) == b # 0 /\ [file |-> f, build |-> b] \notin OpFiles(run) IN
         \/ foreign(entry.installed[f])
         \/ foreign(entry.backup[f]) /\ used.fault = entry.faults
         => installed[f] # 0 \/ backup[f] # 0

(* A failed apply that could undo itself, and a rollback, put every file back *)
(* before they write the recorded state - provided that no file of the         *)
(* operation had an older copy kept from an earlier update, and none was the   *)
(* new one already.                                                           *)
CleanEntry == \A i \in OpFiles(run) :
  entry.backup[i.file] = 0 /\ entry.installed[i.file] # i.build
BackInPlace == mode \in {"undoing", "reverting"} /\ Doing("rename")
              /\ run.arts # <<"full">>
              /\ used.fault <= entry.faults + 1
RestoresWhenUndone == BackInPlace /\ CleanEntry => installed = entry.installed
=============================================================================
