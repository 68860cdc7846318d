------------------------------- MODULE EpochLog -------------------------------
(***************************************************************************)
(* What the daemon promises the readers of one seed's timeline             *)
(* (crates/deepx-runtime/src/ringing/hub.rs: publish_timeline, epoch,      *)
(* ensure_timeline_loaded).  A timeline is a log: entry i is the i-th one  *)
(* numbered.  Its content is abstracted to the epoch, the run of the       *)
(* daemon, that wrote it: within one epoch a number is given out once, so  *)
(* two logs agree on an entry exactly when they agree on its epoch.        *)
(***************************************************************************)
EXTENDS Naturals, Sequences

CONSTANTS
    MaxBurst   \* bound: entries numbered in one step (one intent, or the seals of all orphans)

ASSUME BurstAssumption == MaxBurst \in Nat \ {0}

VARIABLES
    epoch,   \* which run of the daemon this is
    log,     \* log[i]: the epoch that wrote the entry with timeline_seq i
    acked    \* entries up to here were announced after their checkpoint was written

logVars == <<epoch, log, acked>>

\* Entries are numbered one after the other and never taken back while the
\* daemon runs.
Extend(n) ==
    /\ log' = log \o [i \in 1 .. n |-> epoch]
    /\ UNCHANGED <<epoch, acked>>

\* A seal is announced once everything up to it is on disk.
Acknowledge(n) ==
    /\ acked' = n
    /\ UNCHANGED <<epoch, log>>

\* A restart loses a tail of the log, never an acknowledged part of it, and
\* is visible as a new epoch.
Restart(n) ==
    /\ epoch' = epoch + 1
    /\ log' = SubSeq(log, 1, n)
    /\ UNCHANGED acked

LogInit ==
    /\ epoch = 1
    /\ log = <<>>
    /\ acked = 0

LogNext ==
    \/ \E n \in 1 .. MaxBurst : Extend(n)
    \/ \E n \in acked + 1 .. Len(log) : Acknowledge(n)
    \/ \E n \in acked .. Len(log) : Restart(n)

LogSpec == LogInit /\ [][LogNext]_logVars

----------------------------------------------------------------------------
LogTypeOK ==
    /\ epoch \in Nat \ {0}
    /\ log \in Seq(1 .. epoch)
    /\ acked \in 0 .. Len(log)

\* What a client was told is sealed stays what it was told, over any number of
\* crashes: an acknowledged entry is neither lost nor replaced.
AcknowledgedKept ==
    [][/\ acked <= Len(log')
       /\ \A i \in 1 .. acked : log'[i] = log[i]]_logVars

\* Epochs along the log never decrease: a number is reused only by a later run.
EpochsOrdered == \A i, j \in 1 .. Len(log) : i <= j => log[i] <= log[j]
=============================================================================
