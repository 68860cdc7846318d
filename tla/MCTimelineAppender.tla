-------------------------- MODULE MCTimelineAppender --------------------------
(* Small instance of the timeline appender: every order of intents.        *)
EXTENDS TimelineReplay, TLC

Symmetry == Permutations(BlockIds)
=============================================================================
