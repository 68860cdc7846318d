---------------------------- MODULE MCEventChannel ----------------------------
\* The two seeds of the runs are interchangeable.
EXTENDS EventChannel, TLC

Symmetry == Permutations(Seeds)
=============================================================================
