-------------------------- MODULE MCCommandReceipts --------------------------
\* One id is a message and its retries, one closes the session, one resumes it.
EXTENDS CommandReceipts, TLC

CONSTANTS k1, k2

MCPayloads(k) == IF k = k1 THEN {"send"} ELSE IF k = k2 THEN {"close"} ELSE {"resume"}

Symmetry == Permutations(Requests)
=============================================================================
