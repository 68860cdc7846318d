--------------------------- MODULE MCWorkspaceServe ---------------------------
(* Two agents with one call each, of any tool.                                *)
EXTENDS WorkspaceServe

CONSTANTS A, B, c1, c2

MCOwner == [c \in {c1, c2} |-> IF c = c1 THEN A ELSE B]
MCKinds == [c \in {c1, c2} |->
  IF c = c1 THEN {"exec", "edit"} ELSE {"check", "kill", "edit"}]
=============================================================================
