----------------------------- MODULE MCPollLoop -----------------------------
(***************************************************************************)
(* PollLoop for TLC.                                                       *)
(***************************************************************************)
EXTENDS PollLoop

CONSTANTS p1, p2, a1, a2, b1, A, B

MCBatchSize == [p \in Pollers |-> IF p = p1 THEN 1 ELSE 2]
MCWorkspaceOf == [j \in Jobs |-> IF j = b1 THEN B ELSE A]
=============================================================================
