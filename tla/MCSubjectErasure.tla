-------------------------- MODULE MCSubjectErasure --------------------------
(***************************************************************************)
(* SubjectErasure for TLC.                                                 *)
(***************************************************************************)
EXTENDS SubjectErasure, TLC

CONSTANTS w1, w2, j1, j2, s1, s2, q1, q2

MCLeaseTTL == [w \in Workers |-> 1]
MCExactOrder == [f \in {0} |-> 0]
MCNoSkew == [w \in Workers |-> 0]
MCPageRows == [p \in Pages |-> 1]
MCSubjectOf == [j \in Jobs |-> IF j = j1 THEN s1 ELSE s2]
MCSymmetry == Permutations(Workers) \cup Permutations(Requests)
=============================================================================
