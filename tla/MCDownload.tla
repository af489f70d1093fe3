----------------------------- MODULE MCDownload -----------------------------
(***************************************************************************)
(* Download, with SubjectErasure under it, for TLC.                        *)
(***************************************************************************)
EXTENDS Download, TLC

CONSTANTS w1, w2, j1, s1, s2, q1, q2, q3, d1

MCLeaseTTL == [w \in Workers |-> 1]
MCExactOrder == [f \in {0} |-> 0]
MCNoSkew == [w \in Workers |-> 0]
MCPageRows == [p \in Pages |-> 1]
MCSubjectOf == [j \in Jobs |-> s1]
MCSymmetry == Permutations(Workers) \cup Permutations(Requests \ OnHold)
=============================================================================
