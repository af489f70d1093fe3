---------------------------- MODULE MCImportJob -----------------------------
(***************************************************************************)
(* ImportJob for TLC.                                                      *)
(***************************************************************************)
EXTENDS ImportJob, TLC

CONSTANTS w1, w2, j1

MCLeaseTTL == [w \in Workers |-> 1]
MCExactOrder == [f \in {0} |-> 0]
MCNoSkew == [w \in Workers |-> 0]
MCWorkerSymmetry == Permutations(Workers)
=============================================================================
