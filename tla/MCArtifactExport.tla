-------------------------- MODULE MCArtifactExport --------------------------
(***************************************************************************)
(* ArtifactExport for TLC.                                                 *)
(***************************************************************************)
EXTENDS ArtifactExport

CONSTANTS w1, w2, j1

MCLeaseTTL == [w \in Workers |-> 1]
MCExactOrder == [f \in {0} |-> 0]
MCNoSkew == [w \in Workers |-> 0]

\* An artifact, another one that begins otherwise, one that is the beginning of
\* the first, and an empty one.
MCBuilds == {<<0, 0, 1>>, <<1, 1, 1>>, <<0, 0>>, << >>}

MCWorkerSymmetry == Permutations(Workers)
=============================================================================
