---------------------------- MODULE MCExportJob -----------------------------
(***************************************************************************)
(* ExportJob for TLC.                                                      *)
(***************************************************************************)
EXTENDS ExportJob, TimeText, TLC

CONSTANTS w1, w2, w3, j1, j2

MCLeaseTTL == [w \in Workers |-> 2]
MCExactOrder == [f \in {0} |-> 0]
\* Two binary digits of a second: four instants, .01 < .11 < .1 < .0 as text.
MCTextOrder == TextRank(2, 2)
MCSecondTTL == [w \in Workers |-> 4]
MCNoSkew == [w \in Workers |-> 0]
MCSkew == [w \in Workers |-> IF w = w3 THEN 1 ELSE 0]

\* Page 1 has no row, so it is read and leaves no chunk.
MCPageRows == [p \in Pages |-> IF p = 1 THEN 0 ELSE p + 1]
MCFullPages == [p \in Pages |-> 1]

MCWorkerSymmetry == Permutations(Workers)
MCPollerSymmetry == Permutations(Workers \ Inline)
=============================================================================
