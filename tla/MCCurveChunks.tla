--------------------------- MODULE MCCurveChunks ---------------------------
(***************************************************************************)
(* Every array of up to three curves of -1 to 5 points, under every limit  *)
(* from 0 to 4.                                                            *)
(***************************************************************************)
EXTENDS CurveChunks

MCInputs == UNION {[1..n -> -1..5] : n \in 0..3}
MCLimits == 0..4
=============================================================================
