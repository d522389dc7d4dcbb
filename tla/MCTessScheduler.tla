------------------------- MODULE MCTessScheduler -------------------------
(***************************************************************************)
(* Five jobs over two shapes: three of shape "hull" (two alike, one with   *)
(* its own parameters) and two alike of shape "rod".  Every selection is   *)
(* an initial state; the tally threshold is below the number of jobs.      *)
(***************************************************************************)
EXTENDS TessScheduler

MCShape == {"hull", "rod"}
MCParam == {"fine", "draft"}
MCShapeOf == <<"hull", "rod", "hull", "hull", "rod">>
MCParamsOf == <<"fine", "fine", "fine", "draft", "fine">>
=============================================================================
