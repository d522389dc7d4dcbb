---------------------------- MODULE MCModelLoad ----------------------------
(***************************************************************************)
(* Three prims: a container with an LOD set of two variants and a finish   *)
(* set of three, each LOD with a model of its own; a container with one    *)
(* set; and a plain one.  The file may have any selection, or none, in     *)
(* each set.                                                               *)
(***************************************************************************)
EXTENDS ModelLoad

MCPrims == << << <<"high", "low">>, <<"matte", "gloss", "raw">> >>,
              << <<"old", "new">> >>,
              << >> >>
MCAsset == [p \in 1..3 |-> [c \in Combinations(p) |->
  IF p = 1 THEN c[1] ELSE IF p = 2 THEN c[1] ELSE "bracket"]]
MCAuthored ==
  {<< <<a, b>>, <<c>>, << >> >> : a \in {"high", "low", Unselected},
     b \in {"matte", "gloss", "raw", Unselected}, c \in {"old", "new", Unselected}}
=============================================================================
