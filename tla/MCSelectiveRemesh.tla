------------------------- MODULE MCSelectiveRemesh -------------------------
(***************************************************************************)
(* /W/C with LOD variants high and low, each with its file; proxy, whose   *)
(* model is not in the cache; and shadow, which has no output asset.  The  *)
(* model has a rod, with a draft variant and a final one, and a hull.  A   *)
(* run is given no path, one or two, among them ancestors, the container,  *)
(* one of its variants, prototypes with and without variants, the          *)
(* assembly, another container and a variant that does not exist.          *)
(***************************************************************************)
EXTENDS SelectiveRemesh

W == <<"W">>
C == <<"C">>
High == <<"LOD", "high">>
Low == <<"LOD", "low">>
Proxy == <<"LOD", "proxy">>
Shadow == <<"LOD", "shadow">>
Draft == <<"quality", "draft">>
Protos == <<"Prototypes">>
Rod == <<"rod">>

MCName == STRING
MCContainer == <<W, C>>
MCPrototype == {"rod", "hull"}
MCProtoVariants == [p \in MCPrototype |->
  IF p = "rod" THEN {Draft, <<"quality", "final">>} ELSE {}]
MCVariants == {High, Low, Proxy, Shadow}
MCOutput == [v \in MCVariants \cup {<< >>} |->
  CASE v = High -> "high.usdc" [] v = Low -> "low.usdc" [] v = Proxy -> "proxy.usdc"
    [] OTHER -> "no file"]
MCLoaded == {High, Low}

MCPaths ==
  { <<W>>, <<W, C>>, <<W, C, High>>,
    <<W, C, Protos>>, <<W, C, High, Protos>>,
    <<W, C, Protos, Rod>>, <<W, C, High, Protos, Rod>>,
    <<W, C, Protos, Rod, Draft>>, <<W, C, High, Protos, Rod, Draft>>,
    <<W, C, <<"Assembly">>, <<"rod_1">>>>,
    <<W, <<"D">>, Protos, Rod>>,
    <<W, C, <<"LOD", "mid">>>> }

MCPairs ==
  { {<<W, C, High>>, <<W, C, Protos, Rod>>},
    {<<W, C>>, <<W, C, High, Protos, Rod, Draft>>},
    {<<W, C, High, Protos>>, <<W, C, Protos, Rod, Draft>>},
    {<<W, C, Protos>>, <<W, C, High, Protos, Rod>>},
    {<<W, C, <<"Assembly">>, <<"rod_1">>>>, <<W, C, High, Protos, Rod>>} }

MCSelections == {{}} \cup {{p} : p \in MCPaths} \cup MCPairs

\* The hypothesis of the theorems on what a run leaves alone.
ASSUME MCSelectionsOrdinary == OrdinarySelections
=============================================================================
