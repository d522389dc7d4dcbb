---------------------------- MODULE MCGeometryWrite ----------------------------
(***************************************************************************)
(* Four jobs: a rod, two variants of a gear, which may be inactive, and a  *)
(* bolt.  An earlier run may have found two planes where a job now makes   *)
(* one or none, and a curve more.                                          *)
(***************************************************************************)
EXTENDS GeometryWrite

CONSTANTS rod, gear, bolt

MCJobs ==
  << [proto |-> gear, variant |-> "fine", makes |-> {"Mesh", "SketchPlanes", "Plane_0"}],
     [proto |-> rod, variant |-> "", makes |-> {"Mesh", "SketchPlanes", "Plane_0"}],
     [proto |-> gear, variant |-> "draft", makes |-> {"Mesh"}],
     [proto |-> bolt, variant |-> "", makes |-> {"Sketch", "Curve_0"}] >>
MCPaths == {<<rod, "">>, <<bolt, "">>} \cup ({gear} \X {"", "fine", "draft"})
MCPrims ==
  {"Mesh", "Wireframe", "Sketch", "Curve_0", "Curve_1", "SketchPlanes", "Plane_0", "Plane_1"}
MCChild ==
  [prim \in MCPrims |-> IF prim \in {"Curve_0", "Curve_1"} THEN "Sketch"
                        ELSE IF prim \in {"Plane_0", "Plane_1"} THEN "SketchPlanes" ELSE prim]
MCInactive == {gear}
MCFound == {{}, MCPrims \ {"Mesh"}}
=============================================================================
