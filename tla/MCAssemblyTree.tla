--------------------------- MODULE MCAssemblyTree ---------------------------
(***************************************************************************)
(* Documents over four definitions: an outer assembly of up to three       *)
(* components, each the inner assembly, the part, a reference that leads   *)
(* nowhere or a label that is no shape; an inner assembly of up to two,    *)
(* the part or a dangling reference; and a further free shape, an empty    *)
(* assembly, a simple shape or neither.  The part is simple or of another  *)
(* kind.  A component's suffix is its place only, so that it recurs in     *)
(* every assembly.                                                         *)
(***************************************************************************)
EXTENDS AssemblyTree

MCDef == {"outer", "inner", "part", "extra"}

Outer == UNION {[1..n -> {"inner", "part", NotShape, Dangling}] : n \in 0..3}
Inner == UNION {[1..n -> {"part", Dangling}] : n \in 0..2}

\* GetFreeShapes leaves out what some component refers to.
Free == {<< >>, <<"outer">>, <<"outer", "extra">>, <<"extra", "outer">>}

MCDocuments ==
  {[free |-> f,
    kind |-> [outer |-> "assembly", inner |-> "assembly", part |-> k, extra |-> l],
    parts |-> [outer |-> o, inner |-> i, part |-> << >>, extra |-> << >>]] :
     f \in Free, k \in {"simple", "other"},
     l \in {"assembly", "simple", "other"}, o \in Outer, i \in Inner}

MCSuffix ==
  [inst \in {<<d>> : d \in MCDef} \cup {<<d, k>> : d \in MCDef, k \in 1..3} |->
     IF Len(inst) = 1 THEN "0" ELSE <<"a", "b", "c">>[inst[2]]]

\* No path, one that a node has too, and one from elsewhere.
MCStrayPaths == {NoPath, AssemblyRoot, AssemblyRoot \o <<"a">>, <<"elsewhere">>}
=============================================================================
