------------------------------ MODULE TessRoutine ------------------------------
(***************************************************************************)
(* TessellationRoutine::tessellate (lib/CadUSD/Tessellation/               *)
(* TessellationRoutine.cpp), which a task of the scheduler calls on one    *)
(* shape: mesh the shape under a deadline, remesh it while it intersects   *)
(* itself, then hand it to the routines that make USD data out of the      *)
(* triangulation.  The mesh routine is MeshWeld, step by step.             *)
(*                                                                         *)
(* A deadline is noticed where the kernel asks for it, if it asks, so a    *)
(* timed-out call may leave any faces without a triangulation, and so may  *)
(* one that ends in time on faces the kernel cannot mesh.  The repair pass *)
(* (which may end early too) decides which shape is meshed and no more:    *)
(* shape is the one it leaves.                                             *)
(***************************************************************************)
EXTENDS MeshWeld

CONSTANTS MaxRemeshPasses, \* params.mesh.maxRemeshPasses
          MaxNull          \* bound: faces a call of the mesher leaves out

ASSUME RoutineAssumption == MaxRemeshPasses \in Nat /\ MaxNull \in Nat

VARIABLES
  phase,     \* "called", "checking", "remeshing", "inst", "mesh", "returned"
  pass,      \* passes of the remesh loop begun
  meshedAt,  \* face -> 0 if it has no triangulation, 1 if it came with one, 2 and
             \* more for those made before any pass and in the passes
  success    \* what is returned

routineVars == <<phase, pass, meshedAt, success>>
vars == <<weldVars, routineVars>>

Faces == DOMAIN shape
Meshed == {f \in Faces : meshedAt[f] > 0}
---------------------------------------------------------------------------
\* BRepTools::Clean.
Clean == [f \in Faces |-> 0]

\* BRepMesh_IncrementalMesh on the whole shape: it fills in faces that have no
\* triangulation.
MesherRuns(before) ==
  \E left \in {s \in SUBSET Faces : Cardinality(s) <= MaxNull} :
    meshedAt' = [f \in Faces |-> IF before[f] > 0 \/ f \in left THEN before[f] ELSE pass + 2]

\* The shape is cleaned and meshed; a timeout is only logged.
Mesh ==
  /\ phase = "called"
  /\ MesherRuns(Clean)
  /\ phase' = "checking"
  /\ UNCHANGED <<weldVars, pass, success>>

\* The loop ends: no pass left, the checker gave up, or it found no overlap.
StopRemeshing ==
  /\ phase = "checking"
  /\ phase' = "inst"
  /\ UNCHANGED <<weldVars, pass, meshedAt, success>>

\* Mutated form: one pass too many.
FindOverlaps_OneMore ==
  /\ phase = "checking"
  /\ pass <= MaxRemeshPasses
  /\ pass' = pass + 1
  /\ phase' = "remeshing"
  /\ UNCHANGED <<weldVars, meshedAt, success>>

\* Mutated form: the passes are not counted.
FindOverlaps_Uncounted ==
  /\ phase = "checking"
  /\ pass < MaxRemeshPasses
  /\ phase' = "remeshing"
  /\ UNCHANGED <<weldVars, pass, meshedAt, success>>

\* Overlaps are found: finer parameters for one more pass.
FindOverlaps ==
  /\ phase = "checking"
  /\ pass < MaxRemeshPasses
  /\ pass' = pass + 1
  /\ phase' = "remeshing"
  /\ UNCHANGED <<weldVars, meshedAt, success>>

\* Mutated form: the triangulations are left on the shape.
Remesh_NoClean ==
  /\ phase = "remeshing"
  /\ MesherRuns(meshedAt)
  /\ phase' \in {"checking", "inst"}
  /\ UNCHANGED <<weldVars, pass, success>>

\* The shape is cleaned and meshed again; a timeout ends the loop.
Remesh ==
  /\ phase = "remeshing"
  /\ MesherRuns(Clean)
  /\ phase' \in {"checking", "inst"}
  /\ UNCHANGED <<weldVars, pass, success>>

\* The mesh routine is called on what is meshed.
CallMeshRoutine ==
  /\ phase = "inst"
  /\ WeldCall(Meshed)
  /\ phase' = "mesh"
  /\ UNCHANGED <<pass, meshedAt, success>>

MeshRoutine ==
  /\ phase = "mesh"
  /\ WeldStep
  /\ UNCHANGED routineVars

\* hasValidGeometry: a shape of edges alone has none here, but may have sketch curves.
ValidGeometry == ~(points = << >> /\ curves = << >>)

\* The sketch routine runs, and the results are joined with that of the optional quad
\* routine, which ran before and whose exceptions are caught.
Return ==
  /\ phase = "mesh"
  /\ step = "done"
  /\ \E instSuccess, sketchSuccess \in BOOLEAN :
       success' = (instSuccess /\ ValidGeometry /\ sketchSuccess)
  /\ phase' = "returned"
  /\ UNCHANGED <<weldVars, pass, meshedAt>>

Init ==
  /\ WeldInit
  /\ phase = "called"
  /\ pass = 0
  /\ meshedAt \in [Faces -> {0, 1}]
  /\ success = TRUE

Next ==
  \/ Mesh \/ StopRemeshing \/ FindOverlaps \/ Remesh
  \/ CallMeshRoutine \/ MeshRoutine \/ Return

Spec == Init /\ [][Next]_vars /\ WF_vars(Next)
---------------------------------------------------------------------------
Keys == UNION {{<<shape[f].tri, n>> : n \in FaceNodes(shape[f])} : f \in Faces}
Edges == UNION {{e.edge : e \in FaceEdges(shape[f])} : f \in Faces}
Places == UNION {Range(shape[f].places) : f \in Faces}

\* Variables have their types.
TypeOK ==
  /\ phase \in {"called", "checking", "remeshing", "inst", "mesh", "returned"}
  /\ pass \in 0..MaxRemeshPasses
  /\ meshedAt \in [Faces -> 0..MaxRemeshPasses + 2]
  /\ success \in BOOLEAN
  /\ step \in {"idle", "edges", "nodes", "triangles", "boundary", "curves", "compact", "done"}
  /\ at \in Nat \ {0} /\ next \in Nat \ {0}
  /\ DOMAIN nodeAlias \cup Range(nodeAlias) \cup boundaryKeys \cup DOMAIN nodeToCanonical \subseteq Keys
  /\ resolvedCanon \in Keys \cup {<< >>}
  /\ DOMAIN tangentAccum \subseteq Keys
  /\ \A key \in DOMAIN tangentAccum : tangentAccum[key] \subseteq Edges
  /\ \A curve \in Range(deferredCurves) : Range(curve.keys) \subseteq Keys
  /\ Range(points) \subseteq Places
  /\ \A idx \in DOMAIN boundaryTangents : boundaryTangents[idx] \subseteq Edges
  /\ \A curve \in Range(curves) : curve.edge \in Edges /\ Range(curve.places) \subseteq Places

\* Every node of the face whose triangles are emitted has a point under its key, so
\* the lookups of emitFaceTriangles never insert one, and the indices they give are
\* those of points, before and after the mesh is compacted.
CornersHavePoints ==
  /\ step = "triangles" =>
       \A n \in FaceNodes(shape[at]) : ResolveAlias(nodeAlias, Key(at, n)) \in DOMAIN nodeToCanonical
  /\ \A c \in DOMAIN faceVertexIndices : faceVertexIndices[c] \in DOMAIN points

\* The alias limit of resolveAlias suffices: what is followed from a key ends at a key
\* that is not aliased itself, in every state of the walk and after it.
AliasesFollowed == \A key \in Keys : ResolveAlias(nodeAlias, key) \notin DOMAIN nodeAlias

\* The nodes faces have in common on an edge become one point, however the vertex at
\* its end is numbered on the faces around it; and what is welded is all of one mesh,
\* the last one ("on the whole shape ... so the edge walk later works").
WeldedAcrossEdges ==
  step \in {"boundary", "curves", "compact"} =>
    LET PointOn(f, e, k) == nodeToCanonical[ResolveAlias(nodeAlias, Key(f, e.poly[k]))] IN
      /\ \A f \in meshed : meshedAt[f] = pass + 2
      /\ \A f, g \in meshed : f # g => \A d \in FaceEdges(shape[f]), e \in FaceEdges(shape[g]) :
           d.edge = e.edge => \A k \in DOMAIN d.poly : PointOn(f, d, k) = PointOn(g, e, k)

\* The first meshed face with the triangulation of the face: faces that have one
\* triangulation (copies, each with its own location) collapse onto it.
First(f) == Min({g \in meshed : shape[g].tri = shape[f].tri})
PlaceIn(f, n) == shape[First(f)].places[n]

\* Copies are alike: faces that meet on an edge collapse onto faces that meet on it too,
\* as when all faces of a part are placed twice.
CopiesAlike ==
  \A f, g \in meshed : \A d \in FaceEdges(shape[f]), e \in FaceEdges(shape[g]) :
    d.edge = e.edge => \A k \in DOMAIN d.poly : PlaceIn(f, d.poly[k]) = PlaceIn(g, e.poly[k])

\* The corners in the order they are emitted, as faces and nodes.
TriangleCorners(f) ==
  [t \in DOMAIN shape[f].triangles |->
     [c \in 1..3 |-> [face |-> f, node |-> shape[f].triangles[t][c]]]]
FaceCorners ==
  [f \in Faces |-> IF f \in meshed THEN FlattenSeq(TriangleCorners(f)) ELSE << >>]
Corners == FlattenSeq(FaceCorners)

\* The mesh shows the triangulation: after compaction each corner is at the place of
\* its node (in the face it collapses onto), and each point is the corner of a triangle.
CornersInPlace ==
  step = "done" /\ CopiesAlike =>
    /\ Len(faceVertexIndices) = Len(Corners)
    /\ \A c \in DOMAIN Corners :
         points[faceVertexIndices[c]] = PlaceIn(Corners[c].face, Corners[c].node)
    /\ Range(faceVertexIndices) = DOMAIN points

EdgesThrough(place) ==
  UNION {{e.edge : e \in {d \in FaceEdges(shape[f]) : place \in Range(Along(shape[f], d))}} : f \in meshed}

\* Those of them that have a tangent there.
TangentAt(f, e, place) == \E k \in e.tangents \cap DOMAIN e.poly : Along(shape[f], e)[k] = place
TangentsThrough(place) ==
  UNION {{e.edge : e \in {d \in FaceEdges(shape[f]) : TangentAt(f, d, place)}} : f \in meshed}

\* None of them lacks one.
AllTangent(place) ==
  \A f \in meshed : \A e \in FaceEdges(shape[f]) : \A k \in DOMAIN e.poly :
    Along(shape[f], e)[k] = place => k \in e.tangents

NoCopies == \A f, g \in meshed : f # g => shape[f].tri # shape[g].tri

\* A point is flagged exactly if an edge passes it, and its tangents are those of edges
\* that have one there; it has some if no edge there lacks one.  So it is in every step
\* after they are made, compaction included.
BoundaryDataInPlace ==
  step \in {"curves", "compact", "done"} /\ NoCopies =>
    /\ DOMAIN isBoundaryVertex = DOMAIN points
    /\ \A idx \in DOMAIN points :
         LET place == points[idx] IN
           /\ isBoundaryVertex[idx] <=> EdgesThrough(place) # {}
           /\ boundaryTangents[idx] \subseteq TangentsThrough(place)
           /\ EdgesThrough(place) # {} /\ AllTangent(place) => boundaryTangents[idx] # {}

\* No place has more nodes than a chain of AliasSteps aliases passes (32 in the code).
NodesAt(place) ==
  UNION {{Key(f, n) : n \in {m \in FaceNodes(shape[f]) : PlaceIn(f, m) = place}} : f \in meshed}
PlacesNarrow ==
  \A f \in meshed : \A n \in FaceNodes(shape[f]) : Cardinality(NodesAt(PlaceIn(f, n))) <= AliasSteps + 1

\* A node where an edge of a meshed face passes is itself on an edge of its face: no edge
\* runs into the inside of a face.
EdgesKeepOut ==
  \A f \in meshed : \A n \in FaceNodes(shape[f]) :
    EdgesThrough(shape[f].places[n]) # {} => \E e \in FaceEdges(shape[f]) : n \in Range(e.poly)

\* An edge as the walk comes by, at the meshed faces it has a polygon on; between two of
\* them, if not of one.
Visits(edge) ==
  {o \in Range(Occurrences) : EdgeAt(o).edge = edge /\ o[1] \in meshed /\ EdgeAt(o).poly # << >>}
Between(edge) == Cardinality({o[1] : o \in Visits(edge)}) > 1

CurvesOf(edge) == {n \in DOMAIN curves : curves[n].edge = edge}

\* A curve without the ends that cubic ones repeat.
Inner(curve) == IF wireframe.type = "cubic" THEN Front(Tail(curve.places)) ELSE curve.places

\* The wireframe: a curve follows the edge it is for, from end to end; only edges between
\* two meshed faces have one, and each of them does, unless it was to be sampled and the
\* sampler failed.  ("Walk every edge once" would give it no second one; the walk makes
\* one each time it comes by.)
CurvesTraceEdges ==
  step = "done" /\ NoCopies =>
    \A edge \in Edges :
      /\ CurvesOf(edge) # {} <=>
           /\ Between(edge)
           /\ wireframe.type # "none"
           /\ wireframe.sampling = "underlying" \/ \E o \in Visits(edge) : EdgeAt(o).sampled
      /\ \A n \in CurvesOf(edge) : \E o \in Visits(edge) :
           LET along == Along(shape[o[1]], EdgeAt(o)) IN
             /\ Inner(curves[n]) = IF wireframe.sampling = "underlying" THEN along
                                   ELSE <<Head(along), Last(along)>>
             /\ curves[n].normals \in {0, Len(curves[n].places)}

\* "Use the same resolved canonical key so junction vertices accumulate contributions
\* from every edge that shares them": a point has the tangents of all edges whose
\* nodes were welded into it.
JunctionTangentsAccumulate ==
  step = "curves" /\ NoCopies =>
    \A idx \in DOMAIN points : TangentsThrough(points[idx]) \subseteq boundaryTangents[idx]

\* The call returns: the passes are bounded, whatever intersects, fails or times out.
RoutineReturns == <>(phase = "returned")
=============================================================================
