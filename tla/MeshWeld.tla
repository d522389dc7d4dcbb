------------------------------- MODULE MeshWeld -------------------------------
(***************************************************************************)
(* MeshTessellationRoutine::tessellate (lib/CadUSD/Tessellation/           *)
(* MeshRoutine/MeshTessellationRoutine.cpp): one mesh is made out of the   *)
(* triangulations of a shape's faces.  A walk over the edges aliases the   *)
(* nodes that faces have in common, the nodes of each face then become     *)
(* points (one for all nodes of an alias class) and its triangles indices  *)
(* of points; boundary flags, tangents and wireframe curves come from what *)
(* the walk left, and points without a triangle are dropped at the end.    *)
(*                                                                         *)
(* Coordinates are abstracted to places: two nodes are at one place if     *)
(* they stand for one point of the B-rep.  Normals, UVs, arc lengths,      *)
(* distances to boundary edges, orientation and the unit scale are left    *)
(* out.  Indices are one higher than in the code.                          *)
(***************************************************************************)
EXTENDS Naturals, FiniteSets, SequencesExt

CONSTANTS Shapes,     \* the shapes considered: sequences of faces
          Wireframes, \* wireframe parameters: type, sampling, embedSurfaceNormals
          AliasSteps  \* aliases resolveAlias follows at most (31 in the code)

\* A face has a triangulation, the places of its nodes, triangles, and the edges
\* around it with the polygon each has among the nodes, from one end to the other; an
\* edge may have none on a face.  Degenerated edges are left out (the code skips them).
\* An edge is discretised once for all its faces (BRepMesh), has a tangent at some of the
\* nodes along it, and can be sampled or not.  A face may occur twice on one (a seam), with
\* a polygon for each side or none.
FaceNodes(face) == DOMAIN face.places
FaceEdges(face) == {e \in Range(face.edges) : e.poly # << >>}

IsFace(face) ==
  /\ face.places \in Seq(Range(face.places))
  /\ face.triangles \in Seq([1..3 -> FaceNodes(face)])
  /\ face.edges \in Seq(Range(face.edges))
  /\ \A e \in Range(face.edges) : e.tangents \subseteq Nat /\ e.sampled \in BOOLEAN
  /\ \A d, e \in Range(face.edges) : d.edge = e.edge /\ e.poly # << >> => d.poly # << >>
  /\ \A e \in FaceEdges(face) : e.poly \in Seq(FaceNodes(face)) /\ Len(e.poly) >= 2

Along(face, e) == [k \in DOMAIN e.poly |-> face.places[e.poly[k]]]

ASSUME MeshAssumption ==
  /\ AliasSteps \in Nat
  /\ \A s \in Shapes :
       /\ s \in Seq(Range(s))
       /\ \A f \in DOMAIN s : IsFace(s[f])
       /\ \A f, g \in DOMAIN s :
            /\ s[f].tri = s[g].tri => s[f].triangles = s[g].triangles
                                      /\ FaceNodes(s[f]) = FaceNodes(s[g])
            /\ \A d \in Range(s[f].edges), e \in Range(s[g].edges) :
                 d.edge = e.edge => d.tangents = e.tangents /\ d.sampled = e.sampled
            /\ \A d \in FaceEdges(s[f]), e \in FaceEdges(s[g]) :
                 d.edge = e.edge => Along(s[f], d) = Along(s[g], e)

VARIABLES
  shape,             \* the shape the routine is called on
  meshed,            \* its faces that have a triangulation
  wireframe,         \* params.wireframe
  step,              \* "idle", "edges", "nodes", "triangles", "boundary", "curves",
                     \* "compact", "done"
  at,                \* the edge occurrence, or the face, the loop is on
  next,              \* the node or triangle of that face, the node of that edge
  facePolys,         \* the meshed faces at the edge, each with its polygon
  adj,               \* the face at the edge
  resolvedCanon,     \* what the node on the first of them resolved to
  nodeAlias,         \* aliased key -> key
  boundaryKeys,      \* keys met on an edge
  tangentAccum,      \* key -> edges whose tangents were added
  deferredCurves,    \* curves that wait for point indices
  nodeToCanonical,   \* key -> point
  points,            \* the places of the points
  boundaryNodes,     \* points on an edge
  faceVertexIndices, \* corners, as points
  isBoundaryVertex, boundaryTangents, \* per point
  curves             \* wireframe curves: edge, places, and how many of them have a normal

walkVars == <<facePolys, adj, resolvedCanon, nodeAlias, boundaryKeys, tangentAccum, deferredCurves>>
meshVars == <<nodeToCanonical, points, boundaryNodes, faceVertexIndices>>
perPoint == <<isBoundaryVertex, boundaryTangents>>
input    == <<shape, meshed, wireframe>>
weldVars == <<input, step, at, next, walkVars, meshVars, perPoint, curves>>
---------------------------------------------------------------------------
\* map[key] = value.
Mapped(map, key, value) ==
  [k \in DOMAIN map \cup {key} |-> IF k = key THEN value ELSE map[k]]

\* Mutated form: the node alone.
Key_NodeOnly(f, node) == <<shape[1].tri, node>>

\* TriNodeKey: the triangulation, wherever its face is placed, and the node.
Key(f, node) == <<shape[f].tri, node>>

\* Mutated form: a single alias is followed.
ResolveAlias_Once(alias, key) == IF key \in DOMAIN alias THEN alias[key] ELSE key

ResolveAlias(alias, key) ==
  LET after[n \in 0..AliasSteps] ==
        IF n = 0 THEN key
        ELSE LET k == after[n - 1] IN IF k \in DOMAIN alias THEN alias[k] ELSE k
  IN after[AliasSteps]

\* TopExp_Explorer over the edges of a shape: one comes up once per face it bounds.
EdgesExplored ==
  [s \in Shapes |-> FlattenSeq([f \in DOMAIN s |-> [i \in DOMAIN s[f].edges |-> <<f, i>>]])]
Occurrences == EdgesExplored[shape]

EdgeAt(occ) == shape[occ[1]].edges[occ[2]]

\* The meshed faces at the edge (edgeToFaces has one once for each occurrence) on which it
\* has a polygon; a seam is looked up by the orientation visited.
FacePolys(occ) ==
  FlattenSeq([n \in DOMAIN Occurrences |->
    LET other == Occurrences[n]
        poly  == IF other[1] = occ[1] THEN EdgeAt(occ).poly ELSE EdgeAt(other).poly
    IN IF EdgeAt(other).edge = EdgeAt(occ).edge /\ other[1] \in meshed /\ poly # << >>
       THEN <<[face |-> other[1], poly |-> poly]>> ELSE << >>])

NumNodes == Min({Len(facePolys[n].poly) : n \in DOMAIN facePolys})

IsSurfaceBoundary == \E n \in DOMAIN facePolys : facePolys[n].face # facePolys[1].face

PolyKey(n, k) == Key(facePolys[n].face, facePolys[n].poly[k])

\* Cubic curves repeat both ends.
Phantoms(run) ==
  IF wireframe.type = "cubic" THEN <<Head(run)>> \o run \o <<Last(run)>> ELSE run

\* emitResampledWireframeCurve: points of its own along the edge (here its ends).
\* Normals are sampled into a local of the member's name and never kept.
Resampled(edge, run) ==
  [edge |-> edge, places |-> Phantoms(<<Head(run), Last(run)>>), normals |-> 0]

\* An edge without a polygon on a meshed face is passed over.
SkipEdge ==
  /\ step = "edges"
  /\ at \in DOMAIN Occurrences
  /\ facePolys = << >>
  /\ FacePolys(Occurrences[at]) = << >>
  /\ at' = at + 1
  /\ UNCHANGED <<input, step, next, walkVars, meshVars, perPoint, curves>>

\* The faces at the edge, with their polygons.
EnterEdge ==
  /\ step = "edges"
  /\ at \in DOMAIN Occurrences
  /\ facePolys = << >>
  /\ FacePolys(Occurrences[at]) # << >>
  /\ facePolys' = FacePolys(Occurrences[at])
  /\ UNCHANGED <<input, step, at, next, adj, resolvedCanon, nodeAlias, boundaryKeys>>
  /\ UNCHANGED <<tangentAccum, deferredCurves, meshVars, perPoint, curves>>

\* buildEdgeWalk: the next node of the edge is resolved on the first face at it, and that
\* on each further face is aliased to what came out.
AliasNode ==
  /\ step = "edges"
  /\ facePolys # << >>
  /\ next <= NumNodes
  /\ LET resolved == ResolveAlias(nodeAlias, PolyKey(adj, next)) IN
       /\ boundaryKeys' = boundaryKeys \cup {resolved}
       /\ resolvedCanon' = IF adj = 1 THEN resolved ELSE resolvedCanon
       /\ nodeAlias' = IF resolved = resolvedCanon' THEN nodeAlias
                       ELSE Mapped(nodeAlias, resolved, resolvedCanon')
  /\ IF adj < Len(facePolys) THEN adj' = adj + 1 /\ next' = next
                             ELSE adj' = 1 /\ next' = next + 1
  /\ UNCHANGED <<input, step, at, facePolys, tangentAccum, deferredCurves>>
  /\ UNCHANGED <<meshVars, perPoint, curves>>

\* The edge's tangents are added under the keys of the nodes that have one, and its curve
\* is deferred, or sampled if it can be.
FinishEdge ==
  /\ step = "edges"
  /\ facePolys # << >>
  /\ next > NumNodes
  /\ LET edge == EdgeAt(Occurrences[at]).edge
         canonicalKeys == [k \in 1..NumNodes |-> PolyKey(1, k)]
         touched == {ResolveAlias(nodeAlias, canonicalKeys[k]) :
                       k \in EdgeAt(Occurrences[at]).tangents \cap 1..NumNodes}
     IN /\ tangentAccum' = [key \in DOMAIN tangentAccum \cup touched |->
             (IF key \in DOMAIN tangentAccum THEN tangentAccum[key] ELSE {})
               \cup (IF key \in touched THEN {edge} ELSE {})]
        /\ deferredCurves' =
             IF IsSurfaceBoundary /\ wireframe.type # "none"
                  /\ wireframe.sampling = "underlying" /\ NumNodes >= 2
             THEN Append(deferredCurves, [edge |-> edge, keys |-> canonicalKeys]) ELSE deferredCurves
        /\ curves' =
             IF IsSurfaceBoundary /\ wireframe.type # "none"
                  /\ wireframe.sampling # "underlying" /\ EdgeAt(Occurrences[at]).sampled
             THEN Append(curves, Resampled(edge, Along(shape[facePolys[1].face], facePolys[1])))
             ELSE curves
  /\ at' = at + 1 /\ next' = 1 /\ facePolys' = << >>
  /\ UNCHANGED <<input, step, adj, resolvedCanon, nodeAlias, boundaryKeys, meshVars, perPoint>>

EdgesWalked ==
  /\ step = "edges"
  /\ at > Len(Occurrences)
  /\ step' = "nodes" /\ at' = 1 /\ next' = 1
  /\ UNCHANGED <<input, walkVars, meshVars, perPoint, curves>>
---------------------------------------------------------------------------
\* weldFaceNodes on the next node of the face: a point, unless its key has one.
WeldNode ==
  /\ step = "nodes"
  /\ at \in meshed
  /\ next <= Len(shape[at].places)
  /\ LET key == ResolveAlias(nodeAlias, Key(at, next))
         idx == Len(points) + 1
     IN IF key \in DOMAIN nodeToCanonical THEN UNCHANGED <<nodeToCanonical, points, boundaryNodes>>
        ELSE /\ nodeToCanonical' = Mapped(nodeToCanonical, key, idx)
             /\ points' = Append(points, shape[at].places[next])
             /\ boundaryNodes' = boundaryNodes \cup (IF key \in boundaryKeys THEN {idx} ELSE {})
  /\ next' = next + 1
  /\ UNCHANGED <<input, step, at, walkVars, faceVertexIndices, perPoint, curves>>

\* Mutated form: the loop ends one node early.
NodesWelded_LastLeft ==
  /\ step = "nodes"
  /\ at \in meshed
  /\ next >= Len(shape[at].places)
  /\ step' = "triangles" /\ next' = 1
  /\ UNCHANGED <<input, at, walkVars, meshVars, perPoint, curves>>

NodesWelded ==
  /\ step = "nodes"
  /\ at \in meshed
  /\ next > Len(shape[at].places)
  /\ step' = "triangles" /\ next' = 1
  /\ UNCHANGED <<input, at, walkVars, meshVars, perPoint, curves>>

\* nodeToCanonical[...] of a corner: a key that is missing is inserted, with the
\* first point.
PointOf(key) == IF key \in DOMAIN nodeToCanonical THEN nodeToCanonical[key] ELSE 1

\* emitFaceTriangles on the next triangle.
EmitTriangle ==
  /\ step = "triangles"
  /\ next <= Len(shape[at].triangles)
  /\ LET corner == [c \in 1..3 |-> ResolveAlias(nodeAlias, Key(at, shape[at].triangles[next][c]))] IN
       /\ faceVertexIndices' = faceVertexIndices \o [c \in 1..3 |-> PointOf(corner[c])]
       /\ nodeToCanonical' = [key \in DOMAIN nodeToCanonical \cup Range(corner) |-> PointOf(key)]
  /\ next' = next + 1
  /\ UNCHANGED <<input, step, at, walkVars, points, boundaryNodes, perPoint, curves>>

FaceEmitted ==
  /\ step = "triangles"
  /\ next > Len(shape[at].triangles)
  /\ step' = "nodes" /\ at' = at + 1 /\ next' = 1
  /\ UNCHANGED <<input, walkVars, meshVars, perPoint, curves>>

\* A face without a triangulation is passed over.
SkipFace ==
  /\ step = "nodes"
  /\ at \in DOMAIN shape \ meshed
  /\ at' = at + 1
  /\ UNCHANGED <<input, step, next, walkVars, meshVars, perPoint, curves>>

FacesEmitted ==
  /\ step = "nodes"
  /\ at > Len(shape)
  /\ step' = "boundary" /\ next' = 1
  /\ UNCHANGED <<input, at, walkVars, meshVars, perPoint, curves>>
---------------------------------------------------------------------------
\* The sums whose key has become point idx.
TangentsOf(idx) ==
  {tangentAccum[key] : key \in {k \in DOMAIN tangentAccum :
     LET to == ResolveAlias(nodeAlias, k) IN
       to \in DOMAIN nodeToCanonical /\ nodeToCanonical[to] = idx}}

\* The next point: its flag, and its tangent.  The loop over the unordered map writes
\* the sums of a point over each other, in no set order, and what is left is the last.
FinalizePoint ==
  /\ step = "boundary"
  /\ next <= Len(points)
  /\ isBoundaryVertex' = Append(isBoundaryVertex, next \in boundaryNodes)
  /\ \E sum \in IF TangentsOf(next) = {} THEN {{}} ELSE TangentsOf(next) :
       boundaryTangents' = Append(boundaryTangents, sum)
  /\ next' = next + 1
  /\ UNCHANGED <<input, step, at, walkVars, meshVars, curves>>

BoundaryDataFinalized ==
  /\ step = "boundary"
  /\ next > Len(points)
  /\ step' = "curves" /\ next' = 1
  /\ UNCHANGED <<input, at, walkVars, meshVars, perPoint, curves>>

\* The place of the point a key has; a key without a point is left out.
PlaceUnder(key) ==
  IF key \in DOMAIN nodeToCanonical THEN <<points[nodeToCanonical[key]]>> ELSE << >>

\* Mutated form: the keys are looked up as they were before they were aliased.
Resolved_NoAlias(curve) == FlattenSeq([k \in DOMAIN curve.keys |-> PlaceUnder(curve.keys[k])])

Resolved(curve) ==
  FlattenSeq([k \in DOMAIN curve.keys |-> PlaceUnder(ResolveAlias(nodeAlias, curve.keys[k]))])

Deferred(curve) ==
  LET run == Phantoms(Resolved(curve)) IN
    [edge |-> curve.edge, places |-> run, normals |-> IF wireframe.normals THEN Len(run) ELSE 0]

\* The next deferred curve, unless too few of its points are there.
EmitDeferredCurve ==
  /\ step = "curves"
  /\ next <= Len(deferredCurves)
  /\ curves' = IF Len(Resolved(deferredCurves[next])) >= 2
               THEN Append(curves, Deferred(deferredCurves[next])) ELSE curves
  /\ next' = next + 1
  /\ UNCHANGED <<input, step, at, walkVars, meshVars, perPoint>>

CurvesEmitted ==
  /\ step = "curves"
  /\ next > Len(deferredCurves)
  /\ step' = "compact"
  /\ UNCHANGED <<input, at, next, walkVars, meshVars, perPoint, curves>>

\* oldToNew: points are numbered as the corners first use them.
FirstUses ==
  {c \in DOMAIN faceVertexIndices : \A b \in 1..(c - 1) : faceVertexIndices[b] # faceVertexIndices[c]}
Rank(c) == Cardinality({b \in FirstUses : b <= c})
OldToNew(idx) == Rank(CHOOSE c \in FirstUses : faceVertexIndices[c] = idx)
NewToOld(n) == faceVertexIndices[CHOOSE c \in FirstUses : Rank(c) = n]

\* Mutated form: the tangents are not moved with their points.
CompactUnusedPoints_TangentsStay ==
  /\ step = "compact"
  /\ faceVertexIndices' = [c \in DOMAIN faceVertexIndices |-> OldToNew(faceVertexIndices[c])]
  /\ points' = [n \in 1..Cardinality(FirstUses) |-> points[NewToOld(n)]]
  /\ isBoundaryVertex' = [n \in 1..Cardinality(FirstUses) |-> isBoundaryVertex[NewToOld(n)]]
  /\ boundaryTangents' = SubSeq(boundaryTangents, 1, Cardinality(FirstUses))
  /\ step' = "done"
  /\ UNCHANGED <<input, at, next, walkVars, nodeToCanonical, boundaryNodes, curves>>

\* compactUnusedPoints; without corners it clears the points and their flags.
CompactUnusedPoints ==
  /\ step = "compact"
  /\ faceVertexIndices' = [c \in DOMAIN faceVertexIndices |-> OldToNew(faceVertexIndices[c])]
  /\ points' = [n \in 1..Cardinality(FirstUses) |-> points[NewToOld(n)]]
  /\ isBoundaryVertex' = [n \in 1..Cardinality(FirstUses) |-> isBoundaryVertex[NewToOld(n)]]
  /\ boundaryTangents' = IF FirstUses = {} THEN boundaryTangents
                         ELSE [n \in 1..Cardinality(FirstUses) |-> boundaryTangents[NewToOld(n)]]
  /\ step' = "done"
  /\ UNCHANGED <<input, at, next, walkVars, nodeToCanonical, boundaryNodes, curves>>

\* The routine before it is called.
WeldInit ==
  /\ shape \in Shapes
  /\ meshed = {}
  /\ wireframe \in Wireframes
  /\ step = "idle" /\ at = 1 /\ next = 1
  /\ facePolys = << >> /\ adj = 1 /\ resolvedCanon = << >>
  /\ nodeAlias = << >> /\ boundaryKeys = {} /\ tangentAccum = << >> /\ deferredCurves = << >>
  /\ nodeToCanonical = << >> /\ points = << >> /\ boundaryNodes = {} /\ faceVertexIndices = << >>
  /\ isBoundaryVertex = << >> /\ boundaryTangents = << >>
  /\ curves = << >>

\* tessellate is called, on a shape of which some faces are meshed.
WeldCall(faces) ==
  /\ step = "idle"
  /\ meshed' = faces
  /\ step' = "edges"
  /\ UNCHANGED <<shape, wireframe, at, next, walkVars, meshVars, perPoint, curves>>

WeldStep ==
  \/ SkipEdge \/ EnterEdge \/ AliasNode \/ FinishEdge \/ EdgesWalked
  \/ WeldNode \/ NodesWelded \/ EmitTriangle \/ FaceEmitted \/ SkipFace \/ FacesEmitted
  \/ FinalizePoint \/ BoundaryDataFinalized \/ EmitDeferredCurve \/ CurvesEmitted
  \/ CompactUnusedPoints
=============================================================================
