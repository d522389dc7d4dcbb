-------------------------- MODULE TessRoutine_proofs --------------------------
(***************************************************************************)
(* What holds of the mesh made of any shape, whatever faces are left       *)
(* unmeshed and (but for the last part) however many aliases are followed. *)
(* In this order:                                                          *)
(*                                                                         *)
(* the indices of the mesh are those of its points (CornersIndexed): the   *)
(* aliases no longer change once nodes are welded, so every node of a face *)
(* has a point under its key when the face's triangles are emitted;        *)
(*                                                                         *)
(* variables have their types (TypeCorrect): where the walk over the edges *)
(* is, and that aliases lead from keys of nodes to keys of nodes;          *)
(*                                                                         *)
(* every corner is where its node is (CornersShown): aliases lead to keys  *)
(* at the same place, a point is where its key is, and the corners emitted *)
(* are those of the triangles gone through;                                *)
(*                                                                         *)
(* curves follow the edges between two meshed faces (CurvesFollowEdges):   *)
(* an edge the walk has come by has one exactly if it is traced, and a     *)
(* curve that waits finds all its points;                                  *)
(*                                                                         *)
(* aliases are followed to their ends where few nodes share a place        *)
(* (LimitSuffices): they make no cycle, so what is followed is no longer   *)
(* than there are keys at a place;                                         *)
(*                                                                         *)
(* faces are welded where they meet (FollowedIsWelded, FacesMeet), and     *)
(* flags and tangents are where edges pass (FollowedHasData, DataPlaced):  *)
(* an alias moves all keys of a class at once, so what the walk joined, or *)
(* saw on an edge, stays so.                                               *)
(***************************************************************************)
EXTENDS TessRoutine, NatSets

PointKey(f, n) == ResolveAlias(nodeAlias, Key(f, n))

ShapeInv == shape \in Shapes /\ meshed \subseteq DOMAIN shape

LoopInv ==
  /\ next \in Nat \ {0}
  /\ step = "nodes" /\ at \notin meshed => next = 1
  /\ step = "triangles" => at \in meshed

\* Indices are those of points: in the map until the mesh is compacted, in the corners
\* always.
PointInv ==
  /\ step # "done" =>
       /\ points \in Seq(Places)
       /\ \A key \in DOMAIN nodeToCanonical : nodeToCanonical[key] \in DOMAIN points
       /\ faceVertexIndices \in Seq(Nat)
  /\ \A c \in DOMAIN faceVertexIndices : faceVertexIndices[c] \in DOMAIN points

\* Of the face the loop is on, the nodes before the next one have a point, and all when
\* its triangles are emitted.
NodesInv ==
  /\ step = "nodes" /\ at \in meshed =>
       \A n \in FaceNodes(shape[at]) : n < next => PointKey(at, n) \in DOMAIN nodeToCanonical
  /\ step = "triangles" =>
       \A n \in FaceNodes(shape[at]) : PointKey(at, n) \in DOMAIN nodeToCanonical

IInv == ShapeInv /\ LoopInv /\ PointInv /\ NodesInv
---------------------------------------------------------------------------
\* What a face is, with the lengths and ranges of its sequences.
LEMMA FaceFacts ==
  \A s \in Shapes : \A f \in DOMAIN s :
    /\ Len(s[f].places) \in Nat /\ FaceNodes(s[f]) = 1..Len(s[f].places)
    /\ Len(s[f].triangles) \in Nat
    /\ \A t \in 1..Len(s[f].triangles) : \A c \in 1..3 : s[f].triangles[t][c] \in FaceNodes(s[f])
  <1> SUFFICES ASSUME NEW s \in Shapes, NEW f \in DOMAIN s
               PROVE  /\ Len(s[f].places) \in Nat /\ FaceNodes(s[f]) = 1..Len(s[f].places)
                      /\ Len(s[f].triangles) \in Nat
                      /\ \A t \in 1..Len(s[f].triangles) : \A c \in 1..3 :
                           s[f].triangles[t][c] \in FaceNodes(s[f])
    OBVIOUS
  <1>1. IsFace(s[f])
    BY MeshAssumption
  <1>2. s[f].places \in Seq(Range(s[f].places))
    BY <1>1 DEF IsFace
  <1>3. s[f].triangles \in Seq([1..3 -> FaceNodes(s[f])])
    BY <1>1 DEF IsFace
  <1>4. \A t \in 1..Len(s[f].triangles) : s[f].triangles[t] \in [1..3 -> FaceNodes(s[f])]
    BY <1>3
  <1>5. Len(s[f].places) \in Nat /\ FaceNodes(s[f]) = 1..Len(s[f].places)
    BY <1>2 DEF FaceNodes
  <1>6. Len(s[f].triangles) \in Nat
    BY <1>3
  <1>7. \A t \in 1..Len(s[f].triangles) : \A c \in 1..3 : s[f].triangles[t][c] \in FaceNodes(s[f])
    BY <1>4
  <1> QED BY <1>5, <1>6, <1>7

\* The places of a face are among those of the shape.
LEMMA PlacesOfFace ==
  ASSUME NEW f \in DOMAIN shape, NEW n \in FaceNodes(shape[f])
  PROVE  shape[f].places[n] \in Places
  BY DEF Places, Faces, FaceNodes, Range

\* The keys of a shape stay as they are, and so do the points of keys once the edges
\* have been walked.
LEMMA KeysKept ==
  ASSUME UNCHANGED <<shape, nodeAlias>>, NEW f, NEW n
  PROVE  PointKey(f, n)' = PointKey(f, n)
  BY DEF PointKey, Key, ResolveAlias

LEMMA InitInv == Init => IInv
  BY DEF Init, WeldInit, IInv, ShapeInv, LoopInv, PointInv, NodesInv

\* A step that leaves the mesh and the input alone and is not inside the face loop.
LEMMA QuietInv ==
  ASSUME IInv, UNCHANGED <<shape, meshVars>>, meshed' \subseteq DOMAIN shape,
         next' \in Nat \ {0}, step # "done", step' \notin {"nodes", "triangles", "done"}
  PROVE  IInv'
  BY DEF IInv, ShapeInv, LoopInv, PointInv, NodesInv, meshVars, Places, Faces

\* A step that begins a face, or passes one over.
LEMMA NextFaceInv ==
  ASSUME IInv, UNCHANGED <<input, meshVars>>, next' = 1, step # "done", step' = "nodes"
  PROVE  IInv'
  <1>1. \A n \in FaceNodes(shape[at])' : at' \in meshed' => ~(n < next')
    <2> SUFFICES ASSUME at' \in meshed', NEW n \in FaceNodes(shape[at])', n < 1 PROVE FALSE
      OBVIOUS
    <2>1. shape \in Shapes /\ at' \in DOMAIN shape /\ shape' = shape /\ n \in FaceNodes(shape[at'])
      BY DEF IInv, ShapeInv, input
    <2>2. n \in 1..Len(shape[at'].places) /\ Len(shape[at'].places) \in Nat
      BY <2>1, FaceFacts
    <2> QED BY <2>2
  <1> QED BY <1>1 DEF IInv, ShapeInv, LoopInv, PointInv, NodesInv, meshVars, input, Places, Faces

LEMMA WeldNodeInv ==
  ASSUME IInv, WeldNode
  PROVE  IInv'
  <1> USE DEF IInv
  <1> DEFINE key == PointKey(at, next)
             idx == Len(points) + 1
  <1>1. /\ step = "nodes" /\ step' = "nodes" /\ at \in meshed /\ at' = at
        /\ next <= Len(shape[at].places) /\ next' = next + 1
        /\ UNCHANGED <<input, walkVars, faceVertexIndices>>
        /\ \/ key \in DOMAIN nodeToCanonical /\ UNCHANGED <<nodeToCanonical, points>>
           \/ /\ nodeToCanonical' = Mapped(nodeToCanonical, key, idx)
              /\ points' = Append(points, shape[at].places[next])
    BY DEF WeldNode, PointKey
  <1>2. UNCHANGED <<shape, meshed, nodeAlias>>
    BY <1>1 DEF input, walkVars
  <1>3. next \in FaceNodes(shape[at]) /\ FaceNodes(shape[at]) \subseteq Nat
        /\ shape[at].places[next] \in Places
    <2>1. shape \in Shapes /\ at \in DOMAIN shape /\ next \in Nat \ {0}
      BY <1>1 DEF ShapeInv, LoopInv
    <2>2. Len(shape[at].places) \in Nat /\ FaceNodes(shape[at]) = 1..Len(shape[at].places)
      BY <2>1, FaceFacts
    <2> QED BY <1>1, <2>1, <2>2, PlacesOfFace
  <1>4. /\ DOMAIN nodeToCanonical' = DOMAIN nodeToCanonical \cup {key}
        /\ points' \in Seq(Places) /\ DOMAIN points \subseteq DOMAIN points'
        /\ \A k \in DOMAIN nodeToCanonical' : nodeToCanonical'[k] \in DOMAIN points'
    <2>1. points \in Seq(Places) /\ \A k \in DOMAIN nodeToCanonical : nodeToCanonical[k] \in DOMAIN points
      BY <1>1 DEF PointInv
    <2> HIDE DEF key
    <2>2. CASE key \in DOMAIN nodeToCanonical /\ UNCHANGED <<nodeToCanonical, points>>
      BY <2>1, <2>2
    <2>3. CASE /\ nodeToCanonical' = Mapped(nodeToCanonical, key, idx)
               /\ points' = Append(points, shape[at].places[next])
      <3>1. points' \in Seq(Places) /\ DOMAIN points' = DOMAIN points \cup {idx}
        BY <1>3, <2>1, <2>3
      <3>2. /\ DOMAIN nodeToCanonical' = DOMAIN nodeToCanonical \cup {key}
            /\ \A k \in DOMAIN nodeToCanonical' :
                 nodeToCanonical'[k] = IF k = key THEN idx ELSE nodeToCanonical[k]
        BY <2>3 DEF Mapped
      <3> QED BY <2>1, <3>1, <3>2
    <2> QED BY <1>1, <2>2, <2>3
  <1>5. PointInv'
    <2>1. Places' = Places
      BY <1>2 DEF Places, Faces
    <2> QED BY <1>1, <1>4, <2>1 DEF PointInv
  <1>6. NodesInv'
    <2> SUFFICES ASSUME NEW n \in FaceNodes(shape[at]), n < next + 1
                 PROVE  PointKey(at, n) \in DOMAIN nodeToCanonical'
      BY <1>1, <1>2, KeysKept DEF NodesInv
    <2>1. CASE n = next
      BY <1>4, <2>1
    <2>2. CASE n < next
      BY <1>1, <1>4, <2>2 DEF NodesInv
    <2> QED BY <1>3, <2>1, <2>2 DEF LoopInv
  <1>7. ShapeInv' /\ LoopInv'
    BY <1>1, <1>2 DEF ShapeInv, LoopInv
  <1> QED BY <1>5, <1>6, <1>7

LEMMA NodesWeldedInv ==
  ASSUME IInv, NodesWelded
  PROVE  IInv'
  <1> USE DEF IInv
  <1>1. /\ step = "nodes" /\ step' = "triangles" /\ at \in meshed /\ at' = at
        /\ next > Len(shape[at].places) /\ next' = 1
        /\ UNCHANGED <<shape, meshed, nodeAlias>> /\ UNCHANGED meshVars
    BY DEF NodesWelded, input, walkVars
  <1>2. \A n \in FaceNodes(shape[at]) : n < next
    <2>1. shape \in Shapes /\ at \in DOMAIN shape /\ next \in Nat
      BY <1>1 DEF ShapeInv, LoopInv
    <2>2. Len(shape[at].places) \in Nat /\ FaceNodes(shape[at]) = 1..Len(shape[at].places)
      BY <2>1, FaceFacts
    <2> QED BY <1>1, <2>1, <2>2
  <1>3. \A n \in FaceNodes(shape[at]) : PointKey(at, n) \in DOMAIN nodeToCanonical
    BY <1>1, <1>2 DEF NodesInv
  <1>4. NodesInv'
    BY <1>1, <1>3, KeysKept DEF NodesInv, meshVars
  <1> QED BY <1>1, <1>4 DEF ShapeInv, LoopInv, PointInv, meshVars, Places, Faces

LEMMA EmitTriangleInv ==
  ASSUME IInv, EmitTriangle
  PROVE  IInv'
  <1> USE DEF IInv
  <1> DEFINE corner == [c \in 1..3 |-> PointKey(at, shape[at].triangles[next][c])]
             idxs == [c \in 1..3 |-> PointOf(corner[c])]
  <1>1. /\ step = "triangles" /\ step' = "triangles" /\ at' = at /\ at \in meshed
        /\ next <= Len(shape[at].triangles) /\ next' = next + 1
        /\ faceVertexIndices' = faceVertexIndices \o idxs
        /\ nodeToCanonical' = [key \in DOMAIN nodeToCanonical \cup Range(corner) |-> PointOf(key)]
        /\ UNCHANGED <<shape, meshed, nodeAlias, points>>
    BY DEF EmitTriangle, LoopInv, input, walkVars, PointKey
  <1>2. \A c \in 1..3 : shape[at].triangles[next][c] \in FaceNodes(shape[at])
    <2>1. shape \in Shapes /\ at \in DOMAIN shape /\ next \in Nat \ {0}
      BY <1>1 DEF ShapeInv, LoopInv
    <2>2. next \in 1..Len(shape[at].triangles)
      BY <1>1, <2>1, FaceFacts
    <2> QED BY <2>1, <2>2, FaceFacts
  <1>3. \A c \in 1..3 : corner[c] \in DOMAIN nodeToCanonical
    BY <1>1, <1>2 DEF NodesInv
  <1>4. Range(corner) \subseteq DOMAIN nodeToCanonical
    BY <1>3 DEF Range
  <1> HIDE DEF corner
  <1>5. /\ DOMAIN nodeToCanonical' = DOMAIN nodeToCanonical
        /\ \A key \in DOMAIN nodeToCanonical' : nodeToCanonical'[key] = nodeToCanonical[key]
    BY <1>1, <1>4 DEF PointOf
  <1>6. \A c \in 1..3 : PointOf(corner[c]) \in DOMAIN points
    BY <1>1, <1>3 DEF PointOf, PointInv
  <1>7. PointInv'
    <2>1. points \in Seq(Places) /\ faceVertexIndices \in Seq(Nat)
      BY <1>1 DEF PointInv
    <2>2. idxs \in Seq(Nat) /\ \A c \in DOMAIN idxs : idxs[c] \in DOMAIN points
      BY <1>6, <2>1
    <2> HIDE DEF idxs
    <2>3. /\ faceVertexIndices' \in Seq(Nat)
          /\ \A c \in DOMAIN faceVertexIndices' : faceVertexIndices'[c] \in DOMAIN points
      BY <1>1, <2>1, <2>2 DEF PointInv
    <2>4. Places' = Places
      BY <1>1 DEF Places, Faces
    <2> QED BY <1>1, <1>5, <2>3, <2>4 DEF PointInv
  <1>8. NodesInv'
    BY <1>1, <1>5, KeysKept DEF NodesInv
  <1> QED BY <1>1, <1>7, <1>8 DEF ShapeInv, LoopInv
---------------------------------------------------------------------------
\* First uses are ranked from 1 on, each differently; every corner has one.
LEMMA RankFacts ==
  ASSUME faceVertexIndices \in Seq(Nat)
  PROVE  /\ Cardinality(FirstUses) \in Nat /\ FirstUses \subseteq DOMAIN faceVertexIndices
         /\ \A u \in FirstUses : Rank(u) \in 1..Cardinality(FirstUses)
         /\ \A u, w \in FirstUses : Rank(u) = Rank(w) => u = w
         /\ \A u, w \in FirstUses : faceVertexIndices[u] = faceVertexIndices[w] => u = w
         /\ \A n \in 1..Cardinality(FirstUses) : \E u \in FirstUses : Rank(u) = n
         /\ \A c \in DOMAIN faceVertexIndices : \E u \in FirstUses : faceVertexIndices[u] = faceVertexIndices[c]
  <1>1. DOMAIN faceVertexIndices = 1..Len(faceVertexIndices) /\ Len(faceVertexIndices) \in Nat
    OBVIOUS
  <1>2. FirstUses \subseteq 1..Len(faceVertexIndices)
    BY <1>1 DEF FirstUses
  <1>3. IsFiniteSet(FirstUses) /\ Cardinality(FirstUses) \in Nat
    <2>1. IsFiniteSet(1..Len(faceVertexIndices))
      BY <1>1, FS_Interval
    <2>2. IsFiniteSet(FirstUses)
      BY <1>2, <2>1, FS_Subset
    <2> QED BY <2>2, FS_CardinalityType
  <1> DEFINE before(u) == {b \in FirstUses : b <= u}
  <1>4. ASSUME NEW u \in FirstUses
        PROVE  /\ Rank(u) = Cardinality(before(u)) /\ IsFiniteSet(before(u))
               /\ Rank(u) \in 1..Cardinality(FirstUses)
    <2>1. u \in before(u) /\ before(u) \in SUBSET FirstUses
      BY <1>2
    <2>2. Rank(u) = Cardinality(before(u))
      BY DEF Rank
    <2> HIDE DEF before
    <2>3. IsFiniteSet(before(u)) /\ Cardinality(before(u)) <= Cardinality(FirstUses)
      BY <1>3, <2>1, FS_Subset
    <2>4. Cardinality(before(u)) \in Nat /\ Cardinality(before(u)) # 0
      BY <2>1, <2>3, FS_CardinalityType, FS_EmptySet
    <2> QED BY <1>3, <2>2, <2>3, <2>4
  <1>5. ASSUME NEW u \in FirstUses, NEW w \in FirstUses, u < w, Rank(u) = Rank(w)
        PROVE  FALSE
    <2>0. u \in Nat /\ w \in Nat /\ \A b \in FirstUses : b \in Nat
      BY <1>2
    <2>1. before(u) \subseteq before(w) /\ w \in before(w) /\ w \notin before(u)
      <3>1. \A b \in FirstUses : b <= u => b <= w
        BY <2>0, <1>5
      <3>2. w <= w /\ ~(w <= u)
        BY <2>0, <1>5
      <3> QED BY <3>1, <3>2
    <2> HIDE DEF before
    <2>2. before(u) = before(w)
      BY <1>4, <1>5, <2>1, FS_Subset
    <2> QED BY <2>1, <2>2
  <1>6. \A u, w \in FirstUses : Rank(u) = Rank(w) => u = w
    <2> SUFFICES ASSUME NEW u \in FirstUses, NEW w \in FirstUses, Rank(u) = Rank(w) PROVE u = w
      OBVIOUS
    <2>1. u \in Nat /\ w \in Nat /\ ~(u < w) /\ ~(w < u)
      BY <1>2, <1>5
    <2> QED BY <2>1
  <1>7. \A n \in 1..Cardinality(FirstUses) : \E u \in FirstUses : Rank(u) = n
    <2> DEFINE K == Cardinality(FirstUses)
               rank == [u \in FirstUses |-> Rank(u)]
    <2>1. rank \in [FirstUses -> 1..K]
      BY <1>4
    <2>2. \A u, w \in FirstUses : rank[u] = rank[w] => u = w
      BY <1>6
    <2>3. IsFiniteSet(1..K) /\ Cardinality(1..K) = K
      BY <1>3, FS_Interval
    <2> HIDE DEF rank, K
    <2>4. rank \in Injection(FirstUses, 1..K)
      BY <2>1, <2>2 DEF Injection, IsInjective
    <2>5. rank \in Surjection(FirstUses, 1..K)
      BY <2>3, <2>4, FS_Injection DEF K
    <2>6. \A n \in 1..K : \E u \in FirstUses : rank[u] = n
      BY <2>5 DEF Surjection
    <2> QED BY <2>6 DEF rank, K
  <1>8. ASSUME NEW c \in DOMAIN faceVertexIndices
        PROVE  \E u \in FirstUses : faceVertexIndices[u] = faceVertexIndices[c]
    <2> DEFINE uses == {b \in DOMAIN faceVertexIndices : faceVertexIndices[b] = faceVertexIndices[c]}
    <2>1. uses \in SUBSET Nat /\ uses # {}
      BY <1>1
    <2>2. PICK u \in uses : \A d \in uses : u <= d
      <3> HIDE DEF uses
      <3> QED BY <2>1, LeastNat
    <2>3. u \in FirstUses
      BY <1>1, <2>2 DEF FirstUses
    <2> QED BY <2>2, <2>3
  <1>9. \A u, w \in FirstUses : faceVertexIndices[u] = faceVertexIndices[w] => u = w
    <2> SUFFICES ASSUME NEW u \in FirstUses, NEW w \in FirstUses,
                        faceVertexIndices[u] = faceVertexIndices[w] PROVE u = w
      OBVIOUS
    <2>1. u \in Nat /\ w \in Nat /\ u >= 1 /\ w >= 1
      BY <1>2
    <2>2. ~(u < w) /\ ~(w < u)
      BY <2>1 DEF FirstUses
    <2> QED BY <2>1, <2>2
  <1> QED BY <1>1, <1>2, <1>3, <1>4, <1>6, <1>7, <1>8, <1>9

\* The new number of a point is given back by the point it numbers, and every number is
\* that of a corner.
LEMMA Renumbered ==
  ASSUME faceVertexIndices \in Seq(Nat)
  PROVE  /\ Cardinality(FirstUses) \in Nat
         /\ \A c \in DOMAIN faceVertexIndices :
              /\ OldToNew(faceVertexIndices[c]) \in 1..Cardinality(FirstUses)
              /\ NewToOld(OldToNew(faceVertexIndices[c])) = faceVertexIndices[c]
         /\ \A n \in 1..Cardinality(FirstUses) :
              \E c \in DOMAIN faceVertexIndices :
                NewToOld(n) = faceVertexIndices[c] /\ OldToNew(faceVertexIndices[c]) = n
  <1>1. ASSUME NEW u \in FirstUses
        PROVE  OldToNew(faceVertexIndices[u]) = Rank(u) /\ NewToOld(Rank(u)) = faceVertexIndices[u]
    <2>1. (CHOOSE c \in FirstUses : faceVertexIndices[c] = faceVertexIndices[u]) = u
      BY RankFacts
    <2>2. (CHOOSE c \in FirstUses : Rank(c) = Rank(u)) = u
      BY RankFacts
    <2>3. OldToNew(faceVertexIndices[u]) = Rank(u)
      BY <2>1 DEF OldToNew
    <2>4. NewToOld(Rank(u)) = faceVertexIndices[u]
      BY <2>2 DEF NewToOld
    <2> QED BY <2>3, <2>4
  <1>2. ASSUME NEW c \in DOMAIN faceVertexIndices
        PROVE  /\ OldToNew(faceVertexIndices[c]) \in 1..Cardinality(FirstUses)
               /\ NewToOld(OldToNew(faceVertexIndices[c])) = faceVertexIndices[c]
    <2>1. PICK u \in FirstUses : faceVertexIndices[u] = faceVertexIndices[c]
      BY RankFacts
    <2>2. Rank(u) \in 1..Cardinality(FirstUses)
      BY RankFacts
    <2>3. OldToNew(faceVertexIndices[u]) = Rank(u) /\ NewToOld(Rank(u)) = faceVertexIndices[u]
      BY <1>1
    <2> QED BY <2>1, <2>2, <2>3
  <1>3. ASSUME NEW n \in 1..Cardinality(FirstUses)
        PROVE  \E c \in DOMAIN faceVertexIndices :
                 NewToOld(n) = faceVertexIndices[c] /\ OldToNew(faceVertexIndices[c]) = n
    <2>1. PICK u \in FirstUses : Rank(u) = n
      BY RankFacts
    <2> QED BY <1>1, <2>1, RankFacts
  <1> QED BY <1>2, <1>3, RankFacts

LEMMA CompactInv ==
  ASSUME IInv, CompactUnusedPoints
  PROVE  IInv'
  <1> USE DEF IInv
  <1>1. /\ step = "compact" /\ step' = "done"
        /\ faceVertexIndices' = [c \in DOMAIN faceVertexIndices |-> OldToNew(faceVertexIndices[c])]
        /\ DOMAIN points' = 1..Cardinality(FirstUses)
        /\ UNCHANGED <<shape, meshed, next>>
    BY DEF CompactUnusedPoints, input
  <1>2. \A c \in DOMAIN faceVertexIndices : OldToNew(faceVertexIndices[c]) \in 1..Cardinality(FirstUses)
    BY <1>1, Renumbered DEF PointInv
  <1> QED BY <1>1, <1>2 DEF ShapeInv, LoopInv, PointInv, NodesInv
---------------------------------------------------------------------------
\* The invariant is kept by the steps of the mesh routine ...
LEMMA WeldStepInv ==
  ASSUME IInv, WeldStep
  PROVE  IInv'
  <1>1. CASE SkipEdge
    BY <1>1, QuietInv DEF SkipEdge, input, IInv, ShapeInv, LoopInv
  <1>2. CASE AliasNode
    BY <1>2, QuietInv DEF AliasNode, input, IInv, ShapeInv, LoopInv
  <1>3. CASE FinishEdge
    BY <1>3, QuietInv DEF FinishEdge, input, IInv, ShapeInv, LoopInv
  <1>4. CASE EdgesWalked
    BY <1>4, NextFaceInv DEF EdgesWalked
  <1>5. CASE WeldNode
    BY <1>5, WeldNodeInv
  <1>6. CASE NodesWelded
    BY <1>6, NodesWeldedInv
  <1>7. CASE EmitTriangle
    BY <1>7, EmitTriangleInv
  <1>8. CASE FaceEmitted
    BY <1>8, NextFaceInv DEF FaceEmitted
  <1>9. CASE SkipFace
    BY <1>9, NextFaceInv DEF SkipFace, IInv, LoopInv
  <1>10. CASE FacesEmitted
    BY <1>10, QuietInv DEF FacesEmitted, input, IInv, ShapeInv, LoopInv
  <1>11. CASE FinalizePoint
    BY <1>11, QuietInv DEF FinalizePoint, input, IInv, ShapeInv, LoopInv
  <1>12. CASE BoundaryDataFinalized
    BY <1>12, QuietInv DEF BoundaryDataFinalized, input, IInv, ShapeInv, LoopInv
  <1>13. CASE EmitDeferredCurve
    BY <1>13, QuietInv DEF EmitDeferredCurve, input, IInv, ShapeInv, LoopInv
  <1>14. CASE CurvesEmitted
    BY <1>14, QuietInv DEF CurvesEmitted, input, IInv, ShapeInv, LoopInv
  <1>15. CASE CompactUnusedPoints
    BY <1>15, CompactInv
  <1>16. CASE EnterEdge
    BY <1>16, QuietInv DEF EnterEdge, input, IInv, ShapeInv, LoopInv
  <1> QED
    BY <1>1, <1>2, <1>3, <1>4, <1>5, <1>6, <1>7, <1>8, <1>9, <1>10, <1>11, <1>12, <1>13, <1>14,
       <1>15, <1>16
    DEF WeldStep

\* ... by its call, and by what leaves its variables alone.
LEMMA CallInv ==
  ASSUME IInv, CallMeshRoutine
  PROVE  IInv'
  BY QuietInv DEF CallMeshRoutine, WeldCall, Meshed, Faces, IInv, ShapeInv, LoopInv

LEMMA IdleInv ==
  ASSUME IInv, UNCHANGED weldVars
  PROVE  IInv'
  <1>1. UNCHANGED <<shape, meshed, step, at, next, nodeAlias, nodeToCanonical, points, faceVertexIndices>>
    BY DEF weldVars, input, walkVars, meshVars
  <1>2. Places' = Places
    BY <1>1 DEF Places, Faces
  <1>3. ShapeInv' /\ LoopInv'
    BY <1>1 DEF IInv, ShapeInv, LoopInv
  <1>4. PointInv'
    BY <1>1, <1>2 DEF IInv, PointInv
  <1>5. NodesInv'
    BY <1>1, KeysKept DEF IInv, NodesInv
  <1> QED BY <1>3, <1>4, <1>5 DEF IInv

LEMMA NextInv ==
  ASSUME IInv, [Next]_vars
  PROVE  IInv'
  <1>1. CASE MeshRoutine
    BY <1>1, WeldStepInv DEF MeshRoutine
  <1>2. CASE CallMeshRoutine
    BY <1>2, CallInv
  <1>3. CASE UNCHANGED weldVars
    BY <1>3, IdleInv
  <1> QED
    BY <1>1, <1>2, <1>3 DEF Next, Mesh, StopRemeshing, FindOverlaps, Remesh, Return, vars

LEMMA Invariance == Spec => []IInv
  BY InitInv, NextInv, PTL DEF Spec

\* Every corner of the mesh is one of its points, whatever is left unmeshed, however the
\* faces share their nodes and however few aliases are followed: emitFaceTriangles never
\* inserts a key and compactUnusedPoints leaves no index behind.
THEOREM CornersIndexed == Spec => []CornersHavePoints
  <1>1. IInv => CornersHavePoints
    BY DEF IInv, NodesInv, PointInv, PointKey, CornersHavePoints
  <1> QED BY <1>1, Invariance, PTL
---------------------------------------------------------------------------
\* The edges of a face, with their polygons.
LEMMA EdgeFacts ==
  \A s \in Shapes : \A f \in DOMAIN s :
    /\ Len(s[f].edges) \in Nat /\ DOMAIN s[f].edges = 1..Len(s[f].edges)
    /\ \A e \in FaceEdges(s[f]) :
         /\ Len(e.poly) \in Nat /\ Len(e.poly) >= 2 /\ DOMAIN e.poly = 1..Len(e.poly)
         /\ \A k \in 1..Len(e.poly) : e.poly[k] \in FaceNodes(s[f])
  <1> SUFFICES ASSUME NEW s \in Shapes, NEW f \in DOMAIN s
               PROVE  /\ Len(s[f].edges) \in Nat /\ DOMAIN s[f].edges = 1..Len(s[f].edges)
                      /\ \A e \in FaceEdges(s[f]) :
                           /\ Len(e.poly) \in Nat /\ Len(e.poly) >= 2 /\ DOMAIN e.poly = 1..Len(e.poly)
                           /\ \A k \in 1..Len(e.poly) : e.poly[k] \in FaceNodes(s[f])
    OBVIOUS
  <1>1. IsFace(s[f])
    BY MeshAssumption
  <1>2. s[f].edges \in Seq(Range(s[f].edges))
    BY <1>1 DEF IsFace
  <1>3. \A e \in FaceEdges(s[f]) : e.poly \in Seq(FaceNodes(s[f])) /\ Len(e.poly) >= 2
    BY <1>1 DEF IsFace
  <1>4. Len(s[f].edges) \in Nat /\ DOMAIN s[f].edges = 1..Len(s[f].edges)
    BY <1>2
  <1>5. ASSUME NEW e \in FaceEdges(s[f])
        PROVE  /\ Len(e.poly) \in Nat /\ Len(e.poly) >= 2 /\ DOMAIN e.poly = 1..Len(e.poly)
               /\ \A k \in 1..Len(e.poly) : e.poly[k] \in FaceNodes(s[f])
    BY <1>3
  <1> QED
    BY <1>4, <1>5

\* The places an edge is in: a face, and a position around it.
IsOccurrence(s, o) ==
  \E f \in DOMAIN s : \E i \in DOMAIN s[f].edges : o = <<f, i>>

LEMMA Explored ==
  ASSUME NEW s \in Shapes
  PROVE  /\ EdgesExplored[s] = [n \in 1..Len(EdgesExplored[s]) |-> EdgesExplored[s][n]]
         /\ Len(EdgesExplored[s]) \in Nat
         /\ \A n \in 1..Len(EdgesExplored[s]) : IsOccurrence(s, EdgesExplored[s][n])
         /\ \A f \in DOMAIN s : \A i \in DOMAIN s[f].edges :
              \E n \in 1..Len(EdgesExplored[s]) : EdgesExplored[s][n] = <<f, i>>
  <1> DEFINE A == UNION {{<<f, i>> : i \in DOMAIN s[f].edges} : f \in DOMAIN s}
             around(f) == [i \in DOMAIN s[f].edges |-> <<f, i>>]
             seqs == [f \in DOMAIN s |-> around(f)]
             out == FlattenSeq(seqs)
  <1>1. Len(s) \in Nat /\ DOMAIN s = 1..Len(s)
    BY MeshAssumption
  <1>2. ASSUME NEW f \in DOMAIN s PROVE around(f) \in Seq(A) /\ Len(around(f)) = Len(s[f].edges)
    <2>1. Len(s[f].edges) \in Nat /\ DOMAIN s[f].edges = 1..Len(s[f].edges)
      BY EdgeFacts
    <2>2. \A i \in 1..Len(s[f].edges) : around(f)[i] \in A
      BY <2>1
    <2>3. around(f) = [i \in 1..Len(s[f].edges) |-> around(f)[i]]
      BY <2>1
    <2> HIDE DEF A, around
    <2>4. around(f) \in [1..Len(s[f].edges) -> A]
      BY <2>2, <2>3
    <2> QED
      BY <2>1, <2>4
  <1>3. seqs \in Seq(Seq(A)) /\ Len(seqs) = Len(s)
    <2> DEFINE D == Seq(A)
    <2>1. \A f \in 1..Len(s) : seqs[f] \in D
      BY <1>1, <1>2
    <2>2. seqs = [f \in 1..Len(s) |-> seqs[f]]
      BY <1>1
    <2> HIDE DEF D, seqs
    <2>3. seqs \in [1..Len(s) -> D]
      BY <2>1, <2>2
    <2>4. seqs \in Seq(D) /\ Len(seqs) = Len(s)
      BY <1>1, <2>3
    <2> QED
      BY <2>4 DEF D
  <1>4. \A f \in 1..Len(s) : \A i \in 1..Len(seqs[f]) : i \in DOMAIN s[f].edges /\ seqs[f][i] = <<f, i>>
    BY <1>1, <1>2, EdgeFacts
  <1>5. \A f \in DOMAIN s : \A i \in DOMAIN s[f].edges :
          f \in 1..Len(seqs) /\ i \in 1..Len(seqs[f]) /\ seqs[f][i] = <<f, i>>
    BY <1>1, <1>2, <1>3, EdgeFacts
  <1>6. EdgesExplored[s] = out
    BY DEF EdgesExplored
  <1> HIDE DEF seqs, A
  <1>7. out \in Seq(A) /\ HoldsAll(out, seqs)
    BY <1>3, FlatRange
  <1> HIDE DEF out
  <1>8. \A n \in 1..Len(out) : IsOccurrence(s, out[n])
    <2>1. TAKE n \in 1..Len(out)
    <2>2. PICK f \in 1..Len(seqs) : \E i \in 1..Len(seqs[f]) : out[n] = seqs[f][i]
      BY <1>7 DEF HoldsAll
    <2>3. PICK i \in 1..Len(seqs[f]) : out[n] = seqs[f][i]
      BY <2>2
    <2>4. f \in DOMAIN s /\ i \in DOMAIN s[f].edges /\ out[n] = <<f, i>>
      BY <1>1, <1>3, <1>4, <2>3
    <2> QED
      BY <2>4 DEF IsOccurrence
  <1>9. \A f \in DOMAIN s : \A i \in DOMAIN s[f].edges : \E n \in 1..Len(out) : out[n] = <<f, i>>
    <2>1. TAKE f \in DOMAIN s
    <2>2. TAKE i \in DOMAIN s[f].edges
    <2>3. f \in 1..Len(seqs) /\ i \in 1..Len(seqs[f]) /\ seqs[f][i] = <<f, i>>
      BY <1>5
    <2>4. \E n \in 1..Len(out) : out[n] = seqs[f][i]
      BY <1>7, <2>3 DEF HoldsAll
    <2> QED
      BY <2>3, <2>4
  <1>10. Len(out) \in Nat /\ out = [n \in 1..Len(out) |-> out[n]]
    BY <1>7
  <1> QED
    BY <1>6, <1>8, <1>9, <1>10

\* An occurrence is of an edge of a face.
LEMMA OccurrenceFacts ==
  ASSUME shape \in Shapes
  PROVE  /\ Len(Occurrences) \in Nat /\ DOMAIN Occurrences = 1..Len(Occurrences)
         /\ \A n \in DOMAIN Occurrences :
              /\ Occurrences[n][1] \in DOMAIN shape
              /\ EdgeAt(Occurrences[n]) \in Range(shape[Occurrences[n][1]].edges)
              /\ EdgeAt(Occurrences[n]).poly # << >> =>
                   EdgeAt(Occurrences[n]) \in FaceEdges(shape[Occurrences[n][1]])
         /\ \A f \in DOMAIN shape : \A e \in FaceEdges(shape[f]) :
              \E n \in DOMAIN Occurrences : Occurrences[n][1] = f /\ EdgeAt(Occurrences[n]) = e
  <1>1. /\ Len(Occurrences) \in Nat /\ DOMAIN Occurrences = 1..Len(Occurrences)
        /\ \A n \in 1..Len(Occurrences) : IsOccurrence(shape, Occurrences[n])
        /\ \A f \in DOMAIN shape : \A i \in DOMAIN shape[f].edges :
             \E n \in 1..Len(Occurrences) : Occurrences[n] = <<f, i>>
    BY Explored DEF Occurrences
  <1>2. ASSUME NEW n \in DOMAIN Occurrences
        PROVE  /\ Occurrences[n][1] \in DOMAIN shape
               /\ EdgeAt(Occurrences[n]) \in Range(shape[Occurrences[n][1]].edges)
               /\ EdgeAt(Occurrences[n]).poly # << >> =>
                    EdgeAt(Occurrences[n]) \in FaceEdges(shape[Occurrences[n][1]])
    <2>1. PICK f \in DOMAIN shape : \E i \in DOMAIN shape[f].edges : Occurrences[n] = <<f, i>>
      BY <1>1 DEF IsOccurrence
    <2>2. PICK i \in DOMAIN shape[f].edges : Occurrences[n] = <<f, i>>
      BY <2>1
    <2> QED
      BY <2>2 DEF EdgeAt, FaceEdges, Range
  <1>3. ASSUME NEW f \in DOMAIN shape, NEW e \in FaceEdges(shape[f])
        PROVE  \E n \in DOMAIN Occurrences : Occurrences[n][1] = f /\ EdgeAt(Occurrences[n]) = e
    <2>1. PICK i \in DOMAIN shape[f].edges : e = shape[f].edges[i]
      BY DEF FaceEdges, Range
    <2>2. PICK n \in DOMAIN Occurrences : Occurrences[n] = <<f, i>>
      BY <1>1
    <2> QED
      BY <2>1, <2>2 DEF EdgeAt
  <1> QED
    BY <1>1, <1>2, <1>3

\* A meshed face at an edge, with a polygon that edge has on it.
IsPolyOf(p, edge) ==
  /\ p.face \in meshed
  /\ \E e \in FaceEdges(shape[p.face]) : e.edge = edge /\ e.poly = p.poly

\* What the walk has at the m-th occurrence for the n-th, if that is of the same edge.
PolyAt(m, n) ==
  [face |-> Occurrences[n][1],
   poly |-> IF Occurrences[n][1] = Occurrences[m][1] THEN EdgeAt(Occurrences[m]).poly
            ELSE EdgeAt(Occurrences[n]).poly]
SameEdge(m) ==
  {n \in 1..Len(Occurrences) : /\ EdgeAt(Occurrences[n]).edge = EdgeAt(Occurrences[m]).edge
                               /\ Occurrences[n][1] \in meshed
                               /\ PolyAt(m, n).poly # << >>}

LEMMA PolysKept ==
  ASSUME shape \in Shapes, NEW m \in DOMAIN Occurrences
  PROVE  IsKept(FacePolys(Occurrences[m]), [n \in 1..Len(Occurrences) |-> PolyAt(m, n)],
                Len(Occurrences), SameEdge(m))
  <1> DEFINE occ == Occurrences[m]
             N == Len(Occurrences)
             T == SameEdge(m)
             v == [n \in 1..N |-> PolyAt(m, n)]
             seq1 == [n \in DOMAIN Occurrences |->
               LET other == Occurrences[n]
                   poly  == IF other[1] = occ[1] THEN EdgeAt(occ).poly ELSE EdgeAt(other).poly
               IN IF EdgeAt(other).edge = EdgeAt(occ).edge /\ other[1] \in meshed /\ poly # << >>
                  THEN <<[face |-> other[1], poly |-> poly]>> ELSE << >>]
             seq2 == [n \in 1..N |-> IF n \in T THEN <<v[n]>> ELSE << >>]
  <1>1. N \in Nat /\ DOMAIN Occurrences = 1..N
    BY OccurrenceFacts
  <1>2. \A n \in 1..N : seq1[n] = seq2[n]
    BY <1>1 DEF SameEdge, PolyAt
  <1>3. seq1 = [n \in 1..N |-> seq1[n]] /\ seq2 = [n \in 1..N |-> seq2[n]]
    BY <1>1
  <1>4. T \in SUBSET (1..N)
    BY DEF SameEdge
  <1>5. FacePolys(occ) = FlattenSeq(seq1)
    BY DEF FacePolys
  <1> HIDE DEF seq1, seq2, v, T, N
  <1>6. seq1 = seq2
    BY <1>2, <1>3
  <1>7. Kept(v, N, T) = FlattenSeq(seq2)
    BY DEF Kept, seq2
  <1>8. IsKept(Kept(v, N, T), v, N, T)
    BY <1>1, <1>4, KeptFacts
  <1> QED BY <1>5, <1>6, <1>7, <1>8 DEF v, T, N

LEMMA PolyFacts ==
  ASSUME shape \in Shapes, meshed \subseteq DOMAIN shape, NEW m \in DOMAIN Occurrences
  PROVE  LET edge  == EdgeAt(Occurrences[m]).edge
             polys == FacePolys(Occurrences[m])
         IN /\ Len(polys) \in Nat /\ DOMAIN polys = 1..Len(polys)
            /\ \A k \in DOMAIN polys : IsPolyOf(polys[k], edge)
            /\ \A f \in meshed : \A e \in FaceEdges(shape[f]) : e.edge = edge =>
                 \E k \in DOMAIN polys : polys[k].face = f
            /\ polys # << >> => 1 \in DOMAIN polys
  <1> DEFINE occ == Occurrences[m]
             edge == EdgeAt(occ).edge
             polys == FacePolys(occ)
             N == Len(Occurrences)
             v == [n \in 1..N |-> PolyAt(m, n)]
             T == SameEdge(m)
  <1>1. /\ N \in Nat /\ DOMAIN Occurrences = 1..N
        /\ \A n \in 1..N : /\ Occurrences[n][1] \in DOMAIN shape
                           /\ EdgeAt(Occurrences[n]) \in Range(shape[Occurrences[n][1]].edges)
                           /\ EdgeAt(Occurrences[n]).poly # << >> =>
                                EdgeAt(Occurrences[n]) \in FaceEdges(shape[Occurrences[n][1]])
    BY OccurrenceFacts
  <1>2. IsKept(polys, v, N, T)
    BY PolysKept
  <1>3. \A n \in T : IsPolyOf(v[n], edge)
    <2>1. TAKE n \in T
    <2>2. /\ n \in 1..N /\ EdgeAt(Occurrences[n]).edge = edge /\ Occurrences[n][1] \in meshed
          /\ v[n].poly # << >>
      BY DEF SameEdge
    <2>3. v[n].face = Occurrences[n][1]
      BY <2>2 DEF PolyAt
    <2>4. CASE Occurrences[n][1] = occ[1]
      <3>1. v[n].poly = EdgeAt(occ).poly
        BY <2>2, <2>4 DEF PolyAt
      <3>2. EdgeAt(occ) \in FaceEdges(shape[v[n].face])
        BY <1>1, <2>2, <2>3, <2>4, <3>1
      <3> HIDE DEF v
      <3> QED
        BY <2>2, <2>3, <3>1, <3>2 DEF IsPolyOf
    <2>5. CASE Occurrences[n][1] # occ[1]
      <3>1. v[n].poly = EdgeAt(Occurrences[n]).poly
        BY <2>2, <2>5 DEF PolyAt
      <3>2. EdgeAt(Occurrences[n]) \in FaceEdges(shape[v[n].face])
        BY <1>1, <2>2, <2>3, <3>1
      <3> HIDE DEF v
      <3> QED
        BY <2>2, <2>3, <3>1, <3>2 DEF IsPolyOf
    <2> QED
      BY <2>4, <2>5
  <1>4. \A n \in T : v[n].face = Occurrences[n][1]
    BY DEF SameEdge, PolyAt
  <1>5. \A f \in meshed : \A e \in FaceEdges(shape[f]) : e.edge = edge =>
          \E n \in T : Occurrences[n][1] = f
    <2>1. TAKE f \in meshed
    <2>2. TAKE e \in FaceEdges(shape[f])
    <2>3. HAVE e.edge = edge
    <2>4. PICK n \in DOMAIN Occurrences : Occurrences[n][1] = f /\ EdgeAt(Occurrences[n]) = e
      BY OccurrenceFacts
    <2>5. e.poly # << >> /\ e \in Range(shape[f].edges)
      BY DEF FaceEdges
    <2>6. ASSUME f = occ[1] PROVE EdgeAt(occ).poly # << >>
      <3>1. shape \in Shapes /\ f \in DOMAIN shape
        OBVIOUS
      <3>2. IsFace(shape[f])
        BY <3>1, MeshAssumption
      <3>3. EdgeAt(occ) \in Range(shape[f].edges)
        BY <1>1, <2>6
      <3> QED BY <2>3, <2>5, <3>2, <3>3 DEF IsFace
    <2>7. PolyAt(m, n).poly # << >>
      BY <2>4, <2>5, <2>6 DEF PolyAt
    <2> QED
      BY <1>1, <2>3, <2>4, <2>7 DEF SameEdge
  <1> HIDE DEF v, T, N
  <1> HIDE DEF polys, edge
  <1>6. Len(polys) \in Nat /\ DOMAIN polys = 1..Len(polys)
    BY <1>2 DEF IsKept
  <1>7. \A k \in DOMAIN polys : IsPolyOf(polys[k], edge)
    <2>1. TAKE k \in DOMAIN polys
    <2>2. PICK n \in T : polys[k] = v[n]
      BY <1>2, <1>6 DEF IsKept
    <2> QED
      BY <1>3, <2>2
  <1>8. \A f \in meshed : \A e \in FaceEdges(shape[f]) : e.edge = edge =>
           \E k \in DOMAIN polys : polys[k].face = f
    <2>1. TAKE f \in meshed
    <2>2. TAKE e \in FaceEdges(shape[f])
    <2>3. HAVE e.edge = edge
    <2>4. PICK n \in T : Occurrences[n][1] = f
      BY <1>5, <2>3
    <2>5. PICK k \in 1..Len(polys) : polys[k] = v[n]
      BY <1>2 DEF IsKept
    <2> QED
      BY <1>4, <1>6, <2>4, <2>5
  <1>9. polys # << >> => 1 \in DOMAIN polys
    <2>1. polys \in Seq({v[n] : n \in T})
      BY <1>2 DEF IsKept
    <2> QED
      BY <1>6, <2>1, EmptySeq
  <1> QED
    BY <1>6, <1>7, <1>8, <1>9 DEF polys, edge

\* The keys met on the way from a key, one more alias followed at each.
Step(alias, key) == IF key \in DOMAIN alias THEN alias[key] ELSE key
IsTrail(f, alias, key) == f[0] = key /\ \A n \in 1..AliasSteps : f[n] = Step(alias, f[n - 1])

\* ResolveAlias ends where the trail does, and never leaves a set that no alias leaves.
LEMMA Trail ==
  ASSUME NEW alias, NEW S, NEW key \in S, \A k \in S : k \in DOMAIN alias => alias[k] \in S
  PROVE  \E f \in [0..AliasSteps -> S] : IsTrail(f, alias, key) /\ ResolveAlias(alias, key) = f[AliasSteps]
  <1> DEFINE follow == [k \in S |-> IF k \in DOMAIN alias THEN alias[k] ELSE k]
             G == [n \in 1..AliasSteps |-> follow]
             after[n \in 0..AliasSteps] ==
               IF n = 0 THEN key
               ELSE LET k == after[n - 1] IN IF k \in DOMAIN alias THEN alias[k] ELSE k
  <1> HIDE DEF G, after
  <1>1. PICK N \in Nat : N = AliasSteps
    BY MeshAssumption
  <1>2. G \in [1..N -> [S -> S]]
    BY <1>1 DEF G
  <1>3. PICK f \in [0..N -> S] : Follows(f, N, key, G)
    BY <1>2, NatRecursion
  <1>4. f[0] = key /\ \A n \in 1..N : f[n] = IF f[n - 1] \in DOMAIN alias THEN alias[f[n - 1]] ELSE f[n - 1]
    <2>1. f[0] = key /\ \A n \in 1..N : f[n] = G[n][f[n - 1]]
      BY <1>3 DEF Follows
    <2>2. \A n \in 1..N : f[n - 1] \in S
      OBVIOUS
    <2>3. \A n \in 1..N : \A k \in S : G[n][k] = IF k \in DOMAIN alias THEN alias[k] ELSE k
      BY <1>1 DEF G
    <2> QED
      BY <2>1, <2>2, <2>3
  <1>5. f = [n \in 0..N |-> IF n = 0 THEN key
               ELSE LET k == f[n - 1] IN IF k \in DOMAIN alias THEN alias[k] ELSE k]
    <2> DEFINE h == [n \in 0..N |-> IF n = 0 THEN key
               ELSE LET k == f[n - 1] IN IF k \in DOMAIN alias THEN alias[k] ELSE k]
    <2>1. \A n \in 0..N : f[n] = h[n]
      <3>1. TAKE n \in 0..N
      <3>2. n # 0 => n \in 1..N
        OBVIOUS
      <3> QED
        BY <1>4, <3>2
    <2>2. h = [n \in 0..N |-> h[n]] /\ f = [n \in 0..N |-> f[n]]
      OBVIOUS
    <2> HIDE DEF h
    <2>3. f = h
      BY <2>1, <2>2
    <2> QED
      BY <2>3 DEF h
  <1>6. after = [n \in 0..N |-> IF n = 0 THEN key
                   ELSE LET k == after[n - 1] IN IF k \in DOMAIN alias THEN alias[k] ELSE k]
    BY <1>1, <1>5 DEF after
  <1>7. Alike(after, f, N)
    <2>1. after[0] = key
      BY <1>6
    <2>2. \A n \in 1..N : after[n] = IF after[n - 1] \in DOMAIN alias THEN alias[after[n - 1]] ELSE after[n - 1]
      <3>1. TAKE n \in 1..N
      <3>2. n \in 0..N /\ n # 0
        OBVIOUS
      <3> QED
        BY <1>6, <3>2
    <2> QED
      BY <1>4, <2>1, <2>2, SameSteps
  <1>8. ResolveAlias(alias, key) = after[N]
    BY <1>1 DEF ResolveAlias, after
  <1>9. ResolveAlias(alias, key) = f[N]
    BY <1>7, <1>8 DEF Alike
  <1>10. IsTrail(f, alias, key)
    BY <1>1, <1>4 DEF IsTrail, Step
  <1> QED
    BY <1>1, <1>9, <1>10

LEMMA ResolveStays ==
  ASSUME NEW alias, NEW S, NEW key \in S, \A k \in S : k \in DOMAIN alias => alias[k] \in S
  PROVE  ResolveAlias(alias, key) \in S
  <1>1. PICK f \in [0..AliasSteps -> S] : ResolveAlias(alias, key) = f[AliasSteps]
    BY Trail
  <1>2. AliasSteps \in 0..AliasSteps
    BY MeshAssumption
  <1> QED
    BY <1>1, <1>2

\* All polygons at an edge pass the same places.
LEMMA SamePlaces ==
  ASSUME shape \in Shapes, meshed \subseteq DOMAIN shape, NEW edge, NEW p, NEW q,
         IsPolyOf(p, edge), IsPolyOf(q, edge)
  PROVE  /\ Len(p.poly) = Len(q.poly)
         /\ \A k \in 1..Len(p.poly) : shape[p.face].places[p.poly[k]] = shape[q.face].places[q.poly[k]]
  <1>1. PICK d \in FaceEdges(shape[p.face]) : d.edge = edge /\ d.poly = p.poly
    BY DEF IsPolyOf
  <1>2. PICK e \in FaceEdges(shape[q.face]) : e.edge = edge /\ e.poly = q.poly
    BY DEF IsPolyOf
  <1>3. p.face \in DOMAIN shape /\ q.face \in DOMAIN shape
    BY DEF IsPolyOf
  <1>4. Along(shape[p.face], d) = Along(shape[q.face], e)
    BY <1>1, <1>2, <1>3, MeshAssumption
  <1>5. /\ DOMAIN p.poly = 1..Len(p.poly) /\ Len(p.poly) \in Nat
        /\ DOMAIN q.poly = 1..Len(q.poly) /\ Len(q.poly) \in Nat
    BY <1>1, <1>2, <1>3, EdgeFacts
  <1>6. /\ Along(shape[p.face], d) = [k \in DOMAIN p.poly |-> shape[p.face].places[p.poly[k]]]
        /\ Along(shape[q.face], e) = [k \in DOMAIN q.poly |-> shape[q.face].places[q.poly[k]]]
    BY <1>1, <1>2 DEF Along
  <1>7. DOMAIN p.poly = DOMAIN q.poly
    BY <1>4, <1>6
  <1>8. Len(p.poly) = Len(q.poly)
    BY <1>5, <1>7
  <1>9. \A k \in DOMAIN p.poly : shape[p.face].places[p.poly[k]] = shape[q.face].places[q.poly[k]]
    <2>1. TAKE k \in DOMAIN p.poly
    <2>2. Along(shape[p.face], d)[k] = shape[p.face].places[p.poly[k]]
      BY <1>6
    <2>3. Along(shape[q.face], e)[k] = shape[q.face].places[q.poly[k]]
      BY <1>6, <1>7
    <2> QED
      BY <1>4, <2>2, <2>3
  <1> QED
    BY <1>5, <1>8, <1>9

\* Where the walk over the edges is: between two edges, or among the nodes of one.
WalkInv ==
  /\ at \in Nat \ {0}
  /\ step = "idle" => meshed = {}
  /\ facePolys = << >> => adj = 1 /\ (step \in {"idle", "edges"} => next = 1)
  /\ facePolys # << >> =>
       /\ step = "edges"
       /\ at \in DOMAIN Occurrences
       /\ facePolys = FacePolys(Occurrences[at])
       /\ adj \in DOMAIN facePolys
       /\ adj # 1 => next <= NumNodes

\* What the walk knows of the faces at the edge it is on.
LEMMA AtEdge ==
  ASSUME ShapeInv, WalkInv, facePolys # << >>
  PROVE  LET edge == EdgeAt(Occurrences[at]).edge IN
           /\ \A n \in DOMAIN facePolys : IsPolyOf(facePolys[n], edge) /\ Len(facePolys[n].poly) = NumNodes
           /\ NumNodes \in Nat /\ NumNodes >= 2
           /\ 1 \in DOMAIN facePolys /\ DOMAIN facePolys = 1..Len(facePolys) /\ Len(facePolys) \in Nat
  <1> DEFINE edge == EdgeAt(Occurrences[at]).edge
  <1>1. shape \in Shapes /\ meshed \subseteq DOMAIN shape
    BY DEF ShapeInv
  <1>2. facePolys = FacePolys(Occurrences[at]) /\ at \in DOMAIN Occurrences
    BY DEF WalkInv
  <1>3. /\ \A n \in DOMAIN facePolys : IsPolyOf(facePolys[n], edge)
        /\ 1 \in DOMAIN facePolys /\ DOMAIN facePolys = 1..Len(facePolys) /\ Len(facePolys) \in Nat
    BY <1>1, <1>2, PolyFacts
  <1> HIDE DEF edge
  <1>4. \A n \in DOMAIN facePolys : Len(facePolys[n].poly) = Len(facePolys[1].poly)
    BY <1>1, <1>3, SamePlaces
  <1>5. Len(facePolys[1].poly) \in Nat /\ Len(facePolys[1].poly) >= 2
    <2>1. PICK e \in FaceEdges(shape[facePolys[1].face]) : e.poly = facePolys[1].poly
      BY <1>3 DEF IsPolyOf
    <2>2. facePolys[1].face \in DOMAIN shape
      BY <1>1, <1>3 DEF IsPolyOf
    <2> QED
      BY <1>1, <2>1, <2>2, EdgeFacts
  <1>6. {Len(facePolys[n].poly) : n \in DOMAIN facePolys} = {Len(facePolys[1].poly)}
    BY <1>3, <1>4
  <1>7. NumNodes = Len(facePolys[1].poly)
    BY <1>5, <1>6 DEF NumNodes, Min
  <1> QED
    BY <1>3, <1>4, <1>5, <1>7 DEF edge
---------------------------------------------------------------------------
LEMMA InitWalk == Init => WalkInv
  BY DEF Init, WeldInit, WalkInv

\* The faces at an edge are those of the shape.
LEMMA FacePolysKept ==
  ASSUME UNCHANGED <<shape, meshed>>
  PROVE  Occurrences' = Occurrences /\ \A n : FacePolys(Occurrences[n])' = FacePolys(Occurrences[n])
  BY DEF Occurrences, FacePolys, EdgeAt

\* A step outside the walk.
LEMMA QuietWalk ==
  ASSUME WalkInv, step \notin {"idle", "edges"}, step' \notin {"idle", "edges"}, at' \in Nat \ {0},
         UNCHANGED <<facePolys, adj>>
  PROVE  WalkInv'
  BY DEF WalkInv

LEMMA IdleWalk ==
  ASSUME WalkInv, UNCHANGED weldVars
  PROVE  WalkInv'
  <1>1. UNCHANGED <<shape, meshed, step, at, next, facePolys, adj>>
    BY DEF weldVars, input, walkVars
  <1>2. Occurrences' = Occurrences /\ \A n : FacePolys(Occurrences[n])' = FacePolys(Occurrences[n])
    BY <1>1, FacePolysKept
  <1> QED
    BY <1>1, <1>2 DEF WalkInv, NumNodes

LEMMA CallWalk ==
  ASSUME WalkInv, CallMeshRoutine
  PROVE  WalkInv'
  BY DEF WalkInv, CallMeshRoutine, WeldCall, walkVars

LEMMA WalkStep ==
  ASSUME IInv, WalkInv, SkipEdge \/ EnterEdge \/ AliasNode \/ FinishEdge \/ EdgesWalked
  PROVE  WalkInv'
  <1> USE DEF WalkInv
  <1>1. shape \in Shapes /\ meshed \subseteq DOMAIN shape /\ next \in Nat \ {0} /\ ShapeInv
    BY DEF IInv, ShapeInv, LoopInv
  <1>2. DOMAIN Occurrences = 1..Len(Occurrences) /\ Len(Occurrences) \in Nat
    BY <1>1, OccurrenceFacts
  <1>3. UNCHANGED <<shape, meshed>> =>
          /\ Occurrences' = Occurrences
          /\ \A n : FacePolys(Occurrences[n])' = FacePolys(Occurrences[n])
    BY FacePolysKept
  <1>4. facePolys # << >> =>
          /\ NumNodes \in Nat
          /\ DOMAIN facePolys = 1..Len(facePolys) /\ Len(facePolys) \in Nat /\ 1 \in DOMAIN facePolys
    BY <1>1, AtEdge
  <1>5. CASE SkipEdge
    <2>1. /\ step = "edges" /\ facePolys = << >> /\ at' = at + 1
          /\ UNCHANGED <<step, meshed, facePolys, adj, next>>
      BY <1>5 DEF SkipEdge, input, walkVars
    <2> QED
      BY <2>1
  <1>6. CASE EnterEdge
    <2>1. /\ step = "edges" /\ facePolys = << >> /\ at \in DOMAIN Occurrences
          /\ facePolys' = FacePolys(Occurrences[at]) /\ facePolys' # << >>
          /\ UNCHANGED <<shape, meshed, step, adj, next, at>>
      BY <1>6 DEF EnterEdge, input
    <2>2. 1 \in DOMAIN facePolys'
      BY <1>1, <2>1, PolyFacts
    <2> QED
      BY <1>3, <2>1, <2>2
  <1>7. CASE AliasNode
    <2>1. /\ step = "edges" /\ facePolys # << >> /\ next <= NumNodes
          /\ \/ adj < Len(facePolys) /\ adj' = adj + 1 /\ next' = next
             \/ adj' = 1
          /\ UNCHANGED <<shape, meshed, step, facePolys, at>>
      BY <1>7 DEF AliasNode, input
    <2>2. NumNodes' = NumNodes
      BY <2>1 DEF NumNodes
    <2>3. adj' \in DOMAIN facePolys /\ (adj' # 1 => next' <= NumNodes)
      BY <1>4, <2>1
    <2> QED
      BY <1>3, <2>1, <2>2, <2>3
  <1>8. CASE FinishEdge
    <2>1. /\ step = "edges" /\ facePolys # << >> /\ next > NumNodes
          /\ at' = at + 1 /\ next' = 1 /\ facePolys' = << >>
          /\ UNCHANGED <<step, meshed, adj>>
      BY <1>8 DEF FinishEdge, input
    <2>2. adj = 1
      BY <1>1, <1>4, <2>1
    <2> QED
      BY <2>1, <2>2
  <1>9. CASE EdgesWalked
    <2>1. /\ step = "edges" /\ at > Len(Occurrences) /\ step' = "nodes" /\ at' = 1
          /\ UNCHANGED <<meshed, facePolys, adj>>
      BY <1>9 DEF EdgesWalked, input, walkVars
    <2>2. facePolys = << >>
      BY <1>2, <2>1
    <2> QED
      BY <2>1, <2>2
  <1> QED
    BY <1>5, <1>6, <1>7, <1>8, <1>9

LEMMA NextWalk ==
  ASSUME IInv, WalkInv, [Next]_vars
  PROVE  WalkInv'
  <1>1. CASE WeldStep
    <2>1. CASE SkipEdge \/ EnterEdge \/ AliasNode \/ FinishEdge \/ EdgesWalked
      BY <2>1, WalkStep
    <2>2. CASE WeldNode
      BY <2>2, QuietWalk DEF WeldNode, walkVars, WalkInv
    <2>3. CASE NodesWelded
      BY <2>3, QuietWalk DEF NodesWelded, walkVars, WalkInv
    <2>4. CASE EmitTriangle
      BY <2>4, QuietWalk DEF EmitTriangle, walkVars, WalkInv
    <2>5. CASE FaceEmitted
      BY <2>5, QuietWalk DEF FaceEmitted, walkVars, WalkInv
    <2>6. CASE SkipFace
      BY <2>6, QuietWalk DEF SkipFace, walkVars, WalkInv
    <2>7. CASE FacesEmitted
      BY <2>7, QuietWalk DEF FacesEmitted, walkVars, WalkInv
    <2>8. CASE FinalizePoint
      BY <2>8, QuietWalk DEF FinalizePoint, walkVars, WalkInv
    <2>9. CASE BoundaryDataFinalized
      BY <2>9, QuietWalk DEF BoundaryDataFinalized, walkVars, WalkInv
    <2>10. CASE EmitDeferredCurve
      BY <2>10, QuietWalk DEF EmitDeferredCurve, walkVars, WalkInv
    <2>11. CASE CurvesEmitted
      BY <2>11, QuietWalk DEF CurvesEmitted, walkVars, WalkInv
    <2>12. CASE CompactUnusedPoints
      BY <2>12, QuietWalk DEF CompactUnusedPoints, walkVars, WalkInv
    <2> QED
      BY <1>1, <2>1, <2>2, <2>3, <2>4, <2>5, <2>6, <2>7, <2>8, <2>9, <2>10, <2>11, <2>12 DEF WeldStep
  <1>2. CASE CallMeshRoutine
    BY <1>2, CallWalk
  <1>3. CASE UNCHANGED weldVars
    BY <1>3, IdleWalk
  <1> QED
    BY <1>1, <1>2, <1>3
    DEF Next, Mesh, StopRemeshing, FindOverlaps, Remesh, MeshRoutine, Return, vars

LEMMA WalkInvariance == Spec => []WalkInv
  BY InitWalk, NextWalk, Invariance, PTL DEF Spec
---------------------------------------------------------------------------
\* What the routine keeps under keys is kept under keys of nodes, and what it adds up
\* are edges of the shape; nodes are aliased to a key met on an edge.
KeysInv ==
  /\ DOMAIN nodeAlias \subseteq Keys /\ \A k \in DOMAIN nodeAlias : nodeAlias[k] \in Keys
  /\ boundaryKeys \subseteq Keys
  /\ resolvedCanon \in Keys \cup {<< >>} /\ (adj # 1 => resolvedCanon \in boundaryKeys)
  /\ DOMAIN nodeToCanonical \subseteq Keys
  /\ DOMAIN tangentAccum \subseteq Keys /\ \A k \in DOMAIN tangentAccum : tangentAccum[k] \subseteq Edges

LEMMA KeyOfNode ==
  ASSUME NEW f \in DOMAIN shape, NEW n \in FaceNodes(shape[f])
  PROVE  Key(f, n) \in Keys
  BY DEF Key, Keys, Faces

LEMMA EdgeOfFace ==
  ASSUME NEW f \in DOMAIN shape, NEW e \in FaceEdges(shape[f])
  PROVE  e.edge \in Edges
  BY DEF Edges, Faces

LEMMA ResolvedKey ==
  ASSUME KeysInv, NEW key \in Keys
  PROVE  ResolveAlias(nodeAlias, key) \in Keys
  BY ResolveStays DEF KeysInv

LEMMA ShapeKept ==
  ASSUME UNCHANGED shape
  PROVE  Keys' = Keys /\ Edges' = Edges /\ Places' = Places /\ Faces' = Faces
  BY DEF Keys, Edges, Places, Faces, FaceNodes, FaceEdges

\* The keys of the edge the walk is on.
LEMMA PolyKeyFacts ==
  ASSUME ShapeInv, WalkInv, facePolys # << >>, NEW n \in DOMAIN facePolys, NEW k \in 1..NumNodes
  PROVE  /\ PolyKey(n, k) \in Keys
         /\ facePolys[n].face \in meshed /\ facePolys[n].poly[k] \in FaceNodes(shape[facePolys[n].face])
  <1>1. /\ \A m \in DOMAIN facePolys : IsPolyOf(facePolys[m], EdgeAt(Occurrences[at]).edge)
                                       /\ Len(facePolys[m].poly) = NumNodes
    BY AtEdge
  <1>2. PICK e \in FaceEdges(shape[facePolys[n].face]) : e.poly = facePolys[n].poly
    BY <1>1 DEF IsPolyOf
  <1>3. shape \in Shapes /\ facePolys[n].face \in DOMAIN shape /\ facePolys[n].face \in meshed
    BY <1>1 DEF IsPolyOf, ShapeInv
  <1>4. facePolys[n].poly[k] \in FaceNodes(shape[facePolys[n].face])
    BY <1>1, <1>2, <1>3, EdgeFacts
  <1> QED
    BY <1>3, <1>4, KeyOfNode DEF PolyKey

\* The edge the walk is on.
LEMMA EdgeAtFacts ==
  ASSUME ShapeInv, WalkInv, facePolys # << >>
  PROVE  EdgeAt(Occurrences[at]).edge \in Edges
  <1>1. IsPolyOf(facePolys[1], EdgeAt(Occurrences[at]).edge)
    BY AtEdge
  <1>2. facePolys[1].face \in DOMAIN shape
    BY <1>1 DEF IsPolyOf, ShapeInv
  <1> QED
    BY <1>1, <1>2, EdgeOfFace DEF IsPolyOf

LEMMA InitKeys == Init => KeysInv
  BY DEF Init, WeldInit, KeysInv

LEMMA QuietKeys ==
  ASSUME KeysInv, UNCHANGED <<shape, adj, resolvedCanon, nodeAlias, boundaryKeys, nodeToCanonical, tangentAccum>>
  PROVE  KeysInv'
  BY ShapeKept DEF KeysInv

LEMMA AliasNodeKeys ==
  ASSUME ShapeInv, LoopInv, WalkInv, KeysInv, AliasNode
  PROVE  /\ KeysInv'
         /\ resolvedCanon' \in Keys /\ ResolveAlias(nodeAlias, PolyKey(adj, next)) \in Keys
  <1> DEFINE other == ResolveAlias(nodeAlias, PolyKey(adj, next))
  <1>1. /\ facePolys # << >> /\ next <= NumNodes
        /\ boundaryKeys' = boundaryKeys \cup {other}
        /\ resolvedCanon' = IF adj = 1 THEN other ELSE resolvedCanon
        /\ nodeAlias' = IF other = resolvedCanon' THEN nodeAlias ELSE Mapped(nodeAlias, other, resolvedCanon')
        /\ UNCHANGED <<shape, nodeToCanonical, tangentAccum>>
    BY DEF AliasNode, input, meshVars
  <1>2. adj \in DOMAIN facePolys /\ next \in 1..NumNodes
    BY <1>1, AtEdge DEF WalkInv, LoopInv
  <1>3. other \in Keys
    BY <1>1, <1>2, PolyKeyFacts, ResolvedKey
  <1>4. Keys' = Keys /\ Edges' = Edges
    BY <1>1, ShapeKept
  <1> HIDE DEF other
  <1>5. resolvedCanon' \in boundaryKeys' /\ boundaryKeys' \subseteq Keys
    BY <1>1, <1>3 DEF KeysInv
  <1>6. DOMAIN nodeAlias' \subseteq Keys /\ \A k \in DOMAIN nodeAlias' : nodeAlias'[k] \in Keys
    BY <1>1, <1>3, <1>5 DEF KeysInv, Mapped
  <1>7. KeysInv'
    BY <1>1, <1>4, <1>5, <1>6 DEF KeysInv
  <1> QED
    BY <1>3, <1>5, <1>7 DEF other

LEMMA FinishEdgeKeys ==
  ASSUME ShapeInv, WalkInv, KeysInv, FinishEdge
  PROVE  KeysInv'
  <1> DEFINE edge == EdgeAt(Occurrences[at]).edge
             canonicalKeys == [k \in 1..NumNodes |-> PolyKey(1, k)]
             touched == {ResolveAlias(nodeAlias, canonicalKeys[k]) :
                           k \in EdgeAt(Occurrences[at]).tangents \cap 1..NumNodes}
  <1>1. /\ facePolys # << >>
        /\ tangentAccum' = [key \in DOMAIN tangentAccum \cup touched |->
             (IF key \in DOMAIN tangentAccum THEN tangentAccum[key] ELSE {})
               \cup (IF key \in touched THEN {edge} ELSE {})]
        /\ UNCHANGED <<shape, adj, resolvedCanon, nodeToCanonical, nodeAlias, boundaryKeys>>
    BY DEF FinishEdge, input, meshVars
  <1>2. 1 \in DOMAIN facePolys /\ edge \in Edges
    BY <1>1, AtEdge, EdgeAtFacts
  <1>3. touched \subseteq Keys
    <2>1. \A k \in 1..NumNodes : canonicalKeys[k] \in Keys
      BY <1>1, <1>2, PolyKeyFacts
    <2> HIDE DEF canonicalKeys
    <2> QED
      BY <2>1, ResolvedKey
  <1>4. Keys' = Keys /\ Edges' = Edges
    BY <1>1, ShapeKept
  <1> HIDE DEF touched, edge
  <1>5. DOMAIN tangentAccum' \subseteq Keys /\ \A k \in DOMAIN tangentAccum' : tangentAccum'[k] \subseteq Edges
    BY <1>1, <1>2, <1>3 DEF KeysInv
  <1> QED
    BY <1>1, <1>4, <1>5 DEF KeysInv

LEMMA WeldNodeKeys ==
  ASSUME ShapeInv, LoopInv, KeysInv, WeldNode
  PROVE  KeysInv'
  <1> DEFINE key == ResolveAlias(nodeAlias, Key(at, next))
  <1>1. /\ at \in meshed /\ next <= Len(shape[at].places)
        /\ \/ nodeToCanonical' = nodeToCanonical
           \/ nodeToCanonical' = Mapped(nodeToCanonical, key, Len(points) + 1)
        /\ UNCHANGED <<shape, adj, resolvedCanon, nodeAlias, boundaryKeys, tangentAccum>>
    BY DEF WeldNode, input, walkVars
  <1>2. at \in DOMAIN shape /\ next \in FaceNodes(shape[at])
    BY <1>1, FaceFacts DEF ShapeInv, LoopInv
  <1>3. key \in Keys
    BY <1>2, KeyOfNode, ResolvedKey
  <1>4. Keys' = Keys /\ Edges' = Edges
    BY <1>1, ShapeKept
  <1> HIDE DEF key
  <1>5. DOMAIN nodeToCanonical' \subseteq Keys
    BY <1>1, <1>3 DEF KeysInv, Mapped
  <1> QED
    BY <1>1, <1>4, <1>5 DEF KeysInv

LEMMA EmitTriangleKeys ==
  ASSUME ShapeInv, LoopInv, KeysInv, EmitTriangle
  PROVE  KeysInv'
  <1> DEFINE corner == [c \in 1..3 |-> ResolveAlias(nodeAlias, Key(at, shape[at].triangles[next][c]))]
  <1>1. /\ step = "triangles" /\ next <= Len(shape[at].triangles)
        /\ DOMAIN nodeToCanonical' = DOMAIN nodeToCanonical \cup Range(corner)
        /\ UNCHANGED <<shape, adj, resolvedCanon, nodeAlias, boundaryKeys, tangentAccum>>
    BY DEF EmitTriangle, input, walkVars
  <1>2. at \in DOMAIN shape /\ \A c \in 1..3 : shape[at].triangles[next][c] \in FaceNodes(shape[at])
    BY <1>1, FaceFacts DEF ShapeInv, LoopInv
  <1>3. \A c \in 1..3 : corner[c] \in Keys
    BY <1>2, KeyOfNode, ResolvedKey
  <1>4. Range(corner) \subseteq Keys
    BY <1>3 DEF Range
  <1>5. Keys' = Keys /\ Edges' = Edges
    BY <1>1, ShapeKept
  <1> HIDE DEF corner
  <1> QED
    BY <1>1, <1>4, <1>5 DEF KeysInv

LEMMA NextKeys ==
  ASSUME IInv, WalkInv, KeysInv, [Next]_vars
  PROVE  KeysInv'
  <1> USE DEF walkVars, meshVars, input
  <1>1. ShapeInv /\ LoopInv
    BY DEF IInv
  <1>2. CASE AliasNode
    BY <1>1, <1>2, AliasNodeKeys
  <1>3. CASE FinishEdge
    BY <1>1, <1>3, FinishEdgeKeys
  <1>4. CASE WeldNode
    BY <1>1, <1>4, WeldNodeKeys
  <1>5. CASE EmitTriangle
    BY <1>1, <1>5, EmitTriangleKeys
  <1>6. CASE SkipEdge \/ EnterEdge \/ EdgesWalked
    BY <1>6, QuietKeys DEF SkipEdge, EnterEdge, EdgesWalked
  <1>7. CASE NodesWelded \/ FaceEmitted \/ SkipFace \/ FacesEmitted
    BY <1>7, QuietKeys DEF NodesWelded, FaceEmitted, SkipFace, FacesEmitted
  <1>8. CASE FinalizePoint \/ BoundaryDataFinalized \/ EmitDeferredCurve \/ CurvesEmitted
    BY <1>8, QuietKeys DEF FinalizePoint, BoundaryDataFinalized, EmitDeferredCurve, CurvesEmitted
  <1>9. CASE CompactUnusedPoints
    BY <1>9, QuietKeys DEF CompactUnusedPoints
  <1>10. CASE CallMeshRoutine
    BY <1>10, QuietKeys DEF CallMeshRoutine, WeldCall
  <1>11. CASE UNCHANGED weldVars
    BY <1>11, QuietKeys DEF weldVars
  <1>12. CASE MeshRoutine
    BY <1>2, <1>3, <1>4, <1>5, <1>6, <1>7, <1>8, <1>9, <1>12 DEF MeshRoutine, WeldStep
  <1> QED
    BY <1>10, <1>11, <1>12 DEF Next, Mesh, StopRemeshing, FindOverlaps, Remesh, Return, vars
---------------------------------------------------------------------------
\* Points have places, also when they are compacted.
PointsTyped == points \in Seq(Places)

\* The sums of the boundary data are of edges, and as many as points when all are made.
TangentsInv ==
  /\ isBoundaryVertex \in Seq(BOOLEAN) /\ boundaryTangents \in Seq(SUBSET Edges)
  /\ step \in {"idle", "edges", "nodes", "triangles"} =>
       Len(isBoundaryVertex) = 0 /\ Len(boundaryTangents) = 0
  /\ step = "boundary" =>
       next <= Len(points) + 1 /\ Len(isBoundaryVertex) = next - 1 /\ Len(boundaryTangents) = next - 1
  /\ step \in {"curves", "compact"} =>
       Len(isBoundaryVertex) = Len(points) /\ Len(boundaryTangents) = Len(points)

LEMMA QuietPoints ==
  ASSUME PointsTyped, UNCHANGED <<shape, points>>
  PROVE  PointsTyped'
  BY ShapeKept DEF PointsTyped

LEMMA NextPoints ==
  ASSUME IInv, PointsTyped, [Next]_vars
  PROVE  PointsTyped'
  <1> USE DEF walkVars, meshVars, input
  <1>1. CASE WeldNode
    <2>1. /\ step = "nodes" /\ at \in meshed /\ next <= Len(shape[at].places)
          /\ points' = points \/ points' = Append(points, shape[at].places[next])
          /\ UNCHANGED shape
      BY <1>1 DEF WeldNode
    <2>2. at \in DOMAIN shape /\ next \in FaceNodes(shape[at])
      BY <2>1, FaceFacts DEF IInv, ShapeInv, LoopInv
    <2>3. shape[at].places[next] \in Places
      BY <2>2, PlacesOfFace
    <2>4. points' \in Seq(Places)
      BY <2>1, <2>3, Appended DEF PointsTyped
    <2> QED BY <2>1, <2>4, ShapeKept DEF PointsTyped
  <1>2. CASE CompactUnusedPoints
    <2>1. /\ step = "compact"
          /\ points' = [n \in 1..Cardinality(FirstUses) |-> points[NewToOld(n)]]
          /\ UNCHANGED shape
      BY <1>2 DEF CompactUnusedPoints
    <2>2. faceVertexIndices \in Seq(Nat) /\ \A c \in DOMAIN faceVertexIndices : faceVertexIndices[c] \in DOMAIN points
      BY <2>1 DEF IInv, PointInv
    <2>3. Cardinality(FirstUses) \in Nat
          /\ \A n \in 1..Cardinality(FirstUses) : NewToOld(n) \in DOMAIN points
      BY <2>2, Renumbered
    <2>4. \A n \in DOMAIN points : points[n] \in Places
      BY DEF PointsTyped
    <2>5. points' \in Seq(Places)
      <3> DEFINE K == Cardinality(FirstUses)
                 s == [n \in 1..K |-> points[NewToOld(n)]]
      <3>1. K \in Nat /\ s = [n \in 1..K |-> s[n]] /\ \A n \in 1..K : s[n] \in Places
        BY <2>3, <2>4
      <3> HIDE DEF s, K
      <3>2. s \in Seq(Places)
        BY <3>1, GivenSeq
      <3> QED BY <2>1, <3>2 DEF s, K
    <2> QED BY <2>1, <2>5, ShapeKept DEF PointsTyped
  <1>3. CASE SkipEdge \/ EnterEdge \/ AliasNode \/ FinishEdge \/ EdgesWalked
    BY <1>3, QuietPoints DEF SkipEdge, EnterEdge, AliasNode, FinishEdge, EdgesWalked
  <1>4. CASE NodesWelded \/ FaceEmitted \/ SkipFace \/ FacesEmitted \/ EmitTriangle
    BY <1>4, QuietPoints DEF NodesWelded, FaceEmitted, SkipFace, FacesEmitted, EmitTriangle
  <1>5. CASE FinalizePoint \/ BoundaryDataFinalized \/ EmitDeferredCurve \/ CurvesEmitted
    BY <1>5, QuietPoints DEF FinalizePoint, BoundaryDataFinalized, EmitDeferredCurve, CurvesEmitted
  <1>6. CASE CallMeshRoutine
    BY <1>6, QuietPoints DEF CallMeshRoutine, WeldCall
  <1>7. CASE UNCHANGED weldVars
    BY <1>7, QuietPoints DEF weldVars
  <1>8. CASE MeshRoutine
    BY <1>1, <1>2, <1>3, <1>4, <1>5, <1>8 DEF MeshRoutine, WeldStep
  <1> QED
    BY <1>6, <1>7, <1>8 DEF Next, Mesh, StopRemeshing, FindOverlaps, Remesh, Return, vars

\* A step that makes no boundary data and no point.
LEMMA QuietTangents ==
  ASSUME TangentsInv, UNCHANGED <<shape, points, perPoint>>,
         step' \in {"idle", "edges", "nodes", "triangles"} => step \in {"idle", "edges", "nodes", "triangles"},
         step' \in {"curves", "compact"} => step \in {"curves", "compact"},
         step' = "boundary" => step = "boundary" /\ next' = next
  PROVE  TangentsInv'
  BY ShapeKept DEF TangentsInv, perPoint

LEMMA NextTangents ==
  ASSUME IInv, PointsTyped, KeysInv, TangentsInv, [Next]_vars
  PROVE  TangentsInv'
  <1> USE DEF walkVars, meshVars, input
  <1> DEFINE B == SUBSET Edges
  <1>0. isBoundaryVertex \in Seq(BOOLEAN) /\ boundaryTangents \in Seq(B)
    BY DEF TangentsInv
  <1>1. CASE WeldNode
    <2>1. step = "nodes" /\ step' = "nodes" /\ UNCHANGED <<shape, perPoint>>
      BY <1>1 DEF WeldNode
    <2> QED BY <2>1, ShapeKept DEF TangentsInv, perPoint
  <1>2. CASE CompactUnusedPoints
    <2> DEFINE K == Cardinality(FirstUses)
               flags == [n \in 1..K |-> isBoundaryVertex[NewToOld(n)]]
               sums == [n \in 1..K |-> boundaryTangents[NewToOld(n)]]
    <2>1. /\ step = "compact" /\ step' = "done" /\ isBoundaryVertex' = flags
          /\ boundaryTangents' = boundaryTangents \/ boundaryTangents' = sums
          /\ UNCHANGED shape
      BY <1>2 DEF CompactUnusedPoints
    <2>2. /\ faceVertexIndices \in Seq(Nat)
          /\ \A c \in DOMAIN faceVertexIndices : faceVertexIndices[c] \in DOMAIN points
      BY <2>1 DEF IInv, PointInv
    <2>3. K \in Nat /\ \A n \in 1..K : NewToOld(n) \in DOMAIN points
      BY <2>2, Renumbered
    <2>4. DOMAIN points = 1..Len(points)
      BY DEF PointsTyped
    <2>5. Len(isBoundaryVertex) = Len(points) /\ Len(boundaryTangents) = Len(points)
      BY <2>1 DEF TangentsInv
    <2> HIDE DEF K, B
    <2>6. \A n \in 1..K : flags[n] \in BOOLEAN
      BY <1>0, <2>3, <2>4, <2>5
    <2>7. \A n \in 1..K : sums[n] \in B
      BY <1>0, <2>3, <2>4, <2>5
    <2>8. flags = [n \in 1..K |-> flags[n]] /\ sums = [n \in 1..K |-> sums[n]]
      OBVIOUS
    <2> HIDE DEF flags, sums
    <2>9. flags \in Seq(BOOLEAN) /\ sums \in Seq(B)
      BY <2>3, <2>6, <2>7, <2>8, GivenSeq
    <2>10. isBoundaryVertex' \in Seq(BOOLEAN) /\ boundaryTangents' \in Seq(B)
      BY <1>0, <2>1, <2>9
    <2>11. isBoundaryVertex' \in Seq(BOOLEAN) /\ boundaryTangents' \in Seq(SUBSET Edges)
      BY <2>10 DEF B
    <2> QED BY <2>1, <2>11, ShapeKept DEF TangentsInv
  <1>3. CASE FinalizePoint
    <2>1. PICK sum \in IF TangentsOf(next) = {} THEN {{}} ELSE TangentsOf(next) :
            boundaryTangents' = Append(boundaryTangents, sum)
      BY <1>3 DEF FinalizePoint
    <2>2. /\ step = "boundary" /\ step' = "boundary" /\ next <= Len(points) /\ next' = next + 1
          /\ isBoundaryVertex' = Append(isBoundaryVertex, next \in boundaryNodes)
          /\ UNCHANGED <<shape, points>>
      BY <1>3 DEF FinalizePoint
    <2>3. sum \in B
      <3>1. \A x \in TangentsOf(next) : x \subseteq Edges
        BY DEF TangentsOf, KeysInv
      <3> QED BY <2>1, <3>1
    <2>4. Len(isBoundaryVertex) = next - 1 /\ Len(boundaryTangents) = next - 1 /\ next \in Nat /\ Len(points) \in Nat
      BY <2>2 DEF TangentsInv, IInv, LoopInv, PointsTyped
    <2>5. (next \in boundaryNodes) \in BOOLEAN
      OBVIOUS
    <2> HIDE DEF B
    <2>6. isBoundaryVertex' \in Seq(BOOLEAN) /\ Len(isBoundaryVertex') = (next - 1) + 1
      BY <1>0, <2>2, <2>4, <2>5, Appended
    <2>7. boundaryTangents' \in Seq(B) /\ Len(boundaryTangents') = (next - 1) + 1
      BY <1>0, <2>1, <2>3, <2>4, Appended
    <2>8. boundaryTangents' \in Seq(SUBSET Edges)
      BY <2>7 DEF B
    <2> QED BY <2>2, <2>4, <2>6, <2>7, <2>8, ShapeKept DEF TangentsInv
  <1>4. CASE FacesEmitted
    <2>1. step = "nodes" /\ step' = "boundary" /\ next' = 1 /\ UNCHANGED <<shape, points, perPoint>>
      BY <1>4 DEF FacesEmitted
    <2>2. Len(points) \in Nat
      BY DEF PointsTyped
    <2> QED BY <2>1, <2>2, ShapeKept DEF TangentsInv, perPoint
  <1>5. CASE BoundaryDataFinalized
    <2>1. /\ step = "boundary" /\ next > Len(points) /\ step' = "curves"
          /\ UNCHANGED <<shape, points, perPoint>>
      BY <1>5 DEF BoundaryDataFinalized
    <2>2. Len(points) \in Nat /\ next \in Nat
      BY DEF PointsTyped, IInv, LoopInv
    <2> QED BY <2>1, <2>2, ShapeKept DEF TangentsInv, perPoint
  <1>6. CASE SkipEdge \/ EnterEdge \/ AliasNode \/ FinishEdge \/ EdgesWalked
    BY <1>6, QuietTangents DEF SkipEdge, EnterEdge, AliasNode, FinishEdge, EdgesWalked
  <1>7. CASE NodesWelded \/ FaceEmitted \/ SkipFace \/ EmitTriangle
    BY <1>7, QuietTangents DEF NodesWelded, FaceEmitted, SkipFace, EmitTriangle
  <1>8. CASE EmitDeferredCurve \/ CurvesEmitted
    BY <1>8, QuietTangents DEF EmitDeferredCurve, CurvesEmitted
  <1>9. CASE CallMeshRoutine
    BY <1>9, QuietTangents DEF CallMeshRoutine, WeldCall
  <1>10. CASE UNCHANGED weldVars
    BY <1>10, QuietTangents DEF weldVars
  <1>11. CASE MeshRoutine
    BY <1>1, <1>2, <1>3, <1>4, <1>5, <1>6, <1>7, <1>8, <1>11 DEF MeshRoutine, WeldStep
  <1> QED
    BY <1>9, <1>10, <1>11 DEF Next, Mesh, StopRemeshing, FindOverlaps, Remesh, Return, vars
---------------------------------------------------------------------------
\* What is kept of an edge for later: its keys on a face.
Trace(f, e) == [edge |-> e.edge, keys |-> [k \in 1..Len(e.poly) |-> Key(f, e.poly[k])]]
Traces == UNION {{Trace(f, e) : e \in FaceEdges(shape[f])} : f \in meshed}

Wires == [edge : Edges, places : Seq(Places), normals : Nat]

WireInv == deferredCurves \in Seq(Traces) /\ curves \in Seq(Wires)

\* Both ends are there, once or twice.
LEMMA PhantomsTyped ==
  ASSUME NEW A, NEW run \in Seq(A), Len(run) >= 1
  PROVE  Phantoms(run) \in Seq(A) /\ Len(Phantoms(run)) \in Nat
  <1>1. Head(run) \in A /\ Last(run) \in A
    BY DEF Last
  <1>2. <<Head(run)>> \in Seq(A) /\ <<Last(run)>> \in Seq(A)
    BY <1>1
  <1>3. <<Head(run)>> \o run \o <<Last(run)>> \in Seq(A)
    BY <1>2
  <1>4. Phantoms(run) \in Seq(A)
    BY <1>3 DEF Phantoms
  <1> QED BY <1>4

\* The edge a trace is of has all its nodes on a meshed face.
LEMMA TraceFacts ==
  ASSUME ShapeInv, NEW curve \in Traces
  PROVE  \E f \in meshed : \E e \in FaceEdges(shape[f]) :
           /\ curve = Trace(f, e) /\ f \in DOMAIN shape /\ curve.edge = e.edge
           /\ Len(e.poly) \in Nat /\ Len(e.poly) >= 2
           /\ curve.keys = [k \in 1..Len(e.poly) |-> Key(f, e.poly[k])]
           /\ \A k \in 1..Len(e.poly) : e.poly[k] \in FaceNodes(shape[f]) /\ Key(f, e.poly[k]) \in Keys
  <1>1. PICK f \in meshed : \E e \in FaceEdges(shape[f]) : curve = Trace(f, e)
    BY DEF Traces
  <1>2. PICK e \in FaceEdges(shape[f]) : curve = Trace(f, e)
    BY <1>1
  <1>3. f \in DOMAIN shape /\ shape \in Shapes
    BY DEF ShapeInv
  <1>4. /\ Len(e.poly) \in Nat /\ Len(e.poly) >= 2
        /\ \A k \in 1..Len(e.poly) : e.poly[k] \in FaceNodes(shape[f])
    BY <1>3, EdgeFacts
  <1>5. \A k \in 1..Len(e.poly) : Key(f, e.poly[k]) \in Keys
    BY <1>3, <1>4, KeyOfNode
  <1>6. curve.edge = e.edge /\ curve.keys = [k \in 1..Len(e.poly) |-> Key(f, e.poly[k])]
    BY <1>2 DEF Trace
  <1> QED BY <1>2, <1>3, <1>4, <1>5, <1>6

\* The places of the points under keys.
LEMMA ResolvedTyped ==
  ASSUME ShapeInv, KeysInv, PointInv, PointsTyped, step # "done", NEW curve \in Traces
  PROVE  Resolved(curve) \in Seq(Places)
  <1>1. PICK f \in meshed : \E e \in FaceEdges(shape[f]) :
           Len(e.poly) \in Nat /\ curve.keys = [k \in 1..Len(e.poly) |-> Key(f, e.poly[k])]
    BY TraceFacts
  <1>2. PICK N \in Nat : DOMAIN curve.keys = 1..N
    BY <1>1
  <1> DEFINE seqs == [k \in DOMAIN curve.keys |-> PlaceUnder(ResolveAlias(nodeAlias, curve.keys[k]))]
             D == Seq(Places)
  <1>3. \A key : PlaceUnder(key) \in D
    <2>1. TAKE key
    <2>2. CASE key \in DOMAIN nodeToCanonical
      <3>1. points[nodeToCanonical[key]] \in Places
        BY <2>2 DEF PointInv, PointsTyped
      <3>2. <<points[nodeToCanonical[key]]>> \in D
        BY <3>1
      <3> QED BY <2>2, <3>2 DEF PlaceUnder
    <2>3. CASE key \notin DOMAIN nodeToCanonical
      BY <2>3 DEF PlaceUnder
    <2> QED BY <2>2, <2>3
  <1> HIDE DEF D
  <1>4. seqs = [k \in 1..N |-> seqs[k]] /\ \A k \in 1..N : seqs[k] \in D
    BY <1>2, <1>3
  <1>5. Resolved(curve) = FlattenSeq(seqs)
    BY DEF Resolved
  <1> HIDE DEF seqs
  <1>6. seqs \in Seq(D)
    BY <1>4, GivenSeq
  <1>7. seqs \in Seq(Seq(Places))
    BY <1>6 DEF D
  <1> QED BY <1>5, <1>7, FlatRange

LEMMA TracesKept ==
  ASSUME UNCHANGED <<shape, meshed>>
  PROVE  Traces' = Traces /\ Wires' = Wires
  <1>1. Traces' = Traces
    BY DEF Traces, Trace, Key, FaceEdges
  <1>2. Wires' = Wires
    BY ShapeKept DEF Wires
  <1> QED BY <1>1, <1>2

LEMMA QuietCurves ==
  ASSUME WireInv, UNCHANGED <<shape, meshed, deferredCurves, curves>>
  PROVE  WireInv'
  <1>1. Traces' = Traces /\ Wires' = Wires
    BY TracesKept
  <1> QED BY <1>1 DEF WireInv

LEMMA InitCurves == Init => WireInv
  <1>1. << >> \in Seq(Traces) /\ << >> \in Seq(Wires)
    OBVIOUS
  <1> QED BY <1>1 DEF Init, WeldInit, WireInv

LEMMA CallCurves ==
  ASSUME WalkInv, WireInv, CallMeshRoutine
  PROVE  WireInv'
  <1>1. meshed = {} /\ UNCHANGED <<shape, deferredCurves, curves>>
    BY DEF CallMeshRoutine, WeldCall, WalkInv, walkVars
  <1>2. Traces = {}
    BY <1>1 DEF Traces
  <1>3. deferredCurves = << >>
    BY <1>2 DEF WireInv
  <1>4. << >> \in Seq(Traces')
    OBVIOUS
  <1>5. Wires' = Wires
    BY <1>1, ShapeKept DEF Wires
  <1> QED BY <1>1, <1>3, <1>4, <1>5 DEF WireInv

\* The first polygon at the edge the walk is on.
LEMMA FirstPoly ==
  ASSUME ShapeInv, WalkInv, facePolys # << >>
  PROVE  \E e \in FaceEdges(shape[facePolys[1].face]) :
           /\ facePolys[1].face \in meshed /\ facePolys[1].face \in DOMAIN shape
           /\ e.edge = EdgeAt(Occurrences[at]).edge /\ e.poly = facePolys[1].poly
           /\ Len(e.poly) = NumNodes
  BY AtEdge DEF IsPolyOf, ShapeInv

\* The places along an edge of a face.
LEMMA AlongFacts ==
  ASSUME ShapeInv, NEW f \in DOMAIN shape, NEW e \in FaceEdges(shape[f])
  PROVE  Along(shape[f], e) \in Seq(Places) /\ Len(Along(shape[f], e)) = Len(e.poly) /\ Len(e.poly) >= 2
         /\ Len(e.poly) \in Nat
  <1>1. /\ Len(e.poly) \in Nat /\ Len(e.poly) >= 2 /\ DOMAIN e.poly = 1..Len(e.poly)
        /\ \A k \in 1..Len(e.poly) : e.poly[k] \in FaceNodes(shape[f])
    BY EdgeFacts DEF ShapeInv
  <1> DEFINE run == Along(shape[f], e)
  <1>2. \A k \in 1..Len(e.poly) : run[k] \in Places
    BY <1>1, PlacesOfFace DEF Along
  <1>3. run = [k \in 1..Len(e.poly) |-> run[k]]
    BY <1>1 DEF Along
  <1> HIDE DEF run
  <1>4. run \in Seq(Places) /\ Len(run) = Len(e.poly)
    BY <1>1, <1>2, <1>3, GivenSeq
  <1> QED BY <1>1, <1>4 DEF run

LEMMA FinishEdgeCurves ==
  ASSUME ShapeInv, WalkInv, WireInv, FinishEdge
  PROVE  WireInv'
  <1> DEFINE edge == EdgeAt(Occurrences[at]).edge
             keys == [k \in 1..NumNodes |-> PolyKey(1, k)]
             trace == [edge |-> edge, keys |-> keys]
             wire == Resampled(edge, Along(shape[facePolys[1].face], facePolys[1]))
  <1>1. /\ facePolys # << >> /\ UNCHANGED <<shape, meshed>>
        /\ deferredCurves' = deferredCurves \/ deferredCurves' = Append(deferredCurves, trace)
        /\ curves' = curves \/ curves' = Append(curves, wire)
    BY DEF FinishEdge, input
  <1>2. PICK e \in FaceEdges(shape[facePolys[1].face]) :
           /\ facePolys[1].face \in meshed /\ facePolys[1].face \in DOMAIN shape
           /\ e.edge = edge /\ e.poly = facePolys[1].poly
           /\ Len(e.poly) = NumNodes
    BY <1>1, FirstPoly
  <1>3. trace = Trace(facePolys[1].face, e)
    BY <1>2 DEF Trace, PolyKey
  <1>4. trace \in Traces
    BY <1>2, <1>3 DEF Traces
  <1>5. wire \in Wires
    <2> DEFINE run == Along(shape[facePolys[1].face], e)
               ends == <<Head(run), Last(run)>>
    <2>1. Along(shape[facePolys[1].face], facePolys[1]) = run
      BY <1>2 DEF Along
    <2>2. run \in Seq(Places) /\ Len(run) >= 2
      BY <1>2, AlongFacts
    <2> HIDE DEF run
    <2>3. Head(run) \in Places /\ Last(run) \in Places
      BY <2>2 DEF Last
    <2>4. ends \in Seq(Places) /\ Len(ends) = 2
      BY <2>3
    <2> HIDE DEF ends
    <2>5. Phantoms(ends) \in Seq(Places)
      BY <2>4, PhantomsTyped
    <2>6. edge \in Edges
      BY <1>1, EdgeAtFacts
    <2> HIDE DEF edge
    <2>7. [edge |-> edge, places |-> Phantoms(ends), normals |-> 0] \in Wires
      BY <2>5, <2>6 DEF Wires
    <2> QED BY <2>1, <2>7 DEF Resampled, ends
  <1> HIDE DEF trace, wire
  <1>6. deferredCurves' \in Seq(Traces) /\ curves' \in Seq(Wires)
    <2>1. deferredCurves \in Seq(Traces) /\ curves \in Seq(Wires)
      BY DEF WireInv
    <2>2. Append(deferredCurves, trace) \in Seq(Traces)
      BY <1>4, <2>1, Appended
    <2>3. Append(curves, wire) \in Seq(Wires)
      BY <1>5, <2>1, Appended
    <2> QED BY <1>1, <2>1, <2>2, <2>3
  <1>7. Traces' = Traces /\ Wires' = Wires
    BY <1>1, TracesKept
  <1> QED BY <1>6, <1>7 DEF WireInv

LEMMA EmitCurves ==
  ASSUME IInv, KeysInv, PointsTyped, WireInv, EmitDeferredCurve
  PROVE  WireInv'
  <1> DEFINE curve == deferredCurves[next]
  <1>1. /\ step = "curves" /\ next <= Len(deferredCurves) /\ UNCHANGED <<shape, meshed, deferredCurves>>
        /\ curves' = IF Len(Resolved(curve)) >= 2 THEN Append(curves, Deferred(curve)) ELSE curves
    BY DEF EmitDeferredCurve, input, walkVars
  <1>2. curve \in Traces
    <2>1. next \in 1..Len(deferredCurves)
      BY <1>1 DEF IInv, LoopInv, WireInv
    <2> QED BY <2>1 DEF WireInv
  <1> HIDE DEF curve
  <1>3. Resolved(curve) \in Seq(Places)
    BY <1>1, <1>2, ResolvedTyped DEF IInv
  <1>4. curve.edge \in Edges
    BY <1>2, TraceFacts, EdgeOfFace DEF IInv
  <1>5. ASSUME Len(Resolved(curve)) >= 2 PROVE Deferred(curve) \in Wires
    <2> DEFINE run == Phantoms(Resolved(curve))
    <2>1. run \in Seq(Places) /\ Len(run) \in Nat
      BY <1>3, <1>5, PhantomsTyped
    <2> HIDE DEF run
    <2>2. (IF wireframe.normals THEN Len(run) ELSE 0) \in Nat
      BY <2>1
    <2>3. [edge |-> curve.edge, places |-> run, normals |-> IF wireframe.normals THEN Len(run) ELSE 0] \in Wires
      BY <1>4, <2>1, <2>2 DEF Wires
    <2> QED BY <2>3 DEF Deferred, run
  <1>6. curves' \in Seq(Wires)
    BY <1>1, <1>5, Appended DEF WireInv
  <1>7. Traces' = Traces /\ Wires' = Wires
    BY <1>1, TracesKept
  <1> QED BY <1>1, <1>6, <1>7 DEF WireInv

LEMMA NextCurves ==
  ASSUME IInv, WalkInv, KeysInv, PointsTyped, WireInv, [Next]_vars
  PROVE  WireInv'
  <1> USE DEF walkVars, meshVars, input
  <1>1. CASE FinishEdge
    BY <1>1, FinishEdgeCurves DEF IInv
  <1>2. CASE EmitDeferredCurve
    BY <1>2, EmitCurves
  <1>3. CASE SkipEdge \/ EnterEdge \/ AliasNode \/ EdgesWalked
    BY <1>3, QuietCurves DEF SkipEdge, EnterEdge, AliasNode, EdgesWalked
  <1>4. CASE WeldNode \/ NodesWelded \/ FaceEmitted \/ SkipFace \/ FacesEmitted \/ EmitTriangle
    BY <1>4, QuietCurves DEF WeldNode, NodesWelded, FaceEmitted, SkipFace, FacesEmitted, EmitTriangle
  <1>5. CASE FinalizePoint \/ BoundaryDataFinalized \/ CurvesEmitted \/ CompactUnusedPoints
    BY <1>5, QuietCurves DEF FinalizePoint, BoundaryDataFinalized, CurvesEmitted, CompactUnusedPoints
  <1>6. CASE CallMeshRoutine
    BY <1>6, CallCurves
  <1>7. CASE UNCHANGED weldVars
    BY <1>7, QuietCurves DEF weldVars
  <1>8. CASE MeshRoutine
    BY <1>1, <1>2, <1>3, <1>4, <1>5, <1>8 DEF MeshRoutine, WeldStep
  <1> QED
    BY <1>6, <1>7, <1>8 DEF Next, Mesh, StopRemeshing, FindOverlaps, Remesh, Return, vars
---------------------------------------------------------------------------
\* The routine around it: passes are counted, and triangulations bear the pass they are of.
RoutineInv ==
  /\ phase \in {"called", "checking", "remeshing", "inst", "mesh", "returned"}
  /\ pass \in 0..MaxRemeshPasses
  /\ meshedAt \in [Faces -> 0..MaxRemeshPasses + 2]
  /\ success \in BOOLEAN
  /\ step \in {"idle", "edges", "nodes", "triangles", "boundary", "curves", "compact", "done"}

TypeInv == IInv /\ WalkInv /\ KeysInv /\ PointsTyped /\ TangentsInv /\ WireInv /\ RoutineInv

LEMMA InitType == Init => TypeInv
  <1> SUFFICES ASSUME Init PROVE TypeInv
    OBVIOUS
  <1>1. PointsTyped /\ TangentsInv
    BY DEF Init, WeldInit, PointsTyped, TangentsInv
  <1>2. RoutineInv
    <2>1. MaxRemeshPasses \in Nat
      BY RoutineAssumption
    <2>2. meshedAt \in [Faces -> {0, 1}]
      BY DEF Init
    <2>3. {0, 1} \subseteq 0..MaxRemeshPasses + 2
      BY <2>1
    <2>4. meshedAt \in [Faces -> 0..MaxRemeshPasses + 2]
      BY <2>2, <2>3
    <2> QED BY <2>1, <2>4 DEF Init, WeldInit, RoutineInv
  <1> QED BY <1>1, <1>2, InitInv, InitWalk, InitKeys, InitCurves DEF TypeInv

LEMMA MesherTyped ==
  ASSUME RoutineInv, NEW before \in [Faces -> 0..MaxRemeshPasses + 2], MesherRuns(before)
  PROVE  meshedAt' \in [Faces -> 0..MaxRemeshPasses + 2]
  <1>1. PICK left \in SUBSET Faces :
          meshedAt' = [f \in Faces |-> IF before[f] > 0 \/ f \in left THEN before[f] ELSE pass + 2]
    BY DEF MesherRuns
  <1>2. pass + 2 \in 0..MaxRemeshPasses + 2
    BY RoutineAssumption DEF RoutineInv
  <1> QED BY <1>1, <1>2

LEMMA NextRoutine ==
  ASSUME RoutineInv, [Next]_vars
  PROVE  RoutineInv'
  <1>0. MaxRemeshPasses \in Nat
    BY RoutineAssumption
  <1>1. CASE Mesh \/ Remesh
    <2>1. /\ MesherRuns(Clean) /\ phase' \in {"checking", "inst"} /\ UNCHANGED <<shape, step, pass, success>>
      BY <1>1 DEF Mesh, Remesh, weldVars, input
    <2>2. Clean \in [Faces -> 0..MaxRemeshPasses + 2]
      BY <1>0 DEF Clean
    <2>3. meshedAt' \in [Faces -> 0..MaxRemeshPasses + 2]
      BY <2>1, <2>2, MesherTyped
    <2> QED BY <2>1, <2>3, ShapeKept DEF RoutineInv
  <1>2. CASE StopRemeshing \/ Return
    BY <1>2, ShapeKept DEF StopRemeshing, Return, RoutineInv, weldVars, input, ValidGeometry
  <1>3. CASE FindOverlaps
    <2>1. pass < MaxRemeshPasses /\ pass' = pass + 1 /\ phase' = "remeshing"
          /\ UNCHANGED <<shape, step, meshedAt, success>>
      BY <1>3 DEF FindOverlaps, weldVars, input
    <2> QED BY <1>0, <2>1, ShapeKept DEF RoutineInv
  <1>4. CASE CallMeshRoutine
    BY <1>4, ShapeKept DEF CallMeshRoutine, WeldCall, RoutineInv
  <1>5. CASE MeshRoutine
    <2>1. UNCHANGED <<shape, routineVars>>
      BY <1>5 DEF MeshRoutine, WeldStep, input, SkipEdge, EnterEdge, AliasNode, FinishEdge, EdgesWalked, WeldNode,
         NodesWelded, EmitTriangle, FaceEmitted, SkipFace, FacesEmitted, FinalizePoint,
         BoundaryDataFinalized, EmitDeferredCurve, CurvesEmitted, CompactUnusedPoints
    <2>2. step' \in {step, "nodes", "triangles", "boundary", "curves", "compact", "done"}
      BY <1>5 DEF MeshRoutine, WeldStep, SkipEdge, EnterEdge, AliasNode, FinishEdge, EdgesWalked, WeldNode,
         NodesWelded, EmitTriangle, FaceEmitted, SkipFace, FacesEmitted, FinalizePoint,
         BoundaryDataFinalized, EmitDeferredCurve, CurvesEmitted, CompactUnusedPoints
    <2> QED BY <2>1, <2>2, ShapeKept DEF RoutineInv, routineVars
  <1>6. CASE UNCHANGED vars
    BY <1>6, ShapeKept DEF vars, weldVars, input, routineVars, RoutineInv
  <1> QED BY <1>1, <1>2, <1>3, <1>4, <1>5, <1>6 DEF Next

LEMMA NextType == TypeInv /\ [Next]_vars => TypeInv'
  BY NextInv, NextWalk, NextKeys, NextPoints, NextTangents, NextCurves, NextRoutine DEF TypeInv

LEMMA TypeInvariance == Spec => []TypeInv
  BY InitType, NextType, PTL DEF Spec

\* Variables keep their types, from the call of the routine to the compacted mesh: a key
\* is always that of a node, and a place and an edge are always of the shape.
THEOREM TypeCorrect == Spec => []TypeOK
  <1>1. TypeInv => TypeOK
    <2> SUFFICES ASSUME TypeInv PROVE TypeOK
      OBVIOUS
    <2>1. DOMAIN nodeAlias \cup Range(nodeAlias) \cup boundaryKeys \cup DOMAIN nodeToCanonical \subseteq Keys
      BY DEF TypeInv, KeysInv, Range
    <2>2. \A curve \in Range(deferredCurves) : Range(curve.keys) \subseteq Keys
      <3>1. TAKE curve \in Range(deferredCurves)
      <3>2. curve \in Traces
        BY DEF TypeInv, WireInv, Range
      <3>3. PICK f \in meshed : \E e \in FaceEdges(shape[f]) :
              /\ curve.keys = [k \in 1..Len(e.poly) |-> Key(f, e.poly[k])]
              /\ \A k \in 1..Len(e.poly) : Key(f, e.poly[k]) \in Keys
        BY <3>2, TraceFacts DEF TypeInv, IInv
      <3> QED BY <3>3 DEF Range
    <2>3. Range(points) \subseteq Places
      BY DEF TypeInv, PointsTyped, Range
    <2>4. \A idx \in DOMAIN boundaryTangents : boundaryTangents[idx] \subseteq Edges
      <3> DEFINE B == SUBSET Edges
      <3>1. boundaryTangents \in Seq(B)
        BY DEF TypeInv, TangentsInv
      <3> HIDE DEF B
      <3>2. \A idx \in DOMAIN boundaryTangents : boundaryTangents[idx] \in B
        BY <3>1
      <3> QED BY <3>2 DEF B
    <2>5. \A curve \in Range(curves) : curve.edge \in Edges /\ Range(curve.places) \subseteq Places
      <3>1. TAKE curve \in Range(curves)
      <3>2. curve \in Wires
        BY DEF TypeInv, WireInv, Range
      <3>3. curve.edge \in Edges /\ curve.places \in Seq(Places)
        BY <3>2 DEF Wires
      <3> QED BY <3>3 DEF Range
    <2>6. DOMAIN tangentAccum \subseteq Keys /\ \A key \in DOMAIN tangentAccum : tangentAccum[key] \subseteq Edges
      BY DEF TypeInv, KeysInv
    <2>7. at \in Nat \ {0} /\ next \in Nat \ {0}
      BY DEF TypeInv, WalkInv, IInv, LoopInv
    <2>8. resolvedCanon \in Keys \cup {<< >>}
      BY DEF TypeInv, KeysInv
    <2> QED BY <2>1, <2>2, <2>3, <2>4, <2>5, <2>6, <2>7, <2>8 DEF TypeOK, TypeInv, RoutineInv
  <1> QED BY <1>1, TypeInvariance, PTL
---------------------------------------------------------------------------
\* Where a key is: the place of its node on the first meshed face with its triangulation.
KeyPlace(key) == shape[Min({g \in meshed : shape[g].tri = key[1]})].places[key[2]]

LEMMA PlaceOfKey ==
  ASSUME NEW f, NEW n
  PROVE  KeyPlace(Key(f, n)) = PlaceIn(f, n)
  BY DEF KeyPlace, Key, PlaceIn, First

\* The first face with a triangulation has the same nodes, and is itself where it collapses.
LEMMA FirstFacts ==
  ASSUME ShapeInv, NEW f \in meshed
  PROVE  /\ First(f) \in meshed /\ First(f) \in DOMAIN shape /\ First(f) <= f
         /\ shape[First(f)].tri = shape[f].tri
         /\ FaceNodes(shape[First(f)]) = FaceNodes(shape[f])
         /\ DOMAIN shape = 1..Len(shape) /\ Len(shape) \in Nat
  <1> DEFINE S == {g \in meshed : shape[g].tri = shape[f].tri}
  <1>1. shape \in Shapes /\ meshed \subseteq DOMAIN shape
    BY DEF ShapeInv
  <1>2. DOMAIN shape = 1..Len(shape) /\ Len(shape) \in Nat
    BY <1>1, MeshAssumption
  <1>3. S \in SUBSET Nat /\ f \in S
    BY <1>1, <1>2
  <1> HIDE DEF S
  <1>4. PICK m \in S : \A x \in S : m <= x
    BY <1>3, LeastNat
  <1>5. Min(S) \in S /\ \A x \in S : Min(S) <= x
    BY <1>4 DEF Min
  <1>6. First(f) = Min(S)
    BY DEF First, S
  <1>7. First(f) \in meshed /\ shape[First(f)].tri = shape[f].tri
    BY <1>5, <1>6 DEF S
  <1>8. First(f) <= f
    BY <1>3, <1>5, <1>6
  <1>9. FaceNodes(shape[First(f)]) = FaceNodes(shape[f])
    BY <1>1, <1>7, MeshAssumption
  <1> QED BY <1>1, <1>2, <1>7, <1>8, <1>9

\* Keys of one triangulation's node are one key.
LEMMA FirstKey ==
  ASSUME ShapeInv, NEW f \in meshed, NEW n
  PROVE  Key(First(f), n) = Key(f, n)
  BY FirstFacts DEF Key

\* Nothing is kept before the walk; nodes have points once their face is passed.
FacesDone(n) ==
  \A f \in meshed : f < n => \A m \in FaceNodes(shape[f]) : PointKey(f, m) \in DOMAIN nodeToCanonical
FacesInv ==
  /\ step = "idle" => DOMAIN nodeAlias = {}
  /\ step \in {"idle", "edges"} => DOMAIN nodeToCanonical = {} /\ faceVertexIndices = << >>
  /\ step \in {"nodes", "triangles"} => at \in 1..(Len(shape) + 1) /\ FacesDone(at)
  /\ step = "triangles" => next <= Len(shape[at].triangles) + 1
  /\ step \in {"boundary", "curves", "compact"} => FacesDone(Len(shape) + 1)

\* Keys are aliased to keys at the same place, and points are where their keys are.
PlaceInv ==
  CopiesAlike =>
    /\ \A key \in DOMAIN nodeAlias : KeyPlace(nodeAlias[key]) = KeyPlace(key)
    /\ step # "done" =>
         \A key \in DOMAIN nodeToCanonical : points[nodeToCanonical[key]] = KeyPlace(key)

\* So is the key that nodes are aliased to.
CanonPlaced == adj # 1 /\ CopiesAlike => KeyPlace(resolvedCanon) = KeyPlace(PolyKey(1, next))

\* What is followed from a key is at its place.
LEMMA ResolvedPlace ==
  ASSUME KeysInv, PlaceInv, CopiesAlike, NEW key \in Keys
  PROVE  KeyPlace(ResolveAlias(nodeAlias, key)) = KeyPlace(key)
  <1> DEFINE S == {k \in Keys : KeyPlace(k) = KeyPlace(key)}
  <1>1. key \in S /\ \A k \in S : k \in DOMAIN nodeAlias => nodeAlias[k] \in S
    BY DEF KeysInv, PlaceInv
  <1> HIDE DEF S
  <1>2. ResolveAlias(nodeAlias, key) \in S
    BY <1>1, ResolveStays
  <1> QED BY <1>2 DEF S

LEMMA InputKept ==
  ASSUME UNCHANGED <<shape, meshed>>
  PROVE  /\ CopiesAlike' = CopiesAlike /\ \A key : KeyPlace(key)' = KeyPlace(key)
         /\ \A f, n : PlaceIn(f, n)' = PlaceIn(f, n)
  BY DEF CopiesAlike, PlaceIn, First, KeyPlace, FaceEdges

LEMMA InitFaces == Init => FacesInv /\ PlaceInv /\ CanonPlaced
  BY DEF Init, WeldInit, FacesInv, PlaceInv, CanonPlaced

\* Between the first face at an edge and the last, the walk does nothing else.
LEMMA OnlyAliasing ==
  ASSUME ShapeInv, LoopInv, WalkInv, [Next]_vars, adj' # 1
  PROVE  AliasNode \/ UNCHANGED weldVars
  <1> USE DEF walkVars
  <1>1. adj # 1 => step = "edges" /\ facePolys # << >> /\ at \in DOMAIN Occurrences /\ next <= NumNodes
    BY DEF WalkInv
  <1>2. ASSUME SkipEdge \/ EnterEdge PROVE FALSE
    BY <1>1, <1>2 DEF SkipEdge, EnterEdge
  <1>3. ASSUME FinishEdge PROVE FALSE
    <2>1. facePolys # << >> /\ adj # 1 /\ next > NumNodes
      BY <1>3 DEF FinishEdge
    <2>2. NumNodes \in Nat /\ next \in Nat
      BY <2>1, AtEdge DEF LoopInv
    <2> QED BY <1>1, <2>1, <2>2
  <1>4. ASSUME EdgesWalked PROVE FALSE
    <2>1. at > Len(Occurrences) /\ adj # 1
      BY <1>4 DEF EdgesWalked
    <2>2. at \in 1..Len(Occurrences) /\ Len(Occurrences) \in Nat
      BY <1>1, <2>1, OccurrenceFacts DEF ShapeInv
    <2> QED BY <2>1, <2>2
  <1>5. ASSUME WeldNode \/ NodesWelded \/ EmitTriangle \/ FaceEmitted \/ SkipFace \/ FacesEmitted
        PROVE  FALSE
    BY <1>1, <1>5 DEF WeldNode, NodesWelded, EmitTriangle, FaceEmitted, SkipFace, FacesEmitted
  <1>6. ASSUME FinalizePoint \/ BoundaryDataFinalized \/ EmitDeferredCurve \/ CurvesEmitted
                 \/ CompactUnusedPoints
        PROVE  FALSE
    BY <1>1, <1>6 DEF FinalizePoint, BoundaryDataFinalized, EmitDeferredCurve, CurvesEmitted,
       CompactUnusedPoints
  <1>7. ASSUME CallMeshRoutine PROVE FALSE
    BY <1>1, <1>7 DEF CallMeshRoutine, WeldCall
  <1>8. ASSUME MeshRoutine PROVE AliasNode
    BY <1>2, <1>3, <1>4, <1>5, <1>6, <1>8 DEF MeshRoutine, WeldStep
  <1> QED
    BY <1>7, <1>8 DEF Next, Mesh, StopRemeshing, FindOverlaps, Remesh, Return, vars

\* A step that leaves what the faces have alone.
LEMMA QuietFaces ==
  ASSUME FacesInv, UNCHANGED <<shape, meshed, nodeAlias, nodeToCanonical, faceVertexIndices>>,
         step' = "idle" => step = "idle",
         step' = "edges" => step = "edges",
         step' \notin {"nodes", "triangles"},
         step' \in {"boundary", "curves", "compact"} => step \in {"boundary", "curves", "compact"}
  PROVE  FacesInv'
  <1>1. \A f, n : PointKey(f, n)' = PointKey(f, n)
    BY KeysKept
  <1>2. FacesDone(Len(shape) + 1) => FacesDone(Len(shape) + 1)'
    BY <1>1 DEF FacesDone, FaceNodes
  <1> QED BY <1>1, <1>2 DEF FacesInv

LEMMA QuietPlaces ==
  ASSUME PlaceInv, UNCHANGED <<shape, meshed, nodeAlias, nodeToCanonical, points>>,
         step' # "done" => step # "done"
  PROVE  PlaceInv'
  BY InputKept DEF PlaceInv

LEMMA CallFaces ==
  ASSUME FacesInv, CallMeshRoutine
  PROVE  FacesInv' /\ PlaceInv'
  <1>1. /\ step = "idle" /\ step' = "edges" /\ UNCHANGED <<nodeAlias, nodeToCanonical, faceVertexIndices>>
    BY DEF CallMeshRoutine, WeldCall, walkVars, meshVars
  <1> QED BY <1>1 DEF FacesInv, PlaceInv

LEMMA AliasNodeFaces ==
  ASSUME ShapeInv, LoopInv, WalkInv, KeysInv, FacesInv, PlaceInv, CanonPlaced, AliasNode
  PROVE  FacesInv' /\ PlaceInv' /\ CanonPlaced'
  <1> DEFINE other == ResolveAlias(nodeAlias, PolyKey(adj, next))
  <1>1. /\ step = "edges" /\ step' = "edges" /\ facePolys # << >> /\ next <= NumNodes
        /\ resolvedCanon' = IF adj = 1 THEN other ELSE resolvedCanon
        /\ nodeAlias' = IF other = resolvedCanon' THEN nodeAlias ELSE Mapped(nodeAlias, other, resolvedCanon')
        /\ adj' # 1 => next' = next
        /\ UNCHANGED <<shape, meshed, facePolys, nodeToCanonical, faceVertexIndices>>
    BY DEF AliasNode, input, meshVars
  <1>2. 1 \in DOMAIN facePolys /\ adj \in DOMAIN facePolys /\ next \in 1..NumNodes
    BY <1>1, AtEdge DEF WalkInv, LoopInv
  <1>3. PICK canon : canon = resolvedCanon'
    OBVIOUS
  <1>4. ASSUME CopiesAlike
        PROVE  KeyPlace(other) = KeyPlace(PolyKey(1, next)) /\ KeyPlace(canon) = KeyPlace(PolyKey(1, next))
    <2> DEFINE p == facePolys[1]
               q == facePolys[adj]
               edge == EdgeAt(Occurrences[at]).edge
    <2>1. PolyKey(adj, next) \in Keys
      BY <1>1, <1>2, PolyKeyFacts
    <2>2. KeyPlace(other) = KeyPlace(PolyKey(adj, next))
      BY <1>4, <2>1, ResolvedPlace
    <2>3. KeyPlace(PolyKey(1, next)) = PlaceIn(p.face, p.poly[next])
          /\ KeyPlace(PolyKey(adj, next)) = PlaceIn(q.face, q.poly[next])
      BY PlaceOfKey DEF PolyKey
    <2>4. IsPolyOf(p, edge) /\ IsPolyOf(q, edge) /\ Len(p.poly) = NumNodes
      BY <1>1, <1>2, AtEdge
    <2>5. PICK d \in FaceEdges(shape[p.face]) : d.edge = edge /\ d.poly = p.poly
      BY <2>4 DEF IsPolyOf
    <2>6. PICK e \in FaceEdges(shape[q.face]) : e.edge = edge /\ e.poly = q.poly
      BY <2>4 DEF IsPolyOf
    <2>7. p.face \in meshed /\ q.face \in meshed
      BY <2>4 DEF IsPolyOf
    <2>8. next \in DOMAIN d.poly
      BY <1>2, <2>4, <2>5, <2>7, EdgeFacts DEF ShapeInv
    <2> HIDE DEF p, q, edge, other
    <2>9. PlaceIn(p.face, d.poly[next]) = PlaceIn(q.face, e.poly[next])
      BY <1>4, <2>5, <2>6, <2>7, <2>8 DEF CopiesAlike
    <2>10. KeyPlace(other) = KeyPlace(PolyKey(1, next))
      BY <2>2, <2>3, <2>5, <2>6, <2>9
    <2>11. canon = IF adj = 1 THEN other ELSE resolvedCanon
      BY <1>1, <1>3
    <2> QED BY <1>4, <2>10, <2>11 DEF CanonPlaced
  <1> HIDE DEF other
  <1>5. nodeAlias' = IF other = canon THEN nodeAlias ELSE Mapped(nodeAlias, other, canon)
    BY <1>1, <1>3
  <1>6. ASSUME CopiesAlike
        PROVE  \A key \in DOMAIN nodeAlias' : KeyPlace(nodeAlias'[key]) = KeyPlace(key)
    BY <1>4, <1>5, <1>6 DEF PlaceInv, Mapped
  <1>7. DOMAIN nodeToCanonical' = {}
    BY <1>1 DEF FacesInv
  <1>8. CopiesAlike' = CopiesAlike /\ \A key : KeyPlace(key)' = KeyPlace(key)
    BY <1>1, InputKept
  <1>9. PlaceInv'
    BY <1>6, <1>7, <1>8 DEF PlaceInv
  <1>10. FacesInv'
    BY <1>1, <1>7 DEF FacesInv
  <1>11. CanonPlaced'
    <2> SUFFICES ASSUME adj' # 1, CopiesAlike'
                 PROVE  KeyPlace(resolvedCanon)' = KeyPlace(PolyKey(1, next))'
      BY DEF CanonPlaced
    <2>1. PICK first : first = PolyKey(1, next)
      OBVIOUS
    <2>2. PolyKey(1, next)' = first
      BY <1>1, <2>1 DEF PolyKey, Key
    <2>3. KeyPlace(resolvedCanon)' = KeyPlace(canon)' /\ KeyPlace(PolyKey(1, next))' = KeyPlace(first)'
      BY <1>3, <2>2 DEF KeyPlace
    <2>4. KeyPlace(canon) = KeyPlace(first)
      BY <1>4, <1>8, <2>1
    <2> QED BY <1>8, <2>3, <2>4
  <1> QED BY <1>9, <1>10, <1>11

\* The point a node gets is at the place its key is at: a face that collapses onto an
\* earlier one makes no points.
LEMMA WeldNodeFaces ==
  ASSUME IInv, KeysInv, PointsTyped, FacesInv, PlaceInv, WeldNode
  PROVE  FacesInv' /\ PlaceInv'
  <1> DEFINE key == PointKey(at, next)
             idx == Len(points) + 1
  <1>1. /\ step = "nodes" /\ step' = "nodes" /\ at \in meshed /\ at' = at
        /\ next <= Len(shape[at].places)
        /\ UNCHANGED <<shape, meshed, nodeAlias>>
        /\ \/ key \in DOMAIN nodeToCanonical /\ UNCHANGED <<nodeToCanonical, points>>
           \/ /\ key \notin DOMAIN nodeToCanonical
              /\ nodeToCanonical' = Mapped(nodeToCanonical, key, idx)
              /\ points' = Append(points, shape[at].places[next])
    BY DEF WeldNode, PointKey, input, walkVars
  <1>2. at \in DOMAIN shape /\ next \in FaceNodes(shape[at]) /\ at \in Nat
    <2>1. shape \in Shapes /\ at \in DOMAIN shape /\ next \in Nat \ {0}
      BY <1>1 DEF IInv, ShapeInv, LoopInv
    <2>2. Len(shape[at].places) \in Nat /\ FaceNodes(shape[at]) = 1..Len(shape[at].places)
      BY <2>1, FaceFacts
    <2>3. at \in Nat
      BY <1>1 DEF FacesInv
    <2> QED BY <1>1, <2>1, <2>2, <2>3
  <1>3. DOMAIN nodeToCanonical \subseteq DOMAIN nodeToCanonical'
    BY <1>1 DEF Mapped
  <1>4. FacesInv'
    <2>1. FacesDone(at)'
      BY <1>1, <1>3, KeysKept DEF FacesInv, FacesDone, FaceNodes
    <2> QED BY <1>1, <2>1 DEF FacesInv
  <1>5. ASSUME CopiesAlike, key \notin DOMAIN nodeToCanonical
        PROVE  shape[at].places[next] = KeyPlace(key)
    <2>1. First(at) \in meshed /\ First(at) <= at /\ First(at) \in DOMAIN shape
          /\ DOMAIN shape = 1..Len(shape) /\ Len(shape) \in Nat
          /\ FaceNodes(shape[First(at)]) = FaceNodes(shape[at])
      BY <1>1, FirstFacts DEF IInv
    <2>2. ASSUME First(at) < at PROVE FALSE
      <3>1. PointKey(First(at), next) \in DOMAIN nodeToCanonical
        BY <1>1, <1>2, <2>1, <2>2 DEF FacesInv, FacesDone
      <3>2. PointKey(First(at), next) = key
        BY <1>1, FirstKey DEF PointKey, IInv
      <3> QED BY <1>5, <3>1, <3>2
    <2>3. First(at) = at
      BY <1>2, <2>1, <2>2
    <2>4. KeyPlace(key) = KeyPlace(Key(at, next))
      BY <1>2, <1>5, KeyOfNode, ResolvedPlace DEF PointKey
    <2>5. KeyPlace(Key(at, next)) = PlaceIn(at, next)
      BY PlaceOfKey
    <2> QED BY <2>3, <2>4, <2>5 DEF PlaceIn
  <1>6. ASSUME CopiesAlike
        PROVE  \A k \in DOMAIN nodeToCanonical' : points'[nodeToCanonical'[k]] = KeyPlace(k)
    <2>1. /\ points \in Seq(Places)
          /\ \A k \in DOMAIN nodeToCanonical : nodeToCanonical[k] \in DOMAIN points
          /\ \A k \in DOMAIN nodeToCanonical : points[nodeToCanonical[k]] = KeyPlace(k)
      BY <1>1, <1>6 DEF PointsTyped, IInv, PointInv, PlaceInv
    <2>2. CASE UNCHANGED <<nodeToCanonical, points>>
      BY <2>1, <2>2
    <2>3. CASE /\ key \notin DOMAIN nodeToCanonical
               /\ nodeToCanonical' = Mapped(nodeToCanonical, key, idx)
               /\ points' = Append(points, shape[at].places[next])
      <3>1. shape[at].places[next] = KeyPlace(key)
        BY <1>5, <1>6, <2>3
      <3>2. shape[at].places[next] \in Places
        BY <1>2, PlacesOfFace
      <3> HIDE DEF key
      <3>3. /\ \A i \in DOMAIN points : points'[i] = points[i]
            /\ points'[idx] = shape[at].places[next]
        BY <2>1, <2>3, <3>2, Appended
      <3>4. /\ DOMAIN nodeToCanonical' = DOMAIN nodeToCanonical \cup {key}
            /\ \A k \in DOMAIN nodeToCanonical' :
                 nodeToCanonical'[k] = IF k = key THEN idx ELSE nodeToCanonical[k]
        BY <2>3 DEF Mapped
      <3> QED BY <2>1, <3>1, <3>3, <3>4
    <2> QED BY <1>1, <2>2, <2>3
  <1>7. PlaceInv'
    <2>1. CopiesAlike' = CopiesAlike /\ \A k : KeyPlace(k)' = KeyPlace(k)
      BY <1>1, InputKept
    <2> QED BY <1>1, <1>6, <2>1 DEF PlaceInv
  <1> QED BY <1>4, <1>7

\* The corners of the next triangle have their points: no key is inserted.
LEMMA EmitTriangleFacts ==
  ASSUME IInv, EmitTriangle
  PROVE  LET idxs == [c \in 1..3 |-> nodeToCanonical[PointKey(at, shape[at].triangles[next][c])]] IN
         /\ step = "triangles" /\ step' = "triangles" /\ at \in meshed /\ at' = at
         /\ next \in 1..Len(shape[at].triangles) /\ next' = next + 1
         /\ UNCHANGED <<shape, meshed, nodeAlias, points>>
         /\ DOMAIN nodeToCanonical' = DOMAIN nodeToCanonical
         /\ \A k \in DOMAIN nodeToCanonical : nodeToCanonical'[k] = nodeToCanonical[k]
         /\ faceVertexIndices' = faceVertexIndices \o idxs
         /\ \A c \in 1..3 : /\ shape[at].triangles[next][c] \in FaceNodes(shape[at])
                            /\ PointKey(at, shape[at].triangles[next][c]) \in DOMAIN nodeToCanonical
                            /\ idxs[c] \in Nat
  <1> DEFINE key(c) == PointKey(at, shape[at].triangles[next][c])
             corner == [c \in 1..3 |-> key(c)]
             idxs == [c \in 1..3 |-> nodeToCanonical[key(c)]]
             got == [c \in 1..3 |-> PointOf(corner[c])]
  <1>1. /\ step = "triangles" /\ step' = "triangles" /\ at' = at /\ at \in meshed
        /\ next <= Len(shape[at].triangles) /\ next' = next + 1
        /\ faceVertexIndices' = faceVertexIndices \o got
        /\ nodeToCanonical' = [k \in DOMAIN nodeToCanonical \cup Range(corner) |-> PointOf(k)]
        /\ UNCHANGED <<shape, meshed, nodeAlias, points>>
    BY DEF EmitTriangle, IInv, LoopInv, input, walkVars, PointKey
  <1>2. next \in 1..Len(shape[at].triangles) /\ shape \in Shapes /\ at \in DOMAIN shape
    <2>1. shape \in Shapes /\ at \in DOMAIN shape /\ next \in Nat \ {0}
      BY <1>1 DEF IInv, ShapeInv, LoopInv
    <2> QED BY <1>1, <2>1, FaceFacts
  <1>3. \A c \in 1..3 : shape[at].triangles[next][c] \in FaceNodes(shape[at])
    BY <1>2, FaceFacts
  <1>4. \A c \in 1..3 : key(c) \in DOMAIN nodeToCanonical
    BY <1>1, <1>3 DEF IInv, NodesInv
  <1> HIDE DEF key
  <1>5. DOMAIN nodeToCanonical \cup Range(corner) = DOMAIN nodeToCanonical
    BY <1>4 DEF Range
  <1>6. /\ DOMAIN nodeToCanonical' = DOMAIN nodeToCanonical
        /\ \A k \in DOMAIN nodeToCanonical : nodeToCanonical'[k] = nodeToCanonical[k]
    BY <1>1, <1>5 DEF PointOf
  <1>7. got = idxs
    BY <1>4 DEF PointOf
  <1>8. \A c \in 1..3 : idxs[c] \in Nat
    <2>1. points \in Seq(Places) /\ \A k \in DOMAIN nodeToCanonical : nodeToCanonical[k] \in DOMAIN points
      BY <1>1 DEF IInv, PointInv
    <2>2. DOMAIN points \subseteq Nat
      BY <2>1
    <2> QED BY <1>4, <2>1, <2>2
  <1> HIDE DEF corner, got, idxs
  <1>9. faceVertexIndices' = faceVertexIndices \o idxs
    BY <1>1, <1>7
  <1> QED BY <1>1, <1>2, <1>3, <1>4, <1>6, <1>8, <1>9 DEF idxs, key

\* Walking on, and from face to face.
LEMMA StepFaces ==
  ASSUME IInv, FacesInv,
         SkipEdge \/ EnterEdge \/ FinishEdge \/ EdgesWalked \/ NodesWelded \/ EmitTriangle \/ FaceEmitted
           \/ SkipFace \/ FacesEmitted
  PROVE  FacesInv'
  <1> USE DEF walkVars, meshVars, input
  <1>1. shape \in Shapes /\ meshed \subseteq DOMAIN shape /\ next \in Nat \ {0}
    BY DEF IInv, ShapeInv, LoopInv
  <1>2. DOMAIN shape = 1..Len(shape) /\ Len(shape) \in Nat
    BY <1>1, MeshAssumption
  <1>3. \A f, n : UNCHANGED <<shape, nodeAlias>> => PointKey(f, n)' = PointKey(f, n)
    BY KeysKept
  <1>4. CASE SkipEdge \/ EnterEdge \/ FinishEdge
    BY <1>4 DEF SkipEdge, EnterEdge, FinishEdge, FacesInv
  <1>5. CASE EdgesWalked
    <2>1. /\ step = "edges" /\ step' = "nodes" /\ at' = 1 /\ UNCHANGED <<shape, meshed>>
      BY <1>5 DEF EdgesWalked
    <2>2. \A f \in meshed : ~(f < 1)
      BY <1>1, <1>2
    <2> QED BY <1>2, <2>1, <2>2 DEF FacesInv, FacesDone
  <1>6. CASE NodesWelded
    <2>1. /\ step = "nodes" /\ step' = "triangles" /\ at' = at /\ at \in meshed /\ next' = 1
          /\ UNCHANGED <<shape, meshed, nodeAlias, nodeToCanonical>>
      BY <1>6 DEF NodesWelded
    <2>2. Len(shape[at].triangles) \in Nat
      BY <1>1, <2>1, FaceFacts
    <2>3. FacesDone(at)'
      BY <1>3, <2>1 DEF FacesInv, FacesDone, FaceNodes
    <2> QED BY <2>1, <2>2, <2>3 DEF FacesInv
  <1>7. CASE EmitTriangle
    <2>1. /\ step = "triangles" /\ step' = "triangles" /\ at' = at
          /\ next \in 1..Len(shape[at].triangles) /\ next' = next + 1
          /\ UNCHANGED <<shape, meshed, nodeAlias>>
          /\ DOMAIN nodeToCanonical' = DOMAIN nodeToCanonical
      BY <1>7, EmitTriangleFacts
    <2>2. FacesDone(at)'
      BY <1>3, <2>1 DEF FacesInv, FacesDone, FaceNodes
    <2>3. next' <= Len(shape[at].triangles) + 1
      BY <2>1
    <2> QED BY <2>1, <2>2, <2>3 DEF FacesInv
  <1>8. CASE FaceEmitted
    <2>1. /\ step = "triangles" /\ step' = "nodes" /\ at' = at + 1 /\ at \in meshed
          /\ UNCHANGED <<shape, meshed, nodeAlias, nodeToCanonical>>
      BY <1>8 DEF FaceEmitted, IInv, LoopInv
    <2>2. at \in 1..Len(shape) /\ \A f \in meshed : f < at + 1 => f < at \/ f = at
      BY <1>1, <1>2, <2>1
    <2>3. \A n \in FaceNodes(shape[at]) : PointKey(at, n) \in DOMAIN nodeToCanonical
      BY <2>1 DEF IInv, NodesInv
    <2>4. FacesDone(at)
      BY <2>1 DEF FacesInv
    <2>5. FacesDone(at + 1)
      BY <2>2, <2>3, <2>4 DEF FacesDone
    <2>6. FacesDone(at)'
      BY <1>3, <2>1, <2>5 DEF FacesDone, FaceNodes
    <2> QED BY <1>2, <2>1, <2>2, <2>6 DEF FacesInv
  <1>9. CASE SkipFace
    <2>1. /\ step = "nodes" /\ step' = "nodes" /\ at' = at + 1 /\ at \in DOMAIN shape /\ at \notin meshed
          /\ UNCHANGED <<shape, meshed, nodeAlias, nodeToCanonical>>
      BY <1>9 DEF SkipFace
    <2>2. at \in 1..Len(shape) /\ \A f \in meshed : f < at + 1 => f < at
      BY <1>1, <1>2, <2>1
    <2>3. FacesDone(at)
      BY <2>1 DEF FacesInv
    <2>4. FacesDone(at)'
      BY <1>3, <2>1, <2>2, <2>3 DEF FacesDone, FaceNodes
    <2> QED BY <1>2, <2>1, <2>2, <2>4 DEF FacesInv
  <1>10. CASE FacesEmitted
    <2>1. /\ step = "nodes" /\ step' = "boundary" /\ at > Len(shape)
          /\ UNCHANGED <<shape, meshed, nodeAlias, nodeToCanonical>>
      BY <1>10 DEF FacesEmitted
    <2>2. at = Len(shape) + 1 /\ FacesDone(at)
      BY <1>2, <2>1 DEF FacesInv
    <2>3. FacesDone(Len(shape) + 1)
      BY <2>2
    <2>4. FacesDone(Len(shape) + 1)'
      BY <1>3, <2>1, <2>3 DEF FacesDone, FaceNodes
    <2> QED BY <2>1, <2>4 DEF FacesInv
  <1> QED BY <1>4, <1>5, <1>6, <1>7, <1>8, <1>9, <1>10

LEMMA NextFaces ==
  ASSUME TypeInv, FacesInv, PlaceInv, CanonPlaced, [Next]_vars
  PROVE  FacesInv' /\ PlaceInv'
  <1> USE DEF walkVars, meshVars, input
  <1>0. IInv /\ ShapeInv /\ LoopInv /\ WalkInv /\ KeysInv /\ PointsTyped
    BY DEF TypeInv, IInv
  <1>1. CASE AliasNode
    BY <1>0, <1>1, AliasNodeFaces
  <1>2. CASE WeldNode
    BY <1>0, <1>2, WeldNodeFaces
  <1>3. CASE SkipEdge \/ EnterEdge \/ FinishEdge \/ EdgesWalked \/ NodesWelded \/ FaceEmitted
               \/ SkipFace \/ FacesEmitted
    <2>1. PlaceInv'
      BY <1>3, QuietPlaces DEF SkipEdge, EnterEdge, FinishEdge, EdgesWalked, NodesWelded, FaceEmitted, SkipFace,
         FacesEmitted
    <2> QED BY <1>0, <1>3, <2>1, StepFaces
  <1>4. CASE EmitTriangle
    <2>1. /\ UNCHANGED <<shape, meshed, nodeAlias, points>> /\ step # "done"
          /\ DOMAIN nodeToCanonical' = DOMAIN nodeToCanonical
          /\ \A k \in DOMAIN nodeToCanonical : nodeToCanonical'[k] = nodeToCanonical[k]
      BY <1>0, <1>4, EmitTriangleFacts
    <2>2. CopiesAlike' = CopiesAlike /\ \A key : KeyPlace(key)' = KeyPlace(key)
      BY <2>1, InputKept
    <2>3. PlaceInv'
      BY <2>1, <2>2 DEF PlaceInv
    <2> QED BY <1>0, <1>4, <2>3, StepFaces
  <1>5. CASE FinalizePoint \/ BoundaryDataFinalized \/ EmitDeferredCurve \/ CurvesEmitted
    BY <1>5, QuietFaces, QuietPlaces
    DEF FinalizePoint, BoundaryDataFinalized, EmitDeferredCurve, CurvesEmitted
  <1>6. CASE CompactUnusedPoints
    <2>1. step' = "done" /\ UNCHANGED <<shape, meshed, nodeAlias>>
      BY <1>6 DEF CompactUnusedPoints
    <2>2. CopiesAlike' = CopiesAlike /\ \A key : KeyPlace(key)' = KeyPlace(key)
      BY <2>1, InputKept
    <2>3. FacesInv' /\ PlaceInv'
      BY <2>1, <2>2 DEF FacesInv, PlaceInv
    <2> QED BY <2>3
  <1>7. CASE CallMeshRoutine
    BY <1>7, CallFaces
  <1>8. CASE UNCHANGED weldVars
    <2>1. UNCHANGED <<shape, meshed, step, at, next, nodeAlias, nodeToCanonical, points, faceVertexIndices>>
      BY <1>8 DEF weldVars
    <2>2. \A f, n : PointKey(f, n)' = PointKey(f, n)
      BY <2>1, KeysKept
    <2>3. FacesDone(at)' = FacesDone(at) /\ FacesDone(Len(shape) + 1)' = FacesDone(Len(shape) + 1)
      BY <2>1, <2>2 DEF FacesDone, FaceNodes
    <2> QED BY <2>1, <2>3, QuietPlaces DEF FacesInv
  <1>9. CASE MeshRoutine
    BY <1>1, <1>2, <1>3, <1>4, <1>5, <1>6, <1>9 DEF MeshRoutine, WeldStep
  <1> QED
    BY <1>7, <1>8, <1>9 DEF Next, Mesh, StopRemeshing, FindOverlaps, Remesh, Return, vars

LEMMA NextCanon ==
  ASSUME TypeInv, FacesInv, PlaceInv, CanonPlaced, [Next]_vars
  PROVE  CanonPlaced'
  <1>0. ShapeInv /\ LoopInv /\ WalkInv /\ KeysInv
    BY DEF TypeInv, IInv
  <1>1. CASE AliasNode
    BY <1>0, <1>1, AliasNodeFaces
  <1>2. CASE UNCHANGED weldVars
    <2>1. UNCHANGED <<shape, meshed, adj, next, facePolys, resolvedCanon>>
      BY <1>2 DEF weldVars, input, walkVars
    <2>2. PICK first, canon : first = PolyKey(1, next) /\ canon = resolvedCanon
      OBVIOUS
    <2>3. PolyKey(1, next)' = first /\ resolvedCanon' = canon
      BY <2>1, <2>2 DEF PolyKey, Key
    <2>4. KeyPlace(resolvedCanon)' = KeyPlace(canon)' /\ KeyPlace(PolyKey(1, next))' = KeyPlace(first)'
      BY <2>3 DEF KeyPlace
    <2>5. CopiesAlike' = CopiesAlike /\ \A key : KeyPlace(key)' = KeyPlace(key)
      BY <2>1, InputKept
    <2> QED BY <2>1, <2>2, <2>4, <2>5 DEF CanonPlaced
  <1>3. CASE adj' = 1
    BY <1>3 DEF CanonPlaced
  <1> QED
    BY <1>0, <1>1, <1>2, <1>3, OnlyAliasing
---------------------------------------------------------------------------
CornerRecs == [face : Faces, node : Nat]

\* The corners, as sequences of sequences.
LEMMA CornerSeqs ==
  ASSUME ShapeInv
  PROVE  /\ \A f \in Faces : /\ TriangleCorners(f) \in Seq(Seq(CornerRecs))
                             /\ Len(TriangleCorners(f)) = Len(shape[f].triangles)
                             /\ Grows(TriangleCorners(f), CornerRecs)
         /\ FaceCorners \in Seq(Seq(CornerRecs)) /\ Len(FaceCorners) = Len(shape)
         /\ Grows(FaceCorners, CornerRecs)
         /\ Len(shape) \in Nat /\ DOMAIN shape = 1..Len(shape)
  <1> DEFINE D == Seq(CornerRecs)
  <1>1. shape \in Shapes /\ DOMAIN shape = 1..Len(shape) /\ Len(shape) \in Nat /\ Faces = DOMAIN shape
    BY MeshAssumption DEF ShapeInv, Faces
  <1>2. ASSUME NEW f \in Faces
        PROVE  /\ TriangleCorners(f) \in Seq(Seq(CornerRecs))
               /\ Len(TriangleCorners(f)) = Len(shape[f].triangles)
    <2> DEFINE tc == TriangleCorners(f)
    <2>1. /\ Len(shape[f].triangles) \in Nat /\ DOMAIN shape[f].triangles = 1..Len(shape[f].triangles)
          /\ \A t \in 1..Len(shape[f].triangles) : \A c \in 1..3 : shape[f].triangles[t][c] \in Nat
      <3>1. IsFace(shape[f])
        BY <1>1, MeshAssumption
      <3>2. shape[f].triangles \in Seq([1..3 -> FaceNodes(shape[f])])
        BY <3>1 DEF IsFace
      <3>3. Len(shape[f].places) \in Nat /\ FaceNodes(shape[f]) = 1..Len(shape[f].places)
        BY <1>1, FaceFacts
      <3>4. FaceNodes(shape[f]) \subseteq Nat
        BY <3>3
      <3>5. Len(shape[f].triangles) \in Nat /\ DOMAIN shape[f].triangles = 1..Len(shape[f].triangles)
        BY <3>2
      <3> QED BY <1>1, <3>4, <3>5, FaceFacts
    <2>2. \A t \in 1..Len(shape[f].triangles) : tc[t] \in D
      <3>1. TAKE t \in 1..Len(shape[f].triangles)
      <3> DEFINE s == [c \in 1..3 |-> [face |-> f, node |-> shape[f].triangles[t][c]]]
      <3>2. \A c \in 1..3 : s[c] \in CornerRecs
        BY <2>1 DEF CornerRecs
      <3>3. s = [c \in 1..3 |-> s[c]] /\ 3 \in Nat
        OBVIOUS
      <3>4. tc[t] = s
        BY <2>1 DEF TriangleCorners
      <3> HIDE DEF s
      <3>5. s \in Seq(CornerRecs)
        BY <3>2, <3>3, GivenSeq
      <3> QED BY <3>4, <3>5
    <2>3. tc = [t \in 1..Len(shape[f].triangles) |-> tc[t]]
      BY <2>1 DEF TriangleCorners
    <2> HIDE DEF tc, D
    <2>4. tc \in Seq(D) /\ Len(tc) = Len(shape[f].triangles)
      <3>1. PICK T \in Nat : T = Len(shape[f].triangles)
        BY <2>1
      <3>2. tc = [t \in 1..T |-> tc[t]] /\ \A t \in 1..T : tc[t] \in D
        BY <2>2, <2>3, <3>1
      <3>3. tc \in Seq(D) /\ Len(tc) = T
        BY <3>2, GivenSeq
      <3> QED BY <3>1, <3>3
    <2> QED BY <2>4 DEF tc, D
  <1>3. FaceCorners \in Seq(Seq(CornerRecs)) /\ Len(FaceCorners) = Len(shape)
    <2>1. \A f \in 1..Len(shape) : FaceCorners[f] \in D
      <3>1. TAKE f \in 1..Len(shape)
      <3>2. FlattenSeq(TriangleCorners(f)) \in D
        BY <1>1, <1>2, FlatRange
      <3>3. FaceCorners[f] = IF f \in meshed THEN FlattenSeq(TriangleCorners(f)) ELSE << >>
        BY <1>1 DEF FaceCorners
      <3> QED BY <3>2, <3>3
    <2>2. FaceCorners = [f \in 1..Len(shape) |-> FaceCorners[f]]
      BY <1>1 DEF FaceCorners
    <2> HIDE DEF D
    <2>3. FaceCorners \in Seq(D) /\ Len(FaceCorners) = Len(shape)
      BY <1>1, <2>1, <2>2, GivenSeq
    <2> QED BY <2>3 DEF D
  <1> QED BY <1>1, <1>2, <1>3, FlatGrows

\* A corner that is emitted is a point's: the one of its node's key.
CornerShown(c, corner) ==
  /\ corner.face \in meshed /\ corner.node \in FaceNodes(shape[corner.face])
  /\ PointKey(corner.face, corner.node) \in DOMAIN nodeToCanonical
  /\ faceVertexIndices[c] = nodeToCanonical[PointKey(corner.face, corner.node)]

Shows(corners) ==
  /\ Len(faceVertexIndices) = Len(corners)
  /\ \A c \in 1..Len(corners) : CornerShown(c, corners[c])

Emitted == FlatPart(FaceCorners, at - 1)
EmittedHere == FlatPart(TriangleCorners(at), next - 1)

\* The corners emitted are those of the faces before, and of the triangles before on
\* this one.
ShowInv ==
  /\ step = "nodes" => Shows(Emitted)
  /\ step = "triangles" => Shows(Emitted \o EmittedHere)
  /\ step \in {"boundary", "curves", "compact"} => Shows(Corners)

LEMMA ShownKept ==
  ASSUME NEW corners, Shows(corners), UNCHANGED <<shape, meshed, nodeAlias, faceVertexIndices>>,
         DOMAIN nodeToCanonical \subseteq DOMAIN nodeToCanonical',
         \A k \in DOMAIN nodeToCanonical : nodeToCanonical'[k] = nodeToCanonical[k]
  PROVE  Shows(corners)'
  <1>1. \A f, n : PointKey(f, n)' = PointKey(f, n)
    BY KeysKept
  <1> QED BY <1>1 DEF Shows, CornerShown, FaceNodes

LEMMA CornersKept ==
  ASSUME UNCHANGED <<shape, meshed>>
  PROVE  FaceCorners' = FaceCorners /\ Corners' = Corners /\ \A f : TriangleCorners(f)' = TriangleCorners(f)
  BY DEF FaceCorners, Corners, TriangleCorners, Faces

\* A step that emits no corner and begins no face.
LEMMA QuietShow ==
  ASSUME ShowInv, UNCHANGED <<shape, meshed, nodeAlias, nodeToCanonical, faceVertexIndices>>,
         step' \notin {"nodes", "triangles"},
         step' \in {"boundary", "curves", "compact"} => step \in {"boundary", "curves", "compact"}
  PROVE  ShowInv'
  <1>1. Corners' = Corners
    BY CornersKept
  <1>2. Shows(Corners) => Shows(Corners)'
    <2>1. PICK corners : corners = Corners
      OBVIOUS
    <2>2. Shows(corners) => Shows(corners)'
      BY ShownKept
    <2> QED BY <1>1, <2>1, <2>2 DEF Shows, CornerShown
  <1> QED BY <1>2 DEF ShowInv

\* Three more corners.
LEMMA ShowsMore ==
  ASSUME NEW corners \in Seq(CornerRecs), NEW tri \in Seq(CornerRecs), NEW idxs \in Seq(Nat),
         faceVertexIndices \in Seq(Nat),
         Shows(corners), UNCHANGED <<shape, meshed, nodeAlias>>,
         DOMAIN nodeToCanonical' = DOMAIN nodeToCanonical,
         \A k \in DOMAIN nodeToCanonical : nodeToCanonical'[k] = nodeToCanonical[k],
         faceVertexIndices' = faceVertexIndices \o idxs, Len(idxs) = Len(tri),
         \A c \in 1..Len(tri) :
           /\ tri[c].face \in meshed /\ tri[c].node \in FaceNodes(shape[tri[c].face])
           /\ PointKey(tri[c].face, tri[c].node) \in DOMAIN nodeToCanonical
           /\ idxs[c] = nodeToCanonical[PointKey(tri[c].face, tri[c].node)]
  PROVE  Shows(corners \o tri)'
  <1>1. \A f, n : PointKey(f, n)' = PointKey(f, n)
    BY KeysKept
  <1>2. PICK all : all = corners \o tri
    OBVIOUS
  <1>3. IsJoin(all, corners, tri)
    BY <1>2, Joined
  <1>4. IsJoin(faceVertexIndices', faceVertexIndices, idxs)
    BY Joined
  <1>5. Len(faceVertexIndices) = Len(corners)
    BY DEF Shows
  <1>6. Len(faceVertexIndices') = Len(all)
    BY <1>3, <1>4, <1>5 DEF IsJoin
  <1>7. ASSUME NEW c \in 1..Len(all) PROVE CornerShown(c, all[c])'
    <2>1. CASE c \in 1..Len(corners)
      <3>1. all[c] = corners[c] /\ faceVertexIndices'[c] = faceVertexIndices[c]
        BY <1>3, <1>4, <1>5, <2>1 DEF IsJoin
      <3>2. CornerShown(c, corners[c])
        BY <2>1 DEF Shows
      <3> QED BY <1>1, <3>1, <3>2 DEF CornerShown, FaceNodes
    <2>2. ASSUME NEW i \in 1..Len(tri), c = Len(corners) + i PROVE CornerShown(c, all[c])'
      <3>1. all[c] = tri[i] /\ faceVertexIndices'[c] = idxs[i]
        BY <1>3, <1>4, <1>5, <2>2 DEF IsJoin
      <3> QED BY <1>1, <3>1 DEF CornerShown, FaceNodes
    <2> QED BY <1>3, <2>1, <2>2 DEF IsJoin
  <1> QED BY <1>2, <1>6, <1>7 DEF Shows

\* A triangle adds its three corners, in their order.
LEMMA EmitTriangleShow ==
  ASSUME IInv, FacesInv, ShowInv, EmitTriangle
  PROVE  ShowInv'
  <1> DEFINE idxs == [c \in 1..3 |-> nodeToCanonical[PointKey(at, shape[at].triangles[next][c])]]
             tri == [c \in 1..3 |-> [face |-> at, node |-> shape[at].triangles[next][c]]]
  <1>1. /\ step = "triangles" /\ step' = "triangles" /\ at \in meshed /\ at' = at
        /\ next \in 1..Len(shape[at].triangles) /\ next' = next + 1
        /\ UNCHANGED <<shape, meshed, nodeAlias, points>>
        /\ DOMAIN nodeToCanonical' = DOMAIN nodeToCanonical
        /\ \A k \in DOMAIN nodeToCanonical : nodeToCanonical'[k] = nodeToCanonical[k]
        /\ faceVertexIndices' = faceVertexIndices \o idxs
        /\ \A c \in 1..3 : /\ shape[at].triangles[next][c] \in FaceNodes(shape[at])
                           /\ PointKey(at, shape[at].triangles[next][c]) \in DOMAIN nodeToCanonical
                           /\ idxs[c] \in Nat
    BY EmitTriangleFacts
  <1>2. ShapeInv /\ at \in Faces /\ at \in 1..Len(shape) /\ faceVertexIndices \in Seq(Nat)
    <2>1. at \in DOMAIN shape /\ shape \in Shapes
      BY <1>1 DEF IInv, ShapeInv
    <2> QED BY <1>1, <2>1, MeshAssumption DEF IInv, PointInv, Faces
  <1>3. /\ FlatPart(FaceCorners, at - 1) \in Seq(CornerRecs)
        /\ FlatPart(TriangleCorners(at), next - 1) \in Seq(CornerRecs)
        /\ FlatPart(TriangleCorners(at), next) = FlatPart(TriangleCorners(at), next - 1) \o TriangleCorners(at)[next]
        /\ TriangleCorners(at)[next] \in Seq(CornerRecs)
    <2>1. Grows(FaceCorners, CornerRecs) /\ Len(FaceCorners) = Len(shape) /\ Len(shape) \in Nat
      BY <1>2, CornerSeqs
    <2>2. Grows(TriangleCorners(at), CornerRecs) /\ Len(TriangleCorners(at)) = Len(shape[at].triangles)
          /\ TriangleCorners(at) \in Seq(Seq(CornerRecs))
      BY <1>2, CornerSeqs
    <2>3. next - 1 \in 0..Len(shape[at].triangles) /\ at - 1 \in 0..Len(shape) /\ Len(shape[at].triangles) \in Nat
      <3>1. Len(shape[at].triangles) \in Nat
        BY <1>2, FaceFacts DEF ShapeInv, Faces
      <3>2. next \in 1..Len(shape[at].triangles)
        BY <1>1
      <3> QED BY <1>2, <2>1, <3>1, <3>2
    <2>4. TriangleCorners(at)[next] \in Seq(CornerRecs)
      BY <1>1, <2>2, SeqOfSeqs
    <2> QED BY <1>1, <2>1, <2>2, <2>3, <2>4 DEF Grows
  <1>4. TriangleCorners(at)[next] = tri
    <2>1. next \in DOMAIN shape[at].triangles
      <3>1. IsFace(shape[at])
        BY <1>2, MeshAssumption DEF Faces, ShapeInv
      <3>2. shape[at].triangles \in Seq([1..3 -> FaceNodes(shape[at])])
        BY <3>1 DEF IsFace
      <3>3. DOMAIN shape[at].triangles = 1..Len(shape[at].triangles)
        BY <3>2
      <3> QED BY <1>1, <3>3
    <2> QED BY <2>1 DEF TriangleCorners
  <1>5. PICK done : done = Emitted
    OBVIOUS
  <1>6. PICK here : here = EmittedHere
    OBVIOUS
  <1>7. PICK last : last = tri
    OBVIOUS
  <1>8. PICK idx : idx = idxs
    OBVIOUS
  <1>9. done \in Seq(CornerRecs) /\ here \in Seq(CornerRecs) /\ last \in Seq(CornerRecs)
    BY <1>3, <1>4, <1>5, <1>6, <1>7 DEF Emitted, EmittedHere
  <1>10. idx \in Seq(Nat) /\ Len(idx) = 3 /\ Len(last) = 3
    <2>1. idxs \in Seq(Nat) /\ Len(idxs) = 3
      <3>1. idxs = [c \in 1..3 |-> idxs[c]] /\ 3 \in Nat /\ \A c \in 1..3 : idxs[c] \in Nat
        BY <1>1
      <3> HIDE DEF idxs
      <3> QED BY <3>1, GivenSeq
    <2>2. Len(tri) = 3
      OBVIOUS
    <2> QED BY <1>7, <1>8, <2>1, <2>2
  <1>11. Shows(done \o here)
    BY <1>1, <1>5, <1>6 DEF ShowInv
  <1>12. \A c \in 1..3 :
           /\ last[c].face \in meshed /\ last[c].node \in FaceNodes(shape[last[c].face])
           /\ PointKey(last[c].face, last[c].node) \in DOMAIN nodeToCanonical
           /\ idx[c] = nodeToCanonical[PointKey(last[c].face, last[c].node)]
    BY <1>1, <1>7, <1>8
  <1>13. faceVertexIndices' = faceVertexIndices \o idx
    BY <1>1, <1>8
  <1> HIDE DEF idxs, tri
  <1>14. Shows((done \o here) \o last)'
    <2>1. PICK both : both = done \o here
      OBVIOUS
    <2>2. both \in Seq(CornerRecs) /\ Shows(both)
      BY <1>9, <1>11, <2>1
    <2>3. Shows(both \o last)'
      BY <1>1, <1>2, <1>9, <1>10, <1>12, <1>13, <2>2, ShowsMore
    <2> QED BY <2>1, <2>3
  <1>15. (done \o here) \o last = done \o (here \o last)
    BY <1>9, ConcatAssociative
  <1>16. Emitted' = done
    <2>1. FaceCorners' = FaceCorners
      BY <1>1, CornersKept
    <2> QED BY <1>1, <1>5, <2>1 DEF Emitted
  <1>17. EmittedHere' = here \o last
    <2>1. \A f : TriangleCorners(f)' = TriangleCorners(f)
      BY <1>1, CornersKept
    <2>2. next' - 1 = next
      BY <1>1
    <2>3. TriangleCorners(at)' = TriangleCorners(at)
      BY <1>1, <2>1 DEF TriangleCorners
    <2> QED BY <1>3, <1>4, <1>6, <1>7, <2>2, <2>3 DEF EmittedHere
  <1>18. Shows(Emitted \o EmittedHere)'
    BY <1>14, <1>15, <1>16, <1>17 DEF Shows, CornerShown
  <1> QED BY <1>1, <1>18 DEF ShowInv
---------------------------------------------------------------------------
\* A step that emits no corner, where what is to be emitted by then is what was.
LEMMA SameCorners ==
  ASSUME NEW corners, Shows(corners), UNCHANGED <<shape, meshed, nodeAlias, nodeToCanonical, faceVertexIndices>>
  PROVE  Shows(corners)'
  BY ShownKept

LEMMA FaceShow ==
  ASSUME IInv, FacesInv, ShowInv,
         EdgesWalked \/ NodesWelded \/ FaceEmitted \/ SkipFace \/ FacesEmitted
  PROVE  ShowInv'
  <1> USE DEF walkVars, meshVars, input
  <1>1. UNCHANGED <<shape, meshed, nodeAlias, nodeToCanonical, faceVertexIndices>>
    BY DEF EdgesWalked, NodesWelded, FaceEmitted, SkipFace, FacesEmitted
  <1>2. /\ FaceCorners' = FaceCorners /\ Corners' = Corners
        /\ \A f : TriangleCorners(f)' = TriangleCorners(f)
    BY <1>1, CornersKept
  <1>3. /\ ShapeInv /\ Faces = DOMAIN shape /\ shape \in Shapes /\ meshed \subseteq DOMAIN shape
        /\ next \in Nat \ {0} /\ (step = "triangles" => at \in meshed)
    BY DEF IInv, ShapeInv, Faces, LoopInv
  <1>4. Grows(FaceCorners, CornerRecs) /\ Len(FaceCorners) = Len(shape) /\ Len(shape) \in Nat
        /\ DOMAIN shape = 1..Len(shape)
    BY <1>3, CornerSeqs
  <1>5. CASE EdgesWalked
    <2>1. step = "edges" /\ step' = "nodes" /\ at' = 1
      BY <1>5 DEF EdgesWalked
    <2>2. faceVertexIndices = << >>
      BY <2>1 DEF FacesInv
    <2>3. Emitted' = << >>
      BY <1>2, <1>4, <2>1 DEF Emitted, Grows
    <2>4. Shows(Emitted)'
      BY <1>1, <2>2, <2>3 DEF Shows
    <2> QED BY <2>1, <2>4 DEF ShowInv
  <1>6. CASE NodesWelded
    <2>1. step = "nodes" /\ step' = "triangles" /\ at' = at /\ at \in meshed /\ next' = 1
      BY <1>6 DEF NodesWelded
    <2>2. PICK corners : corners = Emitted
      OBVIOUS
    <2>3. Shows(corners)'
      BY <1>1, <2>1, <2>2, SameCorners DEF ShowInv
    <2>4. Emitted' = corners
      BY <1>2, <2>1, <2>2 DEF Emitted
    <2>5. EmittedHere' = << >>
      <3>1. Grows(TriangleCorners(at), CornerRecs)
        BY <1>3, <2>1, CornerSeqs
      <3>2. TriangleCorners(at)' = TriangleCorners(at)
        BY <1>1, <2>1 DEF TriangleCorners
      <3>3. next' - 1 = 0
        BY <2>1
      <3> QED BY <3>1, <3>2, <3>3 DEF EmittedHere, Grows
    <2>6. corners \in Seq(CornerRecs)
      <3>1. at - 1 \in 0..Len(shape)
        BY <1>3, <1>4, <2>1
      <3> QED BY <1>4, <2>2, <3>1 DEF Emitted, Grows
    <2>7. corners \o << >> = corners
      BY <2>6, ConcatEmptySeq
    <2>8. Shows(Emitted \o EmittedHere)'
      BY <2>3, <2>4, <2>5, <2>7 DEF Shows, CornerShown
    <2> QED BY <2>1, <2>8 DEF ShowInv
  <1>7. CASE FaceEmitted
    <2>1. step = "triangles" /\ step' = "nodes" /\ at' = at + 1 /\ next > Len(shape[at].triangles)
      BY <1>7 DEF FaceEmitted
    <2>2. at \in 1..Len(shape) /\ at \in meshed
      BY <1>3, <1>4, <2>1
    <2>3. next - 1 = Len(shape[at].triangles) /\ Len(shape[at].triangles) \in Nat
      <3>1. Len(shape[at].triangles) \in Nat
        BY <1>3, <1>4, <2>2, FaceFacts
      <3>2. next <= Len(shape[at].triangles) + 1
        BY <2>1 DEF FacesInv
      <3> QED BY <1>3, <2>1, <3>1, <3>2
    <2>4. EmittedHere = FlattenSeq(TriangleCorners(at))
      <3>1. Grows(TriangleCorners(at), CornerRecs) /\ Len(TriangleCorners(at)) = Len(shape[at].triangles)
        BY <1>3, <2>2, CornerSeqs
      <3> QED BY <2>3, <3>1 DEF EmittedHere, Grows
    <2>5. FaceCorners[at] = FlattenSeq(TriangleCorners(at))
      BY <1>3, <1>4, <2>2 DEF FaceCorners
    <2>6. FlatPart(FaceCorners, at) = FlatPart(FaceCorners, at - 1) \o FaceCorners[at]
      BY <1>4, <2>2 DEF Grows
    <2>7. PICK corners : corners = Emitted \o EmittedHere
      OBVIOUS
    <2>8. Shows(corners)'
      BY <1>1, <2>1, <2>7, SameCorners DEF ShowInv
    <2>9. Emitted' = corners
      <3>1. at' - 1 = at
        BY <2>1, <2>2
      <3> QED BY <1>2, <2>4, <2>5, <2>6, <2>7, <3>1 DEF Emitted
    <2>10. Shows(Emitted)'
      BY <2>8, <2>9 DEF Shows, CornerShown
    <2> QED BY <2>1, <2>10 DEF ShowInv
  <1>8. CASE SkipFace
    <2>1. step = "nodes" /\ step' = "nodes" /\ at' = at + 1 /\ at \in DOMAIN shape /\ at \notin meshed
      BY <1>8 DEF SkipFace
    <2>2. at \in 1..Len(shape)
      BY <1>4, <2>1
    <2>3. FaceCorners[at] = << >>
      BY <1>3, <2>1 DEF FaceCorners
    <2>4. FlatPart(FaceCorners, at) = FlatPart(FaceCorners, at - 1) \o FaceCorners[at]
          /\ FlatPart(FaceCorners, at - 1) \in Seq(CornerRecs)
      <3>1. at - 1 \in 0..Len(shape)
        BY <1>4, <2>2
      <3> QED BY <1>4, <2>2, <3>1 DEF Grows
    <2>5. FlatPart(FaceCorners, at) = FlatPart(FaceCorners, at - 1)
      BY <2>3, <2>4, ConcatEmptySeq
    <2>6. PICK corners : corners = Emitted
      OBVIOUS
    <2>7. Shows(corners)'
      BY <1>1, <2>1, <2>6, SameCorners DEF ShowInv
    <2>8. Emitted' = corners
      <3>1. at' - 1 = at
        BY <2>1, <2>2
      <3> QED BY <1>2, <2>5, <2>6, <3>1 DEF Emitted
    <2>9. Shows(Emitted)'
      BY <2>7, <2>8 DEF Shows, CornerShown
    <2> QED BY <2>1, <2>9 DEF ShowInv
  <1>9. CASE FacesEmitted
    <2>1. step = "nodes" /\ step' = "boundary" /\ at > Len(shape)
      BY <1>9 DEF FacesEmitted
    <2>2. at - 1 = Len(shape)
      <3>1. at \in 1..(Len(shape) + 1)
        BY <2>1 DEF FacesInv
      <3> QED BY <1>4, <2>1, <3>1
    <2>3. Emitted = Corners
      BY <1>4, <2>2 DEF Emitted, Corners, Grows
    <2>4. PICK corners : corners = Emitted
      OBVIOUS
    <2>5. Shows(corners)'
      BY <1>1, <2>1, <2>4, SameCorners DEF ShowInv
    <2>6. Shows(Corners)'
      BY <1>2, <2>3, <2>4, <2>5 DEF Shows, CornerShown
    <2> QED BY <2>1, <2>6 DEF ShowInv
  <1> QED BY <1>5, <1>6, <1>7, <1>8, <1>9

\* A point more changes no corner.
LEMMA WeldNodeShow ==
  ASSUME IInv, ShowInv, WeldNode
  PROVE  ShowInv'
  <1> DEFINE key == PointKey(at, next)
  <1>1. /\ step = "nodes" /\ step' = "nodes" /\ at' = at
        /\ UNCHANGED <<shape, meshed, nodeAlias, faceVertexIndices>>
        /\ \/ UNCHANGED nodeToCanonical
           \/ key \notin DOMAIN nodeToCanonical /\ nodeToCanonical' = Mapped(nodeToCanonical, key, Len(points) + 1)
    BY DEF WeldNode, PointKey, input, walkVars
  <1> HIDE DEF key
  <1>2. /\ DOMAIN nodeToCanonical \subseteq DOMAIN nodeToCanonical'
        /\ \A k \in DOMAIN nodeToCanonical : nodeToCanonical'[k] = nodeToCanonical[k]
    BY <1>1 DEF Mapped
  <1>3. PICK corners : corners = Emitted
    OBVIOUS
  <1>4. Shows(corners)'
    BY <1>1, <1>2, <1>3, ShownKept DEF ShowInv
  <1>5. Emitted' = corners
    BY <1>1, <1>3, CornersKept DEF Emitted
  <1>6. Shows(Emitted)'
    BY <1>4, <1>5 DEF Shows, CornerShown
  <1> QED BY <1>1, <1>6 DEF ShowInv

\* When the mesh is compacted every corner stays at its place, and every point has one.
LEMMA CompactCorners ==
  ASSUME TypeInv, PlaceInv, ShowInv, CompactUnusedPoints
  PROVE  CornersInPlace'
  <1> DEFINE K == Cardinality(FirstUses)
  <1>1. /\ step = "compact" /\ UNCHANGED <<shape, meshed>>
        /\ faceVertexIndices' = [c \in DOMAIN faceVertexIndices |-> OldToNew(faceVertexIndices[c])]
        /\ points' = [n \in 1..K |-> points[NewToOld(n)]]
    BY DEF CompactUnusedPoints, input
  <1>2. faceVertexIndices \in Seq(Nat) /\ Shows(Corners) /\ IInv /\ KeysInv /\ ShapeInv
    BY <1>1 DEF TypeInv, IInv, PointInv, ShowInv
  <1>3. PICK corners : corners = Corners
    OBVIOUS
  <1>4. /\ Corners' = corners /\ CopiesAlike' = CopiesAlike
        /\ \A f, n : PlaceIn(f, n)' = PlaceIn(f, n)
    BY <1>1, <1>3, CornersKept, InputKept
  <1>5. corners \in Seq(CornerRecs) /\ DOMAIN corners = 1..Len(corners) /\ Len(corners) \in Nat
    <2>1. FaceCorners \in Seq(Seq(CornerRecs))
      BY <1>2, CornerSeqs
    <2>2. corners \in Seq(CornerRecs)
      BY <1>3, <2>1, FlatRange DEF Corners
    <2> QED BY <2>2
  <1>6. DOMAIN faceVertexIndices = 1..Len(corners) /\ Len(faceVertexIndices) = Len(corners)
    BY <1>2, <1>3 DEF Shows
  <1>7. Len(faceVertexIndices') = Len(corners)
    <2> DEFINE s == [c \in DOMAIN faceVertexIndices |-> OldToNew(faceVertexIndices[c])]
    <2>1. DOMAIN s = 1..Len(corners)
      BY <1>6
    <2>2. \A c \in 1..Len(corners) : s[c] \in Nat
      BY <1>2, <1>6, Renumbered
    <2>3. s = [c \in 1..Len(corners) |-> s[c]]
      BY <1>6
    <2> HIDE DEF s
    <2>4. Len(s) = Len(corners)
      BY <1>5, <2>2, <2>3, GivenSeq
    <2> QED BY <1>1, <2>4 DEF s
  <1>8. ASSUME CopiesAlike, NEW c \in 1..Len(corners)
        PROVE  points'[faceVertexIndices'[c]] = PlaceIn(corners[c].face, corners[c].node)
    <2>1. c \in DOMAIN faceVertexIndices
      BY <1>6
    <2>2. OldToNew(faceVertexIndices[c]) \in 1..K /\ NewToOld(OldToNew(faceVertexIndices[c])) = faceVertexIndices[c]
      BY <1>2, <2>1, Renumbered
    <2>3. points'[faceVertexIndices'[c]] = points[faceVertexIndices[c]]
      BY <1>1, <2>1, <2>2
    <2> DEFINE f == corners[c].face
               n == corners[c].node
    <2>4. /\ f \in meshed /\ n \in FaceNodes(shape[f])
          /\ PointKey(f, n) \in DOMAIN nodeToCanonical
          /\ faceVertexIndices[c] = nodeToCanonical[PointKey(f, n)]
      BY <1>2, <1>3 DEF Shows, CornerShown
    <2> HIDE DEF f, n
    <2>5. points[faceVertexIndices[c]] = KeyPlace(PointKey(f, n))
      BY <1>1, <1>8, <2>4 DEF PlaceInv
    <2>6. Key(f, n) \in Keys
      BY <1>2, <2>4, KeyOfNode DEF ShapeInv
    <2>7. KeyPlace(PointKey(f, n)) = KeyPlace(Key(f, n))
      BY <1>2, <1>8, <2>6, ResolvedPlace DEF PointKey
    <2> QED BY <2>3, <2>5, <2>7, PlaceOfKey DEF f, n
  <1>9. Range(faceVertexIndices') = DOMAIN points'
    <2>1. DOMAIN points' = 1..K
      BY <1>1
    <2>2. \A c \in DOMAIN faceVertexIndices : faceVertexIndices'[c] \in 1..K
      BY <1>1, <1>2, Renumbered
    <2>3. DOMAIN faceVertexIndices' = DOMAIN faceVertexIndices
      BY <1>1
    <2>4. \A n \in 1..K : \E c \in DOMAIN faceVertexIndices' : faceVertexIndices'[c] = n
      <3>1. TAKE n \in 1..K
      <3>2. PICK c \in DOMAIN faceVertexIndices : OldToNew(faceVertexIndices[c]) = n
        BY <1>2, Renumbered
      <3> QED BY <1>1, <2>3, <3>2
    <2> HIDE DEF K
    <2> QED BY <2>1, <2>2, <2>3, <2>4 DEF Range
  <1>10. ASSUME CopiesAlike
         PROVE  \A c \in DOMAIN Corners' : points'[faceVertexIndices'[c]] = PlaceIn(Corners[c].face, Corners[c].node)'
    <2>1. ASSUME NEW c \in 1..Len(corners)
          PROVE  points'[faceVertexIndices'[c]] = PlaceIn(corners[c].face, corners[c].node)'
      BY <1>4, <1>8, <1>10, <2>1
    <2>2. \A c : PlaceIn(Corners[c].face, Corners[c].node)' = PlaceIn(corners[c].face, corners[c].node)'
      BY <1>4 DEF PlaceIn, First
    <2> QED BY <1>4, <1>5, <2>1, <2>2
  <1> QED BY <1>4, <1>7, <1>9, <1>10 DEF CornersInPlace

PlacedInv == TypeInv /\ FacesInv /\ PlaceInv /\ CanonPlaced /\ ShowInv /\ CornersInPlace

LEMMA InitPlaced == Init => PlacedInv
  <1> SUFFICES ASSUME Init PROVE PlacedInv
    OBVIOUS
  <1>1. ShowInv /\ CornersInPlace
    BY DEF Init, WeldInit, ShowInv, CornersInPlace
  <1> QED BY <1>1, InitType, InitFaces DEF PlacedInv

LEMMA NextShow ==
  ASSUME PlacedInv, [Next]_vars
  PROVE  ShowInv'
  <1> USE DEF walkVars, meshVars, input
  <1>0. IInv /\ FacesInv /\ ShowInv
    BY DEF PlacedInv, TypeInv
  <1>1. CASE EdgesWalked \/ NodesWelded \/ FaceEmitted \/ SkipFace \/ FacesEmitted
    BY <1>0, <1>1, FaceShow
  <1>2. CASE WeldNode
    BY <1>0, <1>2, WeldNodeShow
  <1>3. CASE EmitTriangle
    BY <1>0, <1>3, EmitTriangleShow
  <1>4. CASE SkipEdge \/ EnterEdge \/ AliasNode \/ FinishEdge \/ CompactUnusedPoints
    BY <1>4 DEF SkipEdge, EnterEdge, AliasNode, FinishEdge, CompactUnusedPoints, ShowInv
  <1>5. CASE FinalizePoint \/ BoundaryDataFinalized \/ EmitDeferredCurve \/ CurvesEmitted
    BY <1>0, <1>5, QuietShow DEF FinalizePoint, BoundaryDataFinalized, EmitDeferredCurve, CurvesEmitted
  <1>6. CASE CallMeshRoutine
    BY <1>6 DEF CallMeshRoutine, WeldCall, ShowInv
  <1>7. CASE UNCHANGED weldVars
    <2>1. UNCHANGED <<shape, meshed, step, at, next, nodeAlias, nodeToCanonical, faceVertexIndices>>
      BY <1>7 DEF weldVars
    <2>2. \A f, n : PointKey(f, n)' = PointKey(f, n)
      BY <2>1, KeysKept
    <2>3. FaceCorners' = FaceCorners /\ Corners' = Corners
      BY <2>1, CornersKept
    <2>4. TriangleCorners(at)' = TriangleCorners(at)
      BY <2>1 DEF TriangleCorners
    <2>5. Emitted' = Emitted /\ EmittedHere' = EmittedHere
      BY <2>1, <2>3, <2>4 DEF Emitted, EmittedHere
    <2>6. /\ Shows(Emitted)' = Shows(Emitted) /\ Shows(Corners)' = Shows(Corners)
          /\ Shows(Emitted \o EmittedHere)' = Shows(Emitted \o EmittedHere)
      BY <2>1, <2>2, <2>3, <2>5 DEF Shows, CornerShown, FaceNodes
    <2> QED BY <1>0, <2>1, <2>6 DEF ShowInv
  <1>8. CASE MeshRoutine
    BY <1>1, <1>2, <1>3, <1>4, <1>5, <1>8 DEF MeshRoutine, WeldStep
  <1> QED
    BY <1>6, <1>7, <1>8 DEF Next, Mesh, StopRemeshing, FindOverlaps, Remesh, Return, vars

\* Once it is made, the mesh is left alone.
LEMMA NextCorners ==
  ASSUME PlacedInv, [Next]_vars
  PROVE  CornersInPlace'
  <1> USE DEF walkVars, meshVars, input
  <1>1. CASE CompactUnusedPoints
    BY <1>1, CompactCorners DEF PlacedInv
  <1>2. CASE UNCHANGED weldVars
    <2>1. UNCHANGED <<shape, meshed, step, points, faceVertexIndices>>
      BY <1>2 DEF weldVars
    <2>2. Corners' = Corners /\ CopiesAlike' = CopiesAlike /\ \A f, n : PlaceIn(f, n)' = PlaceIn(f, n)
      BY <2>1, CornersKept, InputKept
    <2>3. \A c : PlaceIn(Corners[c].face, Corners[c].node)' = PlaceIn(Corners[c].face, Corners[c].node)
      BY <2>1, <2>2 DEF PlaceIn, First
    <2> QED BY <2>1, <2>2, <2>3 DEF PlacedInv, CornersInPlace
  <1>3. CASE CallMeshRoutine
    BY <1>3 DEF CallMeshRoutine, WeldCall, CornersInPlace
  <1>4. CASE MeshRoutine /\ ~CompactUnusedPoints
    <2>1. step' # "done"
      BY <1>4 DEF MeshRoutine, WeldStep, SkipEdge, EnterEdge, AliasNode, FinishEdge, EdgesWalked, WeldNode,
         NodesWelded, EmitTriangle, FaceEmitted, SkipFace, FacesEmitted, FinalizePoint,
         BoundaryDataFinalized, EmitDeferredCurve, CurvesEmitted
    <2> QED BY <2>1 DEF CornersInPlace
  <1> QED
    BY <1>1, <1>2, <1>3, <1>4
    DEF Next, Mesh, StopRemeshing, FindOverlaps, Remesh, Return, vars, MeshRoutine

LEMMA NextPlaced == PlacedInv /\ [Next]_vars => PlacedInv'
  BY NextType, NextFaces, NextCanon, NextShow, NextCorners DEF PlacedInv

LEMMA PlacedInvariance == Spec => []PlacedInv
  BY InitPlaced, NextPlaced, PTL DEF Spec

\* Every corner of the mesh is at the place of its node, whatever is left unmeshed, if
\* copies are alike, and no point is left without a corner.
THEOREM CornersShown == Spec => []CornersInPlace
  <1>1. PlacedInv => CornersInPlace
    BY DEF PlacedInv
  <1> QED BY <1>1, PlacedInvariance, PTL
---------------------------------------------------------------------------
\* An edge has a curve, or one that waits.
HasCurve(seq, edge) == \E m \in DOMAIN seq : seq[m].edge = edge

LEMMA CurveFacts ==
  ASSUME NEW A, NEW s \in Seq(A), NEW x \in A, NEW edge
  PROVE  /\ ~HasCurve(<< >>, edge)
         /\ HasCurve(Append(s, x), edge) <=> HasCurve(s, edge) \/ x.edge = edge
  <1> DEFINE t == Append(s, x)
             k == Len(s) + 1
  <1>1. /\ t \in Seq(A) /\ Len(s) \in Nat /\ DOMAIN s = 1..Len(s) /\ DOMAIN t = 1..k
        /\ \A n \in 1..Len(s) : t[n] = s[n]
        /\ t[k] = x
    BY Appended
  <1>2. \A m \in 1..k : m \in 1..Len(s) \/ m = k
    BY <1>1
  <1>3. k \in 1..k /\ \A m \in 1..Len(s) : m \in 1..k
    BY <1>1
  <1> HIDE DEF t, k
  <1>4. HasCurve(t, edge) <=> HasCurve(s, edge) \/ x.edge = edge
    BY <1>1, <1>2, <1>3 DEF HasCurve
  <1> QED BY <1>4 DEF HasCurve, t

\* An edge of two meshed faces.
Shared(edge) ==
  \E f, g \in meshed : f # g /\ \E d \in FaceEdges(shape[f]), e \in FaceEdges(shape[g]) :
                                   d.edge = edge /\ e.edge = edge

\* The curve of an edge can be sampled.
Sampled(edge) == \E f \in meshed : \E e \in FaceEdges(shape[f]) : e.edge = edge /\ e.sampled

Traced(edge) ==
  Shared(edge) /\ wireframe.type # "none" /\ (wireframe.sampling = "underlying" \/ Sampled(edge))

\* The walk came by the edge before the n-th occurrence.
Passed(edge, n) == \E m \in DOMAIN Occurrences : m < n /\ EdgeAt(Occurrences[m]).edge = edge

LEMMA PassedFacts ==
  ASSUME ShapeInv, NEW edge, NEW n \in Nat
  PROVE  /\ ~Passed(edge, 1)
         /\ n \in DOMAIN Occurrences =>
              (Passed(edge, n + 1) <=> Passed(edge, n) \/ EdgeAt(Occurrences[n]).edge = edge)
  <1>1. Len(Occurrences) \in Nat /\ DOMAIN Occurrences = 1..Len(Occurrences)
    BY OccurrenceFacts DEF ShapeInv
  <1>2. ~Passed(edge, 1)
    BY <1>1 DEF Passed
  <1>3. \A m \in DOMAIN Occurrences : m < n + 1 <=> m < n \/ m = n
    BY <1>1
  <1> QED BY <1>2, <1>3 DEF Passed

\* The edge the walk is on bounds two meshed faces exactly if it is a surface boundary.
LEMMA BoundaryShared ==
  ASSUME ShapeInv, WalkInv, facePolys # << >>
  PROVE  IsSurfaceBoundary <=> Shared(EdgeAt(Occurrences[at]).edge)
  <1> DEFINE edge == EdgeAt(Occurrences[at]).edge
  <1>1. /\ \A n \in DOMAIN facePolys : IsPolyOf(facePolys[n], edge)
        /\ 1 \in DOMAIN facePolys
    BY AtEdge
  <1>2. \A f \in meshed : \A e \in FaceEdges(shape[f]) : e.edge = edge =>
          \E k \in DOMAIN facePolys : facePolys[k].face = f
    BY PolyFacts DEF ShapeInv, WalkInv
  <1> HIDE DEF edge
  <1>3. ASSUME IsSurfaceBoundary PROVE Shared(edge)
    <2>1. PICK n \in DOMAIN facePolys : facePolys[n].face # facePolys[1].face
      BY <1>3 DEF IsSurfaceBoundary
    <2>2. IsPolyOf(facePolys[n], edge) /\ IsPolyOf(facePolys[1], edge)
      BY <1>1
    <2> QED BY <2>1, <2>2 DEF IsPolyOf, Shared
  <1>4. ASSUME Shared(edge) PROVE IsSurfaceBoundary
    <2>1. PICK f \in meshed, g \in meshed :
            f # g /\ \E d \in FaceEdges(shape[f]), e \in FaceEdges(shape[g]) : d.edge = edge /\ e.edge = edge
      BY <1>4 DEF Shared
    <2>2. PICK k \in DOMAIN facePolys : facePolys[k].face = f
      BY <1>2, <2>1
    <2>3. PICK l \in DOMAIN facePolys : facePolys[l].face = g
      BY <1>2, <2>1
    <2> QED BY <2>1, <2>2, <2>3 DEF IsSurfaceBoundary
  <1> QED BY <1>3, <1>4 DEF edge

\* What is known of the edge wherever the walk comes by it is so on all faces at it.
LEMMA SampledHere ==
  ASSUME ShapeInv, WalkInv, facePolys # << >>
  PROVE  Sampled(EdgeAt(Occurrences[at]).edge) <=> EdgeAt(Occurrences[at]).sampled
  <1> DEFINE here == EdgeAt(Occurrences[at])
  <1>1. shape \in Shapes /\ at \in DOMAIN Occurrences /\ meshed \subseteq DOMAIN shape
    BY DEF ShapeInv, WalkInv
  <1>2. Occurrences[at][1] \in DOMAIN shape /\ here \in Range(shape[Occurrences[at][1]].edges)
    BY <1>1, OccurrenceFacts
  <1>3. PICK e \in FaceEdges(shape[facePolys[1].face]) : facePolys[1].face \in meshed /\ e.edge = here.edge
    BY FirstPoly
  <1> HIDE DEF here
  <1>4. ASSUME NEW f \in meshed, NEW d \in FaceEdges(shape[f]), d.edge = here.edge
        PROVE  d.sampled = here.sampled
    <2>1. d \in Range(shape[f].edges) /\ f \in DOMAIN shape
      BY <1>1 DEF FaceEdges
    <2> QED BY <1>1, <1>2, <1>4, <2>1, MeshAssumption
  <1>5. Sampled(here.edge) <=> here.sampled
    BY <1>3, <1>4 DEF Sampled
  <1> QED BY <1>5 DEF here

\* Edges without a meshed face are not shared.
LEMMA SkippedNotShared ==
  ASSUME ShapeInv, NEW m \in DOMAIN Occurrences, FacePolys(Occurrences[m]) = << >>
  PROVE  ~Shared(EdgeAt(Occurrences[m]).edge)
  <1> DEFINE edge == EdgeAt(Occurrences[m]).edge
  <1>1. \A f \in meshed : \A e \in FaceEdges(shape[f]) : e.edge = edge => \E k \in DOMAIN << >> : TRUE
    BY PolyFacts DEF ShapeInv
  <1> HIDE DEF edge
  <1>2. \A f \in meshed : \A e \in FaceEdges(shape[f]) : e.edge # edge
    BY <1>1
  <1> QED BY <1>2 DEF Shared, edge

Made(seq, n) == \A edge \in Edges : HasCurve(seq, edge) <=> Traced(edge) /\ Passed(edge, n)

\* Deferred curves become curves one by one.
SameEdges(n) == Len(curves) = n /\ \A m \in 1..n : curves[m].edge = deferredCurves[m].edge

\* As the walk comes by an edge that is traced, its curve is made, or waits until points
\* are there.
MadeInv ==
  /\ step = "idle" => at = 1 /\ deferredCurves = << >> /\ curves = << >>
  /\ step = "edges" => at <= Len(Occurrences) + 1
  /\ wireframe.sampling = "underlying" =>
       /\ step = "edges" => Made(deferredCurves, at)
       /\ step \notin {"idle", "edges"} => Made(deferredCurves, Len(Occurrences) + 1)
       /\ step \in {"idle", "edges", "nodes", "triangles", "boundary"} => curves = << >>
       /\ step = "curves" => next <= Len(deferredCurves) + 1 /\ SameEdges(next - 1)
       /\ step \in {"compact", "done"} => SameEdges(Len(deferredCurves))
  /\ wireframe.sampling # "underlying" =>
       /\ deferredCurves = << >>
       /\ step = "edges" => Made(curves, at)
       /\ step \notin {"idle", "edges"} => Made(curves, Len(Occurrences) + 1)

LEMMA MadeKept ==
  ASSUME UNCHANGED <<shape, meshed, wireframe>>
  PROVE  /\ \A edge : Traced(edge)' = Traced(edge)
         /\ \A edge, n : Passed(edge, n)' = Passed(edge, n)
         /\ \A seq, n : Made(seq, n)' = Made(seq, n)
         /\ Occurrences' = Occurrences
  <1>1. Occurrences' = Occurrences /\ Edges' = Edges
    BY ShapeKept DEF Occurrences
  <1>2. \A edge : Traced(edge)' = Traced(edge)
    BY DEF Traced, Shared, Sampled, FaceEdges
  <1>3. \A edge, n : Passed(edge, n)' = Passed(edge, n)
    BY <1>1 DEF Passed, EdgeAt
  <1>4. \A seq, n : Made(seq, n)' = Made(seq, n)
    BY <1>1, <1>2, <1>3 DEF Made
  <1> QED BY <1>1, <1>2, <1>3, <1>4

\* One edge further, with a curve if it is traced.
LEMMA MadeStep ==
  ASSUME ShapeInv, NEW n \in DOMAIN Occurrences, NEW A, NEW s \in Seq(A), NEW t, Made(s, n),
         \/ ~Traced(EdgeAt(Occurrences[n]).edge) /\ t = s
         \/ /\ Traced(EdgeAt(Occurrences[n]).edge)
            /\ \E x \in A : x.edge = EdgeAt(Occurrences[n]).edge /\ t = Append(s, x)
  PROVE  Made(t, n + 1)
  <1> DEFINE here == EdgeAt(Occurrences[n]).edge
  <1>1. n \in Nat
    BY OccurrenceFacts DEF ShapeInv
  <1> SUFFICES ASSUME NEW edge \in Edges
               PROVE  HasCurve(t, edge) <=> Traced(edge) /\ Passed(edge, n + 1)
    BY DEF Made
  <1>2. HasCurve(s, edge) <=> Traced(edge) /\ Passed(edge, n)
    BY DEF Made
  <1>3. Passed(edge, n + 1) <=> Passed(edge, n) \/ here = edge
    BY <1>1, PassedFacts
  <1> HIDE DEF here
  <1>4. CASE ~Traced(here) /\ t = s
    BY <1>2, <1>3, <1>4
  <1>5. ASSUME Traced(here), NEW x \in A, x.edge = here, t = Append(s, x)
        PROVE  HasCurve(t, edge) <=> Traced(edge) /\ Passed(edge, n + 1)
    <2>1. HasCurve(t, edge) <=> HasCurve(s, edge) \/ here = edge
      BY <1>5, CurveFacts
    <2> QED BY <1>2, <1>3, <1>5, <2>1
  <1> QED BY <1>4, <1>5 DEF here

LEMMA InitMade == Init => MadeInv
  BY DEF Init, WeldInit, MadeInv

\* The walk starts with nothing.
LEMMA CallMade ==
  ASSUME IInv, WalkInv, MadeInv, CallMeshRoutine
  PROVE  MadeInv'
  <1>1. /\ step = "idle" /\ step' = "edges" /\ UNCHANGED <<shape, wireframe, at, deferredCurves, curves>>
        /\ meshed' \subseteq DOMAIN shape
    BY DEF CallMeshRoutine, WeldCall, walkVars, Meshed, Faces
  <1>2. deferredCurves = << >> /\ curves = << >>
    BY <1>1 DEF MadeInv
  <1>3. Occurrences' = Occurrences
    BY <1>1 DEF Occurrences
  <1>4. Made(<< >>, 1)'
    <2>1. \A edge : ~Passed(edge, 1)'
      <3>1. DOMAIN Occurrences = 1..Len(Occurrences) /\ Len(Occurrences) \in Nat
        BY OccurrenceFacts DEF IInv, ShapeInv
      <3> QED BY <1>3, <3>1 DEF Passed
    <2>2. \A edge : ~HasCurve(<< >>, edge)
      BY DEF HasCurve
    <2> QED BY <2>1, <2>2 DEF Made
  <1>5. at = 1
    BY <1>1 DEF MadeInv
  <1>6. at' <= Len(Occurrences') + 1
    BY <1>1, <1>3, <1>5, OccurrenceFacts DEF IInv, ShapeInv
  <1> QED BY <1>1, <1>2, <1>4, <1>5, <1>6 DEF MadeInv, Made

\* The points of a trace: each of its keys has one.
LEMMA ResolvedAll ==
  ASSUME TypeInv, FacesInv, step = "curves", NEW f \in meshed, NEW e \in FaceEdges(shape[f])
  PROVE  /\ Resolved(Trace(f, e)) = [k \in 1..Len(e.poly) |-> points[nodeToCanonical[PointKey(f, e.poly[k])]]]
         /\ \A k \in 1..Len(e.poly) : PointKey(f, e.poly[k]) \in DOMAIN nodeToCanonical
         /\ Len(Resolved(Trace(f, e))) = Len(e.poly) /\ Len(e.poly) \in Nat /\ Len(e.poly) >= 2
  <1> DEFINE N == Len(e.poly)
             curve == Trace(f, e)
             v == [k \in 1..N |-> points[nodeToCanonical[PointKey(f, e.poly[k])]]]
             seq1 == [k \in DOMAIN curve.keys |-> PlaceUnder(ResolveAlias(nodeAlias, curve.keys[k]))]
             seq2 == [k \in 1..N |-> IF k \in 1..N THEN <<v[k]>> ELSE << >>]
  <1>1. /\ shape \in Shapes /\ f \in DOMAIN shape /\ DOMAIN shape = 1..Len(shape) /\ Len(shape) \in Nat
    BY MeshAssumption DEF TypeInv, IInv, ShapeInv
  <1>2. N \in Nat /\ N >= 2 /\ \A k \in 1..N : e.poly[k] \in FaceNodes(shape[f])
    BY <1>1, EdgeFacts
  <1>3. \A k \in 1..N : PointKey(f, e.poly[k]) \in DOMAIN nodeToCanonical
    <2>1. f < Len(shape) + 1
      BY <1>1
    <2> QED BY <1>2, <2>1 DEF FacesInv, FacesDone
  <1>4. curve.keys = [k \in 1..N |-> Key(f, e.poly[k])]
    BY DEF Trace
  <1> HIDE DEF curve, N
  <1>5. \A k \in 1..N : seq1[k] = seq2[k]
    <2>1. TAKE k \in 1..N
    <2>2. ResolveAlias(nodeAlias, curve.keys[k]) = PointKey(f, e.poly[k])
      BY <1>4 DEF PointKey
    <2>3. seq1[k] = PlaceUnder(PointKey(f, e.poly[k]))
      BY <1>4, <2>2
    <2>4. PlaceUnder(PointKey(f, e.poly[k])) = <<v[k]>>
      BY <1>3 DEF PlaceUnder
    <2> QED BY <2>3, <2>4
  <1>6. seq1 = [k \in 1..N |-> seq1[k]] /\ seq2 = [k \in 1..N |-> seq2[k]]
    BY <1>4
  <1> HIDE DEF seq1, seq2
  <1>7. seq1 = seq2
    BY <1>5, <1>6
  <1>8. Resolved(curve) = FlattenSeq(seq1)
    BY DEF Resolved, seq1
  <1>9. Kept(v, N, 1..N) = FlattenSeq(seq2)
    BY DEF Kept, seq2
  <1>10. Kept(v, N, 1..N) = [k \in 1..N |-> v[k]]
    BY <1>2, KeptAll
  <1>11. Resolved(curve) = v
    BY <1>7, <1>8, <1>9, <1>10
  <1>12. Len(v) = N
    <2>1. \A k \in 1..N : v[k] \in Places
      BY <1>3 DEF TypeInv, PointsTyped, IInv, PointInv
    <2>2. v = [k \in 1..N |-> v[k]]
      OBVIOUS
    <2> HIDE DEF v
    <2> QED BY <1>2, <2>1, <2>2, GivenSeq
  <1> QED BY <1>2, <1>3, <1>11, <1>12 DEF N, curve
---------------------------------------------------------------------------
LEMMA StillMade ==
  ASSUME UNCHANGED <<shape, meshed, wireframe, deferredCurves, curves>>, NEW n
  PROVE  /\ Made(deferredCurves, n)' = Made(deferredCurves, n)
         /\ Made(curves, n)' = Made(curves, n)
         /\ SameEdges(n)' = SameEdges(n)
         /\ Len(Occurrences)' = Len(Occurrences)
  <1>1. PICK d, c : d = deferredCurves /\ c = curves
    OBVIOUS
  <1>2. Made(d, n)' = Made(d, n) /\ Made(c, n)' = Made(c, n) /\ Occurrences' = Occurrences
    BY MadeKept
  <1> QED BY <1>1, <1>2 DEF Made, SameEdges

\* A step that makes no curve.
LEMMA QuietMade ==
  ASSUME MadeInv, UNCHANGED <<shape, meshed, wireframe, deferredCurves, curves>>,
         \/ UNCHANGED <<step, at, next>>
         \/ step = "edges" /\ UNCHANGED <<step, at>>
         \/ {step, step'} \subseteq {"nodes", "triangles", "boundary"}
         \/ {step, step'} \subseteq {"compact", "done"}
  PROVE  MadeInv'
  <1>1. PICK a, b, m, l : a = at /\ b = next - 1 /\ m = Len(Occurrences) + 1 /\ l = Len(deferredCurves)
    OBVIOUS
  <1>2. Len(Occurrences)' = Len(Occurrences)
    BY StillMade
  <1>3. \A n \in {a, b, m, l} : /\ Made(deferredCurves, n)' = Made(deferredCurves, n)
                               /\ Made(curves, n)' = Made(curves, n)
                               /\ SameEdges(n)' = SameEdges(n)
    BY StillMade
  <1>4. /\ Made(deferredCurves, m)' = Made(deferredCurves, Len(Occurrences) + 1)'
        /\ Made(curves, m)' = Made(curves, Len(Occurrences) + 1)'
        /\ SameEdges(l)' = SameEdges(Len(deferredCurves))'
    BY <1>1, <1>2 DEF Made, SameEdges
  <1>5. /\ at' = at => Made(deferredCurves, a)' = Made(deferredCurves, at)'
        /\ at' = at => Made(curves, a)' = Made(curves, at)'
        /\ next' = next => SameEdges(b)' = SameEdges(next - 1)'
    BY <1>1 DEF Made, SameEdges
  <1> QED BY <1>1, <1>2, <1>3, <1>4, <1>5 DEF MadeInv

\* An edge that is passed over is of no meshed face.
LEMMA SkipMade ==
  ASSUME IInv, WireInv, MadeInv, SkipEdge
  PROVE  MadeInv'
  <1>1. /\ step = "edges" /\ step' = step /\ at \in DOMAIN Occurrences /\ at' = at + 1
        /\ FacePolys(Occurrences[at]) = << >>
        /\ UNCHANGED <<shape, meshed, wireframe, deferredCurves, curves>>
    BY DEF SkipEdge, input, walkVars
  <1>2. ~Traced(EdgeAt(Occurrences[at]).edge)
    BY <1>1, SkippedNotShared DEF IInv, Traced
  <1>3. Made(deferredCurves, at) => Made(deferredCurves, at + 1)
    BY <1>1, <1>2, MadeStep DEF IInv, WireInv
  <1>4. Made(curves, at) => Made(curves, at + 1)
    BY <1>1, <1>2, MadeStep DEF IInv, WireInv
  <1>5. PICK m : m = at + 1
    OBVIOUS
  <1>6. /\ Made(deferredCurves, m)' = Made(deferredCurves, m)
        /\ Made(curves, m)' = Made(curves, m)
        /\ Len(Occurrences)' = Len(Occurrences)
    BY <1>1, StillMade
  <1>7. /\ Made(deferredCurves, m)' = Made(deferredCurves, at)'
        /\ Made(curves, m)' = Made(curves, at)'
    BY <1>1, <1>5 DEF Made
  <1>8. at + 1 <= Len(Occurrences) + 1
    BY <1>1, OccurrenceFacts DEF IInv, ShapeInv
  <1> QED BY <1>1, <1>3, <1>4, <1>5, <1>6, <1>7, <1>8 DEF MadeInv

\* An edge of two meshed faces or more has its curve now, or one that waits.
LEMMA FinishMade ==
  ASSUME IInv, WalkInv, WireInv, MadeInv, FinishEdge
  PROVE  MadeInv'
  <1> DEFINE edge == EdgeAt(Occurrences[at]).edge
             trace == [edge |-> edge, keys |-> [k \in 1..NumNodes |-> PolyKey(1, k)]]
             wire == Resampled(edge, Along(shape[facePolys[1].face], facePolys[1]))
  <1>1. /\ step = "edges" /\ step' = step /\ at' = at + 1 /\ facePolys # << >>
        /\ UNCHANGED <<shape, meshed, wireframe>>
        /\ deferredCurves' =
             IF IsSurfaceBoundary /\ wireframe.type # "none"
                  /\ wireframe.sampling = "underlying" /\ NumNodes >= 2
             THEN Append(deferredCurves, trace) ELSE deferredCurves
        /\ curves' =
             IF IsSurfaceBoundary /\ wireframe.type # "none"
                  /\ wireframe.sampling # "underlying" /\ EdgeAt(Occurrences[at]).sampled
             THEN Append(curves, wire) ELSE curves
    BY DEF FinishEdge, input
  <1>2. at \in DOMAIN Occurrences /\ NumNodes >= 2
    BY <1>1, AtEdge DEF IInv, WalkInv
  <1>3. Traced(edge) <=> IsSurfaceBoundary /\ wireframe.type # "none"
                           /\ (wireframe.sampling = "underlying" \/ EdgeAt(Occurrences[at]).sampled)
    BY <1>1, BoundaryShared, SampledHere DEF IInv, Traced
  <1>4. deferredCurves' \in Seq(Traces) /\ curves' \in Seq(Wires)
    BY <1>1, FinishEdgeCurves, TracesKept DEF IInv, WireInv
  <1>5. trace.edge = edge /\ wire.edge = edge
    BY DEF Resampled
  <1> HIDE DEF trace, wire
  <1> DEFINE all == Traces \cup Wires \cup {trace, wire}
  <1>6. deferredCurves \in Seq(all) /\ curves \in Seq(all) /\ trace \in all /\ wire \in all
    BY DEF WireInv
  <1> HIDE DEF all
  <1>7. ASSUME wireframe.sampling = "underlying", Made(deferredCurves, at)
        PROVE  Made(deferredCurves', at + 1) /\ curves' = curves
    <2>1. deferredCurves' = IF Traced(edge) THEN Append(deferredCurves, trace) ELSE deferredCurves
      BY <1>1, <1>2, <1>3, <1>7
    <2> QED BY <1>1, <1>2, <1>5, <1>6, <1>7, <2>1, MadeStep DEF IInv
  <1>8. ASSUME wireframe.sampling # "underlying", Made(curves, at)
        PROVE  Made(curves', at + 1) /\ deferredCurves' = deferredCurves
    <2>1. curves' = IF Traced(edge) THEN Append(curves, wire) ELSE curves
      BY <1>1, <1>3, <1>8
    <2> QED BY <1>1, <1>2, <1>5, <1>6, <1>8, <2>1, MadeStep DEF IInv
  <1>9. PICK m, d, c : m = at + 1 /\ d = deferredCurves' /\ c = curves'
    OBVIOUS
  <1>10. Made(d, m)' = Made(d, m) /\ Made(c, m)' = Made(c, m) /\ Occurrences' = Occurrences
    BY <1>1, MadeKept
  <1>11. /\ Made(d, m)' = Made(deferredCurves, at)'
         /\ Made(c, m)' = Made(curves, at)'
    BY <1>1, <1>9 DEF Made
  <1>12. at + 1 <= Len(Occurrences) + 1
    BY <1>2, OccurrenceFacts DEF IInv, ShapeInv
  <1> QED BY <1>1, <1>7, <1>8, <1>9, <1>10, <1>11, <1>12 DEF MadeInv

\* The walk is over: all occurrences are passed.
LEMMA WalkedMade ==
  ASSUME IInv, WalkInv, MadeInv, EdgesWalked
  PROVE  MadeInv'
  <1>1. /\ step = "edges" /\ step' = "nodes" /\ at > Len(Occurrences)
        /\ UNCHANGED <<shape, meshed, wireframe, deferredCurves, curves>>
    BY DEF EdgesWalked, input, walkVars
  <1>2. PICK m : m = Len(Occurrences) + 1
    OBVIOUS
  <1>3. \A edge : Passed(edge, at) = Passed(edge, m)
    <2>1. \A k \in DOMAIN Occurrences : k < at /\ k < m
      BY <1>1, <1>2, OccurrenceFacts DEF IInv, ShapeInv, MadeInv, WalkInv
    <2> QED BY <2>1 DEF Passed
  <1>4. /\ Made(deferredCurves, at) => Made(deferredCurves, m)
        /\ Made(curves, at) => Made(curves, m)
    BY <1>3 DEF Made
  <1>5. /\ Made(deferredCurves, m)' = Made(deferredCurves, m)
        /\ Made(curves, m)' = Made(curves, m)
        /\ Len(Occurrences)' = Len(Occurrences)
    BY <1>1, StillMade
  <1>6. /\ Made(deferredCurves, m)' = Made(deferredCurves, Len(Occurrences) + 1)'
        /\ Made(curves, m)' = Made(curves, Len(Occurrences) + 1)'
    BY <1>2, <1>5 DEF Made
  <1> QED BY <1>1, <1>4, <1>5, <1>6 DEF MadeInv

\* None of the deferred curves is made before points have their data.
LEMMA FinalizedMade ==
  ASSUME WireInv, MadeInv, BoundaryDataFinalized
  PROVE  MadeInv'
  <1>1. /\ step = "boundary" /\ step' = "curves" /\ next' = 1
        /\ UNCHANGED <<shape, meshed, wireframe, deferredCurves, curves>>
    BY DEF BoundaryDataFinalized, input, walkVars
  <1>2. PICK m : m = Len(Occurrences) + 1
    OBVIOUS
  <1>3. /\ Made(deferredCurves, m)' = Made(deferredCurves, m)
        /\ Made(curves, m)' = Made(curves, m)
        /\ Len(Occurrences)' = Len(Occurrences)
    BY <1>1, StillMade
  <1>4. /\ Made(deferredCurves, m)' = Made(deferredCurves, Len(Occurrences) + 1)'
        /\ Made(curves, m)' = Made(curves, Len(Occurrences) + 1)'
    BY <1>2, <1>3 DEF Made
  <1>5. curves = << >> => SameEdges(next - 1)' /\ next' <= Len(deferredCurves') + 1
    <2>1. Len(deferredCurves) \in Nat
      BY DEF WireInv
    <2> QED BY <1>1, <2>1 DEF SameEdges
  <1> QED BY <1>1, <1>2, <1>3, <1>4, <1>5 DEF MadeInv

\* Every deferred curve is made: its points are all there.
LEMMA EmitMade ==
  ASSUME TypeInv, FacesInv, MadeInv, EmitDeferredCurve
  PROVE  MadeInv'
  <1> DEFINE curve == deferredCurves[next]
  <1>1. /\ step = "curves" /\ step' = step /\ next <= Len(deferredCurves) /\ next' = next + 1
        /\ UNCHANGED <<shape, meshed, wireframe, deferredCurves>>
        /\ curves' = IF Len(Resolved(curve)) >= 2 THEN Append(curves, Deferred(curve)) ELSE curves
    BY DEF EmitDeferredCurve, input, walkVars
  <1>2. /\ deferredCurves \in Seq(Traces) /\ curves \in Seq(Wires) /\ next \in Nat \ {0}
        /\ Len(deferredCurves) \in Nat
    BY DEF TypeInv, IInv, LoopInv, WireInv
  <1>3. curve \in Traces
    BY <1>1, <1>2
  <1>4. PICK f \in meshed : \E e \in FaceEdges(shape[f]) : curve = Trace(f, e)
    BY <1>3 DEF Traces
  <1>5. PICK e \in FaceEdges(shape[f]) : curve = Trace(f, e)
    BY <1>4
  <1>6. Len(Resolved(curve)) >= 2
    BY <1>1, <1>5, ResolvedAll
  <1>7. curves' = Append(curves, Deferred(curve)) /\ Deferred(curve).edge = curve.edge
    BY <1>1, <1>6 DEF Deferred
  <1>8. PICK d, c, n, x, m : d = deferredCurves /\ c = curves /\ n = next /\ x = Deferred(curve)
                             /\ m = Len(Occurrences) + 1
    OBVIOUS
  <1> HIDE DEF curve
  <1>9. ASSUME SameEdges(next - 1) PROVE SameEdges(next - 1)'
    <2>1. Len(c) = n - 1 /\ n \in Nat \ {0} /\ n <= Len(d) /\ \A k \in 1..(n - 1) : c[k].edge = d[k].edge
      BY <1>1, <1>2, <1>8, <1>9 DEF SameEdges
    <2> DEFINE all == Wires \cup {x}
    <2>2. c \in Seq(all) /\ x \in all
      BY <1>2, <1>8
    <2> HIDE DEF all
    <2>3. Len(Append(c, x)) = n /\ (\A k \in 1..(n - 1) : Append(c, x)[k] = c[k]) /\ Append(c, x)[n] = x
      BY <2>1, <2>2, Appended
    <2>4. x.edge = d[n].edge
      BY <1>7, <1>8 DEF curve
    <2>5. \A k \in 1..n : Append(c, x)[k].edge = d[k].edge
      <3>1. \A k \in 1..n : k \in 1..(n - 1) \/ k = n
        BY <2>1
      <3> QED BY <2>1, <2>3, <2>4, <3>1
    <2>6. curves' = Append(c, x) /\ deferredCurves' = d /\ next' - 1 = n
      BY <1>1, <1>2, <1>7, <1>8
    <2> QED BY <2>3, <2>5, <2>6 DEF SameEdges
  <1>10. Made(d, m)' = Made(d, m) /\ Occurrences' = Occurrences
    BY <1>1, MadeKept
  <1>11. Made(d, m)' = Made(deferredCurves, Len(Occurrences) + 1)'
    BY <1>1, <1>8, <1>10 DEF Made
  <1>12. ASSUME wireframe.sampling = "underlying" PROVE MadeInv'
    BY <1>1, <1>2, <1>8, <1>9, <1>10, <1>11, <1>12 DEF MadeInv
  <1>13. ASSUME wireframe.sampling # "underlying" PROVE MadeInv'
    <2>1. deferredCurves = << >>
      BY <1>13 DEF MadeInv
    <2> QED BY <1>1, <1>2, <2>1
  <1> QED BY <1>12, <1>13

LEMMA EmittedMade ==
  ASSUME TypeInv, MadeInv, CurvesEmitted
  PROVE  MadeInv'
  <1>1. /\ step = "curves" /\ step' = "compact" /\ next > Len(deferredCurves)
        /\ UNCHANGED <<shape, meshed, wireframe, deferredCurves, curves>>
    BY DEF CurvesEmitted, input, walkVars
  <1>2. Len(deferredCurves) \in Nat /\ next \in Nat
    BY DEF TypeInv, IInv, LoopInv, WireInv
  <1>3. PICK l, m : l = Len(deferredCurves) /\ m = Len(Occurrences) + 1
    OBVIOUS
  <1>4. next <= Len(deferredCurves) + 1 => next - 1 = l
    BY <1>1, <1>2, <1>3
  <1>5. /\ Made(deferredCurves, m)' = Made(deferredCurves, m)
        /\ Made(curves, m)' = Made(curves, m)
        /\ SameEdges(l)' = SameEdges(l)
        /\ Len(Occurrences)' = Len(Occurrences)
    BY <1>1, StillMade
  <1>6. /\ Made(deferredCurves, m)' = Made(deferredCurves, Len(Occurrences) + 1)'
        /\ Made(curves, m)' = Made(curves, Len(Occurrences) + 1)'
        /\ SameEdges(l)' = SameEdges(Len(deferredCurves))'
    BY <1>1, <1>3, <1>5 DEF Made, SameEdges
  <1> QED BY <1>1, <1>3, <1>4, <1>5, <1>6 DEF MadeInv

LEMMA NextMade ==
  ASSUME TypeInv, FacesInv, MadeInv, [Next]_vars
  PROVE  MadeInv'
  <1> USE DEF walkVars, meshVars, input
  <1>0. IInv /\ WalkInv /\ WireInv
    BY DEF TypeInv
  <1>1. CASE SkipEdge \/ FinishEdge
    BY <1>0, <1>1, SkipMade, FinishMade
  <1>2. CASE EdgesWalked \/ BoundaryDataFinalized
    BY <1>0, <1>2, WalkedMade, FinalizedMade
  <1>3. CASE EmitDeferredCurve \/ CurvesEmitted
    BY <1>3, EmitMade, EmittedMade
  <1>4. CASE EnterEdge \/ AliasNode
    <2>1. /\ step = "edges" /\ UNCHANGED <<shape, meshed, wireframe, deferredCurves, curves, step, at>>
      BY <1>4 DEF EnterEdge, AliasNode
    <2> QED BY <2>1, QuietMade
  <1>5. CASE WeldNode \/ NodesWelded \/ FaceEmitted \/ SkipFace \/ FacesEmitted \/ EmitTriangle \/ FinalizePoint
    <2>1. /\ {step, step'} \subseteq {"nodes", "triangles", "boundary"}
          /\ UNCHANGED <<shape, meshed, wireframe, deferredCurves, curves>>
      BY <1>5 DEF WeldNode, NodesWelded, FaceEmitted, SkipFace, FacesEmitted, EmitTriangle, FinalizePoint
    <2> QED BY <2>1, QuietMade
  <1>6. CASE CompactUnusedPoints
    <2>1. /\ {step, step'} \subseteq {"compact", "done"}
          /\ UNCHANGED <<shape, meshed, wireframe, deferredCurves, curves>>
      BY <1>6 DEF CompactUnusedPoints
    <2> QED BY <2>1, QuietMade
  <1>7. CASE CallMeshRoutine
    BY <1>0, <1>7, CallMade
  <1>8. CASE UNCHANGED weldVars
    <2>1. UNCHANGED <<shape, meshed, wireframe, deferredCurves, curves, step, at, next>>
      BY <1>8 DEF weldVars
    <2> QED BY <2>1, QuietMade
  <1>9. CASE MeshRoutine
    BY <1>1, <1>2, <1>3, <1>4, <1>5, <1>6, <1>9 DEF MeshRoutine, WeldStep
  <1> QED
    BY <1>7, <1>8, <1>9 DEF Next, Mesh, StopRemeshing, FindOverlaps, Remesh, Return, vars
---------------------------------------------------------------------------
\* A curve for an edge of a meshed face, from end to end.
IsWire(curve) ==
  \E f \in meshed : \E e \in FaceEdges(shape[f]) :
    /\ curve.edge = e.edge
    /\ curve.places = Phantoms(IF wireframe.sampling = "underlying" THEN Along(shape[f], e)
                               ELSE <<Head(Along(shape[f], e)), Last(Along(shape[f], e))>>)
    /\ curve.normals \in {0, Len(curve.places)}

ContentInv == NoCopies => \A m \in DOMAIN curves : IsWire(curves[m])

\* Without copies each face is the first with its triangulation.
LEMMA NoCopiesFacts ==
  ASSUME ShapeInv, NoCopies
  PROVE  CopiesAlike /\ \A f \in meshed : \A n : PlaceIn(f, n) = shape[f].places[n]
  <1>1. \A f \in meshed : First(f) = f
    <2>1. TAKE f \in meshed
    <2>2. First(f) \in meshed /\ shape[First(f)].tri = shape[f].tri
      BY FirstFacts
    <2> QED BY <2>2 DEF NoCopies
  <1>2. \A f \in meshed : \A n : PlaceIn(f, n) = shape[f].places[n]
    BY <1>1 DEF PlaceIn
  <1>3. ASSUME NEW f \in meshed, NEW g \in meshed, NEW d \in FaceEdges(shape[f]), NEW e \in FaceEdges(shape[g]),
               d.edge = e.edge, NEW k \in DOMAIN d.poly
        PROVE  shape[f].places[d.poly[k]] = shape[g].places[e.poly[k]]
    <2>1. f \in DOMAIN shape /\ g \in DOMAIN shape /\ shape \in Shapes
      BY DEF ShapeInv
    <2>2. Along(shape[f], d) = Along(shape[g], e)
      BY <1>3, <2>1, MeshAssumption
    <2>3. DOMAIN d.poly = DOMAIN e.poly
      <3>1. DOMAIN Along(shape[f], d) = DOMAIN d.poly
        BY DEF Along
      <3>2. DOMAIN Along(shape[g], e) = DOMAIN e.poly
        BY DEF Along
      <3> QED BY <2>2, <3>1, <3>2
    <2>4. Along(shape[f], d)[k] = shape[f].places[d.poly[k]]
      BY DEF Along
    <2>5. Along(shape[g], e)[k] = shape[g].places[e.poly[k]]
      BY <2>3 DEF Along
    <2> QED BY <2>2, <2>4, <2>5
  <1>4. CopiesAlike
    BY <1>2, <1>3 DEF CopiesAlike
  <1> QED BY <1>2, <1>4

LEMMA WiresKept ==
  ASSUME UNCHANGED <<shape, meshed, wireframe>>
  PROVE  NoCopies' = NoCopies /\ \A curve : IsWire(curve)' = IsWire(curve)
  BY DEF NoCopies, IsWire, FaceEdges, Phantoms, Along

LEMMA QuietContent ==
  ASSUME ContentInv, UNCHANGED <<shape, meshed, wireframe, curves>>
  PROVE  ContentInv'
  <1>1. PICK c : c = curves
    OBVIOUS
  <1>2. \A m : IsWire(c[m])' = IsWire(c[m])
    BY WiresKept
  <1>3. \A m : IsWire(curves[m])' = IsWire(c[m])'
    BY <1>1 DEF IsWire
  <1>4. \A m \in DOMAIN c : NoCopies => IsWire(c[m])
    BY <1>1 DEF ContentInv
  <1> QED BY <1>1, <1>2, <1>3, <1>4, WiresKept DEF ContentInv

\* One more curve.
LEMMA MoreContent ==
  ASSUME ContentInv, WireInv, UNCHANGED <<shape, meshed, wireframe>>, NEW x \in Wires,
         curves' = Append(curves, x), NoCopies => IsWire(x)
  PROVE  ContentInv'
  <1>1. PICK c, d : c = curves /\ d = curves'
    OBVIOUS
  <1>2. \A curve : IsWire(curve)' = IsWire(curve)
    BY WiresKept
  <1>3. \A m : IsWire(curves[m])' = IsWire(d[m])'
    BY <1>1 DEF IsWire
  <1>4. c \in Seq(Wires) /\ d = Append(c, x)
    BY <1>1 DEF WireInv
  <1>5. ASSUME NoCopies, NEW m \in DOMAIN d PROVE IsWire(d[m])
    <2>1. m \in 1..Len(c) \/ m = Len(c) + 1
      BY <1>4, Appended
    <2>2. CASE m \in 1..Len(c)
      <3>1. d[m] = c[m] /\ m \in DOMAIN c
        BY <1>4, <2>2, Appended
      <3> QED BY <1>1, <1>5, <3>1 DEF ContentInv
    <2>3. CASE m = Len(c) + 1
      BY <1>4, <1>5, <2>3, Appended
    <2> QED BY <2>1, <2>2, <2>3
  <1> QED BY <1>1, <1>2, <1>3, <1>5, WiresKept DEF ContentInv

LEMMA FinishContent ==
  ASSUME IInv, WalkInv, WireInv, ContentInv, FinishEdge
  PROVE  ContentInv'
  <1> DEFINE edge == EdgeAt(Occurrences[at]).edge
             wire == Resampled(edge, Along(shape[facePolys[1].face], facePolys[1]))
  <1>1. /\ facePolys # << >> /\ UNCHANGED <<shape, meshed, wireframe>>
        /\ \/ curves' = curves
           \/ wireframe.sampling # "underlying" /\ curves' = Append(curves, wire)
    BY DEF FinishEdge, input
  <1>2. PICK e \in FaceEdges(shape[facePolys[1].face]) :
           facePolys[1].face \in meshed /\ e.edge = edge /\ e.poly = facePolys[1].poly
    BY <1>1, FirstPoly DEF IInv
  <1>3. Along(shape[facePolys[1].face], facePolys[1]) = Along(shape[facePolys[1].face], e)
    BY <1>2 DEF Along
  <1>4. wireframe.sampling # "underlying" => IsWire(wire)
    BY <1>2, <1>3 DEF IsWire, Resampled
  <1>5. curves' \in Seq(Wires)
    BY <1>1, FinishEdgeCurves, TracesKept DEF IInv, WireInv
  <1> HIDE DEF wire
  <1>6. CASE curves' = curves
    BY <1>1, <1>6, QuietContent
  <1>7. CASE wireframe.sampling # "underlying" /\ curves' = Append(curves, wire)
    <2> DEFINE all == Wires \cup {wire}
    <2>1. curves \in Seq(all) /\ wire \in all
      BY DEF WireInv
    <2> HIDE DEF all
    <2>2. /\ DOMAIN curves' = 1..(Len(curves) + 1) /\ Len(curves) \in Nat
          /\ curves'[Len(curves) + 1] = wire
      BY <1>7, <2>1, Appended
    <2>3. wire \in Wires
      BY <1>5, <2>2
    <2> QED BY <1>1, <1>4, <1>7, <2>3, MoreContent
  <1> QED BY <1>1, <1>6, <1>7

\* What is deferred is at the places its edge has on the face.
LEMMA EmitContent ==
  ASSUME TypeInv, FacesInv, PlaceInv, MadeInv, ContentInv, EmitDeferredCurve
  PROVE  ContentInv'
  <1> DEFINE curve == deferredCurves[next]
  <1>1. /\ step = "curves" /\ next <= Len(deferredCurves) /\ UNCHANGED <<shape, meshed, wireframe>>
        /\ curves' = IF Len(Resolved(curve)) >= 2 THEN Append(curves, Deferred(curve)) ELSE curves
    BY DEF EmitDeferredCurve, input
  <1>2. /\ deferredCurves \in Seq(Traces) /\ curves \in Seq(Wires) /\ next \in Nat \ {0}
        /\ Len(deferredCurves) \in Nat
    BY DEF TypeInv, IInv, LoopInv, WireInv
  <1>3. curve \in Traces /\ deferredCurves # << >>
    BY <1>1, <1>2
  <1>4. PICK f \in meshed : \E e \in FaceEdges(shape[f]) : curve = Trace(f, e)
    BY <1>3 DEF Traces
  <1>5. PICK e \in FaceEdges(shape[f]) : curve = Trace(f, e)
    BY <1>4
  <1>6. Len(Resolved(curve)) >= 2
    BY <1>1, <1>5, ResolvedAll
  <1>7. wireframe.sampling = "underlying"
    BY <1>3 DEF MadeInv
  <1>8. f \in DOMAIN shape /\ shape \in Shapes
    BY DEF TypeInv, IInv, ShapeInv
  <1>9. ASSUME NoCopies PROVE Resolved(curve) = Along(shape[f], e)
    <2>1. CopiesAlike /\ \A n : PlaceIn(f, n) = shape[f].places[n]
      BY <1>9, NoCopiesFacts DEF TypeInv, IInv
    <2>2. /\ Resolved(curve) = [k \in 1..Len(e.poly) |-> points[nodeToCanonical[PointKey(f, e.poly[k])]]]
          /\ \A k \in 1..Len(e.poly) : PointKey(f, e.poly[k]) \in DOMAIN nodeToCanonical
      BY <1>1, <1>5, ResolvedAll
    <2>3. DOMAIN e.poly = 1..Len(e.poly) /\ \A k \in 1..Len(e.poly) : e.poly[k] \in FaceNodes(shape[f])
      BY <1>8, EdgeFacts
    <2>4. \A k \in 1..Len(e.poly) : points[nodeToCanonical[PointKey(f, e.poly[k])]] = shape[f].places[e.poly[k]]
      <3>1. TAKE k \in 1..Len(e.poly)
      <3>2. points[nodeToCanonical[PointKey(f, e.poly[k])]] = KeyPlace(PointKey(f, e.poly[k]))
        BY <1>1, <2>1, <2>2 DEF PlaceInv
      <3>3. KeyPlace(PointKey(f, e.poly[k])) = KeyPlace(Key(f, e.poly[k]))
        BY <1>8, <2>1, <2>3, KeyOfNode, ResolvedPlace DEF PointKey, TypeInv
      <3> QED BY <2>1, <3>2, <3>3, PlaceOfKey
    <2> QED BY <2>2, <2>3, <2>4 DEF Along
  <1>10. Deferred(curve).edge = e.edge
    BY <1>5 DEF Deferred, Trace
  <1>11. /\ Deferred(curve).places = Phantoms(Resolved(curve))
         /\ Deferred(curve).normals \in {0, Len(Deferred(curve).places)}
    BY DEF Deferred
  <1>12. NoCopies => IsWire(Deferred(curve))
    BY <1>7, <1>9, <1>10, <1>11 DEF IsWire
  <1>13. Deferred(curve) \in Wires
    <2>1. curves' \in Seq(Wires)
      BY <1>1, EmitCurves, TracesKept DEF TypeInv, WireInv
    <2> DEFINE x == Deferred(curve)
               all == Wires \cup {x}
    <2>2. curves \in Seq(all) /\ x \in all
      BY <1>2
    <2>3. curves' = Append(curves, x)
      BY <1>1, <1>6
    <2> HIDE DEF all, x
    <2>4. /\ DOMAIN curves' = 1..(Len(curves) + 1) /\ Len(curves) \in Nat
          /\ curves'[Len(curves) + 1] = x
      BY <2>2, <2>3, Appended
    <2> QED BY <2>1, <2>4 DEF x
  <1> HIDE DEF curve
  <1> QED BY <1>1, <1>6, <1>12, <1>13, MoreContent DEF TypeInv

LEMMA NextContent ==
  ASSUME TypeInv, FacesInv, PlaceInv, MadeInv, ContentInv, [Next]_vars
  PROVE  ContentInv'
  <1> USE DEF walkVars, meshVars, input
  <1>1. CASE FinishEdge
    BY <1>1, FinishContent DEF TypeInv
  <1>2. CASE EmitDeferredCurve
    BY <1>2, EmitContent
  <1>3. CASE SkipEdge \/ EnterEdge \/ AliasNode \/ EdgesWalked
    BY <1>3, QuietContent DEF SkipEdge, EnterEdge, AliasNode, EdgesWalked
  <1>4. CASE WeldNode \/ NodesWelded \/ FaceEmitted \/ SkipFace \/ FacesEmitted \/ EmitTriangle
    BY <1>4, QuietContent DEF WeldNode, NodesWelded, FaceEmitted, SkipFace, FacesEmitted, EmitTriangle
  <1>5. CASE FinalizePoint \/ BoundaryDataFinalized \/ CurvesEmitted \/ CompactUnusedPoints
    BY <1>5, QuietContent DEF FinalizePoint, BoundaryDataFinalized, CurvesEmitted, CompactUnusedPoints
  <1>6. CASE CallMeshRoutine
    BY <1>6 DEF CallMeshRoutine, WeldCall, MadeInv, ContentInv
  <1>7. CASE UNCHANGED weldVars
    BY <1>7, QuietContent DEF weldVars
  <1>8. CASE MeshRoutine
    BY <1>1, <1>2, <1>3, <1>4, <1>5, <1>8 DEF MeshRoutine, WeldStep
  <1> QED
    BY <1>6, <1>7, <1>8 DEF Next, Mesh, StopRemeshing, FindOverlaps, Remesh, Return, vars
---------------------------------------------------------------------------
\* The walk comes by an edge at the meshed faces it bounds.
LEMMA VisitsFacts ==
  ASSUME ShapeInv, NEW edge
  PROVE  /\ \A o \in Visits(edge) : o[1] \in meshed /\ EdgeAt(o) \in FaceEdges(shape[o[1]]) /\ EdgeAt(o).edge = edge
         /\ \A f \in meshed : \A e \in FaceEdges(shape[f]) : e.edge = edge =>
              \E o \in Visits(edge) : o[1] = f /\ EdgeAt(o) = e
  <1>1. ASSUME NEW o \in Visits(edge)
        PROVE  o[1] \in meshed /\ EdgeAt(o) \in FaceEdges(shape[o[1]]) /\ EdgeAt(o).edge = edge
    <2>1. PICK n \in DOMAIN Occurrences : o = Occurrences[n]
      BY <1>1 DEF Visits, Range
    <2>2. o[1] \in meshed /\ EdgeAt(o).edge = edge /\ EdgeAt(o).poly # << >>
      BY <1>1 DEF Visits
    <2> QED BY <2>1, <2>2, OccurrenceFacts DEF ShapeInv
  <1>2. ASSUME NEW f \in meshed, NEW e \in FaceEdges(shape[f]), e.edge = edge
        PROVE  \E o \in Visits(edge) : o[1] = f /\ EdgeAt(o) = e
    <2>1. PICK n \in DOMAIN Occurrences : Occurrences[n][1] = f /\ EdgeAt(Occurrences[n]) = e
      BY <1>2, OccurrenceFacts DEF ShapeInv
    <2>2. e.poly # << >>
      BY DEF FaceEdges
    <2>3. Occurrences[n] \in Visits(edge)
      BY <1>2, <2>1, <2>2 DEF Visits, Range
    <2> QED BY <2>1, <2>3
  <1> QED BY <1>1, <1>2

LEMMA BetweenShared ==
  ASSUME ShapeInv, NEW edge
  PROVE  Between(edge) <=> Shared(edge)
  <1> DEFINE F == {o[1] : o \in Visits(edge)}
  <1>1. \A f : f \in F <=> f \in meshed /\ \E e \in FaceEdges(shape[f]) : e.edge = edge
    BY VisitsFacts
  <1>2. Between(edge) <=> Cardinality(F) > 1
    BY DEF Between
  <1> HIDE DEF F
  <1>3. IsFiniteSet(F)
    <2>1. shape \in Shapes /\ meshed \subseteq DOMAIN shape
      BY DEF ShapeInv
    <2>2. DOMAIN shape = 1..Len(shape) /\ Len(shape) \in Nat
      BY <2>1, MeshAssumption
    <2>3. IsFiniteSet(1..Len(shape)) /\ F \subseteq 1..Len(shape)
      BY <1>1, <2>1, <2>2, FS_Interval
    <2> QED BY <2>3, FS_Subset
  <1>4. Shared(edge) <=> \E f, g \in F : f # g
    BY <1>1 DEF Shared
  <1>5. ASSUME NEW f \in F, NEW g \in F, f # g PROVE Cardinality(F) > 1
    <2>1. {f} \subseteq F /\ IsFiniteSet({f}) /\ Cardinality({f}) = 1
      BY FS_Singleton
    <2>2. Cardinality({f} \cup {g}) = 2 /\ {f} \cup {g} \subseteq F
      BY <1>5, <2>1, FS_AddElement
    <2>3. Cardinality({f} \cup {g}) <= Cardinality(F) /\ Cardinality(F) \in Nat
      BY <1>3, <2>2, FS_Subset, FS_CardinalityType
    <2> QED BY <2>2, <2>3
  <1>6. ASSUME Cardinality(F) > 1 PROVE \E f, g \in F : f # g
    <2>1. F # {}
      BY <1>6, FS_EmptySet
    <2>2. PICK f : f \in F
      BY <2>1
    <2>3. ASSUME F = {f} PROVE FALSE
      <3>1. Cardinality({f}) = 1
        BY FS_Singleton
      <3> QED BY <1>6, <2>3, <3>1
    <2> QED BY <2>2, <2>3
  <1> QED BY <1>2, <1>4, <1>5, <1>6

TracedInv == PlacedInv /\ MadeInv /\ ContentInv

LEMMA InitTraced == Init => TracedInv
  <1> SUFFICES ASSUME Init PROVE TracedInv
    OBVIOUS
  <1>1. ContentInv
    BY DEF Init, WeldInit, ContentInv
  <1> QED BY <1>1, InitPlaced, InitMade DEF TracedInv

LEMMA NextTraced == TracedInv /\ [Next]_vars => TracedInv'
  BY NextPlaced, NextMade, NextContent DEF TracedInv, PlacedInv

\* An edge has a curve exactly if it is traced.
LEMMA CurvesMade ==
  ASSUME TracedInv, step = "done", NEW edge \in Edges
  PROVE  CurvesOf(edge) # {} <=> Traced(edge)
  <1> DEFINE m == Len(Occurrences) + 1
  <1>1. ShapeInv
    BY DEF TracedInv, PlacedInv, TypeInv, IInv
  <1>2. Traced(edge) => Passed(edge, m)
    <2>1. \A n \in DOMAIN Occurrences : n < m
      BY <1>1, OccurrenceFacts DEF ShapeInv
    <2>2. Traced(edge) => \E f \in meshed : \E e \in FaceEdges(shape[f]) : e.edge = edge
      BY DEF Traced, Shared
    <2>3. \A f \in meshed : \A e \in FaceEdges(shape[f]) : \E n \in DOMAIN Occurrences : EdgeAt(Occurrences[n]) = e
      BY <1>1, OccurrenceFacts DEF ShapeInv
    <2> HIDE DEF m
    <2> QED BY <2>1, <2>2, <2>3 DEF Passed
  <1>3. CurvesOf(edge) # {} <=> HasCurve(curves, edge)
    BY DEF CurvesOf, HasCurve
  <1>4. CASE wireframe.sampling # "underlying"
    <2>1. Made(curves, m)
      BY <1>4 DEF TracedInv, MadeInv
    <2> QED BY <1>2, <1>3, <2>1 DEF Made
  <1>5. CASE wireframe.sampling = "underlying"
    <2>1. deferredCurves \in Seq(Traces) /\ curves \in Seq(Wires)
      BY DEF TracedInv, PlacedInv, TypeInv, WireInv
    <2>2. SameEdges(Len(deferredCurves)) /\ Made(deferredCurves, m)
      BY <1>5 DEF TracedInv, MadeInv
    <2>3. DOMAIN curves = DOMAIN deferredCurves /\ \A n \in DOMAIN curves : curves[n].edge = deferredCurves[n].edge
      BY <2>1, <2>2 DEF SameEdges
    <2>4. HasCurve(curves, edge) <=> HasCurve(deferredCurves, edge)
      BY <2>3 DEF HasCurve
    <2> QED BY <1>2, <1>3, <2>2, <2>4 DEF Made
  <1> QED BY <1>4, <1>5

\* A curve without its phantom ends is the run of its edge on a face.
LEMMA CurveAlong ==
  ASSUME TracedInv, NoCopies, NEW edge \in Edges, NEW n \in CurvesOf(edge)
  PROVE  \E o \in Visits(edge) :
           LET along == Along(shape[o[1]], EdgeAt(o)) IN
             /\ Inner(curves[n]) = IF wireframe.sampling = "underlying" THEN along
                                   ELSE <<Head(along), Last(along)>>
             /\ curves[n].normals \in {0, Len(curves[n].places)}
  <1> DEFINE curve == curves[n]
  <1>1. n \in DOMAIN curves /\ curve.edge = edge
    BY DEF CurvesOf
  <1>2. IsWire(curve) /\ ShapeInv
    BY <1>1 DEF TracedInv, ContentInv, PlacedInv, TypeInv, IInv
  <1> HIDE DEF curve
  <1>3. PICK f \in meshed : \E e \in FaceEdges(shape[f]) :
          /\ curve.edge = e.edge
          /\ curve.places = Phantoms(IF wireframe.sampling = "underlying" THEN Along(shape[f], e)
                                     ELSE <<Head(Along(shape[f], e)), Last(Along(shape[f], e))>>)
          /\ curve.normals \in {0, Len(curve.places)}
    BY <1>2 DEF IsWire
  <1>4. PICK e \in FaceEdges(shape[f]) :
          /\ curve.edge = e.edge
          /\ curve.places = Phantoms(IF wireframe.sampling = "underlying" THEN Along(shape[f], e)
                                     ELSE <<Head(Along(shape[f], e)), Last(Along(shape[f], e))>>)
          /\ curve.normals \in {0, Len(curve.places)}
    BY <1>3
  <1>5. PICK o \in Visits(edge) : o[1] = f /\ EdgeAt(o) = e
    BY <1>1, <1>2, <1>4, VisitsFacts DEF curve
  <1> DEFINE along == Along(shape[f], e)
             run == IF wireframe.sampling = "underlying" THEN along ELSE <<Head(along), Last(along)>>
  <1>6. run \in Seq(Places) /\ Head(run) \in Places /\ Last(run) \in Places
    <2>1. along \in Seq(Places) /\ Len(along) >= 2
      BY <1>2, AlongFacts DEF ShapeInv
    <2> HIDE DEF along
    <2>2. Head(along) \in Places /\ Last(along) \in Places
      BY <2>1 DEF Last
    <2>3. <<Head(along), Last(along)>> \in Seq(Places) /\ Len(<<Head(along), Last(along)>>) = 2
      BY <2>2
    <2>4. run \in Seq(Places) /\ Len(run) >= 2
      BY <2>1, <2>3
    <2> HIDE DEF run
    <2> QED BY <2>4 DEF Last
  <1>7. curve.places = Phantoms(run)
    BY <1>4
  <1> HIDE DEF run
  <1>8. Inner(curve) = run
    <2>1. CASE wireframe.type = "cubic"
      <3>1. Front(Tail(<<Head(run)>> \o run \o <<Last(run)>>)) = run
        BY <1>6, BetweenEnds
      <3> QED BY <1>7, <2>1, <3>1 DEF Inner, Phantoms
    <2>2. CASE wireframe.type # "cubic"
      BY <1>7, <2>2 DEF Inner, Phantoms
    <2> QED BY <2>1, <2>2
  <1> QED BY <1>4, <1>5, <1>8 DEF run, curve

\* The edges between two meshed faces have a curve (if it is sampled, those of which it can
\* be), and other edges have none; and a curve runs through the places of its edge, its ends
\* included, whether it was made on the walk or waited for the points.
THEOREM CurvesFollowEdges == Spec => []CurvesTraceEdges
  <1>1. TracedInv => CurvesTraceEdges
    <2> SUFFICES ASSUME TracedInv, step = "done", NoCopies, NEW edge \in Edges
                 PROVE  /\ CurvesOf(edge) # {} <=>
                             /\ Between(edge)
                             /\ wireframe.type # "none"
                             /\ wireframe.sampling = "underlying" \/ \E o \in Visits(edge) : EdgeAt(o).sampled
                        /\ \A n \in CurvesOf(edge) : \E o \in Visits(edge) :
                             LET along == Along(shape[o[1]], EdgeAt(o)) IN
                               /\ Inner(curves[n]) = IF wireframe.sampling = "underlying" THEN along
                                                     ELSE <<Head(along), Last(along)>>
                               /\ curves[n].normals \in {0, Len(curves[n].places)}
      BY DEF CurvesTraceEdges
    <2>1. ShapeInv
      BY DEF TracedInv, PlacedInv, TypeInv, IInv
    <2>2. Sampled(edge) <=> \E o \in Visits(edge) : EdgeAt(o).sampled
      BY <2>1, VisitsFacts DEF Sampled
    <2>3. Traced(edge) <=> /\ Between(edge)
                           /\ wireframe.type # "none"
                           /\ wireframe.sampling = "underlying" \/ \E o \in Visits(edge) : EdgeAt(o).sampled
      BY <2>1, <2>2, BetweenShared DEF Traced
    <2> QED BY <2>3, CurvesMade, CurveAlong
  <1> QED BY <1>1, InitTraced, NextTraced, PTL DEF Spec
---------------------------------------------------------------------------
\* What is followed from keys, as aliases are added.  A set of keys that no alias
\* leaves stands for all of them.
Closed(alias, S) == DOMAIN alias \subseteq S /\ \A k \in DOMAIN alias : alias[k] \in S
Ends(alias, key) == ResolveAlias(alias, key) \notin DOMAIN alias

LEMMA TrailIn ==
  ASSUME NEW alias, NEW S, Closed(alias, S), NEW key \in S
  PROVE  \E f \in [0..AliasSteps -> S] : IsTrail(f, alias, key) /\ ResolveAlias(alias, key) = f[AliasSteps]
  BY Trail DEF Closed

\* A key that is not aliased resolves to itself.
LEMMA RootItself ==
  ASSUME NEW alias, NEW S, Closed(alias, S), NEW key \in S, key \notin DOMAIN alias
  PROVE  ResolveAlias(alias, key) = key
  <1>1. key \in {key} /\ \A k \in {key} : k \in DOMAIN alias => alias[k] \in {key}
    OBVIOUS
  <1>2. ResolveAlias(alias, key) \in {key}
    BY <1>1, ResolveStays
  <1> QED BY <1>2

\* A key resolves to what its alias resolves to.
LEMMA RootOfAlias ==
  ASSUME NEW alias, NEW S, Closed(alias, S), NEW key \in DOMAIN alias, Ends(alias, key)
  PROVE  ResolveAlias(alias, alias[key]) = ResolveAlias(alias, key)
  <1>1. key \in S /\ alias[key] \in S
    BY DEF Closed
  <1>2. PICK N \in Nat : N = AliasSteps
    BY MeshAssumption
  <1>3. PICK f \in [0..AliasSteps -> S] : IsTrail(f, alias, key) /\ ResolveAlias(alias, key) = f[AliasSteps]
    BY <1>1, TrailIn
  <1>4. PICK g \in [0..AliasSteps -> S] :
          IsTrail(g, alias, alias[key]) /\ ResolveAlias(alias, alias[key]) = g[AliasSteps]
    BY <1>1, TrailIn
  <1>5. /\ f[0] = key /\ \A n \in 1..N : f[n] = Step(alias, f[n - 1])
        /\ g[0] = alias[key] /\ \A n \in 1..N : g[n] = Step(alias, g[n - 1])
    BY <1>2, <1>3, <1>4 DEF IsTrail
  <1> DEFINE S1 == {n \in 0..N : g[n] = Step(alias, f[n])}
  <1>6. 0 \in S1
    BY <1>1, <1>5 DEF Step
  <1>7. \A n \in 1..N : n - 1 \in S1 => n \in S1
    BY <1>5
  <1> HIDE DEF S1
  <1>8. N \in S1
    BY <1>6, <1>7, RangeInduction
  <1>9. g[N] = Step(alias, f[N]) /\ f[N] \notin DOMAIN alias
    BY <1>2, <1>3, <1>8 DEF S1, Ends
  <1> QED BY <1>2, <1>3, <1>4, <1>9 DEF Step

\* An alias that is added takes all keys that resolved to the one to the other.
LEMMA RootAfter ==
  ASSUME NEW alias, NEW S, Closed(alias, S), NEW other \in S, NEW canon \in S, other # canon,
         other \notin DOMAIN alias, canon \notin DOMAIN alias,
         NEW key \in S, Ends(Mapped(alias, other, canon), key)
  PROVE  ResolveAlias(Mapped(alias, other, canon), key) =
           IF ResolveAlias(alias, key) = other THEN canon ELSE ResolveAlias(alias, key)
  <1> DEFINE after == Mapped(alias, other, canon)
  <1>1. /\ DOMAIN after = DOMAIN alias \cup {other} /\ after[other] = canon
        /\ \A k \in DOMAIN alias : after[k] = alias[k]
    BY DEF Mapped
  <1>2. Closed(after, S)
    BY <1>1 DEF Closed
  <1>3. PICK N \in Nat : N = AliasSteps
    BY MeshAssumption
  <1>4. Ends(after, key)
    OBVIOUS
  <1> HIDE DEF after
  <1>5. PICK f \in [0..AliasSteps -> S] : IsTrail(f, alias, key) /\ ResolveAlias(alias, key) = f[AliasSteps]
    BY TrailIn
  <1>6. PICK g \in [0..AliasSteps -> S] : IsTrail(g, after, key) /\ ResolveAlias(after, key) = g[AliasSteps]
    BY <1>2, TrailIn
  <1>7. /\ f[0] = key /\ \A n \in 1..N : f[n] = Step(alias, f[n - 1])
        /\ g[0] = key /\ \A n \in 1..N : g[n] = Step(after, g[n - 1])
    BY <1>3, <1>5, <1>6 DEF IsTrail
  <1> DEFINE S1 == {n \in 0..N : g[n] = f[n] \/ (f[n] = other /\ g[n] = canon)}
  <1>8. 0 \in S1
    BY <1>7
  <1>9. ASSUME NEW n \in 1..N, n - 1 \in S1 PROVE n \in S1
    <2>1. f[n] = Step(alias, f[n - 1]) /\ g[n] = Step(after, g[n - 1]) /\ n \in 0..N
      BY <1>7
    <2>2. CASE g[n - 1] = f[n - 1]
      <3>1. CASE f[n - 1] = other
        <4>1. f[n] = other /\ g[n] = canon
          BY <1>1, <2>1, <2>2, <3>1 DEF Step
        <4> QED BY <2>1, <4>1
      <3>2. CASE f[n - 1] # other
        <4>1. f[n] = g[n]
          BY <1>1, <2>1, <2>2, <3>2 DEF Step
        <4> QED BY <2>1, <4>1
      <3> QED BY <3>1, <3>2
    <2>3. CASE f[n - 1] = other /\ g[n - 1] = canon
      <3>1. f[n] = other /\ g[n] = canon
        BY <1>1, <2>1, <2>3 DEF Step
      <3> QED BY <2>1, <3>1
    <2> QED BY <1>9, <2>2, <2>3
  <1> HIDE DEF S1
  <1>10. N \in S1
    BY <1>8, <1>9, RangeInduction
  <1>11. g[N] = f[N] \/ (f[N] = other /\ g[N] = canon)
    BY <1>10 DEF S1
  <1>12. g[N] # other
    BY <1>1, <1>3, <1>4, <1>6 DEF Ends
  <1>13. ResolveAlias(after, key) = IF ResolveAlias(alias, key) = other THEN canon ELSE ResolveAlias(alias, key)
    BY <1>3, <1>5, <1>6, <1>11, <1>12
  <1> QED BY <1>13 DEF after
---------------------------------------------------------------------------
\* No cycle of aliases: keys have ranks that fall from alias to alias.
Ranked(r, alias) == \A k \in DOMAIN alias : r[alias[k]] < r[k]

LEMMA RankAfter ==
  ASSUME NEW alias, NEW S, Closed(alias, S), NEW other \in S, NEW canon \in S, other # canon,
         other \notin DOMAIN alias, canon \notin DOMAIN alias, \A k \in S : Ends(alias, k),
         NEW r \in [S -> Nat], Ranked(r, alias)
  PROVE  \E q \in [S -> Nat] : Ranked(q, Mapped(alias, other, canon))
  <1> DEFINE root(k) == ResolveAlias(alias, k)
             q == [k \in S |-> IF root(k) = other THEN r[k] + r[canon] + 1 ELSE r[k]]
             after == Mapped(alias, other, canon)
  <1>1. /\ DOMAIN after = DOMAIN alias \cup {other} /\ after[other] = canon
        /\ \A k \in DOMAIN alias : after[k] = alias[k]
    BY DEF Mapped
  <1>2. root(other) = other /\ root(canon) = canon
    BY RootItself
  <1>3. \A k \in DOMAIN alias : root(alias[k]) = root(k)
    BY RootOfAlias DEF Closed
  <1> HIDE DEF root, after
  <1>4. q \in [S -> Nat]
    OBVIOUS
  <1>5. ASSUME NEW k \in DOMAIN alias PROVE q[after[k]] < q[k]
    <2>1. k \in S /\ alias[k] \in S /\ r[alias[k]] < r[k] /\ after[k] = alias[k]
      BY <1>1 DEF Closed, Ranked
    <2> QED BY <1>3, <2>1
  <1>6. q[after[other]] < q[other]
    BY <1>1, <1>2
  <1>7. Ranked(q, after)
    BY <1>1, <1>5, <1>6 DEF Ranked
  <1> HIDE DEF q
  <1> QED BY <1>4, <1>7 DEF after

\* Among few keys a trail without a cycle is short.
LEMMA ShortTrail ==
  ASSUME NEW alias, NEW S, Closed(alias, S), NEW r \in [S -> Nat], Ranked(r, alias),
         NEW T \in SUBSET S, IsFiniteSet(T), Cardinality(T) <= AliasSteps + 1,
         \A k \in T : k \in DOMAIN alias => alias[k] \in T, NEW key \in T
  PROVE  Ends(alias, key)
  <1>1. PICK N \in Nat : N = AliasSteps
    BY MeshAssumption
  <1>2. PICK f \in [0..N -> T] : IsTrail(f, alias, key) /\ ResolveAlias(alias, key) = f[N]
    BY <1>1, Trail
  <1>3. \A n \in 1..N : f[n] = Step(alias, f[n - 1])
    BY <1>1, <1>2 DEF IsTrail
  <1> SUFFICES ASSUME f[N] \in DOMAIN alias PROVE FALSE
    BY <1>2 DEF Ends
  <1> DEFINE S1 == {n \in 0..N : f[N - n] \in DOMAIN alias}
  <1>4. 0 \in S1
    OBVIOUS
  <1>5. ASSUME NEW n \in 1..N, n - 1 \in S1 PROVE n \in S1
    <2>1. N - n \in 0..N /\ N - n + 1 \in 1..N /\ N - (n - 1) = N - n + 1 /\ N - n + 1 - 1 = N - n
      OBVIOUS
    <2>2. f[N - n + 1] = Step(alias, f[N - n])
      BY <1>3, <2>1
    <2>3. f[N - n + 1] \in DOMAIN alias
      BY <1>5, <2>1
    <2>4. f[N - n] \in DOMAIN alias
      BY <2>2, <2>3 DEF Step
    <2> QED BY <2>4
  <1> HIDE DEF S1
  <1>6. 0..N \subseteq S1
    BY <1>4, <1>5, RangeInduction
  <1>7. \A n \in 0..N : f[n] \in DOMAIN alias
    <2>1. TAKE n \in 0..N
    <2>2. N - n \in 0..N /\ N - (N - n) = n
      OBVIOUS
    <2> QED BY <1>6, <2>2 DEF S1
  <1> DEFINE M == N + 1
             g == [n \in 0..M |-> IF n = M THEN alias[f[N]] ELSE f[n]]
             h == [n \in 0..M |-> r[g[n]]]
  <1>8. g \in [0..M -> T]
    BY <1>7
  <1>9. \A n \in 1..M : g[n] = alias[g[n - 1]] /\ g[n - 1] \in DOMAIN alias
    <2>1. TAKE n \in 1..M
    <2>2. CASE n = M
      <3>1. n - 1 = N /\ n - 1 \in 0..M /\ n - 1 # M /\ n \in 0..M /\ N \in 0..N
        BY <2>2
      <3>2. g[n] = alias[f[N]] /\ g[n - 1] = f[n - 1]
        BY <2>2, <3>1
      <3> QED BY <1>7, <3>1, <3>2
    <2>3. CASE n # M
      <3>1. n \in 1..N /\ n - 1 \in 0..N /\ n - 1 # M /\ n \in 0..M /\ n - 1 \in 0..M
        BY <2>3
      <3>2. g[n] = f[n] /\ g[n - 1] = f[n - 1]
        BY <2>3, <3>1
      <3>3. f[n] = alias[f[n - 1]]
        BY <1>3, <1>7, <3>1 DEF Step
      <3> QED BY <1>7, <3>1, <3>2, <3>3
    <2> QED BY <2>2, <2>3
  <1> HIDE DEF g
  <1>10. \A n \in 0..M : g[n] \in T /\ g[n] \in S /\ h[n] \in Nat
    BY <1>8
  <1>11. \A n \in 1..M : h[n] < h[n - 1]
    <2>1. TAKE n \in 1..M
    <2>2. n \in 0..M /\ n - 1 \in 0..M
      OBVIOUS
    <2>3. h[n] = r[g[n]] /\ h[n - 1] = r[g[n - 1]]
      BY <2>2
    <2>4. r[alias[g[n - 1]]] < r[g[n - 1]]
      BY <1>9 DEF Ranked
    <2> QED BY <1>9, <2>3, <2>4
  <1> HIDE DEF h
  <1>12. \A m \in 0..M : \A n \in 0..M : m < n => h[n] < h[m]
    <2>1. TAKE m \in 0..M
    <2> DEFINE U == {n \in 0..M : m < n => h[n] < h[m]}
    <2>2. 0 \in U
      OBVIOUS
    <2>3. ASSUME NEW n \in 1..M, n - 1 \in U PROVE n \in U
      <3>1. h[n] < h[n - 1] /\ h[n] \in Nat /\ h[n - 1] \in Nat /\ h[m] \in Nat
        BY <1>10, <1>11
      <3>2. m < n => m = n - 1 \/ m < n - 1
        OBVIOUS
      <3>3. m < n - 1 => h[n - 1] < h[m]
        BY <2>3
      <3>4. CASE m = n - 1
        BY <3>1, <3>4
      <3>5. CASE m < n - 1
        BY <3>1, <3>3, <3>5
      <3>6. CASE ~ (m < n)
        BY <3>6
      <3> QED BY <3>2, <3>4, <3>5, <3>6
    <2>4. M \in Nat
      OBVIOUS
    <2> HIDE DEF U, M
    <2>5. 0..M \subseteq U
      BY <2>2, <2>3, <2>4, RangeInduction
    <2> QED BY <2>5 DEF U
  <1>13. \A m, n \in 0..M : g[m] = g[n] => m = n
    <2>1. \A m \in 0..M : h[m] = r[g[m]]
      BY DEF h
    <2> SUFFICES ASSUME NEW m \in 0..M, NEW n \in 0..M, g[m] = g[n], m < n PROVE FALSE
      OBVIOUS
    <2> QED BY <1>10, <1>12, <2>1
  <1>14. g \in Injection(0..M, T)
    BY <1>8, <1>13 DEF Injection, IsInjective
  <1>15. Cardinality(0..M) <= Cardinality(T)
    BY <1>14, FS_Injection
  <1>16. Cardinality(0..M) = N + 2
    BY FS_Interval
  <1>17. Cardinality(T) \in Nat /\ Cardinality(T) <= N + 1
    BY <1>1, FS_CardinalityType
  <1> QED BY <1>15, <1>16, <1>17
---------------------------------------------------------------------------
\* The keys of meshed faces, which are few at a place where copies are alike.
MeshedKeys == UNION {{Key(f, n) : n \in FaceNodes(shape[f])} : f \in meshed}
FewKeys == CopiesAlike /\ PlacesNarrow

\* Only keys of meshed faces are aliased, and their aliases make no cycle: the key they
\* are aliased to is not aliased itself.
ChainInv ==
  /\ Closed(nodeAlias, MeshedKeys)
  /\ adj # 1 => resolvedCanon \in MeshedKeys /\ (FewKeys => resolvedCanon \notin DOMAIN nodeAlias)
  /\ FewKeys => \E r \in [MeshedKeys -> Nat] : Ranked(r, nodeAlias)

\* A shape has finitely many keys.
LEMMA FewAt ==
  ASSUME ShapeInv
  PROVE  /\ IsFiniteSet(MeshedKeys)
         /\ \A place : NodesAt(place) \subseteq MeshedKeys /\ IsFiniteSet(NodesAt(place))
  <1> DEFINE keys(f) == {<<shape[f].tri, n>> : n \in FaceNodes(shape[f])}
             upto(m) == UNION {keys(f) : f \in 1..m}
  <1>1. shape \in Shapes /\ meshed \subseteq DOMAIN shape
    BY DEF ShapeInv
  <1>2. PICK L \in Nat : L = Len(shape) /\ DOMAIN shape = 1..L
    BY <1>1, MeshAssumption
  <1>3. ASSUME NEW f \in 1..L PROVE IsFiniteSet(keys(f))
    <2>1. PICK K \in Nat : FaceNodes(shape[f]) = 1..K
      BY <1>1, <1>2, FaceFacts
    <2> DEFINE h == [n \in 1..K |-> <<shape[f].tri, n>>]
    <2>2. h \in Surjection(1..K, keys(f))
      BY <2>1 DEF Surjection
    <2>3. IsFiniteSet(1..K)
      BY FS_Interval
    <2> HIDE DEF h, keys
    <2> QED BY <2>2, <2>3, FS_Surjection
  <1> HIDE DEF keys
  <1> DEFINE S == {m \in 0..L : IsFiniteSet(upto(m))}
  <1>4. 0 \in S
    <2>1. upto(0) = {}
      OBVIOUS
    <2> QED BY <2>1, FS_EmptySet
  <1>5. ASSUME NEW m \in 1..L, m - 1 \in S PROVE m \in S
    <2>1. 1..m = 1..(m - 1) \cup {m} /\ m \in 0..L
      OBVIOUS
    <2>2. upto(m) = upto(m - 1) \cup keys(m)
      BY <2>1
    <2>3. IsFiniteSet(keys(m))
      BY <1>3
    <2>4. IsFiniteSet(upto(m - 1))
      BY <1>5
    <2> HIDE DEF upto
    <2>5. IsFiniteSet(upto(m - 1) \cup keys(m))
      BY <2>3, <2>4, FS_Union
    <2> QED BY <2>1, <2>2, <2>5
  <1> HIDE DEF S
  <1>6. 0..L \subseteq S
    BY <1>4, <1>5, RangeInduction
  <1>7. L \in S
    BY <1>6
  <1>8. IsFiniteSet(upto(L))
    BY <1>7 DEF S
  <1>9. MeshedKeys \subseteq upto(L)
    BY <1>1, <1>2 DEF MeshedKeys, Key, keys
  <1> HIDE DEF upto
  <1>10. IsFiniteSet(MeshedKeys)
    BY <1>8, <1>9, FS_Subset
  <1>11. \A place : NodesAt(place) \subseteq MeshedKeys
    BY DEF NodesAt, MeshedKeys
  <1>12. \A place : IsFiniteSet(NodesAt(place))
    BY <1>10, <1>11, FS_Subset
  <1> QED BY <1>10, <1>11, <1>12

\* Where aliases make no cycle and few keys share a place, they are followed to the end:
\* aliases stay at one place.
LEMMA ChainsFollowed ==
  ASSUME ShapeInv, PlaceInv, ChainInv, FewKeys
  PROVE  AliasesFollowed
  <1>1. PICK r \in [MeshedKeys -> Nat] : Ranked(r, nodeAlias)
    BY DEF ChainInv
  <1>2. Closed(nodeAlias, MeshedKeys)
    BY DEF ChainInv
  <1>3. ASSUME NEW key \in MeshedKeys PROVE Ends(nodeAlias, key)
    <2>1. PICK f \in meshed : \E n \in FaceNodes(shape[f]) : key = Key(f, n)
      BY DEF MeshedKeys
    <2>2. PICK n \in FaceNodes(shape[f]) : key = Key(f, n)
      BY <2>1
    <2> DEFINE place == PlaceIn(f, n)
               T == NodesAt(place)
    <2>3. KeyPlace(key) = place
      BY <2>2, PlaceOfKey
    <2>4. \A k : k \in T <=> k \in MeshedKeys /\ KeyPlace(k) = place
      <3>1. \A k : k \in T <=> \E g \in meshed : \E m \in FaceNodes(shape[g]) :
                                 k = Key(g, m) /\ PlaceIn(g, m) = place
        BY DEF NodesAt
      <3>2. \A k : k \in MeshedKeys <=> \E g \in meshed : \E m \in FaceNodes(shape[g]) : k = Key(g, m)
        BY DEF MeshedKeys
      <3>3. \A g, m : KeyPlace(Key(g, m)) = PlaceIn(g, m)
        BY PlaceOfKey
      <3> QED BY <3>1, <3>2, <3>3
    <2>5. T \in SUBSET MeshedKeys /\ IsFiniteSet(T)
      BY FewAt
    <2>6. Cardinality(T) <= AliasSteps + 1
      BY DEF FewKeys, PlacesNarrow
    <2> HIDE DEF T
    <2>7. \A k \in T : k \in DOMAIN nodeAlias => nodeAlias[k] \in T
      BY <1>2, <2>4 DEF Closed, PlaceInv, FewKeys
    <2>8. key \in T
      BY <2>3, <2>4
    <2> QED BY <1>1, <1>2, <2>5, <2>6, <2>7, <2>8, ShortTrail
  <1>4. ASSUME NEW key, key \notin MeshedKeys PROVE ResolveAlias(nodeAlias, key) \notin DOMAIN nodeAlias
    <2>1. key \notin DOMAIN nodeAlias
      BY <1>2, <1>4 DEF Closed
    <2>2. key \in {key} /\ \A k \in {key} : k \in DOMAIN nodeAlias => nodeAlias[k] \in {key}
      BY <2>1
    <2>3. ResolveAlias(nodeAlias, key) \in {key}
      BY <2>2, ResolveStays
    <2> QED BY <2>1, <2>3
  <1> QED BY <1>3, <1>4 DEF AliasesFollowed, Ends

\* The keys of the edge the walk is on are of meshed faces.
LEMMA MeshedKeyOf ==
  ASSUME NEW f \in meshed, NEW n \in FaceNodes(shape[f])
  PROVE  Key(f, n) \in MeshedKeys
  BY DEF MeshedKeys

LEMMA MeshedKeysIn ==
  ASSUME ShapeInv
  PROVE  MeshedKeys \subseteq Keys
  BY DEF ShapeInv, MeshedKeys, Keys, Key, Faces

LEMMA MeshedKept ==
  ASSUME UNCHANGED <<shape, meshed>>
  PROVE  MeshedKeys' = MeshedKeys /\ FewKeys' = FewKeys
  <1>1. CopiesAlike' = CopiesAlike /\ \A f, n : PlaceIn(f, n)' = PlaceIn(f, n)
    BY InputKept
  <1>2. MeshedKeys' = MeshedKeys
    BY DEF MeshedKeys, Key, FaceNodes
  <1>3. \A place : NodesAt(place)' = NodesAt(place)
    BY <1>1 DEF NodesAt, Key, FaceNodes
  <1>4. PlacesNarrow' = PlacesNarrow
    BY <1>1, <1>3 DEF PlacesNarrow, FaceNodes
  <1> QED BY <1>1, <1>2, <1>4 DEF FewKeys

\* The two keys that an alias is about to join.
LEMMA JoinedKeys ==
  ASSUME ShapeInv, LoopInv, WalkInv, ChainInv, AliasNode
  PROVE  LET canon == PolyKey(1, next)
             other == PolyKey(adj, next)
         IN /\ canon \in MeshedKeys /\ ResolveAlias(nodeAlias, canon) \in MeshedKeys
            /\ other \in MeshedKeys /\ ResolveAlias(nodeAlias, other) \in MeshedKeys
            /\ 1 \in DOMAIN facePolys /\ adj \in DOMAIN facePolys /\ next \in 1..NumNodes
  <1>1. facePolys # << >> /\ next <= NumNodes
    BY DEF AliasNode
  <1>2. 1 \in DOMAIN facePolys /\ adj \in DOMAIN facePolys /\ next \in 1..NumNodes
    BY <1>1, AtEdge DEF WalkInv, LoopInv
  <1>3. /\ facePolys[1].face \in meshed
        /\ facePolys[1].poly[next] \in FaceNodes(shape[facePolys[1].face])
        /\ facePolys[adj].face \in meshed
        /\ facePolys[adj].poly[next] \in FaceNodes(shape[facePolys[adj].face])
    BY <1>1, <1>2, PolyKeyFacts
  <1>4. PolyKey(1, next) \in MeshedKeys /\ PolyKey(adj, next) \in MeshedKeys
    BY <1>3, MeshedKeyOf DEF PolyKey
  <1>5. \A k \in MeshedKeys : k \in DOMAIN nodeAlias => nodeAlias[k] \in MeshedKeys
    BY DEF ChainInv, Closed
  <1> QED BY <1>2, <1>4, <1>5, ResolveStays

LEMMA AliasNodeChains ==
  ASSUME ShapeInv, LoopInv, WalkInv, PlaceInv, ChainInv, AliasNode
  PROVE  ChainInv'
  <1> DEFINE other == ResolveAlias(nodeAlias, PolyKey(adj, next))
  <1>1. /\ resolvedCanon' = IF adj = 1 THEN other ELSE resolvedCanon
        /\ nodeAlias' = IF other = resolvedCanon' THEN nodeAlias ELSE Mapped(nodeAlias, other, resolvedCanon')
        /\ UNCHANGED <<shape, meshed>>
    BY DEF AliasNode, input
  <1>2. PICK canon : canon = resolvedCanon'
    OBVIOUS
  <1>3. MeshedKeys' = MeshedKeys /\ FewKeys' = FewKeys
    BY <1>1, MeshedKept
  <1>4. Closed(nodeAlias, MeshedKeys)
    BY DEF ChainInv
  <1>5. ASSUME FewKeys PROVE \A k \in MeshedKeys : Ends(nodeAlias, k)
    BY <1>5, ChainsFollowed, MeshedKeysIn DEF AliasesFollowed, Ends
  <1>6. other \in MeshedKeys /\ (FewKeys => other \notin DOMAIN nodeAlias)
    BY <1>5, JoinedKeys DEF Ends
  <1> HIDE DEF other
  <1>7. canon \in MeshedKeys /\ (FewKeys => canon \notin DOMAIN nodeAlias)
    BY <1>1, <1>2, <1>6 DEF ChainInv
  <1>8. CASE other = canon
    BY <1>1, <1>2, <1>3, <1>7, <1>8 DEF ChainInv
  <1>9. CASE other # canon
    <2>1. nodeAlias' = Mapped(nodeAlias, other, canon)
      BY <1>1, <1>2, <1>9
    <2>2. Closed(Mapped(nodeAlias, other, canon), MeshedKeys)
      BY <1>4, <1>6, <1>7 DEF Closed, Mapped
    <2>3. ASSUME FewKeys PROVE \E q \in [MeshedKeys -> Nat] : Ranked(q, Mapped(nodeAlias, other, canon))
      <3>1. PICK r \in [MeshedKeys -> Nat] : Ranked(r, nodeAlias)
        BY <2>3 DEF ChainInv
      <3> QED BY <1>4, <1>5, <1>6, <1>7, <1>9, <2>3, <3>1, RankAfter
    <2>4. FewKeys => canon \notin DOMAIN nodeAlias'
      BY <1>7, <1>9, <2>1 DEF Mapped
    <2> QED BY <1>2, <1>3, <1>7, <2>1, <2>2, <2>3, <2>4 DEF ChainInv
  <1> QED BY <1>8, <1>9

LEMMA QuietChains ==
  ASSUME ChainInv, UNCHANGED <<shape, meshed, adj, resolvedCanon, nodeAlias>>
  PROVE  ChainInv'
  BY MeshedKept DEF ChainInv

LEMMA NextChains ==
  ASSUME TypeInv, FacesInv, PlaceInv, ChainInv, [Next]_vars
  PROVE  ChainInv'
  <1>1. CASE CallMeshRoutine
    <2>1. step = "idle" /\ nodeAlias' = nodeAlias /\ adj' = 1
      BY <1>1 DEF CallMeshRoutine, WeldCall, walkVars, TypeInv, WalkInv
    <2>2. DOMAIN nodeAlias' = {}
      BY <2>1 DEF FacesInv
    <2>3. Closed(nodeAlias, MeshedKeys)'
      BY <2>2 DEF Closed
    <2>4. (\E r \in [MeshedKeys -> Nat] : Ranked(r, nodeAlias))'
      <3> DEFINE r == [k \in MeshedKeys' |-> 0]
      <3>1. r \in [MeshedKeys' -> Nat]
        OBVIOUS
      <3>2. \A k \in DOMAIN nodeAlias' : r[nodeAlias'[k]] < r[k]
        BY <2>2
      <3> HIDE DEF r
      <3> QED BY <3>1, <3>2 DEF Ranked
    <2> QED BY <2>1, <2>3, <2>4 DEF ChainInv
  <1>2. CASE AliasNode
    BY <1>2, AliasNodeChains DEF TypeInv, IInv
  <1>3. CASE UNCHANGED <<shape, meshed, adj, resolvedCanon, nodeAlias>>
    BY <1>3, QuietChains
  <1>4. CASE MeshRoutine
    BY <1>2, <1>3, <1>4 DEF MeshRoutine, WeldStep, SkipEdge, EnterEdge, FinishEdge, EdgesWalked, WeldNode,
      NodesWelded, EmitTriangle, FaceEmitted, SkipFace, FacesEmitted, FinalizePoint, BoundaryDataFinalized,
      EmitDeferredCurve, CurvesEmitted, CompactUnusedPoints, input, walkVars
  <1>5. CASE UNCHANGED weldVars
    BY <1>3, <1>5 DEF weldVars, input, walkVars
  <1> QED
    BY <1>1, <1>4, <1>5 DEF Next, Mesh, StopRemeshing, FindOverlaps, Remesh, Return, vars

LEMMA InitChains == Init => ChainInv
  <1> SUFFICES ASSUME Init PROVE ChainInv
    OBVIOUS
  <1>1. DOMAIN nodeAlias = {}
    BY DEF Init, WeldInit
  <1>2. \E r \in [MeshedKeys -> Nat] : Ranked(r, nodeAlias)
    <2> DEFINE r == [k \in MeshedKeys |-> 0]
    <2>1. r \in [MeshedKeys -> Nat]
      OBVIOUS
    <2>2. Ranked(r, nodeAlias)
      BY <1>1 DEF Ranked
    <2> HIDE DEF r
    <2> QED BY <2>1, <2>2
  <1>3. adj = 1
    BY DEF Init, WeldInit
  <1> QED BY <1>1, <1>2, <1>3 DEF ChainInv, Closed

LEMMA ChainInvariance == Spec => []ChainInv
  <1>1. PlacedInv /\ ChainInv /\ [Next]_vars => ChainInv'
    BY NextChains DEF PlacedInv
  <1> QED BY <1>1, InitChains, PlacedInvariance, PTL DEF Spec

\* Where copies are alike and no place has more nodes than the code follows aliases (and
\* one), every alias is followed to its end: the limit of resolveAlias is only met where
\* more faces than that meet.
THEOREM LimitSuffices == Spec => [](CopiesAlike /\ PlacesNarrow => AliasesFollowed)
  <1>1. PlacedInv /\ ChainInv => (CopiesAlike /\ PlacesNarrow => AliasesFollowed)
    BY ChainsFollowed DEF PlacedInv, TypeInv, IInv, FewKeys
  <1> QED BY <1>1, ChainInvariance, PlacedInvariance, PTL
---------------------------------------------------------------------------
\* Visited from one face, an edge has the polygon of that visit there and its own on
\* each other face.
LEMMA PolysVisited ==
  ASSUME shape \in Shapes, NEW m \in DOMAIN Occurrences, NEW q \in DOMAIN Occurrences,
         EdgeAt(Occurrences[q]).edge = EdgeAt(Occurrences[m]).edge, Occurrences[q][1] \in meshed,
         PolyAt(m, q).poly # << >>
  PROVE  \E n \in DOMAIN FacePolys(Occurrences[m]) : FacePolys(Occurrences[m])[n] = PolyAt(m, q)
  <1> DEFINE v == [n \in 1..Len(Occurrences) |-> PolyAt(m, n)]
             polys == FacePolys(Occurrences[m])
  <1>1. IsKept(polys, v, Len(Occurrences), SameEdge(m))
    BY PolysKept
  <1>2. DOMAIN Occurrences = 1..Len(Occurrences)
    BY OccurrenceFacts
  <1>3. q \in SameEdge(m) /\ v[q] = PolyAt(m, q)
    BY <1>2 DEF SameEdge
  <1> HIDE DEF v, polys
  <1>4. DOMAIN polys = 1..Len(polys)
    BY <1>1 DEF IsKept
  <1>5. PICK n \in 1..Len(polys) : polys[n] = v[q]
    BY <1>1, <1>3 DEF IsKept
  <1> QED BY <1>3, <1>4, <1>5 DEF polys
---------------------------------------------------------------------------
\* The nodes at one position of the polygons at an edge resolve to one key: on the edges
\* the walk has passed, and on the edge it is on as far as it has come.
RootOn(p, k) == PointKey(p.face, p.poly[k])
EdgeWelded(m) ==
  LET polys == FacePolys(Occurrences[m]) IN
    \A n \in DOMAIN polys : \A k \in DOMAIN polys[n].poly : RootOn(polys[n], k) = RootOn(polys[1], k)
WeldedUpto(n) == \A m \in DOMAIN Occurrences : m < n => EdgeWelded(m)
WeldedHere ==
  /\ adj # 1 => resolvedCanon = ResolveAlias(nodeAlias, PolyKey(1, next))
  /\ \A n \in DOMAIN facePolys : \A k \in 1..NumNodes :
       k < next \/ (k = next /\ n < adj) => RootOn(facePolys[n], k) = RootOn(facePolys[1], k)

WeldedInv ==
  /\ step = "idle" => at = 1
  /\ step = "edges" => WeldedUpto(at)
  /\ step \notin {"idle", "edges"} => WeldedUpto(Len(Occurrences) + 1)
  /\ facePolys # << >> => WeldedHere

\* Keys that resolve to one key go on doing so.
RootsKept ==
  \A k \in MeshedKeys : \A l \in MeshedKeys :
    ResolveAlias(nodeAlias, k) = ResolveAlias(nodeAlias, l) =>
      ResolveAlias(nodeAlias', k) = ResolveAlias(nodeAlias', l)

\* The keys that resolved to other now resolve to canon.
RootsMoved(other, canon) ==
  \A k \in MeshedKeys :
    ResolveAlias(nodeAlias', k) =
      IF ResolveAlias(nodeAlias, k) = other THEN canon ELSE ResolveAlias(nodeAlias, k)

\* What nodes are aliased to is still what the node on the first polygon resolves to.
LEMMA AliasNodeCanon ==
  ASSUME WeldedInv, AliasNode
  PROVE  LET canon == ResolveAlias(nodeAlias, PolyKey(1, next))
             other == ResolveAlias(nodeAlias, PolyKey(adj, next))
         IN /\ resolvedCanon' = canon
            /\ nodeAlias' = IF other = canon THEN nodeAlias ELSE Mapped(nodeAlias, other, canon)
            /\ boundaryKeys' = boundaryKeys \cup {other}
  <1> DEFINE other == ResolveAlias(nodeAlias, PolyKey(adj, next))
  <1>1. /\ facePolys # << >> /\ boundaryKeys' = boundaryKeys \cup {other}
        /\ resolvedCanon' = IF adj = 1 THEN other ELSE resolvedCanon
        /\ nodeAlias' = IF other = resolvedCanon' THEN nodeAlias ELSE Mapped(nodeAlias, other, resolvedCanon')
    BY DEF AliasNode
  <1>2. resolvedCanon' = ResolveAlias(nodeAlias, PolyKey(1, next))
    BY <1>1 DEF WeldedInv, WeldedHere
  <1> HIDE DEF other
  <1>3. nodeAlias' = IF other = ResolveAlias(nodeAlias, PolyKey(1, next)) THEN nodeAlias
                     ELSE Mapped(nodeAlias, other, ResolveAlias(nodeAlias, PolyKey(1, next)))
    BY <1>1, <1>2
  <1> QED BY <1>1, <1>2, <1>3 DEF other

LEMMA AliasNodeRoots ==
  ASSUME ShapeInv, LoopInv, WalkInv, ChainInv, WeldedInv, AliasNode, AliasesFollowed, AliasesFollowed'
  PROVE  RootsMoved(ResolveAlias(nodeAlias, PolyKey(adj, next)), ResolveAlias(nodeAlias, PolyKey(1, next)))
  <1> DEFINE canon == ResolveAlias(nodeAlias, PolyKey(1, next))
             other == ResolveAlias(nodeAlias, PolyKey(adj, next))
  <1>1. /\ nodeAlias' = IF other = canon THEN nodeAlias ELSE Mapped(nodeAlias, other, canon)
        /\ UNCHANGED <<shape, meshed>>
    BY AliasNodeCanon DEF AliasNode, input
  <1>2. canon \in MeshedKeys /\ other \in MeshedKeys
    BY JoinedKeys
  <1>3. Closed(nodeAlias, MeshedKeys)
    BY DEF ChainInv
  <1>4. \A k \in MeshedKeys : Ends(nodeAlias, k)
    BY MeshedKeysIn DEF AliasesFollowed, Ends
  <1>5. \A k \in MeshedKeys : Ends(nodeAlias', k)
    <2>1. Keys' = Keys
      BY <1>1, ShapeKept
    <2>2. \A k \in Keys' : ResolveAlias(nodeAlias', k) \notin DOMAIN nodeAlias'
      BY DEF AliasesFollowed
    <2> QED BY <2>1, <2>2, MeshedKeysIn DEF Ends
  <1>6. canon \notin DOMAIN nodeAlias /\ other \notin DOMAIN nodeAlias
    BY <1>4, JoinedKeys DEF Ends
  <1> HIDE DEF canon, other
  <1>7. CASE other = canon
    <2>1. nodeAlias' = nodeAlias
      BY <1>1, <1>7
    <2>2. RootsMoved(other, canon)
      BY <1>7, <2>1 DEF RootsMoved
    <2> QED BY <2>2 DEF other, canon
  <1>8. CASE other # canon
    <2>1. nodeAlias' = Mapped(nodeAlias, other, canon)
      BY <1>1, <1>8
    <2>2. ASSUME NEW k \in MeshedKeys
          PROVE  ResolveAlias(nodeAlias', k) =
                   IF ResolveAlias(nodeAlias, k) = other THEN canon ELSE ResolveAlias(nodeAlias, k)
      <3>1. Ends(Mapped(nodeAlias, other, canon), k)
        BY <1>5, <2>1
      <3>2. ResolveAlias(Mapped(nodeAlias, other, canon), k) =
              IF ResolveAlias(nodeAlias, k) = other THEN canon ELSE ResolveAlias(nodeAlias, k)
        BY <1>2, <1>3, <1>6, <1>8, <3>1, RootAfter
      <3> QED BY <2>1, <3>2
    <2>3. RootsMoved(other, canon)
      BY <2>2 DEF RootsMoved
    <2> QED BY <2>3 DEF other, canon
  <1> QED BY <1>7, <1>8

\* The nodes of a polygon are those of its face.
LEMMA PolyInside ==
  ASSUME ShapeInv, NEW p, NEW edge, IsPolyOf(p, edge)
  PROVE  /\ DOMAIN p.poly = 1..Len(p.poly) /\ Len(p.poly) \in Nat /\ Len(p.poly) >= 2
         /\ \A k \in DOMAIN p.poly : /\ p.poly[k] \in FaceNodes(shape[p.face])
                                     /\ Key(p.face, p.poly[k]) \in MeshedKeys
  <1>1. PICK e \in FaceEdges(shape[p.face]) : e.poly = p.poly
    BY DEF IsPolyOf
  <1>2. shape \in Shapes /\ p.face \in DOMAIN shape /\ p.face \in meshed
    BY DEF IsPolyOf, ShapeInv
  <1>3. /\ DOMAIN p.poly = 1..Len(p.poly) /\ Len(p.poly) \in Nat /\ Len(p.poly) >= 2
        /\ \A k \in DOMAIN p.poly : p.poly[k] \in FaceNodes(shape[p.face])
    BY <1>1, <1>2, EdgeFacts
  <1> QED BY <1>2, <1>3, MeshedKeyOf

\* The polygons at an edge the walk comes by.
LEMMA PolysInside ==
  ASSUME ShapeInv, NEW m \in DOMAIN Occurrences
  PROVE  LET polys == FacePolys(Occurrences[m]) IN
           \A n \in DOMAIN polys :
             /\ 1 \in DOMAIN polys
             /\ DOMAIN polys[n].poly = DOMAIN polys[1].poly
             /\ \A k \in DOMAIN polys[n].poly : Key(polys[n].face, polys[n].poly[k]) \in MeshedKeys
  <1> DEFINE polys == FacePolys(Occurrences[m])
             edge == EdgeAt(Occurrences[m]).edge
  <1>1. shape \in Shapes /\ meshed \subseteq DOMAIN shape
    BY DEF ShapeInv
  <1>2. /\ \A n \in DOMAIN polys : IsPolyOf(polys[n], edge)
        /\ DOMAIN polys = 1..Len(polys) /\ Len(polys) \in Nat
    BY <1>1, PolyFacts
  <1> HIDE DEF polys, edge
  <1>3. ASSUME NEW n \in DOMAIN polys
        PROVE  /\ 1 \in DOMAIN polys
               /\ DOMAIN polys[n].poly = DOMAIN polys[1].poly
               /\ \A k \in DOMAIN polys[n].poly : Key(polys[n].face, polys[n].poly[k]) \in MeshedKeys
    <2>1. 1 \in DOMAIN polys
      BY <1>2
    <2>2. IsPolyOf(polys[n], edge) /\ IsPolyOf(polys[1], edge)
      BY <1>2, <2>1
    <2>3. Len(polys[n].poly) = Len(polys[1].poly)
      BY <1>1, <2>2, SamePlaces
    <2>4. /\ DOMAIN polys[n].poly = 1..Len(polys[n].poly) /\ DOMAIN polys[1].poly = 1..Len(polys[1].poly)
          /\ \A k \in DOMAIN polys[n].poly : Key(polys[n].face, polys[n].poly[k]) \in MeshedKeys
      BY <2>2, PolyInside
    <2> QED BY <2>1, <2>3, <2>4
  <1> QED BY <1>3 DEF polys

\* An edge that is welded stays so.
LEMMA WeldedStays ==
  ASSUME ShapeInv, UNCHANGED <<shape, meshed>>, RootsKept, NEW m \in DOMAIN Occurrences, EdgeWelded(m)
  PROVE  EdgeWelded(m)'
  <1> DEFINE polys == FacePolys(Occurrences[m])
  <1>1. FacePolys(Occurrences[m])' = polys
    BY FacePolysKept
  <1>2. ASSUME NEW n \in DOMAIN polys, NEW k \in DOMAIN polys[n].poly
        PROVE  ResolveAlias(nodeAlias', Key(polys[n].face, polys[n].poly[k]))
                 = ResolveAlias(nodeAlias', Key(polys[1].face, polys[1].poly[k]))
    <2>1. /\ 1 \in DOMAIN polys /\ k \in DOMAIN polys[1].poly
          /\ Key(polys[n].face, polys[n].poly[k]) \in MeshedKeys
      BY PolysInside
    <2>2. Key(polys[1].face, polys[1].poly[k]) \in MeshedKeys
      BY <2>1, PolysInside
    <2>3. ResolveAlias(nodeAlias, Key(polys[n].face, polys[n].poly[k]))
            = ResolveAlias(nodeAlias, Key(polys[1].face, polys[1].poly[k]))
      BY DEF EdgeWelded, RootOn, PointKey
    <2> HIDE DEF polys
    <2> QED BY <2>1, <2>2, <2>3 DEF RootsKept
  <1>3. \A f, n : Key(f, n)' = Key(f, n)
    BY DEF Key
  <1> HIDE DEF polys
  <1> QED BY <1>1, <1>2, <1>3 DEF EdgeWelded, RootOn, PointKey
---------------------------------------------------------------------------
LEMMA WeldedUptoStays ==
  ASSUME ShapeInv, UNCHANGED <<shape, meshed>>, RootsKept, NEW n, WeldedUpto(n)
  PROVE  WeldedUpto(n)'
  <1>1. Occurrences' = Occurrences
    BY FacePolysKept
  <1>2. \A m \in DOMAIN Occurrences : m < n => EdgeWelded(m)'
    BY WeldedStays DEF WeldedUpto
  <1> QED BY <1>1, <1>2 DEF WeldedUpto

LEMMA MovedKept ==
  ASSUME NEW other, NEW canon, RootsMoved(other, canon)
  PROVE  RootsKept
  BY DEF RootsMoved, RootsKept

LEMMA SameKept ==
  ASSUME nodeAlias' = nodeAlias
  PROVE  RootsKept
  BY DEF RootsKept

\* The alias made welds the node at the next position of one more polygon to the first.
LEMMA AliasNodeWelds ==
  ASSUME ShapeInv, LoopInv, WalkInv, ChainInv, WeldedInv, AliasNode, AliasesFollowed, AliasesFollowed'
  PROVE  WeldedInv'
  <1> DEFINE canon == ResolveAlias(nodeAlias, PolyKey(1, next))
             other == ResolveAlias(nodeAlias, PolyKey(adj, next))
             key(n, k) == Key(facePolys[n].face, facePolys[n].poly[k])
  <1>1. /\ step = "edges" /\ step' = "edges" /\ at' = at /\ facePolys' = facePolys /\ facePolys # << >>
        /\ next <= NumNodes
        /\ UNCHANGED <<shape, meshed>>
        /\ \/ adj < Len(facePolys) /\ adj' = adj + 1 /\ next' = next
           \/ ~(adj < Len(facePolys)) /\ adj' = 1 /\ next' = next + 1
    BY DEF AliasNode, input
  <1>2. RootsMoved(other, canon)
    BY AliasNodeRoots
  <1>3. RootsKept
    BY <1>2, MovedKept
  <1>4. WeldedUpto(at)'
    <2>1. PICK a : a = at
      OBVIOUS
    <2>2. WeldedUpto(a)
      BY <1>1, <2>1 DEF WeldedInv
    <2>3. WeldedUpto(a)'
      BY <1>1, <1>3, <2>2, WeldedUptoStays
    <2> QED BY <1>1, <2>1, <2>3
  <1>5. /\ \A n \in DOMAIN facePolys : \A k \in 1..NumNodes : key(n, k) \in MeshedKeys
        /\ 1 \in DOMAIN facePolys /\ adj \in DOMAIN facePolys /\ next \in 1..NumNodes
        /\ DOMAIN facePolys = 1..Len(facePolys) /\ Len(facePolys) \in Nat /\ NumNodes \in Nat
        /\ next \in Nat /\ adj \in Nat
    <2>1. 1 \in DOMAIN facePolys /\ adj \in DOMAIN facePolys /\ next \in 1..NumNodes
      BY JoinedKeys
    <2>2. DOMAIN facePolys = 1..Len(facePolys) /\ Len(facePolys) \in Nat /\ NumNodes \in Nat
      BY <1>1, AtEdge
    <2>3. \A n \in DOMAIN facePolys : \A k \in 1..NumNodes : key(n, k) \in MeshedKeys
      BY <1>1, PolyKeyFacts, MeshedKeyOf
    <2> QED BY <2>1, <2>2, <2>3
  <1>6. canon = ResolveAlias(nodeAlias, key(1, next)) /\ other = ResolveAlias(nodeAlias, key(adj, next))
    BY DEF PolyKey
  <1> HIDE DEF key, canon, other
  <1>7. ResolveAlias(nodeAlias', key(adj, next)) = ResolveAlias(nodeAlias', key(1, next))
    BY <1>2, <1>5, <1>6 DEF RootsMoved
  <1>8. ASSUME NEW n \in DOMAIN facePolys, NEW k \in 1..NumNodes, k < next' \/ (k = next' /\ n < adj')
        PROVE  ResolveAlias(nodeAlias', key(n, k)) = ResolveAlias(nodeAlias', key(1, k))
    <2>1. k < next \/ (k = next /\ n < adj) \/ (k = next /\ n = adj)
      BY <1>1, <1>5, <1>8
    <2>2. CASE k < next \/ (k = next /\ n < adj)
      <3>1. ResolveAlias(nodeAlias, key(n, k)) = ResolveAlias(nodeAlias, key(1, k))
        BY <1>1, <2>2 DEF WeldedInv, WeldedHere, RootOn, PointKey, key
      <3> QED BY <1>3, <1>5, <3>1 DEF RootsKept
    <2>3. CASE k = next /\ n = adj
      BY <1>7, <2>3
    <2> QED BY <2>1, <2>2, <2>3
  <1>9. NumNodes' = NumNodes /\ \A f, n : Key(f, n)' = Key(f, n)
    BY <1>1 DEF NumNodes, Key
  <1>10. ASSUME adj' # 1 PROVE resolvedCanon' = ResolveAlias(nodeAlias', PolyKey(1, next)')
    <2>1. next' = next /\ resolvedCanon' = canon
      BY <1>1, <1>10, AliasNodeCanon DEF canon
    <2>2. PolyKey(1, next)' = key(1, next)
      BY <1>1, <1>9, <2>1 DEF PolyKey, key
    <2>3. ResolveAlias(nodeAlias', key(1, next)) = canon
      BY <1>2, <1>5, <1>6 DEF RootsMoved
    <2> QED BY <2>1, <2>2, <2>3
  <1>11. WeldedHere'
    BY <1>1, <1>8, <1>9, <1>10 DEF WeldedHere, RootOn, PointKey, key
  <1> QED BY <1>1, <1>4, <1>11 DEF WeldedInv

\* An edge is left when all its nodes are welded.
LEMMA FinishEdgeWelds ==
  ASSUME ShapeInv, LoopInv, WalkInv, WeldedInv, FinishEdge
  PROVE  WeldedInv'
  <1>1. /\ step = "edges" /\ step' = "edges" /\ at' = at + 1 /\ facePolys # << >> /\ facePolys' = << >>
        /\ next > NumNodes /\ UNCHANGED <<shape, meshed, nodeAlias>>
    BY DEF FinishEdge, input
  <1>2. at \in DOMAIN Occurrences /\ facePolys = FacePolys(Occurrences[at]) /\ shape \in Shapes
    BY <1>1 DEF WalkInv, ShapeInv
  <1>3. DOMAIN Occurrences = 1..Len(Occurrences) /\ Len(Occurrences) \in Nat
    BY <1>2, OccurrenceFacts
  <1>4. \A n \in DOMAIN facePolys : \A k \in DOMAIN facePolys[n].poly :
          RootOn(facePolys[n], k) = RootOn(facePolys[1], k)
    <2>1. TAKE n \in DOMAIN facePolys
    <2>2. IsPolyOf(facePolys[n], EdgeAt(Occurrences[at]).edge) /\ Len(facePolys[n].poly) = NumNodes
      BY <1>1, AtEdge
    <2>3. DOMAIN facePolys[n].poly = 1..NumNodes /\ NumNodes \in Nat
      BY <2>2, PolyInside
    <2>4. \A k \in 1..NumNodes : k < next
      BY <1>1, <2>3 DEF LoopInv
    <2> QED BY <1>1, <2>3, <2>4 DEF WeldedInv, WeldedHere
  <1>5. EdgeWelded(at)
    BY <1>2, <1>4 DEF EdgeWelded
  <1>6. WeldedUpto(at + 1)
    BY <1>1, <1>2, <1>3, <1>5 DEF WeldedInv, WeldedUpto
  <1>7. PICK a : a = at + 1
    OBVIOUS
  <1>8. WeldedUpto(a)'
    BY <1>1, <1>6, <1>7, SameKept, WeldedUptoStays
  <1> QED BY <1>1, <1>7, <1>8 DEF WeldedInv

LEMMA WalkWelds ==
  ASSUME ShapeInv, LoopInv, WalkInv, WeldedInv, SkipEdge \/ EnterEdge \/ EdgesWalked
  PROVE  WeldedInv'
  <1> USE DEF walkVars, input
  <1>1. shape \in Shapes
    BY DEF ShapeInv
  <1>2. DOMAIN Occurrences = 1..Len(Occurrences) /\ Len(Occurrences) \in Nat
    BY <1>1, OccurrenceFacts
  <1>3. UNCHANGED <<shape, meshed, nodeAlias>> /\ step = "edges" /\ WeldedUpto(at)
    BY DEF SkipEdge, EnterEdge, EdgesWalked, WeldedInv
  <1>4. \A n : WeldedUpto(n) => WeldedUpto(n)'
    BY <1>3, SameKept, WeldedUptoStays
  <1>5. Occurrences' = Occurrences
    BY <1>3, FacePolysKept
  <1>6. CASE SkipEdge
    <2>1. /\ step' = "edges" /\ at \in DOMAIN Occurrences /\ at' = at + 1 /\ facePolys' = << >>
          /\ FacePolys(Occurrences[at]) = << >>
      BY <1>6 DEF SkipEdge
    <2>2. EdgeWelded(at)
      <3>1. \A n : n \notin DOMAIN FacePolys(Occurrences[at])
        BY <2>1
      <3> QED BY <3>1 DEF EdgeWelded
    <2>3. WeldedUpto(at + 1)
      BY <1>2, <1>3, <2>1, <2>2 DEF WeldedUpto
    <2>4. PICK a : a = at + 1
      OBVIOUS
    <2>5. WeldedUpto(a)'
      BY <1>4, <2>3, <2>4
    <2> QED BY <2>1, <2>4, <2>5 DEF WeldedInv
  <1>7. CASE EnterEdge
    <2>1. /\ step' = "edges" /\ at' = at /\ facePolys = << >> /\ facePolys' # << >>
          /\ at \in DOMAIN Occurrences /\ facePolys' = FacePolys(Occurrences[at]) /\ UNCHANGED <<next, adj>>
      BY <1>7 DEF EnterEdge
    <2>2. next = 1 /\ adj = 1
      BY <1>3, <2>1 DEF WalkInv
    <2>3. \A n \in DOMAIN facePolys' : \A k \in 1..NumNodes' : ~(k < 1) /\ ~(n < 1)
      <3>1. DOMAIN FacePolys(Occurrences[at]) \subseteq Nat \ {0}
        BY <1>1, <2>1, PolyFacts DEF ShapeInv
      <3>2. \A k \in 1..NumNodes' : ~(k < 1)
        OBVIOUS
      <3> QED BY <2>1, <3>1, <3>2
    <2>4. WeldedHere'
      BY <2>1, <2>2, <2>3 DEF WeldedHere
    <2>5. PICK a : a = at
      OBVIOUS
    <2>6. WeldedUpto(a)'
      BY <1>3, <1>4, <2>5
    <2> QED BY <2>1, <2>4, <2>5, <2>6 DEF WeldedInv
  <1>8. CASE EdgesWalked
    <2>1. step' = "nodes" /\ at > Len(Occurrences) /\ UNCHANGED facePolys
      BY <1>8 DEF EdgesWalked
    <2>2. PICK N : N = Len(Occurrences) + 1
      OBVIOUS
    <2>3. at \in Nat
      BY DEF WalkInv
    <2>4. WeldedUpto(N)
      BY <1>2, <1>3, <2>1, <2>2, <2>3 DEF WeldedUpto
    <2>5. WeldedUpto(N)'
      BY <1>4, <2>4
    <2>6. facePolys' = << >>
      BY <1>2, <2>1 DEF WalkInv
    <2> QED BY <1>5, <2>1, <2>2, <2>5, <2>6 DEF WeldedInv
  <1> QED BY <1>6, <1>7, <1>8

\* A step after the walk.
LEMMA QuietWelds ==
  ASSUME ShapeInv, WeldedInv, WalkInv, UNCHANGED <<shape, meshed, nodeAlias, facePolys>>,
         step \notin {"idle", "edges"}, step' \notin {"idle", "edges"}
  PROVE  WeldedInv'
  <1>1. PICK N : N = Len(Occurrences) + 1
    OBVIOUS
  <1>2. Occurrences' = Occurrences
    BY FacePolysKept
  <1>3. WeldedUpto(N)'
    BY <1>1, SameKept, WeldedUptoStays DEF WeldedInv
  <1>4. facePolys' = << >>
    BY DEF WalkInv
  <1> QED BY <1>1, <1>2, <1>3, <1>4 DEF WeldedInv

LEMMA IdleWelds ==
  ASSUME ShapeInv, WeldedInv, UNCHANGED weldVars
  PROVE  WeldedInv'
  <1>1. UNCHANGED <<shape, meshed, step, at, next, facePolys, adj, resolvedCanon, nodeAlias>>
    BY DEF weldVars, input, walkVars
  <1>2. Occurrences' = Occurrences
    BY <1>1, FacePolysKept
  <1>3. \A n : WeldedUpto(n) => WeldedUpto(n)'
    BY <1>1, SameKept, WeldedUptoStays
  <1>4. PICK a, N : a = at /\ N = Len(Occurrences) + 1
    OBVIOUS
  <1>5. WeldedHere => WeldedHere'
    BY <1>1 DEF WeldedHere, RootOn, PointKey, PolyKey, Key, NumNodes
  <1> QED BY <1>1, <1>2, <1>3, <1>4, <1>5 DEF WeldedInv

LEMMA NextWelds ==
  ASSUME TypeInv, ChainInv, WeldedInv, AliasesFollowed, AliasesFollowed', [Next]_vars
  PROVE  WeldedInv'
  <1> USE DEF walkVars, input
  <1>0. ShapeInv /\ LoopInv /\ WalkInv
    BY DEF TypeInv, IInv
  <1>1. CASE CallMeshRoutine
    <2>1. step = "idle" /\ step' = "edges" /\ at' = at /\ facePolys' = facePolys
      BY <1>1 DEF CallMeshRoutine, WeldCall
    <2>2. at = 1 /\ facePolys = << >>
      BY <1>0, <2>1 DEF WeldedInv, WalkInv
    <2>3. Occurrences' = Occurrences
      BY <1>1 DEF CallMeshRoutine, WeldCall, Occurrences
    <2>4. DOMAIN Occurrences = 1..Len(Occurrences)
      BY <1>0, OccurrenceFacts DEF ShapeInv
    <2>5. WeldedUpto(1)'
      BY <2>3, <2>4 DEF WeldedUpto
    <2> QED BY <2>1, <2>2, <2>5 DEF WeldedInv
  <1>2. CASE SkipEdge \/ EnterEdge \/ EdgesWalked
    BY <1>0, <1>2, WalkWelds
  <1>3. CASE AliasNode
    BY <1>0, <1>3, AliasNodeWelds
  <1>4. CASE FinishEdge
    BY <1>0, <1>4, FinishEdgeWelds
  <1>5. CASE WeldNode \/ NodesWelded \/ EmitTriangle \/ FaceEmitted \/ SkipFace \/ FacesEmitted
               \/ FinalizePoint \/ BoundaryDataFinalized \/ EmitDeferredCurve \/ CurvesEmitted
               \/ CompactUnusedPoints
    <2>1. /\ UNCHANGED <<shape, meshed, nodeAlias, facePolys>>
          /\ step \notin {"idle", "edges"} /\ step' \notin {"idle", "edges"}
      BY <1>5 DEF WeldNode, NodesWelded, EmitTriangle, FaceEmitted, SkipFace, FacesEmitted, FinalizePoint,
        BoundaryDataFinalized, EmitDeferredCurve, CurvesEmitted, CompactUnusedPoints
    <2> QED BY <1>0, <2>1, QuietWelds
  <1>6. CASE UNCHANGED weldVars
    BY <1>0, <1>6, IdleWelds
  <1>7. CASE MeshRoutine
    BY <1>2, <1>3, <1>4, <1>5, <1>7 DEF MeshRoutine, WeldStep
  <1> QED
    BY <1>1, <1>6, <1>7 DEF Next, Mesh, StopRemeshing, FindOverlaps, Remesh, Return, vars
---------------------------------------------------------------------------
\* The mesh that is welded is that of the last pass: a pass starts from the cleaned shape.
LastInv ==
  /\ phase \in {"checking", "inst", "mesh", "returned"} =>
       \A f \in Faces : meshedAt[f] > 0 => meshedAt[f] = pass + 2
  /\ step # "idle" => phase \in {"mesh", "returned"} /\ meshed = Meshed

LEMMA MesherLast ==
  ASSUME MesherRuns(Clean), UNCHANGED <<shape, pass>>
  PROVE  \A f \in Faces' : meshedAt'[f] > 0 => meshedAt'[f] = pass' + 2
  <1>1. PICK left \in SUBSET Faces :
          meshedAt' = [f \in Faces |-> IF Clean[f] > 0 \/ f \in left THEN Clean[f] ELSE pass + 2]
    BY DEF MesherRuns
  <1>2. \A f \in Faces : Clean[f] = 0
    BY DEF Clean
  <1>3. Faces' = Faces
    BY DEF Faces
  <1> QED BY <1>1, <1>2, <1>3

LEMMA NextLast ==
  ASSUME RoutineInv, LastInv, [Next]_vars
  PROVE  LastInv'
  <1> USE DEF input
  <1>1. CASE Mesh \/ Remesh
    <2>1. /\ MesherRuns(Clean) /\ UNCHANGED <<shape, step, pass>> /\ phase \in {"called", "remeshing"}
      BY <1>1 DEF Mesh, Remesh, weldVars
    <2>2. step = "idle"
      BY <2>1 DEF LastInv
    <2> QED BY <2>1, <2>2, MesherLast DEF LastInv
  <1>2. CASE StopRemeshing \/ Return
    <2>1. /\ UNCHANGED <<shape, meshed, step, pass, meshedAt>>
          /\ \/ phase = "checking" /\ phase' = "inst"
             \/ phase = "mesh" /\ phase' = "returned"
      BY <1>2 DEF StopRemeshing, Return, weldVars
    <2>2. Faces' = Faces /\ Meshed' = Meshed
      BY <2>1 DEF Meshed, Faces
    <2> QED BY <2>1, <2>2 DEF LastInv
  <1>3. CASE FindOverlaps
    <2>1. phase = "checking" /\ phase' = "remeshing" /\ step' = step
      BY <1>3 DEF FindOverlaps, weldVars
    <2> QED BY <2>1 DEF LastInv
  <1>4. CASE CallMeshRoutine
    <2>1. /\ phase = "inst" /\ phase' = "mesh" /\ meshed' = Meshed /\ UNCHANGED <<shape, pass, meshedAt>>
      BY <1>4 DEF CallMeshRoutine, WeldCall
    <2>2. Faces' = Faces /\ Meshed' = Meshed
      BY <2>1 DEF Meshed, Faces
    <2> QED BY <2>1, <2>2 DEF LastInv
  <1>5. CASE MeshRoutine
    <2>1. /\ UNCHANGED <<shape, meshed, routineVars>> /\ step # "idle"
      BY <1>5 DEF MeshRoutine, WeldStep, SkipEdge, EnterEdge, AliasNode, FinishEdge, EdgesWalked, WeldNode,
         NodesWelded, EmitTriangle, FaceEmitted, SkipFace, FacesEmitted, FinalizePoint,
         BoundaryDataFinalized, EmitDeferredCurve, CurvesEmitted, CompactUnusedPoints
    <2>2. UNCHANGED <<phase, pass, meshedAt>>
      BY <2>1 DEF routineVars
    <2>3. Faces' = Faces /\ Meshed' = Meshed
      BY <2>1, <2>2 DEF Meshed, Faces
    <2> QED BY <2>1, <2>2, <2>3 DEF LastInv
  <1>6. CASE UNCHANGED vars
    <2>1. UNCHANGED <<shape, meshed, step, phase, pass, meshedAt>>
      BY <1>6 DEF vars, weldVars, routineVars
    <2>2. Faces' = Faces /\ Meshed' = Meshed
      BY <2>1 DEF Meshed, Faces
    <2> QED BY <2>1, <2>2 DEF LastInv
  <1> QED BY <1>1, <1>2, <1>3, <1>4, <1>5, <1>6 DEF Next

LEMMA InitWelds == Init => LastInv /\ WeldedInv
  BY DEF Init, WeldInit, LastInv, WeldedInv

\* Two faces at an edge have their nodes on it under the same keys: whoever walks by from
\* the one meets the other.
LEMMA FacesWelded ==
  ASSUME ShapeInv, WeldedUpto(Len(Occurrences) + 1),
         NEW f \in meshed, NEW g \in meshed, f # g, NEW d \in FaceEdges(shape[f]),
         NEW e \in FaceEdges(shape[g]), d.edge = e.edge, NEW k \in DOMAIN d.poly
  PROVE  PointKey(f, d.poly[k]) = PointKey(g, e.poly[k])
  <1>1. shape \in Shapes /\ f \in DOMAIN shape /\ g \in DOMAIN shape
    BY DEF ShapeInv
  <1>2. PICK m \in DOMAIN Occurrences : Occurrences[m][1] = f /\ EdgeAt(Occurrences[m]) = d
    BY <1>1, OccurrenceFacts
  <1>3. PICK q \in DOMAIN Occurrences : Occurrences[q][1] = g /\ EdgeAt(Occurrences[q]) = e
    BY <1>1, OccurrenceFacts
  <1>4. DOMAIN Occurrences = 1..Len(Occurrences) /\ Len(Occurrences) \in Nat
    BY <1>1, OccurrenceFacts
  <1>5. EdgeWelded(m)
    BY <1>4 DEF WeldedUpto
  <1> DEFINE polys == FacePolys(Occurrences[m])
  <1>6. PolyAt(m, m).face = f /\ PolyAt(m, m).poly = d.poly
    BY <1>2 DEF PolyAt
  <1>7. PolyAt(m, q).face = g /\ PolyAt(m, q).poly = e.poly
    BY <1>2, <1>3 DEF PolyAt
  <1>8. d.poly # << >> /\ e.poly # << >>
    BY DEF FaceEdges
  <1>9. PICK i \in DOMAIN polys : polys[i] = PolyAt(m, m)
    BY <1>1, <1>2, <1>6, <1>8, PolysVisited
  <1>10. PICK j \in DOMAIN polys : polys[j] = PolyAt(m, q)
    BY <1>1, <1>2, <1>3, <1>7, <1>8, PolysVisited
  <1>11. DOMAIN polys[i].poly = DOMAIN polys[j].poly
    BY PolysInside
  <1>12. RootOn(polys[i], k) = RootOn(polys[1], k)
    BY <1>5, <1>6, <1>9 DEF EdgeWelded
  <1>13. RootOn(polys[j], k) = RootOn(polys[1], k)
    BY <1>5, <1>6, <1>9, <1>11 DEF EdgeWelded
  <1> HIDE DEF polys
  <1> QED BY <1>6, <1>7, <1>9, <1>10, <1>12, <1>13 DEF RootOn

LEMMA WeldedShown ==
  ASSUME TypeInv, LastInv, WeldedInv
  PROVE  WeldedAcrossEdges
  <1> SUFFICES ASSUME step \in {"boundary", "curves", "compact"}
               PROVE  LET PointOn(f, e, k) == nodeToCanonical[ResolveAlias(nodeAlias, Key(f, e.poly[k]))] IN
                 /\ \A f \in meshed : meshedAt[f] = pass + 2
                 /\ \A f, g \in meshed : f # g =>
                      \A d \in FaceEdges(shape[f]), e \in FaceEdges(shape[g]) :
                        d.edge = e.edge => \A k \in DOMAIN d.poly : PointOn(f, d, k) = PointOn(g, e, k)
    BY DEF WeldedAcrossEdges
  <1>1. ShapeInv
    BY DEF TypeInv, IInv
  <1>2. \A f \in meshed : meshedAt[f] = pass + 2
    BY DEF LastInv, Meshed
  <1>3. WeldedUpto(Len(Occurrences) + 1)
    BY DEF WeldedInv
  <1>4. \A f, g \in meshed : f # g => \A d \in FaceEdges(shape[f]), e \in FaceEdges(shape[g]) :
          d.edge = e.edge => \A k \in DOMAIN d.poly :
            nodeToCanonical[PointKey(f, d.poly[k])] = nodeToCanonical[PointKey(g, e.poly[k])]
    BY <1>1, <1>3, FacesWelded
  <1> QED BY <1>2, <1>4 DEF PointKey

\* Faces are welded wherever their edges meet, as long as aliases are followed to their
\* ends: no shape and no order of its faces and edges, no face left unmeshed and no seam
\* keeps two nodes of an edge apart.
THEOREM FollowedIsWelded == Spec /\ []AliasesFollowed => []WeldedAcrossEdges
  <1>1. ASSUME TypeInv, ChainInv, LastInv, WeldedInv, AliasesFollowed, AliasesFollowed', [Next]_vars
        PROVE  LastInv' /\ WeldedInv'
    BY <1>1, NextLast, NextWelds DEF TypeInv
  <1>2. TypeInv /\ LastInv /\ WeldedInv => WeldedAcrossEdges
    BY WeldedShown
  <1> QED BY <1>1, <1>2, InitWelds, ChainInvariance, TypeInvariance, PTL DEF Spec

\* What is asked of a shape was already so a step before: the faces that are welded are
\* fixed by the call.
LEMMA FewKeysBefore ==
  ASSUME TypeInv, [Next]_vars, FewKeys'
  PROVE  FewKeys
  <1>1. CASE CallMeshRoutine
    <2>1. meshed = {}
      BY <1>1 DEF CallMeshRoutine, WeldCall, TypeInv, WalkInv
    <2> QED BY <2>1 DEF FewKeys, CopiesAlike, PlacesNarrow
  <1>2. CASE UNCHANGED <<shape, meshed>>
    BY <1>2, MeshedKept
  <1>3. CASE MeshRoutine
    BY <1>2, <1>3 DEF MeshRoutine, WeldStep, SkipEdge, EnterEdge, AliasNode, FinishEdge, EdgesWalked, WeldNode,
      NodesWelded, EmitTriangle, FaceEmitted, SkipFace, FacesEmitted, FinalizePoint, BoundaryDataFinalized,
      EmitDeferredCurve, CurvesEmitted, CompactUnusedPoints, input
  <1> QED
    BY <1>1, <1>2, <1>3
    DEF Next, Mesh, StopRemeshing, FindOverlaps, Remesh, Return, vars, weldVars, input

\* So are those of any shape with alike copies that has nowhere more nodes in one place
\* than resolveAlias follows aliases, and one.
THEOREM FacesMeet == Spec => [](CopiesAlike /\ PlacesNarrow => WeldedAcrossEdges)
  <1> DEFINE All == PlacedInv /\ ChainInv /\ LastInv /\ (FewKeys => WeldedInv)
  <1>1. ASSUME All, FewKeys => AliasesFollowed, (FewKeys => AliasesFollowed)', [Next]_vars
        PROVE  LastInv' /\ (FewKeys' => WeldedInv')
    <2>1. LastInv'
      BY <1>1, NextLast DEF PlacedInv, TypeInv
    <2>2. ASSUME FewKeys' PROVE WeldedInv'
      <3>1. FewKeys
        BY <1>1, <2>2, FewKeysBefore DEF PlacedInv
      <3>2. AliasesFollowed /\ AliasesFollowed'
        BY <1>1, <2>2, <3>1
      <3> QED BY <1>1, <3>1, <3>2, NextWelds DEF PlacedInv
    <2> QED BY <2>1, <2>2
  <1>2. All => (CopiesAlike /\ PlacesNarrow => WeldedAcrossEdges)
    BY WeldedShown DEF PlacedInv, FewKeys
  <1>3. Init => LastInv /\ (FewKeys => WeldedInv)
    BY InitWelds
  <1>4. PlacedInv /\ ChainInv => (FewKeys => AliasesFollowed)
    BY ChainsFollowed DEF PlacedInv, TypeInv, IInv
  <1> QED BY <1>1, <1>2, <1>3, <1>4, ChainInvariance, PlacedInvariance, PTL DEF Spec
---------------------------------------------------------------------------
\* The boundary data, for a shape without copies.  A key is met if what it resolves to
\* was seen on an edge, and summed if an edge's tangents were added there.
Met(k) == ResolveAlias(nodeAlias, k) \in boundaryKeys
Summed(k) == \E key \in DOMAIN tangentAccum : ResolveAlias(nodeAlias, key) = ResolveAlias(nodeAlias, k)

\* The nodes at an edge the walk has passed are met, and summed where the edge has a
\* tangent; those it has come to are met.
EdgeMet(m) ==
  LET polys == FacePolys(Occurrences[m]) IN
    \A n \in DOMAIN polys : \A k \in DOMAIN polys[n].poly :
      /\ Met(Key(polys[n].face, polys[n].poly[k]))
      /\ k \in EdgeAt(Occurrences[m]).tangents => Summed(Key(polys[n].face, polys[n].poly[k]))
MetUpto(n) == \A m \in DOMAIN Occurrences : m < n => EdgeMet(m)
MetHere ==
  \A n \in DOMAIN facePolys : \A k \in 1..NumNodes :
    k < next \/ (k = next /\ n < adj) => Met(PolyKey(n, k))

MetInv ==
  /\ step = "edges" => MetUpto(at)
  /\ step \notin {"idle", "edges"} => MetUpto(Len(Occurrences) + 1)
  /\ facePolys # << >> => MetHere

\* What was seen on edges is where edges pass, and sums are of edges with a tangent there.
SumsInv ==
  /\ step = "idle" => boundaryKeys = {} /\ DOMAIN tangentAccum = {}
  /\ DOMAIN tangentAccum \subseteq MeshedKeys
  /\ NoCopies =>
       /\ \A key \in boundaryKeys : EdgesThrough(KeyPlace(key)) # {}
       /\ \A key \in DOMAIN tangentAccum :
            tangentAccum[key] # {} /\ tangentAccum[key] \subseteq TangentsThrough(KeyPlace(key))

\* Each point is the one of a node, flagged as that is seen on an edge.
PointOfNode(idx) ==
  \E f \in meshed : \E n \in FaceNodes(shape[f]) :
    /\ PointKey(f, n) \in DOMAIN nodeToCanonical /\ nodeToCanonical[PointKey(f, n)] = idx
    /\ idx \in boundaryNodes <=> PointKey(f, n) \in boundaryKeys
FlagInv ==
  /\ step \in {"idle", "edges"} => points = << >> /\ boundaryNodes = {}
  /\ step # "done" => boundaryNodes \subseteq DOMAIN points /\ \A idx \in DOMAIN points : PointOfNode(idx)

\* The data of the points made so far is that of the edges that pass them.
InPlace(idx) ==
  /\ isBoundaryVertex[idx] <=> EdgesThrough(points[idx]) # {}
  /\ boundaryTangents[idx] \subseteq TangentsThrough(points[idx])
  /\ EdgesThrough(points[idx]) # {} /\ AllTangent(points[idx]) => boundaryTangents[idx] # {}
DataInv ==
  NoCopies /\ EdgesKeepOut =>
    /\ step = "boundary" => \A idx \in 1..(next - 1) : InPlace(idx)
    /\ step \in {"curves", "compact", "done"} => \A idx \in DOMAIN points : InPlace(idx)
    /\ step = "done" => DOMAIN isBoundaryVertex = DOMAIN points

\* What was met stays met, and what was summed stays so.
MetKept == \A k \in MeshedKeys : (Met(k) => Met(k)') /\ (Summed(k) => Summed(k)')

LEMMA EdgeMetStays ==
  ASSUME ShapeInv, UNCHANGED <<shape, meshed>>, MetKept, NEW m \in DOMAIN Occurrences, EdgeMet(m)
  PROVE  EdgeMet(m)'
  <1> DEFINE polys == FacePolys(Occurrences[m])
             key(n, k) == Key(polys[n].face, polys[n].poly[k])
             tangents == EdgeAt(Occurrences[m]).tangents
  <1>1. /\ FacePolys(Occurrences[m])' = polys /\ \A f, n : Key(f, n)' = Key(f, n)
        /\ EdgeAt(Occurrences[m]).tangents' = tangents
    BY FacePolysKept DEF Key, EdgeAt
  <1>2. ASSUME NEW n \in DOMAIN polys, NEW k \in DOMAIN polys[n].poly
        PROVE  /\ ResolveAlias(nodeAlias', key(n, k)) \in boundaryKeys'
               /\ k \in tangents => \E l \in DOMAIN tangentAccum' :
                    ResolveAlias(nodeAlias', l) = ResolveAlias(nodeAlias', key(n, k))
    <2>1. key(n, k) \in MeshedKeys
      BY PolysInside
    <2>2. Met(key(n, k)) /\ (k \in tangents => Summed(key(n, k)))
      BY DEF EdgeMet
    <2> HIDE DEF key, tangents
    <2>3. PICK x \in MeshedKeys : x = key(n, k)
      BY <2>1
    <2>4. Met(x)' /\ (k \in tangents => Summed(x)')
      BY <2>2, <2>3 DEF MetKept
    <2> QED BY <2>3, <2>4 DEF Met, Summed
  <1> HIDE DEF polys, tangents
  <1> QED BY <1>1, <1>2 DEF EdgeMet, Met, Summed, tangents

LEMMA MetUptoStays ==
  ASSUME ShapeInv, UNCHANGED <<shape, meshed>>, MetKept, NEW n, MetUpto(n)
  PROVE  MetUpto(n)'
  <1>1. Occurrences' = Occurrences
    BY FacePolysKept
  <1>2. \A m \in DOMAIN Occurrences : m < n => EdgeMet(m)'
    BY EdgeMetStays DEF MetUpto
  <1> QED BY <1>1, <1>2 DEF MetUpto

LEMMA QuietMet ==
  ASSUME UNCHANGED <<nodeAlias, boundaryKeys, tangentAccum>>
  PROVE  MetKept
  BY DEF MetKept, Met, Summed

\* The keys an alias joins are met, and what is summed under the one moves to the other.
LEMMA AliasNodeMet ==
  ASSUME ShapeInv, LoopInv, WalkInv, KeysInv, ChainInv, WeldedInv, SumsInv, AliasNode,
         AliasesFollowed, AliasesFollowed'
  PROVE  MetKept /\ ResolveAlias(nodeAlias', PolyKey(adj, next)) \in boundaryKeys'
  <1> DEFINE canon == ResolveAlias(nodeAlias, PolyKey(1, next))
             other == ResolveAlias(nodeAlias, PolyKey(adj, next))
  <1>1. /\ boundaryKeys' = boundaryKeys \cup {other} /\ tangentAccum' = tangentAccum
        /\ canon \in boundaryKeys'
    <2>1. boundaryKeys' = boundaryKeys \cup {other} /\ tangentAccum' = tangentAccum
      BY DEF AliasNode
    <2>2. adj # 1 => canon \in boundaryKeys
      BY DEF WeldedInv, WeldedHere, KeysInv, AliasNode
    <2>3. adj = 1 => canon = other
      OBVIOUS
    <2> QED BY <2>1, <2>2, <2>3
  <1>2. RootsMoved(other, canon)
    BY AliasNodeRoots
  <1>3. PolyKey(adj, next) \in MeshedKeys
    BY JoinedKeys
  <1>4. DOMAIN tangentAccum \subseteq MeshedKeys
    BY DEF SumsInv
  <1>5. ResolveAlias(nodeAlias', PolyKey(adj, next)) \in boundaryKeys'
    BY <1>1, <1>2, <1>3 DEF RootsMoved
  <1> HIDE DEF canon, other
  <1>6. ASSUME NEW k \in MeshedKeys, Met(k) PROVE Met(k)'
    BY <1>1, <1>2, <1>6 DEF RootsMoved, Met
  <1>7. ASSUME NEW k \in MeshedKeys, Summed(k) PROVE Summed(k)'
    BY <1>1, <1>2, <1>4, <1>7 DEF RootsMoved, Summed
  <1> QED BY <1>5, <1>6, <1>7 DEF MetKept

LEMMA AliasNodeMeets ==
  ASSUME ShapeInv, LoopInv, WalkInv, KeysInv, ChainInv, WeldedInv, SumsInv, MetInv, AliasNode,
         AliasesFollowed, AliasesFollowed'
  PROVE  MetInv'
  <1>1. /\ step = "edges" /\ step' = "edges" /\ at' = at /\ facePolys' = facePolys /\ facePolys # << >>
        /\ next <= NumNodes
        /\ UNCHANGED <<shape, meshed>>
        /\ \/ adj < Len(facePolys) /\ adj' = adj + 1 /\ next' = next
           \/ ~(adj < Len(facePolys)) /\ adj' = 1 /\ next' = next + 1
    BY DEF AliasNode, input
  <1>2. MetKept /\ ResolveAlias(nodeAlias', PolyKey(adj, next)) \in boundaryKeys'
    BY AliasNodeMet
  <1>3. MetUpto(at)'
    <2>1. PICK a : a = at
      OBVIOUS
    <2>2. MetUpto(a)'
      BY <1>1, <1>2, <2>1, MetUptoStays DEF MetInv
    <2> QED BY <1>1, <2>1, <2>2
  <1>4. /\ DOMAIN facePolys = 1..Len(facePolys) /\ Len(facePolys) \in Nat /\ NumNodes \in Nat
        /\ next \in Nat /\ adj \in Nat
        /\ \A n \in DOMAIN facePolys : \A k \in 1..NumNodes : PolyKey(n, k) \in MeshedKeys
    <2>1. 1 \in DOMAIN facePolys /\ adj \in DOMAIN facePolys /\ next \in 1..NumNodes
      BY JoinedKeys
    <2>2. DOMAIN facePolys = 1..Len(facePolys) /\ Len(facePolys) \in Nat /\ NumNodes \in Nat
      BY <1>1, AtEdge
    <2>3. \A n \in DOMAIN facePolys : \A k \in 1..NumNodes : PolyKey(n, k) \in MeshedKeys
      BY <1>1, PolyKeyFacts, MeshedKeyOf DEF PolyKey
    <2> QED BY <2>1, <2>2, <2>3
  <1>5. NumNodes' = NumNodes /\ \A n, k : PolyKey(n, k)' = PolyKey(n, k)
    BY <1>1 DEF NumNodes, PolyKey, Key
  <1>6. ASSUME NEW n \in DOMAIN facePolys, NEW k \in 1..NumNodes, k < next' \/ (k = next' /\ n < adj')
        PROVE  ResolveAlias(nodeAlias', PolyKey(n, k)) \in boundaryKeys'
    <2>1. k < next \/ (k = next /\ n < adj) \/ (k = next /\ n = adj)
      BY <1>1, <1>4, <1>6
    <2>2. CASE k < next \/ (k = next /\ n < adj)
      <3>1. PICK x \in MeshedKeys : x = PolyKey(n, k)
        BY <1>4
      <3>2. Met(x)
        BY <1>1, <2>2, <3>1 DEF MetInv, MetHere
      <3>3. Met(x)'
        BY <1>2, <3>2 DEF MetKept
      <3> QED BY <3>1, <3>3 DEF Met
    <2>3. CASE k = next /\ n = adj
      BY <1>2, <2>3
    <2> QED BY <2>1, <2>2, <2>3
  <1>7. MetHere'
    BY <1>1, <1>5, <1>6 DEF MetHere, Met
  <1> QED BY <1>1, <1>3, <1>7 DEF MetInv
---------------------------------------------------------------------------
\* What a key resolves to resolves to itself.
LEMMA RootOfRoot ==
  ASSUME ShapeInv, ChainInv, AliasesFollowed, NEW key \in MeshedKeys
  PROVE  ResolveAlias(nodeAlias, ResolveAlias(nodeAlias, key)) = ResolveAlias(nodeAlias, key)
  <1>1. Closed(nodeAlias, MeshedKeys)
    BY DEF ChainInv
  <1>2. ResolveAlias(nodeAlias, key) \in MeshedKeys
    BY <1>1, ResolveStays DEF Closed
  <1>3. ResolveAlias(nodeAlias, key) \notin DOMAIN nodeAlias
    BY MeshedKeysIn DEF AliasesFollowed
  <1> QED BY <1>1, <1>2, <1>3, RootItself

\* An edge is left when all its nodes are met, and its tangents are summed under what
\* its nodes resolve to.
LEMMA FinishEdgeMet ==
  ASSUME ShapeInv, LoopInv, WalkInv, ChainInv, WeldedInv, MetInv, AliasesFollowed, FinishEdge
  PROVE  MetKept /\ \A n \in DOMAIN facePolys : \A k \in 1..NumNodes :
           /\ Met(PolyKey(n, k))
           /\ k \in EdgeAt(Occurrences[at]).tangents => \E key \in DOMAIN tangentAccum' :
                ResolveAlias(nodeAlias, key) = ResolveAlias(nodeAlias, PolyKey(n, k))
  <1> DEFINE tangents == EdgeAt(Occurrences[at]).tangents
             touched == {ResolveAlias(nodeAlias, PolyKey(1, k)) : k \in tangents \cap 1..NumNodes}
  <1>1. /\ facePolys # << >> /\ next > NumNodes /\ UNCHANGED <<nodeAlias, boundaryKeys>>
        /\ DOMAIN tangentAccum' = DOMAIN tangentAccum \cup touched
    BY DEF FinishEdge
  <1>2. MetKept
    BY <1>1 DEF MetKept, Met, Summed
  <1>3. NumNodes \in Nat /\ next \in Nat /\ 1 \in DOMAIN facePolys
    BY <1>1, AtEdge DEF LoopInv
  <1>4. ASSUME NEW n \in DOMAIN facePolys, NEW k \in 1..NumNodes
        PROVE  /\ Met(PolyKey(n, k))
               /\ k \in tangents => \E key \in DOMAIN tangentAccum' :
                    ResolveAlias(nodeAlias, key) = ResolveAlias(nodeAlias, PolyKey(n, k))
    <2>1. k < next
      BY <1>1, <1>3
    <2>2. Met(PolyKey(n, k))
      BY <1>1, <2>1 DEF MetInv, MetHere
    <2>3. ResolveAlias(nodeAlias, PolyKey(n, k)) = ResolveAlias(nodeAlias, PolyKey(1, k))
      BY <1>1, <2>1 DEF WeldedInv, WeldedHere, RootOn, PointKey, PolyKey
    <2>4. k \in tangents => ResolveAlias(nodeAlias, PolyKey(1, k)) \in touched
      OBVIOUS
    <2>5. PolyKey(1, k) \in MeshedKeys
      BY <1>1, <1>3, PolyKeyFacts, MeshedKeyOf DEF PolyKey
    <2>6. ResolveAlias(nodeAlias, ResolveAlias(nodeAlias, PolyKey(1, k))) = ResolveAlias(nodeAlias, PolyKey(1, k))
      BY <2>5, RootOfRoot
    <2> HIDE DEF touched
    <2> QED BY <1>1, <2>2, <2>3, <2>4, <2>6
  <1> QED BY <1>2, <1>4

LEMMA FinishEdgeMeets ==
  ASSUME ShapeInv, LoopInv, WalkInv, ChainInv, WeldedInv, MetInv, AliasesFollowed, FinishEdge
  PROVE  MetInv'
  <1>1. /\ step = "edges" /\ step' = "edges" /\ at' = at + 1 /\ facePolys # << >> /\ facePolys' = << >>
        /\ UNCHANGED <<shape, meshed, nodeAlias, boundaryKeys>>
    BY DEF FinishEdge, input
  <1>2. at \in DOMAIN Occurrences /\ facePolys = FacePolys(Occurrences[at]) /\ shape \in Shapes
    BY <1>1 DEF WalkInv, ShapeInv
  <1>3. DOMAIN Occurrences = 1..Len(Occurrences) /\ Len(Occurrences) \in Nat
    BY <1>2, OccurrenceFacts
  <1>4. Occurrences' = Occurrences /\ \A n : FacePolys(Occurrences[n])' = FacePolys(Occurrences[n])
    BY <1>1, FacePolysKept
  <1>5. MetKept
    BY FinishEdgeMet
  <1>6. PICK a : a = at
    OBVIOUS
  <1>7. MetUpto(a)'
    BY <1>1, <1>5, <1>6, MetUptoStays DEF MetInv
  <1>8. EdgeMet(a)'
    <2> DEFINE polys == FacePolys(Occurrences[a])
    <2>1. polys = facePolys /\ FacePolys(Occurrences[a])' = polys /\ \A f, n : Key(f, n)' = Key(f, n)
      BY <1>1, <1>2, <1>4, <1>6 DEF Key
    <2> HIDE DEF polys
    <2>2. ASSUME NEW n \in DOMAIN facePolys
          PROVE  DOMAIN facePolys[n].poly = 1..NumNodes
      <3>1. IsPolyOf(facePolys[n], EdgeAt(Occurrences[at]).edge) /\ Len(facePolys[n].poly) = NumNodes
        BY <1>1, AtEdge
      <3> QED BY <3>1, PolyInside
    <2>3. \A n \in DOMAIN facePolys : \A k \in 1..NumNodes :
            /\ Met(PolyKey(n, k))
            /\ k \in EdgeAt(Occurrences[a]).tangents => \E key \in DOMAIN tangentAccum' :
                 ResolveAlias(nodeAlias, key) = ResolveAlias(nodeAlias, PolyKey(n, k))
      BY <1>6, FinishEdgeMet
    <2>4. EdgeAt(Occurrences[a])' = EdgeAt(Occurrences[a])
      BY <1>1, <1>4 DEF EdgeAt
    <2> QED BY <1>1, <2>1, <2>2, <2>3, <2>4 DEF EdgeMet, Met, Summed, PolyKey
  <1>9. MetUpto(a + 1)'
    BY <1>2, <1>3, <1>4, <1>6, <1>7, <1>8 DEF MetUpto
  <1>10. MetUpto(at)'
    BY <1>1, <1>6, <1>9
  <1> QED BY <1>1, <1>10 DEF MetInv

LEMMA WalkMeets ==
  ASSUME ShapeInv, LoopInv, WalkInv, MetInv, SkipEdge \/ EnterEdge \/ EdgesWalked
  PROVE  MetInv'
  <1> USE DEF walkVars, input
  <1>1. shape \in Shapes
    BY DEF ShapeInv
  <1>2. DOMAIN Occurrences = 1..Len(Occurrences) /\ Len(Occurrences) \in Nat
    BY <1>1, OccurrenceFacts
  <1>3. /\ UNCHANGED <<shape, meshed, nodeAlias, boundaryKeys, tangentAccum>>
        /\ step = "edges" /\ MetUpto(at)
    BY DEF SkipEdge, EnterEdge, EdgesWalked, MetInv
  <1>4. \A n : MetUpto(n) => MetUpto(n)'
    BY <1>3, QuietMet, MetUptoStays
  <1>5. Occurrences' = Occurrences
    BY <1>3, FacePolysKept
  <1>6. CASE SkipEdge
    <2>1. /\ step' = "edges" /\ at \in DOMAIN Occurrences /\ at' = at + 1 /\ facePolys' = << >>
          /\ FacePolys(Occurrences[at]) = << >>
      BY <1>6 DEF SkipEdge
    <2>2. EdgeMet(at)
      <3>1. \A n : n \notin DOMAIN FacePolys(Occurrences[at])
        BY <2>1
      <3> QED BY <3>1 DEF EdgeMet
    <2>3. MetUpto(at + 1)
      BY <1>2, <1>3, <2>1, <2>2 DEF MetUpto
    <2>4. PICK a : a = at + 1
      OBVIOUS
    <2>5. MetUpto(a)'
      BY <1>4, <2>3, <2>4
    <2> QED BY <2>1, <2>4, <2>5 DEF MetInv
  <1>7. CASE EnterEdge
    <2>1. /\ step' = "edges" /\ at' = at /\ facePolys = << >> /\ facePolys' # << >>
          /\ at \in DOMAIN Occurrences /\ facePolys' = FacePolys(Occurrences[at]) /\ UNCHANGED <<next, adj>>
      BY <1>7 DEF EnterEdge
    <2>2. next = 1 /\ adj = 1
      BY <1>3, <2>1 DEF WalkInv
    <2>3. \A n \in DOMAIN facePolys' : \A k \in 1..NumNodes' : ~(k < 1) /\ ~(n < 1)
      <3>1. DOMAIN FacePolys(Occurrences[at]) \subseteq Nat \ {0}
        BY <1>1, <2>1, PolyFacts DEF ShapeInv
      <3>2. \A k \in 1..NumNodes' : ~(k < 1)
        OBVIOUS
      <3> QED BY <2>1, <3>1, <3>2
    <2>4. MetHere'
      BY <2>1, <2>2, <2>3 DEF MetHere
    <2>5. PICK a : a = at
      OBVIOUS
    <2>6. MetUpto(a)'
      BY <1>3, <1>4, <2>5
    <2> QED BY <2>1, <2>4, <2>5, <2>6 DEF MetInv
  <1>8. CASE EdgesWalked
    <2>1. step' = "nodes" /\ at > Len(Occurrences) /\ UNCHANGED facePolys
      BY <1>8 DEF EdgesWalked
    <2>2. PICK N : N = Len(Occurrences) + 1
      OBVIOUS
    <2>3. at \in Nat
      BY DEF WalkInv
    <2>4. MetUpto(N)
      BY <1>2, <1>3, <2>1, <2>2, <2>3 DEF MetUpto
    <2>5. MetUpto(N)'
      BY <1>4, <2>4
    <2>6. facePolys' = << >>
      BY <1>2, <2>1 DEF WalkInv
    <2> QED BY <1>5, <2>1, <2>2, <2>5, <2>6 DEF MetInv
  <1> QED BY <1>6, <1>7, <1>8

LEMMA QuietMeets ==
  ASSUME ShapeInv, MetInv, WalkInv, UNCHANGED <<shape, meshed, nodeAlias, facePolys, boundaryKeys, tangentAccum>>,
         step \notin {"idle", "edges"}, step' \notin {"idle", "edges"}
  PROVE  MetInv'
  <1>1. PICK N : N = Len(Occurrences) + 1
    OBVIOUS
  <1>2. Occurrences' = Occurrences
    BY FacePolysKept
  <1>3. MetUpto(N)'
    BY <1>1, QuietMet, MetUptoStays DEF MetInv
  <1>4. facePolys' = << >>
    BY DEF WalkInv
  <1> QED BY <1>1, <1>2, <1>3, <1>4 DEF MetInv

LEMMA IdleMeets ==
  ASSUME ShapeInv, MetInv, UNCHANGED weldVars
  PROVE  MetInv'
  <1>1. UNCHANGED <<shape, meshed, step, at, next, facePolys, adj, nodeAlias, boundaryKeys, tangentAccum>>
    BY DEF weldVars, input, walkVars
  <1>2. Occurrences' = Occurrences
    BY <1>1, FacePolysKept
  <1>3. \A n : MetUpto(n) => MetUpto(n)'
    BY <1>1, QuietMet, MetUptoStays
  <1>4. PICK a, N : a = at /\ N = Len(Occurrences) + 1
    OBVIOUS
  <1>5. MetHere => MetHere'
    BY <1>1 DEF MetHere, Met, PolyKey, Key, NumNodes
  <1> QED BY <1>1, <1>2, <1>3, <1>4, <1>5 DEF MetInv

LEMMA NextMeets ==
  ASSUME TypeInv, ChainInv, WeldedInv, SumsInv, MetInv, AliasesFollowed, AliasesFollowed', [Next]_vars
  PROVE  MetInv'
  <1> USE DEF walkVars, input
  <1>0. ShapeInv /\ LoopInv /\ WalkInv /\ KeysInv
    BY DEF TypeInv, IInv
  <1>1. CASE CallMeshRoutine
    <2>1. step = "idle" /\ step' = "edges" /\ at' = at /\ facePolys' = facePolys
      BY <1>1 DEF CallMeshRoutine, WeldCall
    <2>2. at = 1 /\ facePolys = << >>
      BY <1>0, <2>1 DEF WeldedInv, WalkInv
    <2>3. Occurrences' = Occurrences
      BY <1>1 DEF CallMeshRoutine, WeldCall, Occurrences
    <2>4. DOMAIN Occurrences = 1..Len(Occurrences)
      BY <1>0, OccurrenceFacts DEF ShapeInv
    <2>5. MetUpto(1)'
      BY <2>3, <2>4 DEF MetUpto
    <2> QED BY <2>1, <2>2, <2>5 DEF MetInv
  <1>2. CASE SkipEdge \/ EnterEdge \/ EdgesWalked
    BY <1>0, <1>2, WalkMeets
  <1>3. CASE AliasNode
    BY <1>0, <1>3, AliasNodeMeets
  <1>4. CASE FinishEdge
    BY <1>0, <1>4, FinishEdgeMeets
  <1>5. CASE WeldNode \/ NodesWelded \/ EmitTriangle \/ FaceEmitted \/ SkipFace \/ FacesEmitted
               \/ FinalizePoint \/ BoundaryDataFinalized \/ EmitDeferredCurve \/ CurvesEmitted
               \/ CompactUnusedPoints
    <2>1. /\ UNCHANGED <<shape, meshed, nodeAlias, facePolys, boundaryKeys, tangentAccum>>
          /\ step \notin {"idle", "edges"} /\ step' \notin {"idle", "edges"}
      BY <1>5 DEF WeldNode, NodesWelded, EmitTriangle, FaceEmitted, SkipFace, FacesEmitted, FinalizePoint,
        BoundaryDataFinalized, EmitDeferredCurve, CurvesEmitted, CompactUnusedPoints
    <2> QED BY <1>0, <2>1, QuietMeets
  <1>6. CASE UNCHANGED weldVars
    BY <1>0, <1>6, IdleMeets
  <1>7. CASE MeshRoutine
    BY <1>2, <1>3, <1>4, <1>5, <1>7 DEF MeshRoutine, WeldStep
  <1> QED
    BY <1>1, <1>6, <1>7 DEF Next, Mesh, StopRemeshing, FindOverlaps, Remesh, Return, vars
---------------------------------------------------------------------------
LEMMA ThroughKept ==
  ASSUME UNCHANGED <<shape, meshed>>
  PROVE  /\ NoCopies' = NoCopies /\ EdgesKeepOut' = EdgesKeepOut /\ MeshedKeys' = MeshedKeys
         /\ \A place : /\ EdgesThrough(place)' = EdgesThrough(place)
                        /\ TangentsThrough(place)' = TangentsThrough(place)
                        /\ AllTangent(place)' = AllTangent(place)
         /\ \A key : KeyPlace(key)' = KeyPlace(key)
  <1>1. \A place : /\ EdgesThrough(place)' = EdgesThrough(place)
                    /\ TangentsThrough(place)' = TangentsThrough(place)
                    /\ AllTangent(place)' = AllTangent(place)
    BY DEF EdgesThrough, TangentsThrough, TangentAt, AllTangent, FaceEdges, Along
  <1>2. NoCopies' = NoCopies
    BY DEF NoCopies
  <1>3. EdgesKeepOut' = EdgesKeepOut
    BY <1>1 DEF EdgesKeepOut, FaceNodes, FaceEdges
  <1> QED BY <1>1, <1>2, <1>3, InputKept, MeshedKept

\* An edge passes where the nodes of its polygons are.
LEMMA PolyThrough ==
  ASSUME NEW p, NEW edge, IsPolyOf(p, edge), NEW k \in DOMAIN p.poly
  PROVE  edge \in EdgesThrough(shape[p.face].places[p.poly[k]])
  <1> DEFINE place == shape[p.face].places[p.poly[k]]
  <1>1. PICK e \in FaceEdges(shape[p.face]) : e.edge = edge /\ e.poly = p.poly
    BY DEF IsPolyOf
  <1>2. place \in Range(Along(shape[p.face], e))
    BY <1>1 DEF Along, Range
  <1>3. p.face \in meshed
    BY DEF IsPolyOf
  <1> HIDE DEF place
  <1>4. edge \in {d.edge : d \in {c \in FaceEdges(shape[p.face]) : place \in Range(Along(shape[p.face], c))}}
    BY <1>1, <1>2
  <1>5. edge \in EdgesThrough(place)
    BY <1>3, <1>4 DEF EdgesThrough
  <1> QED BY <1>5 DEF place

\* Without copies, what the key of a node resolves to is at the node's place.
LEMMA PlaceOfRoot ==
  ASSUME ShapeInv, KeysInv, PlaceInv, NoCopies, NEW f \in meshed, NEW n \in FaceNodes(shape[f])
  PROVE  KeyPlace(PointKey(f, n)) = shape[f].places[n]
  <1>1. CopiesAlike /\ PlaceIn(f, n) = shape[f].places[n]
    BY NoCopiesFacts
  <1>2. Key(f, n) \in Keys
    BY KeyOfNode DEF ShapeInv
  <1> QED BY <1>1, <1>2, ResolvedPlace, PlaceOfKey DEF PointKey

\* So the edge the walk is on passes the places of the keys it joins.
LEMMA PolyRootThrough ==
  ASSUME ShapeInv, KeysInv, WalkInv, PlaceInv, NoCopies, facePolys # << >>,
         NEW n \in DOMAIN facePolys, NEW k \in 1..NumNodes
  PROVE  EdgeAt(Occurrences[at]).edge \in EdgesThrough(KeyPlace(ResolveAlias(nodeAlias, PolyKey(n, k))))
  <1>1. IsPolyOf(facePolys[n], EdgeAt(Occurrences[at]).edge) /\ Len(facePolys[n].poly) = NumNodes
    BY AtEdge
  <1>2. k \in DOMAIN facePolys[n].poly
    BY <1>1, PolyInside
  <1>3. facePolys[n].face \in meshed /\ facePolys[n].poly[k] \in FaceNodes(shape[facePolys[n].face])
    BY PolyKeyFacts
  <1>4. KeyPlace(ResolveAlias(nodeAlias, PolyKey(n, k))) = shape[facePolys[n].face].places[facePolys[n].poly[k]]
    BY <1>3, PlaceOfRoot DEF PointKey, PolyKey
  <1> QED BY <1>1, <1>2, <1>4, PolyThrough

\* An edge has the same tangents on all its faces, and where it has one it has it at the
\* place of the key that is summed.
LEMMA PolyTangentThrough ==
  ASSUME ShapeInv, KeysInv, WalkInv, PlaceInv, NoCopies, facePolys # << >>,
         NEW k \in EdgeAt(Occurrences[at]).tangents \cap 1..NumNodes
  PROVE  EdgeAt(Occurrences[at]).edge \in TangentsThrough(KeyPlace(ResolveAlias(nodeAlias, PolyKey(1, k))))
  <1> DEFINE here == EdgeAt(Occurrences[at])
             f == facePolys[1].face
             place == shape[f].places[facePolys[1].poly[k]]
  <1>1. 1 \in DOMAIN facePolys /\ IsPolyOf(facePolys[1], here.edge) /\ Len(facePolys[1].poly) = NumNodes
    BY AtEdge
  <1>2. k \in DOMAIN facePolys[1].poly
    BY <1>1, PolyInside
  <1>3. f \in meshed /\ facePolys[1].poly[k] \in FaceNodes(shape[f])
    BY <1>1, PolyKeyFacts
  <1>4. KeyPlace(ResolveAlias(nodeAlias, PolyKey(1, k))) = place
    BY <1>3, PlaceOfRoot DEF PointKey, PolyKey
  <1>5. PICK e \in FaceEdges(shape[f]) : e.edge = here.edge /\ e.poly = facePolys[1].poly
    BY <1>1 DEF IsPolyOf
  <1>6. e.tangents = here.tangents
    <2>1. shape \in Shapes /\ at \in DOMAIN Occurrences /\ meshed \subseteq DOMAIN shape
      BY DEF ShapeInv, WalkInv
    <2>2. Occurrences[at][1] \in DOMAIN shape /\ here \in Range(shape[Occurrences[at][1]].edges)
      BY <2>1, OccurrenceFacts
    <2>3. f \in DOMAIN shape /\ e \in Range(shape[f].edges)
      BY <1>3, <2>1 DEF FaceEdges
    <2> HIDE DEF here, f
    <2> QED BY <1>5, <2>1, <2>2, <2>3, MeshAssumption
  <1>7. TangentAt(f, e, place)
    <2>1. k \in e.tangents \cap DOMAIN e.poly
      BY <1>2, <1>5, <1>6
    <2>2. Along(shape[f], e)[k] = place
      BY <1>5, <2>1 DEF Along
    <2> QED BY <2>1, <2>2 DEF TangentAt
  <1> HIDE DEF place, f, here
  <1>8. here.edge \in {d.edge : d \in {c \in FaceEdges(shape[f]) : TangentAt(f, c, place)}}
    BY <1>5, <1>7
  <1>9. here.edge \in TangentsThrough(place)
    BY <1>3, <1>8 DEF TangentsThrough
  <1> QED BY <1>4, <1>9 DEF here

LEMMA AliasNodeSums ==
  ASSUME ShapeInv, LoopInv, WalkInv, KeysInv, PlaceInv, ChainInv, SumsInv, AliasNode
  PROVE  SumsInv'
  <1> DEFINE other == ResolveAlias(nodeAlias, PolyKey(adj, next))
  <1>1. /\ boundaryKeys' = boundaryKeys \cup {other} /\ tangentAccum' = tangentAccum
        /\ facePolys # << >> /\ step' = "edges" /\ UNCHANGED <<shape, meshed>>
    BY DEF AliasNode, input
  <1>2. adj \in DOMAIN facePolys /\ next \in 1..NumNodes
    BY JoinedKeys
  <1>3. ASSUME NoCopies PROVE EdgesThrough(KeyPlace(other)) # {}
    BY <1>1, <1>2, <1>3, PolyRootThrough
  <1> HIDE DEF other
  <1>4. /\ NoCopies' = NoCopies /\ MeshedKeys' = MeshedKeys
        /\ \A place : /\ EdgesThrough(place)' = EdgesThrough(place)
                       /\ TangentsThrough(place)' = TangentsThrough(place)
        /\ \A key : KeyPlace(key)' = KeyPlace(key)
    BY <1>1, ThroughKept
  <1>5. ASSUME NoCopies PROVE \A key \in boundaryKeys' : EdgesThrough(KeyPlace(key)) # {}
    BY <1>1, <1>3, <1>5 DEF SumsInv
  <1> QED BY <1>1, <1>4, <1>5 DEF SumsInv

LEMMA FinishEdgeSums ==
  ASSUME ShapeInv, WalkInv, KeysInv, PlaceInv, ChainInv, SumsInv, FinishEdge
  PROVE  SumsInv'
  <1> DEFINE edge == EdgeAt(Occurrences[at]).edge
             canonicalKeys == [k \in 1..NumNodes |-> PolyKey(1, k)]
             touched == {ResolveAlias(nodeAlias, canonicalKeys[k]) :
                           k \in EdgeAt(Occurrences[at]).tangents \cap 1..NumNodes}
  <1>1. /\ facePolys # << >>
        /\ tangentAccum' = [key \in DOMAIN tangentAccum \cup touched |->
             (IF key \in DOMAIN tangentAccum THEN tangentAccum[key] ELSE {})
               \cup (IF key \in touched THEN {edge} ELSE {})]
        /\ step' = "edges" /\ UNCHANGED <<shape, meshed, boundaryKeys>>
    BY DEF FinishEdge, input
  <1>2. 1 \in DOMAIN facePolys
    BY <1>1, AtEdge
  <1>3. \A key \in touched : key \in MeshedKeys /\ (NoCopies => edge \in TangentsThrough(KeyPlace(key)))
    <2>1. TAKE key \in touched
    <2>2. PICK k \in EdgeAt(Occurrences[at]).tangents \cap 1..NumNodes :
            key = ResolveAlias(nodeAlias, PolyKey(1, k))
      OBVIOUS
    <2>3. PolyKey(1, k) \in MeshedKeys
      BY <1>1, <1>2, PolyKeyFacts, MeshedKeyOf DEF PolyKey
    <2>4. key \in MeshedKeys
      BY <2>2, <2>3, ResolveStays DEF ChainInv, Closed
    <2>5. NoCopies => edge \in TangentsThrough(KeyPlace(key))
      BY <1>1, <2>2, PolyTangentThrough
    <2> QED BY <2>4, <2>5
  <1>4. /\ NoCopies' = NoCopies /\ MeshedKeys' = MeshedKeys
        /\ \A place : /\ EdgesThrough(place)' = EdgesThrough(place)
                       /\ TangentsThrough(place)' = TangentsThrough(place)
        /\ \A key : KeyPlace(key)' = KeyPlace(key)
    BY <1>1, ThroughKept
  <1> HIDE DEF touched, edge
  <1>5. DOMAIN tangentAccum' \subseteq MeshedKeys
    BY <1>1, <1>3 DEF SumsInv
  <1>6. ASSUME NoCopies, NEW key \in DOMAIN tangentAccum'
        PROVE  tangentAccum'[key] # {} /\ tangentAccum'[key] \subseteq TangentsThrough(KeyPlace(key))
    <2>1. tangentAccum'[key] = (IF key \in DOMAIN tangentAccum THEN tangentAccum[key] ELSE {})
                                 \cup (IF key \in touched THEN {edge} ELSE {})
      BY <1>1
    <2>2. key \in DOMAIN tangentAccum =>
            tangentAccum[key] # {} /\ tangentAccum[key] \subseteq TangentsThrough(KeyPlace(key))
      BY <1>6 DEF SumsInv
    <2>3. key \in touched => edge \in TangentsThrough(KeyPlace(key))
      BY <1>3, <1>6
    <2>4. key \in DOMAIN tangentAccum \/ key \in touched
      BY <1>1
    <2> QED BY <2>1, <2>2, <2>3, <2>4
  <1> QED BY <1>1, <1>4, <1>5, <1>6 DEF SumsInv

LEMMA QuietSums ==
  ASSUME SumsInv, UNCHANGED <<shape, meshed, boundaryKeys, tangentAccum>>, step' = "idle" => step = "idle"
  PROVE  SumsInv'
  BY ThroughKept DEF SumsInv

LEMMA NextSums ==
  ASSUME TypeInv, PlaceInv, ChainInv, SumsInv, [Next]_vars
  PROVE  SumsInv'
  <1> USE DEF walkVars, input
  <1>0. ShapeInv /\ LoopInv /\ WalkInv /\ KeysInv
    BY DEF TypeInv, IInv
  <1>1. CASE CallMeshRoutine
    <2>1. step = "idle" /\ step' = "edges" /\ UNCHANGED <<boundaryKeys, tangentAccum>>
      BY <1>1 DEF CallMeshRoutine, WeldCall
    <2> QED BY <2>1 DEF SumsInv
  <1>2. CASE AliasNode
    BY <1>0, <1>2, AliasNodeSums
  <1>3. CASE FinishEdge
    BY <1>0, <1>3, FinishEdgeSums
  <1>4. CASE UNCHANGED weldVars
    BY <1>4, QuietSums DEF weldVars
  <1>5. CASE MeshRoutine
    <2>1. CASE AliasNode \/ FinishEdge
      BY <1>2, <1>3, <2>1
    <2>2. CASE ~(AliasNode \/ FinishEdge)
      <3>1. UNCHANGED <<shape, meshed, boundaryKeys, tangentAccum>> /\ step' # "idle"
        BY <1>5, <2>2 DEF MeshRoutine, WeldStep, SkipEdge, EnterEdge, EdgesWalked, WeldNode,
          NodesWelded, EmitTriangle, FaceEmitted, SkipFace, FacesEmitted, FinalizePoint,
          BoundaryDataFinalized, EmitDeferredCurve, CurvesEmitted, CompactUnusedPoints
      <3> QED BY <3>1, QuietSums
    <2> QED BY <2>1, <2>2
  <1> QED
    BY <1>1, <1>4, <1>5 DEF Next, Mesh, StopRemeshing, FindOverlaps, Remesh, Return, vars
---------------------------------------------------------------------------
\* A step that leaves the points alone.
LEMMA QuietFlags ==
  ASSUME FlagInv, UNCHANGED <<shape, meshed, nodeAlias, boundaryKeys, nodeToCanonical, points, boundaryNodes>>,
         step' \in {"idle", "edges"} => step \in {"idle", "edges"}, step' # "done" => step # "done"
  PROVE  FlagInv'
  <1>1. \A f, n : PointKey(f, n)' = PointKey(f, n)
    BY KeysKept
  <1>2. \A idx : PointOfNode(idx)' = PointOfNode(idx)
    BY <1>1 DEF PointOfNode, FaceNodes
  <1> QED BY <1>2 DEF FlagInv

\* A step of the walk: there are no points.
LEMMA WalkFlags ==
  ASSUME FlagInv, step \in {"idle", "edges"}, UNCHANGED <<points, boundaryNodes>>
  PROVE  FlagInv'
  BY DEF FlagInv

LEMMA WeldNodeFlags ==
  ASSUME IInv, PointsTyped, FlagInv, WeldNode
  PROVE  FlagInv'
  <1> DEFINE key == PointKey(at, next)
  <1>0. PICK idx : idx = Len(points) + 1
    OBVIOUS
  <1>1. /\ step = "nodes" /\ step' = "nodes" /\ at \in meshed /\ next <= Len(shape[at].places)
        /\ UNCHANGED <<shape, meshed, nodeAlias, boundaryKeys>>
        /\ \/ key \in DOMAIN nodeToCanonical /\ UNCHANGED <<nodeToCanonical, points, boundaryNodes>>
           \/ /\ key \notin DOMAIN nodeToCanonical
              /\ nodeToCanonical' = Mapped(nodeToCanonical, key, idx)
              /\ points' = Append(points, shape[at].places[next])
              /\ boundaryNodes' = boundaryNodes \cup (IF key \in boundaryKeys THEN {idx} ELSE {})
    BY <1>0 DEF WeldNode, PointKey, input, walkVars
  <1>2. at \in DOMAIN shape /\ next \in FaceNodes(shape[at])
    <2>1. shape \in Shapes /\ at \in DOMAIN shape /\ next \in Nat \ {0}
      BY <1>1 DEF IInv, ShapeInv, LoopInv
    <2>2. Len(shape[at].places) \in Nat /\ FaceNodes(shape[at]) = 1..Len(shape[at].places)
      BY <2>1, FaceFacts
    <2> QED BY <1>1, <2>1, <2>2
  <1>3. CASE UNCHANGED <<nodeToCanonical, points, boundaryNodes>>
    BY <1>1, <1>3, QuietFlags
  <1>4. CASE /\ key \notin DOMAIN nodeToCanonical
             /\ nodeToCanonical' = Mapped(nodeToCanonical, key, idx)
             /\ points' = Append(points, shape[at].places[next])
             /\ boundaryNodes' = boundaryNodes \cup (IF key \in boundaryKeys THEN {idx} ELSE {})
    <2>1. DOMAIN points = 1..Len(points) /\ Len(points) \in Nat
      BY DEF PointsTyped
    <2>2. shape[at].places[next] \in Places
      BY <1>2, PlacesOfFace
    <2>3. DOMAIN points' = 1..(Len(points) + 1)
      BY <1>4, <2>2, Appended DEF PointsTyped
    <2>4. \A f, n : PointKey(f, n)' = PointKey(f, n)
      BY <1>1, KeysKept
    <2>5. boundaryNodes \subseteq DOMAIN points /\ \A i \in DOMAIN points : PointOfNode(i)
      BY <1>1 DEF FlagInv
    <2>6. at \in meshed /\ key = PointKey(at, next)
      BY <1>1
    <2> HIDE DEF key
    <2>7. /\ DOMAIN nodeToCanonical' = DOMAIN nodeToCanonical \cup {key} /\ nodeToCanonical'[key] = idx
          /\ \A k \in DOMAIN nodeToCanonical : nodeToCanonical'[k] = nodeToCanonical[k]
      BY <1>4 DEF Mapped
    <2>8. boundaryNodes' \subseteq DOMAIN points' /\ \A i \in DOMAIN points : i # idx /\ i \in DOMAIN points'
      BY <1>0, <1>4, <2>1, <2>3, <2>5
    <2>9. idx \in boundaryNodes' <=> key \in boundaryKeys
      BY <1>0, <1>4, <2>1, <2>5
    <2>10. ASSUME NEW i \in DOMAIN points PROVE PointOfNode(i)'
      <3>1. PICK f \in meshed : \E n \in FaceNodes(shape[f]) :
              /\ PointKey(f, n) \in DOMAIN nodeToCanonical /\ nodeToCanonical[PointKey(f, n)] = i
              /\ i \in boundaryNodes <=> PointKey(f, n) \in boundaryKeys
        BY <2>5 DEF PointOfNode
      <3>2. PICK n \in FaceNodes(shape[f]) :
              /\ PointKey(f, n) \in DOMAIN nodeToCanonical /\ nodeToCanonical[PointKey(f, n)] = i
              /\ i \in boundaryNodes <=> PointKey(f, n) \in boundaryKeys
        BY <3>1
      <3>3. i \in boundaryNodes' <=> PointKey(f, n) \in boundaryKeys
        BY <1>4, <2>8, <3>2
      <3> QED BY <1>1, <2>4, <2>7, <3>2, <3>3 DEF PointOfNode, FaceNodes
    <2>11. PointOfNode(idx)'
      BY <1>1, <1>2, <2>4, <2>6, <2>7, <2>9 DEF PointOfNode, FaceNodes
    <2>12. \A i \in DOMAIN points' : i \in DOMAIN points \/ i = idx
      BY <1>0, <2>1, <2>3
    <2>13. \A i \in DOMAIN points' : PointOfNode(i)'
      BY <2>10, <2>11, <2>12
    <2> QED BY <1>1, <2>8, <2>13 DEF FlagInv
  <1> QED BY <1>1, <1>3, <1>4

LEMMA EmitTriangleFlags ==
  ASSUME IInv, FlagInv, EmitTriangle
  PROVE  FlagInv'
  <1>1. /\ step = "triangles" /\ step' = "triangles" /\ UNCHANGED <<shape, meshed, nodeAlias, points>>
        /\ DOMAIN nodeToCanonical' = DOMAIN nodeToCanonical
        /\ \A k \in DOMAIN nodeToCanonical : nodeToCanonical'[k] = nodeToCanonical[k]
    BY EmitTriangleFacts
  <1>2. UNCHANGED <<boundaryKeys, boundaryNodes>>
    BY DEF EmitTriangle, walkVars
  <1>3. \A f, n : PointKey(f, n)' = PointKey(f, n)
    BY <1>1, KeysKept
  <1>4. \A i : PointOfNode(i) => PointOfNode(i)'
    BY <1>1, <1>2, <1>3 DEF PointOfNode, FaceNodes
  <1> QED BY <1>1, <1>2, <1>4 DEF FlagInv

LEMMA NextFlags ==
  ASSUME TypeInv, FlagInv, [Next]_vars
  PROVE  FlagInv'
  <1> USE DEF walkVars, meshVars, input
  <1>0. IInv /\ PointsTyped
    BY DEF TypeInv
  <1>1. CASE WeldNode
    BY <1>0, <1>1, WeldNodeFlags
  <1>2. CASE EmitTriangle
    BY <1>0, <1>2, EmitTriangleFlags
  <1>3. CASE CompactUnusedPoints
    BY <1>3 DEF CompactUnusedPoints, FlagInv
  <1>4. CASE SkipEdge \/ EnterEdge \/ AliasNode \/ FinishEdge \/ EdgesWalked
    BY <1>4, WalkFlags DEF SkipEdge, EnterEdge, AliasNode, FinishEdge, EdgesWalked
  <1>5. CASE NodesWelded \/ FaceEmitted \/ SkipFace \/ FacesEmitted \/ FinalizePoint
               \/ BoundaryDataFinalized \/ EmitDeferredCurve \/ CurvesEmitted
    BY <1>5, QuietFlags DEF NodesWelded, FaceEmitted, SkipFace, FacesEmitted, FinalizePoint,
      BoundaryDataFinalized, EmitDeferredCurve, CurvesEmitted
  <1>6. CASE CallMeshRoutine
    BY <1>6, WalkFlags DEF CallMeshRoutine, WeldCall
  <1>7. CASE UNCHANGED weldVars
    BY <1>7, QuietFlags DEF weldVars
  <1>8. CASE MeshRoutine
    BY <1>1, <1>2, <1>3, <1>4, <1>5, <1>8 DEF MeshRoutine, WeldStep
  <1> QED
    BY <1>6, <1>7, <1>8 DEF Next, Mesh, StopRemeshing, FindOverlaps, Remesh, Return, vars
---------------------------------------------------------------------------
\* The node a point is of is met if it is where an edge passes, and summed if no edge
\* there lacks a tangent: it is then on an edge of its own face, which the walk came by.
LEMMA NodeMet ==
  ASSUME ShapeInv, MetUpto(Len(Occurrences) + 1), EdgesKeepOut,
         NEW f \in meshed, NEW n \in FaceNodes(shape[f]), EdgesThrough(shape[f].places[n]) # {}
  PROVE  Met(Key(f, n)) /\ (AllTangent(shape[f].places[n]) => Summed(Key(f, n)))
  <1>1. shape \in Shapes /\ f \in DOMAIN shape
    BY DEF ShapeInv
  <1>2. PICK e \in FaceEdges(shape[f]) : n \in Range(e.poly)
    BY DEF EdgesKeepOut
  <1>3. PICK k \in DOMAIN e.poly : e.poly[k] = n
    BY <1>2 DEF Range
  <1>4. PICK m \in DOMAIN Occurrences : Occurrences[m][1] = f /\ EdgeAt(Occurrences[m]) = e
    BY <1>1, OccurrenceFacts
  <1>5. DOMAIN Occurrences = 1..Len(Occurrences) /\ Len(Occurrences) \in Nat
    BY <1>1, OccurrenceFacts
  <1>6. EdgeMet(m)
    BY <1>5 DEF MetUpto
  <1> DEFINE polys == FacePolys(Occurrences[m])
  <1>7. PolyAt(m, m).face = f /\ PolyAt(m, m).poly = e.poly
    BY <1>4 DEF PolyAt
  <1>8. PICK i \in DOMAIN polys : polys[i] = PolyAt(m, m)
    <2>1. e.poly # << >>
      BY DEF FaceEdges
    <2> QED BY <1>1, <1>4, <1>7, <2>1, PolysVisited
  <1>9. k \in DOMAIN polys[i].poly /\ polys[i].face = f /\ polys[i].poly[k] = n
    BY <1>3, <1>7, <1>8
  <1>10. /\ Met(Key(polys[i].face, polys[i].poly[k]))
         /\ k \in e.tangents => Summed(Key(polys[i].face, polys[i].poly[k]))
    BY <1>4, <1>6, <1>9 DEF EdgeMet
  <1>11. AllTangent(shape[f].places[n]) => k \in e.tangents
    BY <1>3 DEF AllTangent, Along
  <1> QED BY <1>9, <1>10, <1>11

\* What a point has to be given, once the walk is over and points are there.
Due(idx) ==
  LET edges == EdgesThrough(points[idx]) IN
    /\ idx \in boundaryNodes <=> edges # {}
    /\ \A sum \in TangentsOf(idx) : sum # {} /\ sum \subseteq TangentsThrough(points[idx])
    /\ edges # {} /\ AllTangent(points[idx]) => TangentsOf(idx) # {}

LEMMA PointsDue ==
  ASSUME TypeInv, PlaceInv, MetInv, SumsInv, FlagInv, NoCopies, EdgesKeepOut, step = "boundary",
         NEW idx \in DOMAIN points
  PROVE  Due(idx)
  <1> DEFINE edges == EdgesThrough(points[idx])
  <1>1. ShapeInv /\ KeysInv
    BY DEF TypeInv, IInv
  <1>2. /\ \A key \in DOMAIN nodeToCanonical : points[nodeToCanonical[key]] = KeyPlace(key)
        /\ \A key \in Keys : KeyPlace(ResolveAlias(nodeAlias, key)) = KeyPlace(key)
    BY <1>1, NoCopiesFacts, ResolvedPlace DEF PlaceInv
  <1>3. PICK f \in meshed : \E n \in FaceNodes(shape[f]) :
          /\ PointKey(f, n) \in DOMAIN nodeToCanonical /\ nodeToCanonical[PointKey(f, n)] = idx
          /\ idx \in boundaryNodes <=> PointKey(f, n) \in boundaryKeys
    BY DEF FlagInv, PointOfNode
  <1>4. PICK n \in FaceNodes(shape[f]) :
          /\ PointKey(f, n) \in DOMAIN nodeToCanonical /\ nodeToCanonical[PointKey(f, n)] = idx
          /\ idx \in boundaryNodes <=> PointKey(f, n) \in boundaryKeys
    BY <1>3
  <1>5. points[idx] = KeyPlace(PointKey(f, n)) /\ points[idx] = shape[f].places[n]
    BY <1>1, <1>2, <1>4, PlaceOfRoot
  <1>6. idx \in boundaryNodes => edges # {}
    BY <1>4, <1>5 DEF SumsInv
  <1>7. ASSUME edges # {}
        PROVE  idx \in boundaryNodes /\ (AllTangent(points[idx]) => TangentsOf(idx) # {})
    <2>1. MetUpto(Len(Occurrences) + 1)
      BY DEF MetInv
    <2>2. Met(Key(f, n)) /\ (AllTangent(points[idx]) => Summed(Key(f, n)))
      BY <1>1, <1>5, <1>7, <2>1, NodeMet
    <2>3. PointKey(f, n) \in boundaryKeys
      BY <2>2 DEF Met, PointKey
    <2>4. ASSUME AllTangent(points[idx]) PROVE TangentsOf(idx) # {}
      <3>1. PICK key \in DOMAIN tangentAccum : ResolveAlias(nodeAlias, key) = PointKey(f, n)
        BY <2>2, <2>4 DEF Summed, PointKey
      <3>2. tangentAccum[key] \in TangentsOf(idx)
        BY <1>4, <3>1 DEF TangentsOf
      <3> QED BY <3>2
    <2> QED BY <1>4, <2>3, <2>4
  <1>8. ASSUME NEW sum \in TangentsOf(idx) PROVE sum # {} /\ sum \subseteq TangentsThrough(points[idx])
    <2>1. PICK key \in DOMAIN tangentAccum :
            /\ sum = tangentAccum[key] /\ ResolveAlias(nodeAlias, key) \in DOMAIN nodeToCanonical
            /\ nodeToCanonical[ResolveAlias(nodeAlias, key)] = idx
      BY DEF TangentsOf
    <2>2. key \in Keys
      BY <1>1 DEF KeysInv
    <2>3. KeyPlace(key) = points[idx]
      BY <1>2, <2>1, <2>2
    <2> QED BY <2>1, <2>3 DEF SumsInv
  <1> QED BY <1>6, <1>7, <1>8 DEF Due

\* Nothing is made of it before.
LEMMA QuietData ==
  ASSUME DataInv, UNCHANGED <<shape, meshed, points, perPoint>>,
         step' = "boundary" => step = "boundary" /\ next' = next,
         step' \in {"curves", "compact"} => step \in {"curves", "compact"},
         step' = "done" => step = "done"
  PROVE  DataInv'
  <1>1. /\ NoCopies' = NoCopies /\ EdgesKeepOut' = EdgesKeepOut
        /\ \A place : /\ EdgesThrough(place)' = EdgesThrough(place)
                       /\ TangentsThrough(place)' = TangentsThrough(place)
                       /\ AllTangent(place)' = AllTangent(place)
    BY ThroughKept
  <1>2. \A idx : InPlace(idx)' = InPlace(idx)
    BY <1>1 DEF InPlace, perPoint
  <1> QED BY <1>1, <1>2 DEF DataInv, perPoint

LEMMA FinalizeData ==
  ASSUME TypeInv, PlaceInv, MetInv, SumsInv, FlagInv, DataInv, FinalizePoint
  PROVE  DataInv'
  <1>1. PICK sum \in IF TangentsOf(next) = {} THEN {{}} ELSE TangentsOf(next) :
          boundaryTangents' = Append(boundaryTangents, sum)
    BY DEF FinalizePoint
  <1>2. /\ step = "boundary" /\ step' = "boundary" /\ next <= Len(points) /\ next' = next + 1
        /\ isBoundaryVertex' = Append(isBoundaryVertex, next \in boundaryNodes)
        /\ UNCHANGED <<shape, meshed, points>>
    BY DEF FinalizePoint, input, meshVars
  <1>3. /\ isBoundaryVertex \in Seq(BOOLEAN) /\ boundaryTangents \in Seq(SUBSET Edges)
        /\ Len(isBoundaryVertex) = next - 1 /\ Len(boundaryTangents) = next - 1
        /\ next \in Nat \ {0} /\ DOMAIN points = 1..Len(points) /\ Len(points) \in Nat
    BY <1>2 DEF TypeInv, TangentsInv, IInv, LoopInv, PointsTyped
  <1>4. PICK idx : idx = next
    OBVIOUS
  <1>5. idx \in DOMAIN points /\ idx \in Nat
    BY <1>2, <1>3, <1>4
  <1>6. /\ NoCopies' = NoCopies /\ EdgesKeepOut' = EdgesKeepOut
        /\ \A place : /\ EdgesThrough(place)' = EdgesThrough(place)
                       /\ TangentsThrough(place)' = TangentsThrough(place)
                       /\ AllTangent(place)' = AllTangent(place)
    BY <1>2, ThroughKept
  <1>7. sum \in SUBSET Edges
    <2>1. \A x \in TangentsOf(next) : x \subseteq Edges
      BY DEF TangentsOf, TypeInv, KeysInv
    <2> QED BY <1>1, <2>1
  <1>8. /\ isBoundaryVertex'[idx] = (idx \in boundaryNodes)
        /\ \A i \in 1..(idx - 1) : isBoundaryVertex'[i] = isBoundaryVertex[i]
    BY <1>2, <1>3, <1>4
  <1>9. /\ boundaryTangents'[idx] = sum
        /\ \A i \in 1..(idx - 1) : boundaryTangents'[i] = boundaryTangents[i]
    BY <1>1, <1>3, <1>4, <1>7
  <1>10. ASSUME NoCopies, EdgesKeepOut PROVE \A i \in 1..(next' - 1) : InPlace(i)'
    <2>1. Due(idx)
      BY <1>2, <1>5, <1>10, PointsDue
    <2>2. InPlace(idx)'
      BY <1>1, <1>2, <1>4, <1>6, <1>8, <1>9, <2>1 DEF Due, InPlace
    <2>3. \A i \in 1..(idx - 1) : InPlace(i)
      BY <1>2, <1>4, <1>10 DEF DataInv
    <2>4. \A i \in 1..(idx - 1) : InPlace(i)'
      BY <1>2, <1>6, <1>8, <1>9, <2>3 DEF InPlace
    <2>5. \A i \in 1..(next' - 1) : i = idx \/ i \in 1..(idx - 1)
      BY <1>2, <1>3, <1>4
    <2> QED BY <2>2, <2>4, <2>5
  <1> QED BY <1>2, <1>6, <1>10 DEF DataInv

LEMMA FinalizedData ==
  ASSUME TypeInv, DataInv, BoundaryDataFinalized
  PROVE  DataInv'
  <1>1. /\ step = "boundary" /\ next > Len(points) /\ step' = "curves"
        /\ UNCHANGED <<shape, meshed, points, perPoint>>
    BY DEF BoundaryDataFinalized, input, meshVars
  <1>2. \A idx \in DOMAIN points : idx \in 1..(next - 1)
    BY <1>1 DEF TypeInv, IInv, LoopInv, PointsTyped
  <1>3. /\ NoCopies' = NoCopies /\ EdgesKeepOut' = EdgesKeepOut
        /\ \A place : /\ EdgesThrough(place)' = EdgesThrough(place)
                       /\ TangentsThrough(place)' = TangentsThrough(place)
                       /\ AllTangent(place)' = AllTangent(place)
    BY <1>1, ThroughKept
  <1>4. \A idx : InPlace(idx)' = InPlace(idx)
    BY <1>1, <1>3 DEF InPlace, perPoint
  <1> QED BY <1>1, <1>2, <1>3, <1>4 DEF DataInv

\* Flags and tangents go with their points.
LEMMA CompactData ==
  ASSUME TypeInv, DataInv, CompactUnusedPoints
  PROVE  DataInv'
  <1> DEFINE K == Cardinality(FirstUses)
  <1>1. /\ step = "compact" /\ step' = "done"
        /\ points' = [n \in 1..K |-> points[NewToOld(n)]]
        /\ isBoundaryVertex' = [n \in 1..K |-> isBoundaryVertex[NewToOld(n)]]
        /\ boundaryTangents' = IF FirstUses = {} THEN boundaryTangents
                               ELSE [n \in 1..K |-> boundaryTangents[NewToOld(n)]]
        /\ UNCHANGED <<shape, meshed>>
    BY DEF CompactUnusedPoints, input
  <1>2. /\ faceVertexIndices \in Seq(Nat)
        /\ \A c \in DOMAIN faceVertexIndices : faceVertexIndices[c] \in DOMAIN points
    BY <1>1 DEF TypeInv, IInv, PointInv
  <1>3. K \in Nat /\ \A n \in 1..K : NewToOld(n) \in DOMAIN points
    BY <1>2, Renumbered
  <1>4. FirstUses = {} => 1..K = {}
    BY FS_EmptySet
  <1>5. /\ NoCopies' = NoCopies /\ EdgesKeepOut' = EdgesKeepOut
        /\ \A place : /\ EdgesThrough(place)' = EdgesThrough(place)
                       /\ TangentsThrough(place)' = TangentsThrough(place)
                       /\ AllTangent(place)' = AllTangent(place)
    BY <1>1, ThroughKept
  <1> HIDE DEF K
  <1>6. ASSUME NoCopies, EdgesKeepOut, NEW n \in 1..K PROVE InPlace(n)'
    <2>1. PICK old \in DOMAIN points : old = NewToOld(n)
      BY <1>3
    <2>2. InPlace(old)
      BY <1>1, <1>6, <2>1 DEF DataInv
    <2>3. /\ points'[n] = points[old] /\ isBoundaryVertex'[n] = isBoundaryVertex[old]
          /\ boundaryTangents'[n] = boundaryTangents[old]
      BY <1>1, <1>4, <2>1
    <2> QED BY <1>5, <2>2, <2>3 DEF InPlace
  <1>7. DOMAIN points' = 1..K /\ DOMAIN isBoundaryVertex' = 1..K
    BY <1>1
  <1> QED BY <1>1, <1>5, <1>6, <1>7 DEF DataInv

LEMMA NextData ==
  ASSUME TypeInv, PlaceInv, MetInv, SumsInv, FlagInv, DataInv, [Next]_vars
  PROVE  DataInv'
  <1> USE DEF walkVars, meshVars, input
  <1>1. CASE FinalizePoint
    BY <1>1, FinalizeData
  <1>2. CASE BoundaryDataFinalized
    BY <1>2, FinalizedData
  <1>3. CASE CompactUnusedPoints
    BY <1>3, CompactData
  <1>4. CASE SkipEdge \/ EnterEdge \/ AliasNode \/ FinishEdge \/ EdgesWalked \/ WeldNode \/ NodesWelded
               \/ EmitTriangle \/ FaceEmitted \/ SkipFace
    <2>1. step' \in {"edges", "nodes", "triangles"}
      BY <1>4 DEF SkipEdge, EnterEdge, AliasNode, FinishEdge, EdgesWalked, WeldNode, NodesWelded,
        EmitTriangle, FaceEmitted, SkipFace
    <2> QED BY <2>1 DEF DataInv
  <1>5. CASE FacesEmitted
    <2>1. step' = "boundary" /\ next' = 1
      BY <1>5 DEF FacesEmitted
    <2>2. 1..(next' - 1) = {}
      BY <2>1
    <2> QED BY <2>1, <2>2 DEF DataInv
  <1>6. CASE EmitDeferredCurve \/ CurvesEmitted
    BY <1>6, QuietData DEF EmitDeferredCurve, CurvesEmitted
  <1>7. CASE CallMeshRoutine
    BY <1>7 DEF CallMeshRoutine, WeldCall, DataInv
  <1>8. CASE UNCHANGED weldVars
    BY <1>8, QuietData DEF weldVars
  <1>9. CASE MeshRoutine
    BY <1>1, <1>2, <1>3, <1>4, <1>5, <1>6, <1>9 DEF MeshRoutine, WeldStep
  <1> QED
    BY <1>7, <1>8, <1>9 DEF Next, Mesh, StopRemeshing, FindOverlaps, Remesh, Return, vars

LEMMA DataShown ==
  ASSUME TypeInv, DataInv
  PROVE  EdgesKeepOut => BoundaryDataInPlace
  <1> SUFFICES ASSUME EdgesKeepOut, step \in {"curves", "compact", "done"}, NoCopies
               PROVE  /\ DOMAIN isBoundaryVertex = DOMAIN points
                      /\ \A idx \in DOMAIN points :
                           LET place == points[idx] IN
                             /\ isBoundaryVertex[idx] <=> EdgesThrough(place) # {}
                             /\ boundaryTangents[idx] \subseteq TangentsThrough(place)
                             /\ EdgesThrough(place) # {} /\ AllTangent(place) => boundaryTangents[idx] # {}
    BY DEF BoundaryDataInPlace
  <1>1. \A idx \in DOMAIN points : InPlace(idx)
    BY DEF DataInv
  <1>2. DOMAIN isBoundaryVertex = DOMAIN points
    BY DEF DataInv, TypeInv, TangentsInv, PointsTyped
  <1> QED BY <1>1, <1>2 DEF InPlace

LEMMA InitData == Init => MetInv /\ SumsInv /\ FlagInv /\ DataInv
  BY DEF Init, WeldInit, MetInv, SumsInv, FlagInv, DataInv

\* Flags and tangents are where edges pass, in the mesh as it is welded and as it is
\* compacted, if aliases are followed to their ends and edges keep out of the inside of faces.
THEOREM FollowedHasData == Spec /\ []AliasesFollowed => [](EdgesKeepOut => BoundaryDataInPlace)
  <1> DEFINE All == PlacedInv /\ ChainInv /\ WeldedInv /\ MetInv /\ SumsInv /\ FlagInv /\ DataInv
  <1>1. ASSUME All, AliasesFollowed, AliasesFollowed', [Next]_vars
        PROVE  WeldedInv' /\ MetInv' /\ SumsInv' /\ FlagInv' /\ DataInv'
    BY <1>1, NextWelds, NextMeets, NextSums, NextFlags, NextData DEF PlacedInv
  <1>2. All => (EdgesKeepOut => BoundaryDataInPlace)
    BY DataShown DEF PlacedInv
  <1>3. Init => WeldedInv /\ MetInv /\ SumsInv /\ FlagInv /\ DataInv
    BY InitWelds, InitData
  <1> QED BY <1>1, <1>2, <1>3, ChainInvariance, PlacedInvariance, PTL DEF Spec

\* So it is for any such shape without copies that has nowhere more nodes in one place
\* than resolveAlias follows aliases, and one.
THEOREM DataPlaced == Spec => [](PlacesNarrow /\ EdgesKeepOut => BoundaryDataInPlace)
  <1> DEFINE Few == FewKeys => WeldedInv /\ MetInv /\ DataInv
             All == PlacedInv /\ ChainInv /\ SumsInv /\ FlagInv /\ Few
  <1>1. ASSUME All, FewKeys => AliasesFollowed, (FewKeys => AliasesFollowed)', [Next]_vars
        PROVE  SumsInv' /\ FlagInv' /\ Few'
    <2>1. SumsInv' /\ FlagInv'
      BY <1>1, NextSums, NextFlags DEF PlacedInv
    <2>2. ASSUME FewKeys' PROVE WeldedInv' /\ MetInv' /\ DataInv'
      <3>1. FewKeys
        BY <1>1, <2>2, FewKeysBefore DEF PlacedInv
      <3>2. AliasesFollowed /\ AliasesFollowed'
        BY <1>1, <2>2, <3>1
      <3> QED BY <1>1, <3>1, <3>2, NextWelds, NextMeets, NextData DEF PlacedInv
    <2> QED BY <2>1, <2>2
  <1>2. All => (PlacesNarrow /\ EdgesKeepOut => BoundaryDataInPlace)
    <2> SUFFICES ASSUME All, PlacesNarrow, EdgesKeepOut, NoCopies PROVE BoundaryDataInPlace
      BY DEF BoundaryDataInPlace
    <2>1. CopiesAlike
      BY NoCopiesFacts DEF PlacedInv, TypeInv, IInv
    <2> QED BY <2>1, DataShown DEF PlacedInv, FewKeys
  <1>3. Init => SumsInv /\ FlagInv /\ Few
    BY InitWelds, InitData
  <1>4. PlacedInv /\ ChainInv => (FewKeys => AliasesFollowed)
    BY ChainsFollowed DEF PlacedInv, TypeInv, IInv
  <1> QED BY <1>1, <1>2, <1>3, <1>4, ChainInvariance, PlacedInvariance, PTL DEF Spec
=============================================================================
