------------------------- MODULE AssemblyTree_proofs -------------------------
(***************************************************************************)
(* For any document: the types; no two nodes of the first free shape get   *)
(* one path, if siblings have different suffixes; the two passes agree;    *)
(* the links between nodes are right; every place of the unfolded document *)
(* has exactly one node.                                                   *)
(*                                                                         *)
(* Two nodes with one path have parents with one path, hence one parent,   *)
(* and siblings have different suffixes.  That siblings stand for          *)
(* different components at all is a fact about the filling of the tree:    *)
(* the frame of an assembly is past the components its nodes stand for,    *)
(* and no two frames fill the same node.                                   *)
(*                                                                         *)
(* That the passes agree is told frame by frame: with what pass 1 counted  *)
(* one knows where every loop will have taken the cursor when the call it  *)
(* made last returns (Reach), and a step of the second pass moves just the *)
(* innermost loop on.                                                      *)
(*                                                                         *)
(* That no place is left out is that what the loops have passed has its    *)
(* node (PassedInv); then the places below a definition and the nodes      *)
(* below one of its nodes are compared, upwards from the definitions       *)
(* without components and downwards from the roots.                        *)
(***************************************************************************)
EXTENDS AssemblyTree, NatSets

DefOf(n) == partNodes[n].def
ParentOf(n) == partNodes[n].parent
InstOf(n) == partNodes[n].inst

Frames == [node : Nat, next : Nat]
Paths == Seq(PathNames)

ShapeInv ==
  /\ doc \in Documents
  /\ partNodes \in Seq(NodeRecord)
  /\ stack \in Seq(Frames)
  /\ nextFree \in Nat \ {0}

\* Frames fill different nodes, each after the one it was made in.
FrameInv ==
  /\ \A f \in DOMAIN stack : stack[f].node \in DOMAIN partNodes /\ stack[f].next > 0
  /\ \A f, g \in DOMAIN stack : f < g => stack[f].node < stack[g].node

\* The component of its parent that node n stands for.
StandsFor(n, k) ==
  /\ k \in DOMAIN Parts(DefOf(ParentOf(n)))
  /\ InstOf(n) = PartLabel(DefOf(ParentOf(n)), k)

\* Parents precede their children, and a frame is past the components that those of its
\* node stand for.
ParentInv ==
  \A n \in DOMAIN partNodes : ParentOf(n) # 0 =>
    /\ ParentOf(n) \in DOMAIN partNodes /\ ParentOf(n) < n
    /\ \E k \in Nat :
         /\ StandsFor(n, k)
         /\ \A f \in DOMAIN stack : stack[f].node = ParentOf(n) => k < stack[f].next

\* Siblings stand for different components.
SiblingInv ==
  \A m, n \in DOMAIN partNodes :
    m # n /\ ParentOf(m) = ParentOf(n) /\ ParentOf(n) # 0 => InstOf(m) # InstOf(n)

\* A path of the first tree is the root's or below that of the node's parent.
PathInv ==
  /\ phase \in {"count", "fill"} => nodePaths = << >>
  /\ nodePaths \in Seq(Paths) /\ Len(nodePaths) <= Len(partNodes)
  /\ \A n \in FirstTree :
       /\ nodePaths[n] # NoPath
       /\ n = 1 => nodePaths[n] = AssemblyRoot
       /\ n # 1 => /\ ParentOf(n) # 0 /\ ParentOf(n) \in FirstTree
                  /\ nodePaths[n] = Append(nodePaths[ParentOf(n)], Suffix[InstOf(n)])

TreeInv == ShapeInv /\ FrameInv /\ ParentInv /\ SiblingInv
IInv == TreeInv /\ PathInv /\ PathsDistinct
---------------------------------------------------------------------------
LEMMA ElementOf ==
  ASSUME NEW S, NEW s \in Seq(S), NEW n \in DOMAIN s
  PROVE  s[n] \in S
  OBVIOUS

LEMMA Extended ==
  ASSUME NEW S, NEW s \in Seq(S), NEW x \in S
  PROVE  /\ Append(s, x) \in Seq(S) /\ Len(s) \in Nat /\ DOMAIN s = 1..Len(s)
         /\ Len(Append(s, x)) = Len(s) + 1
         /\ DOMAIN Append(s, x) = DOMAIN s \cup {Len(s) + 1}
         /\ Append(s, x)[Len(s) + 1] = x
         /\ \A n \in DOMAIN s : Append(s, x)[n] = s[n]
  OBVIOUS

LEMMA ReplaceElement ==
  ASSUME NEW S, NEW s \in Seq(S), NEW n \in DOMAIN s, NEW x \in S
  PROVE  /\ [s EXCEPT ![n] = x] \in Seq(S)
         /\ DOMAIN [s EXCEPT ![n] = x] = DOMAIN s
         /\ [s EXCEPT ![n] = x][n] = x
         /\ \A m \in DOMAIN s \ {n} : [s EXCEPT ![n] = x][m] = s[m]
  OBVIOUS

LEMMA FrontOf ==
  ASSUME NEW S, NEW s \in Seq(S), s # << >>
  PROVE  /\ Front(s) \in Seq(S) /\ Len(Front(s)) = Len(s) - 1 /\ Len(s) \in Nat \ {0}
         /\ \A n \in DOMAIN Front(s) : Front(s)[n] = s[n] /\ n \in DOMAIN s
  <1>1. Len(s) \in Nat \ {0} /\ DOMAIN s = 1..Len(s)
    OBVIOUS
  <1>2. Front(s) = SubSeq(s, 1, Len(s) - 1)
    BY DEF Front
  <1>3. /\ SubSeq(s, 1, Len(s) - 1) \in Seq(S)
        /\ Len(SubSeq(s, 1, Len(s) - 1)) = Len(s) - 1
        /\ \A n \in 1..(Len(s) - 1) : SubSeq(s, 1, Len(s) - 1)[n] = s[n]
    BY <1>1
  <1> QED BY <1>1, <1>2, <1>3

LEMMA FrameTypes ==
  ASSUME ShapeInv
  PROVE  \A f \in DOMAIN stack :
           stack[f] \in Frames /\ stack[f].node \in Nat /\ stack[f].next \in Nat
  <1>1. \A f \in DOMAIN stack : stack[f] \in Frames
    BY ElementOf DEF ShapeInv
  <1>2. \A r \in Frames : r.node \in Nat /\ r.next \in Nat
    BY DEF Frames
  <1> QED BY <1>1, <1>2

\* The frame on top.
LEMMA TopFrame ==
  ASSUME ShapeInv, FrameInv, stack # << >>
  PROVE  /\ Len(stack) \in DOMAIN stack /\ Top = stack[Len(stack)]
         /\ Top \in Frames /\ Top.node \in DOMAIN partNodes /\ Top.next > 0
         /\ DefOf(Top.node) \in Def
         /\ \A f \in DOMAIN stack : stack[f].node = Top.node => f = Len(stack)
  <1>1. Len(stack) \in DOMAIN stack /\ DOMAIN stack = 1..Len(stack) /\ Len(stack) \in Nat
    BY DEF ShapeInv
  <1>2. Top = stack[Len(stack)]
    BY DEF Top, Last
  <1>3. \A f \in DOMAIN stack : stack[f] \in Frames /\ stack[f].node \in Nat
    BY FrameTypes
  <1>4. Top.node \in DOMAIN partNodes /\ Top.next > 0
    BY <1>1, <1>2 DEF FrameInv
  <1>5. partNodes[Top.node] \in NodeRecord
    BY <1>4, ElementOf DEF ShapeInv
  <1>6. ASSUME NEW f \in DOMAIN stack, stack[f].node = Top.node, f # Len(stack) PROVE FALSE
    <2>1. f < Len(stack)
      BY <1>1, <1>6
    <2>2. stack[f].node < stack[Len(stack)].node
      BY <1>1, <2>1 DEF FrameInv
    <2> QED BY <1>1, <1>2, <1>3, <1>6, <2>2
  <1> QED BY <1>1, <1>2, <1>3, <1>4, <1>5, <1>6 DEF DefOf, NodeRecord

\* Stepping on leaves the frames' nodes and raises the counter of the top one.
LEMMA SteppedFrames ==
  ASSUME ShapeInv, FrameInv
  PROVE  /\ Stepped \in Seq(Frames) /\ DOMAIN Stepped = DOMAIN stack
         /\ \A f \in DOMAIN stack :
              /\ Stepped[f].node = stack[f].node
              /\ Stepped[f].next \in Nat /\ Stepped[f].next >= stack[f].next
              /\ stack[f].node \in Nat /\ stack[f].next \in Nat
         /\ stack # << >> => Stepped[Len(stack)].next = Top.next + 1
  <1>1. \A f \in DOMAIN stack : stack[f] \in Frames /\ stack[f].node \in Nat /\ stack[f].next \in Nat
    BY FrameTypes
  <1>2. CASE stack = << >>
    BY <1>1, <1>2 DEF Stepped, ShapeInv
  <1>3. CASE stack # << >>
    <2> DEFINE l == Len(stack)
               t == [stack[l] EXCEPT !.next = stack[l].next + 1]
    <2>1. l \in DOMAIN stack /\ stack[l] \in Frames /\ Top = stack[l]
      BY <1>1, <1>3, TopFrame
    <2>2. t \in Frames /\ t.node = stack[l].node /\ t.next = stack[l].next + 1
      BY <2>1 DEF Frames
    <2>3. Stepped = [stack EXCEPT ![l] = t]
      BY <1>3, <2>1 DEF Stepped
    <2> HIDE DEF t, l
    <2>4. /\ Stepped \in Seq(Frames) /\ DOMAIN Stepped = DOMAIN stack
          /\ Stepped[l] = t /\ \A f \in DOMAIN stack \ {l} : Stepped[f] = stack[f]
      BY <2>1, <2>2, <2>3, ReplaceElement DEF ShapeInv
    <2>5. ASSUME NEW f \in DOMAIN stack
          PROVE  /\ Stepped[f].node = stack[f].node
                 /\ Stepped[f].next \in Nat /\ Stepped[f].next >= stack[f].next
      <3>1. CASE f = l
        BY <1>1, <2>2, <2>4, <3>1
      <3>2. CASE f # l
        BY <1>1, <2>4, <3>2
      <3> QED BY <3>1, <3>2
    <2> QED BY <1>1, <2>1, <2>2, <2>4, <2>5 DEF l
  <1> QED BY <1>2, <1>3
---------------------------------------------------------------------------
LEMMA InitInv == Init => IInv
  BY DEF Init, IInv, TreeInv, ShapeInv, FrameInv, ParentInv, SiblingInv, PathInv, PathsDistinct,
         NodesApart, FirstTree

\* What is said of the paths is said of the nodes and them.
LEMMA SamePaths ==
  ASSUME UNCHANGED <<partNodes, nodePaths>>, PathInv, PathsDistinct
  PROVE  /\ FirstTree' = FirstTree /\ PathsDistinct'
         /\ (phase' \in {"count", "fill"} => nodePaths = << >>) => PathInv'
  <1>1. FirstTree' = FirstTree
    BY DEF FirstTree
  <1>2. SiblingsApart' = SiblingsApart
    BY DEF SiblingsApart
  <1> QED BY <1>1, <1>2 DEF PathInv, PathsDistinct, NodesApart, ParentOf, InstOf

\* Nothing is added to the tree, frames go on or away.
LEMMA NoNodeInv ==
  ASSUME IInv, UNCHANGED <<doc, partNodes, nodePaths>>,
         phase \in {"count", "fill"} \/ phase' \notin {"count", "fill"},
         nextFree' \in Nat \ {0}, stack' \in Seq(Frames),
         \A f \in DOMAIN stack' :
           f \in DOMAIN stack /\ stack'[f].node = stack[f].node /\ stack'[f].next \in Nat
             /\ stack'[f].next >= stack[f].next
  PROVE  IInv'
  <1>1. \A f \in DOMAIN stack : stack[f].next \in Nat
    BY FrameTypes DEF IInv, TreeInv
  <1>2. ShapeInv'
    BY DEF IInv, TreeInv, ShapeInv
  <1>3. FrameInv'
    BY <1>1 DEF IInv, TreeInv, FrameInv
  <1>4. ParentInv'
    <2> SUFFICES ASSUME NEW n \in DOMAIN partNodes, ParentOf(n) # 0
                 PROVE  /\ ParentOf(n) \in DOMAIN partNodes /\ ParentOf(n) < n
                        /\ \E k \in Nat :
                             /\ StandsFor(n, k)
                             /\ \A f \in DOMAIN stack' : stack'[f].node = ParentOf(n) => k < stack'[f].next
      BY DEF ParentInv, ParentOf, StandsFor, DefOf, InstOf, Parts
    <2>1. PICK k \in Nat : /\ StandsFor(n, k)
                           /\ \A f \in DOMAIN stack : stack[f].node = ParentOf(n) => k < stack[f].next
      BY DEF IInv, TreeInv, ParentInv
    <2>2. \A f \in DOMAIN stack' : stack'[f].node = ParentOf(n) => k < stack'[f].next
      BY <1>1, <2>1
    <2> QED BY <2>1, <2>2 DEF IInv, TreeInv, ParentInv
  <1>5. SiblingInv'
    BY DEF IInv, TreeInv, SiblingInv, ParentOf, InstOf
  <1>6. PathInv' /\ PathsDistinct'
    BY SamePaths DEF IInv, PathInv
  <1> QED BY <1>2, <1>3, <1>4, <1>5, <1>6 DEF IInv, TreeInv

\* A node is added for the component the top frame is on, and perhaps a frame for it.
LEMMA NodeAddedInv ==
  ASSUME IInv, UNCHANGED <<doc, nodePaths>>, Filling, phase' = "fill", nextFree' \in Nat \ {0},
         NEW node \in NodeRecord, partNodes' = Append(partNodes, node),
         node.inst = Label, node.parent = ParentIdx,
         \/ stack' = Stepped
         \/ stack' = Append(Stepped, [node |-> Len(partNodes) + 1, next |-> 1])
  PROVE  IInv'
  <1> USE DEF IInv, TreeInv
  <1> DEFINE new == Len(partNodes) + 1
             frame == [node |-> new, next |-> 1]
  <1>1. /\ partNodes' \in Seq(NodeRecord) /\ Len(partNodes) \in Nat /\ DOMAIN partNodes = 1..Len(partNodes)
        /\ DOMAIN partNodes' = DOMAIN partNodes \cup {new} /\ Len(partNodes') = new
        /\ partNodes'[new] = node
        /\ \A n \in DOMAIN partNodes : partNodes'[n] = partNodes[n] /\ n < new /\ n # new
    BY Extended DEF ShapeInv
  <1>2. frame \in Frames /\ frame.node = new /\ frame.next = 1
    BY <1>1 DEF Frames
  <1> HIDE DEF frame
  <1>3. /\ stack' \in Seq(Frames) /\ DOMAIN stack = 1..Len(stack) /\ Len(stack) \in Nat
        /\ \A f \in DOMAIN stack : f \in DOMAIN stack' /\ stack'[f] = Stepped[f]
        /\ \A f \in DOMAIN stack' \ DOMAIN stack : f = Len(stack) + 1 /\ stack'[f] = frame
    <2>1. /\ Stepped \in Seq(Frames) /\ DOMAIN Stepped = DOMAIN stack
          /\ DOMAIN stack = 1..Len(stack) /\ Len(stack) \in Nat /\ Len(Stepped) = Len(stack)
      BY SteppedFrames DEF ShapeInv
    <2>2. CASE stack' = Stepped
      BY <2>1, <2>2
    <2>3. CASE stack' = Append(Stepped, [node |-> Len(partNodes) + 1, next |-> 1])
      <3>1. stack' = Append(Stepped, frame)
        BY <2>3 DEF frame
      <3>2. /\ Append(Stepped, frame) \in Seq(Frames)
            /\ DOMAIN Append(Stepped, frame) = DOMAIN Stepped \cup {Len(Stepped) + 1}
            /\ Append(Stepped, frame)[Len(Stepped) + 1] = frame
            /\ \A f \in DOMAIN Stepped : Append(Stepped, frame)[f] = Stepped[f]
        BY <1>2, <2>1, Extended
      <3> QED BY <2>1, <3>1, <3>2
    <2> QED BY <2>2, <2>3
  <1>4. \A f \in DOMAIN stack :
          /\ stack'[f].node = stack[f].node /\ stack[f].node \in DOMAIN partNodes
          /\ stack'[f].next \in Nat /\ stack'[f].next >= stack[f].next
          /\ stack[f].next \in Nat /\ stack[f].next > 0
    BY <1>3, SteppedFrames DEF FrameInv
  <1>5. ShapeInv'
    BY <1>1, <1>3 DEF ShapeInv
  <1>6. FrameInv'
    <2>1. \A f \in DOMAIN stack' : stack'[f].node \in DOMAIN partNodes' /\ stack'[f].next > 0
      <3> TAKE f \in DOMAIN stack'
      <3>1. CASE f \in DOMAIN stack
        <4>1. stack'[f].node \in DOMAIN partNodes
          BY <1>4, <3>1
        <4>2. stack'[f].next \in Nat /\ stack'[f].next >= stack[f].next /\ stack[f].next \in Nat /\ stack[f].next > 0
          BY <1>4, <3>1
        <4> QED BY <1>1, <4>1, <4>2
      <3>2. CASE f \notin DOMAIN stack
        BY <1>1, <1>2, <1>3, <3>2
      <3> QED BY <3>1, <3>2
    <2>2. ASSUME NEW f \in DOMAIN stack', NEW g \in DOMAIN stack', f < g
          PROVE  stack'[f].node < stack'[g].node
      <3>1. CASE g \in DOMAIN stack
        <4>1. f \in DOMAIN stack
          BY <1>3, <2>2, <3>1
        <4> QED BY <1>4, <2>2, <3>1, <4>1 DEF FrameInv
      <3>2. CASE g \notin DOMAIN stack
        <4>1. stack'[g].node = new /\ g = Len(stack) + 1
          BY <1>2, <1>3, <3>2
        <4>2. f \in DOMAIN stack
          BY <1>3, <2>2, <4>1
        <4> QED BY <1>1, <1>4, <4>1, <4>2
      <3> QED BY <3>1, <3>2
    <2> QED BY <2>1, <2>2 DEF FrameInv
  <1>7. \A n \in DOMAIN partNodes :
          DefOf(n)' = DefOf(n) /\ ParentOf(n)' = ParentOf(n) /\ InstOf(n)' = InstOf(n)
    BY <1>1 DEF DefOf, ParentOf, InstOf
  <1>8. \A n : n = new => ParentOf(n)' = ParentIdx /\ InstOf(n)' = Label
    BY <1>1 DEF ParentOf, InstOf
  \* Of the new node's parent and what it stands for, if it has a parent.
  <1>9. ASSUME stack # << >>
        PROVE  /\ ParentIdx = Top.node /\ ParentIdx \in DOMAIN partNodes /\ ParentIdx < new
               /\ Top.next \in Nat /\ Top.next \in DOMAIN Parts(DefOf(ParentIdx))
               /\ Label = PartLabel(DefOf(ParentIdx), Top.next)
               /\ \A f \in DOMAIN stack' : stack'[f].node = ParentIdx => Top.next < stack'[f].next
    <2>1. /\ ParentIdx = Top.node /\ Label = PartLabel(DefOf(Top.node), Top.next)
          /\ Top.next <= Len(Parts(DefOf(Top.node)))
      BY <1>9 DEF ParentIdx, Label, Filling, DefOf
    <2>2. /\ Len(stack) \in DOMAIN stack /\ Top.node \in DOMAIN partNodes
          /\ Top.next \in Nat \ {0} /\ DefOf(Top.node) \in Def
          /\ \A f \in DOMAIN stack : stack[f].node = Top.node => f = Len(stack)
      BY <1>9, TopFrame DEF Frames
    <2>3. Parts(DefOf(Top.node)) \in Seq(Def \cup {NotShape, Dangling})
      BY <2>2, TreeAssumption DEF Parts, ShapeInv
    <2>4. Top.next \in DOMAIN Parts(DefOf(Top.node))
      BY <2>1, <2>2, <2>3
    <2>5. ASSUME NEW f \in DOMAIN stack', stack'[f].node = Top.node PROVE Top.next < stack'[f].next
      <3>1. f \in DOMAIN stack
        BY <1>1, <1>2, <1>3, <2>2, <2>5
      <3>2. f = Len(stack)
        BY <1>4, <2>2, <2>5, <3>1
      <3>3. stack'[f].next = Top.next + 1
        BY <1>3, <1>9, <3>1, <3>2, SteppedFrames
      <3> QED BY <2>2, <3>3
    <2> QED BY <1>1, <2>1, <2>2, <2>4, <2>5
  <1>10. ParentInv'
    <2> SUFFICES ASSUME NEW n \in DOMAIN partNodes', ParentOf(n)' # 0
                 PROVE  /\ ParentOf(n)' \in DOMAIN partNodes' /\ ParentOf(n)' < n
                        /\ \E k \in Nat :
                             /\ StandsFor(n, k)'
                             /\ \A f \in DOMAIN stack' : stack'[f].node = ParentOf(n)' => k < stack'[f].next
      BY DEF ParentInv
    <2>1. CASE n = new
      <3>1. stack # << >>
        BY <1>8, <2>1 DEF ParentIdx
      <3>2. /\ ParentOf(n)' = ParentIdx /\ InstOf(n)' = Label
            /\ \A p : p = ParentIdx => DefOf(p)' = DefOf(p)
        BY <1>7, <1>8, <1>9, <2>1, <3>1
      <3>3. \A k : k = Top.next => StandsFor(n, k)'
        <4>1. \A p : p = ParentIdx => partNodes'[p].def = DefOf(p)
          BY <3>2 DEF DefOf
        <4> QED BY <1>9, <3>1, <3>2, <4>1 DEF StandsFor, Parts, DefOf
      <3> QED BY <1>1, <1>9, <2>1, <3>1, <3>2, <3>3
    <2>2. CASE n \in DOMAIN partNodes
      <3>1. PICK k \in Nat : /\ StandsFor(n, k)
                             /\ \A f \in DOMAIN stack : stack[f].node = ParentOf(n) => k < stack[f].next
        BY <1>7, <2>2 DEF ParentInv
      <3>2. ParentOf(n) \in DOMAIN partNodes /\ ParentOf(n) < n /\ ParentOf(n)' = ParentOf(n)
        BY <1>7, <2>2 DEF ParentInv
      <3>3. StandsFor(n, k)'
        BY <1>7, <2>2, <3>1, <3>2 DEF StandsFor, Parts
      <3>4. \A f \in DOMAIN stack' : stack'[f].node = ParentOf(n) => k < stack'[f].next
        <4> TAKE f \in DOMAIN stack'
        <4>1. CASE f \in DOMAIN stack
          <5>1. k \in Nat /\ stack'[f].node = stack[f].node /\ stack'[f].next \in Nat
                /\ stack'[f].next >= stack[f].next /\ stack[f].next \in Nat
            BY <1>4, <4>1
          <5>2. stack[f].node = ParentOf(n) => k < stack[f].next
            BY <3>1, <4>1
          <5> QED BY <5>1, <5>2
        <4>2. CASE f \notin DOMAIN stack
          BY <1>1, <1>2, <1>3, <3>2, <4>2
        <4> QED BY <4>1, <4>2
      <3> QED BY <1>1, <3>2, <3>3, <3>4
    <2> QED BY <1>1, <2>1, <2>2
  <1>11. ASSUME NEW m \in DOMAIN partNodes, ParentOf(m) = ParentIdx, ParentIdx # 0
         PROVE  InstOf(m) # Label
    <2>1. stack # << >>
      BY <1>11 DEF ParentIdx
    <2>2. PICK k \in Nat : /\ StandsFor(m, k)
                           /\ \A f \in DOMAIN stack : stack[f].node = ParentOf(m) => k < stack[f].next
      BY <1>11 DEF ParentInv
    <2>3. k < Top.next /\ Top.next \in Nat
      BY <1>9, <1>11, <2>1, <2>2, TopFrame
    <2> QED BY <1>9, <1>11, <2>1, <2>2, <2>3 DEF StandsFor, PartLabel
  <1>12. SiblingInv'
    <2> SUFFICES ASSUME NEW m \in DOMAIN partNodes', NEW n \in DOMAIN partNodes', m # n,
                        ParentOf(m)' = ParentOf(n)', ParentOf(n)' # 0
                 PROVE  InstOf(m)' # InstOf(n)'
      BY DEF SiblingInv
    <2>1. CASE m \in DOMAIN partNodes /\ n \in DOMAIN partNodes
      BY <1>7, <2>1 DEF SiblingInv
    <2>2. CASE m = new /\ n \in DOMAIN partNodes
      BY <1>7, <1>8, <1>11, <2>2
    <2>3. CASE m \in DOMAIN partNodes /\ n = new
      BY <1>7, <1>8, <1>11, <2>3
    <2> QED BY <1>1, <2>1, <2>2, <2>3
  <1>13. PathInv' /\ PathsDistinct'
    <2>1. nodePaths = << >>
      BY DEF PathInv, Filling
    <2> QED BY <1>1, <2>1 DEF PathInv, PathsDistinct, NodesApart, FirstTree
  <1> QED BY <1>5, <1>6, <1>10, <1>12, <1>13
---------------------------------------------------------------------------
\* A node made for a label is one of NodeRecord.
LEMMA NodeIsNode ==
  ASSUME IInv, Filling, Fate # "none", NEW type \in {"leaf", "assembly"}, NEW first \in Nat,
         NEW count \in Nat
  PROVE  Node(type, first, count) \in NodeRecord
  <1> USE DEF IInv, TreeInv
  <1>1. Target \in Def /\ doc \in Documents
    BY DEF Fate, ShapeInv
  <1>2. CASE stack = << >>
    <2>1. Label = FreeLabel(Target) /\ ParentIdx = 0 /\ Depth = 0
      BY <1>2 DEF Label, Target, ParentIdx, Depth
    <2>2. FreeLabel(Target) \in DOMAIN Suffix
      BY <1>1, TreeAssumption
    <2> QED BY <1>1, <2>1, <2>2 DEF Node, NodeRecord
  <1>3. CASE stack # << >>
    <2>1. /\ Top.node \in DOMAIN partNodes /\ DefOf(Top.node) \in Def /\ Top.node \in Nat
          /\ Top.next \in Nat /\ Top.next > 0
      <3>1. Top \in Frames /\ Top.node \in DOMAIN partNodes /\ DefOf(Top.node) \in Def /\ Top.next > 0
        BY <1>3, TopFrame
      <3> QED BY <3>1 DEF Frames
    <2>2. partNodes[Top.node].depth \in Nat
      <3>1. partNodes[Top.node] \in NodeRecord
        BY <2>1, ElementOf DEF ShapeInv
      <3> QED BY <3>1 DEF NodeRecord
    <2>3. /\ Label = PartLabel(DefOf(Top.node), Top.next) /\ ParentIdx = Top.node
          /\ Depth = partNodes[Top.node].depth + 1
      BY <1>3 DEF Label, ParentIdx, Depth, DefOf
    <2>4. Top.next \in DOMAIN doc.parts[DefOf(Top.node)]
      <3>1. doc.parts[DefOf(Top.node)] \in Seq(Def \cup {NotShape, Dangling})
        BY <1>1, <2>1, TreeAssumption
      <3>2. Top.next <= Len(doc.parts[DefOf(Top.node)])
        BY <1>3 DEF Filling, Parts, DefOf
      <3> QED BY <2>1, <3>1, <3>2
    <2>5. Label \in DOMAIN Suffix
      BY <1>1, <2>1, <2>3, <2>4, TreeAssumption
    <2> QED BY <1>1, <2>1, <2>2, <2>3, <2>5 DEF Node, NodeRecord
  <1> QED BY <1>2, <1>3

LEMMA AdvanceType ==
  ASSUME IInv, Advance
  PROVE  nextFree' \in Nat \ {0}
  BY DEF IInv, TreeInv, ShapeInv, Advance

LEMMA FillLeafInv == IInv /\ FillLeaf => IInv'
  <1> SUFFICES ASSUME IInv, FillLeaf PROVE IInv'
    OBVIOUS
  <1>1. PICK node : node = Node("leaf", 0, 0)
    OBVIOUS
  <1>2. node \in NodeRecord
    BY <1>1, NodeIsNode DEF FillLeaf
  <1>3. /\ UNCHANGED <<doc, nodePaths>> /\ Filling /\ phase' = "fill" /\ stack' = Stepped
        /\ partNodes' = Append(partNodes, node)
        /\ node.inst = Label /\ node.parent = ParentIdx
    BY <1>1 DEF FillLeaf, Filling, Node
  <1> QED BY <1>2, <1>3, AdvanceType, NodeAddedInv DEF FillLeaf

LEMMA FillAssemblyInv == IInv /\ FillAssembly => IInv'
  <1> SUFFICES ASSUME IInv, FillAssembly PROVE IInv'
    OBVIOUS
  <1> DEFINE valid == {k \in DOMAIN Parts(Target) : PartNodes(Parts(Target)[k]) > 0}
             first == IF valid = {} THEN 0 ELSE Len(partNodes) + 1 + 1
             count == Cardinality(valid)
  <1>1. Target \in Def /\ Filling /\ Fate # "none"
    BY DEF FillAssembly, Fate
  <1>2. first \in Nat
    BY DEF IInv, TreeInv, ShapeInv
  <1>3. count \in Nat
    <2>1. Parts(Target) \in Seq(Def \cup {NotShape, Dangling})
      BY <1>1, TreeAssumption DEF Parts, IInv, TreeInv, ShapeInv
    <2>2. DOMAIN Parts(Target) = 1..Len(Parts(Target)) /\ Len(Parts(Target)) \in Nat
      BY <2>1
    <2>3. IsFiniteSet(DOMAIN Parts(Target))
      BY <2>2, FS_Interval
    <2>4. IsFiniteSet(valid)
      BY <2>3, FS_Subset
    <2> QED BY <2>4, FS_CardinalityType
  <1>4. PICK node : node = Node("assembly", first, count)
    OBVIOUS
  <1>5. /\ UNCHANGED <<doc, nodePaths>> /\ phase' = "fill"
        /\ partNodes' = Append(partNodes, node)
        /\ stack' = Append(Stepped, [node |-> Len(partNodes) + 1, next |-> 1])
        /\ node.inst = Label /\ node.parent = ParentIdx /\ Advance
    BY <1>4 DEF FillAssembly, Filling, Node
  <1> HIDE DEF valid, first, count
  <1>6. node \in NodeRecord
    BY <1>1, <1>2, <1>3, <1>4, NodeIsNode
  <1> QED BY <1>1, <1>5, <1>6, AdvanceType, NodeAddedInv

LEMMA PassOverInv == IInv /\ PassOver => IInv'
  <1> SUFFICES ASSUME IInv, PassOver PROVE IInv'
    OBVIOUS
  <1>1. /\ Stepped \in Seq(Frames) /\ DOMAIN Stepped = DOMAIN stack
        /\ \A f \in DOMAIN stack : /\ Stepped[f].node = stack[f].node
                                   /\ Stepped[f].next \in Nat /\ Stepped[f].next >= stack[f].next
    BY SteppedFrames DEF IInv, TreeInv
  <1>2. UNCHANGED <<doc, partNodes, nodePaths>> /\ phase = "fill" /\ stack' = Stepped /\ Advance
    BY DEF PassOver, Filling
  <1> QED BY <1>1, <1>2, AdvanceType, NoNodeInv

LEMMA CloseAssemblyInv == IInv /\ CloseAssembly => IInv'
  <1> SUFFICES ASSUME IInv, CloseAssembly PROVE IInv'
    OBVIOUS
  <1>1. /\ UNCHANGED <<doc, partNodes, nodePaths, nextFree>> /\ phase = "fill"
        /\ stack # << >> /\ stack' = Front(stack)
    BY DEF CloseAssembly
  <1>2. stack \in Seq(Frames) /\ nextFree \in Nat \ {0}
    BY DEF IInv, TreeInv, ShapeInv
  <1>3. /\ stack' \in Seq(Frames)
        /\ \A f \in DOMAIN stack' : stack'[f] = stack[f] /\ f \in DOMAIN stack
    BY <1>1, <1>2, FrontOf
  <1>4. \A f \in DOMAIN stack : stack[f].next \in Nat
    BY FrameTypes DEF IInv, TreeInv
  <1>5. \A f \in DOMAIN stack' :
          f \in DOMAIN stack /\ stack'[f].node = stack[f].node /\ stack'[f].next \in Nat
            /\ stack'[f].next >= stack[f].next
    BY <1>3, <1>4
  <1> QED BY <1>1, <1>2, <1>3, <1>5, NoNodeInv

LEMMA PhaseInv == IInv /\ (CountNodes \/ TreeBuilt) => IInv'
  <1> SUFFICES ASSUME IInv, CountNodes \/ TreeBuilt PROVE IInv'
    OBVIOUS
  <1>1. /\ UNCHANGED <<doc, partNodes, nodePaths, nextFree, stack>>
        /\ phase \in {"count", "fill"} \/ phase' \notin {"count", "fill"}
    BY DEF CountNodes, TreeBuilt
  <1>2. stack \in Seq(Frames) /\ nextFree \in Nat \ {0}
    BY DEF IInv, TreeInv, ShapeInv
  <1>3. \A f \in DOMAIN stack : stack[f].next \in Nat
    BY FrameTypes DEF IInv, TreeInv
  <1>4. \A f \in DOMAIN stack' :
          f \in DOMAIN stack /\ stack'[f].node = stack[f].node /\ stack'[f].next \in Nat
            /\ stack'[f].next >= stack[f].next
    BY <1>1, <1>3
  <1> QED BY <1>1, <1>2, <1>4, NoNodeInv
---------------------------------------------------------------------------
\* Once the tree is built nothing changes it.
LEMMA TreeKept ==
  ASSUME TreeInv, UNCHANGED <<doc, partNodes, stack, nextFree>>
  PROVE  TreeInv'
  BY DEF TreeInv, ShapeInv, FrameInv, ParentInv, SiblingInv, StandsFor, DefOf, ParentOf, InstOf, Parts

\* Names and suffixes of nodes that are there.
LEMMA SuffixNamed ==
  ASSUME ShapeInv, NEW n \in DOMAIN partNodes
  PROVE  Suffix[InstOf(n)] \in PathNames
  <1>1. partNodes[n] \in NodeRecord
    BY ElementOf DEF ShapeInv
  <1>2. InstOf(n) \in DOMAIN Suffix
    BY <1>1 DEF NodeRecord, InstOf
  <1> QED BY <1>2 DEF Range, PathNames

LEMMA BelowPath ==
  ASSUME NEW parent \in Paths, NEW name \in PathNames
  PROVE  /\ Below(parent, name) \in Paths
         /\ parent # NoPath => /\ Below(parent, name) = Append(parent, name)
                               /\ Append(parent, name) # NoPath
                               /\ Append(parent, name) # AssemblyRoot
  <1>1. CASE parent = NoPath
    BY <1>1 DEF Below
  <1>2. CASE parent # NoPath
    <2>1. /\ Append(parent, name) \in Paths /\ Len(Append(parent, name)) = Len(parent) + 1
          /\ Len(parent) \in Nat /\ Len(parent) # 0
      BY <1>2 DEF Paths, NoPath
    <2>2. Len(AssemblyRoot) = 1 /\ Len(NoPath) = 0
      BY DEF AssemblyRoot, NoPath
    <2> QED BY <1>2, <2>1, <2>2 DEF Below
  <1> QED BY <1>1, <1>2

\* Another path is appended: below that of the node's parent, if that is a node.
LEMMA PathAddedInv ==
  ASSUME IInv, UNCHANGED <<doc, partNodes, stack, nextFree>>, Naming, phase' = "paths",
         NEW path \in Paths, nodePaths' = Append(nodePaths, path),
         ParentOf(PathIdx) # 0 =>
           /\ ParentOf(PathIdx) \in DOMAIN nodePaths
           /\ path = Below(nodePaths[ParentOf(PathIdx)], Suffix[InstOf(PathIdx)])
  PROVE  IInv'
  <1> USE DEF IInv
  <1>1. /\ nodePaths' \in Seq(Paths) /\ Len(nodePaths) \in Nat /\ DOMAIN nodePaths = 1..Len(nodePaths)
        /\ Len(nodePaths') = Len(nodePaths) + 1
        /\ DOMAIN nodePaths' = DOMAIN nodePaths \cup {Len(nodePaths) + 1}
        /\ nodePaths'[Len(nodePaths) + 1] = path
        /\ \A n \in DOMAIN nodePaths : nodePaths'[n] = nodePaths[n]
    BY Extended DEF PathInv
  <1>2. TreeInv'
    BY TreeKept
  <1>3. /\ PathIdx = Len(nodePaths) + 1 /\ PathIdx <= Len(partNodes) /\ PathIdx \notin DOMAIN nodePaths
        /\ Len(partNodes) \in Nat /\ DOMAIN partNodes = 1..Len(partNodes) /\ PathIdx > 1
        /\ DOMAIN nodePaths \subseteq DOMAIN partNodes /\ PathIdx \in DOMAIN partNodes
    BY <1>1 DEF PathIdx, Naming, TreeInv, ShapeInv, PathInv
  <1>4. \A n : ParentOf(n)' = ParentOf(n) /\ InstOf(n)' = InstOf(n)
    BY DEF ParentOf, InstOf
  <1>5. PICK idx : idx = PathIdx
    OBVIOUS
  <1>6. /\ DOMAIN nodePaths' = DOMAIN nodePaths \cup {idx} /\ nodePaths'[idx] = path
        /\ idx \in DOMAIN partNodes /\ idx \notin DOMAIN nodePaths /\ idx \in Nat /\ idx > 1
        /\ DOMAIN nodePaths = 1..(idx - 1)
    BY <1>1, <1>3, <1>5
  <1>7. \A n \in DOMAIN nodePaths : n \in FirstTree' <=> n \in FirstTree
    BY <1>6 DEF FirstTree
  \* The node is one of the first tree only with its parent.
  <1>8. ASSUME idx \in FirstTree'
        PROVE  /\ ParentOf(idx) # 0 /\ ParentOf(idx) \in FirstTree
               /\ nodePaths[ParentOf(idx)] \in Paths /\ nodePaths[ParentOf(idx)] # NoPath
               /\ path = Append(nodePaths[ParentOf(idx)], Suffix[InstOf(idx)])
               /\ path # NoPath /\ path # AssemblyRoot
    <2>1. \A m \in 2..idx : ParentOf(m) # 0
      BY <1>8 DEF FirstTree, ParentOf
    <2>2. ParentOf(idx) # 0
      BY <1>6, <2>1
    <2>3. ParentOf(idx) \in DOMAIN nodePaths
          /\ path = Below(nodePaths[ParentOf(idx)], Suffix[InstOf(idx)])
      BY <1>5, <2>2
    <2>4. ParentOf(idx) \in FirstTree
      <3>1. \A m \in 2..ParentOf(idx) : m \in 2..idx
        BY <1>6, <2>3
      <3> QED BY <2>1, <2>3, <3>1 DEF FirstTree, ParentOf
    <2>5. nodePaths[ParentOf(idx)] \in Paths /\ nodePaths[ParentOf(idx)] # NoPath
      BY <2>3, <2>4, ElementOf DEF PathInv
    <2>6. Suffix[InstOf(idx)] \in PathNames
      BY <1>6, SuffixNamed DEF TreeInv
    <2> QED BY <2>2, <2>3, <2>4, <2>5, <2>6, BelowPath
  <1>9. PathInv'
    <2>1. ASSUME NEW n \in FirstTree'
          PROVE  /\ nodePaths'[n] # NoPath
                 /\ n = 1 => nodePaths'[n] = AssemblyRoot
                 /\ n # 1 => /\ ParentOf(n)' # 0 /\ ParentOf(n)' \in FirstTree'
                            /\ nodePaths'[n] = Append(nodePaths'[ParentOf(n)'], Suffix[InstOf(n)'])
      <3>1. FirstTree \subseteq DOMAIN nodePaths /\ n \in DOMAIN nodePaths \cup {idx}
        BY <1>6 DEF FirstTree
      <3>2. CASE n \in DOMAIN nodePaths
        <4>1. n \in FirstTree
          BY <1>7, <3>2
        <4> QED BY <1>1, <1>4, <1>7, <3>1, <3>2, <4>1 DEF PathInv
      <3>3. CASE n = idx
        <4>1. idx \in FirstTree'
          BY <3>3
        <4> QED BY <1>1, <1>4, <1>6, <1>7, <1>8, <3>1, <3>3, <4>1
      <3> QED BY <3>1, <3>2, <3>3
    <2>2. Len(nodePaths') <= Len(partNodes')
      BY <1>1, <1>3
    <2> QED BY <1>1, <2>1, <2>2 DEF PathInv, NoPath, AssemblyRoot
  \* The new path is none of those before it.
  <1>10. ASSUME SiblingsApart, NEW m \in FirstTree, idx \in FirstTree' PROVE nodePaths[m] # path
    <2> SUFFICES ASSUME nodePaths[m] = path PROVE FALSE
      OBVIOUS
    <2>1. idx \in FirstTree'
      BY <1>10
    <2>2. /\ ParentOf(idx) # 0 /\ ParentOf(idx) \in FirstTree
          /\ nodePaths[ParentOf(idx)] \in Paths
          /\ path = Append(nodePaths[ParentOf(idx)], Suffix[InstOf(idx)]) /\ path # AssemblyRoot
      BY <1>8, <2>1
    <2>3. m \in DOMAIN nodePaths /\ m \in DOMAIN partNodes /\ m # idx
      BY <1>3, <1>6 DEF FirstTree
    <2>4. /\ ParentOf(m) # 0 /\ ParentOf(m) \in FirstTree
          /\ path = Append(nodePaths[ParentOf(m)], Suffix[InstOf(m)])
      BY <2>2 DEF PathInv
    <2>5. nodePaths[ParentOf(m)] \in Paths
      BY <2>4, ElementOf DEF PathInv, FirstTree
    <2>6. Suffix[InstOf(m)] \in PathNames /\ Suffix[InstOf(idx)] \in PathNames
      BY <1>6, <2>3, SuffixNamed DEF TreeInv
    <2>7. /\ nodePaths[ParentOf(m)] = nodePaths[ParentOf(idx)]
          /\ Suffix[InstOf(m)] = Suffix[InstOf(idx)]
      <3> DEFINE p == nodePaths[ParentOf(m)]
                 q == nodePaths[ParentOf(idx)]
                 x == Suffix[InstOf(m)]
                 y == Suffix[InstOf(idx)]
      <3>1. p \in Seq(PathNames) /\ q \in Seq(PathNames) /\ x \in PathNames /\ y \in PathNames
        BY <2>2, <2>5, <2>6 DEF Paths
      <3>2. Append(p, x) = Append(q, y)
        BY <2>2, <2>4
      <3> HIDE DEF p, q, x, y
      <3>3. p = q /\ x = y
        BY <3>1, <3>2, AppendInjective
      <3> QED BY <3>3 DEF p, q, x, y
    <2>8. ParentOf(m) = ParentOf(idx)
      BY <1>10, <2>2, <2>4, <2>7 DEF PathsDistinct, NodesApart
    <2> QED BY <1>6, <1>10, <2>2, <2>3, <2>7, <2>8 DEF SiblingsApart, ParentOf, InstOf
  <1>11. PathsDistinct'
    <2> SUFFICES ASSUME SiblingsApart', NEW m \in FirstTree', NEW n \in FirstTree', m # n
                 PROVE  nodePaths'[m] # nodePaths'[n]
      BY DEF PathsDistinct, NodesApart
    <2>1. SiblingsApart
      BY DEF SiblingsApart
    <2>2. m \in DOMAIN nodePaths \cup {idx} /\ n \in DOMAIN nodePaths \cup {idx}
      BY <1>6 DEF FirstTree
    <2>3. CASE m \in DOMAIN nodePaths /\ n \in DOMAIN nodePaths
      BY <1>1, <1>7, <2>1, <2>3 DEF PathsDistinct, NodesApart
    <2>4. CASE m = idx /\ n \in DOMAIN nodePaths
      <3>1. n \in FirstTree /\ idx \in FirstTree'
        BY <1>7, <2>4
      <3> QED BY <1>1, <1>6, <1>10, <2>1, <2>4, <3>1
    <2>5. CASE m \in DOMAIN nodePaths /\ n = idx
      <3>1. m \in FirstTree /\ idx \in FirstTree'
        BY <1>7, <2>5
      <3> QED BY <1>1, <1>6, <1>10, <2>1, <2>5, <3>1
    <2> QED BY <2>2, <2>3, <2>4, <2>5
  <1> QED BY <1>2, <1>9, <1>11

LEMMA RootPathInv == IInv /\ RootPath => IInv'
  <1> SUFFICES ASSUME IInv, RootPath PROVE IInv'
    OBVIOUS
  <1> USE DEF IInv
  <1>1. UNCHANGED <<doc, partNodes, stack, nextFree>> /\ phase' \notin {"count", "fill"} /\ nodePaths = << >>
    BY DEF RootPath
  <1>2. TreeInv'
    BY <1>1, TreeKept
  <1>3. CASE partNodes = << >>
    <2>1. nodePaths' = << >>
      BY <1>1, <1>3 DEF RootPath
    <2> QED BY <1>1, <1>2, <2>1 DEF PathInv, PathsDistinct, NodesApart, FirstTree, TreeInv, ShapeInv
  <1>4. CASE partNodes # << >>
    <2>1. AssemblyRoot \in Paths /\ AssemblyRoot # NoPath
      BY DEF AssemblyRoot, Paths, PathNames, NoPath
    <2>2. nodePaths' = <<AssemblyRoot>> /\ Len(partNodes) \in Nat /\ Len(partNodes) >= 1
      BY <1>4 DEF RootPath, TreeInv, ShapeInv
    <2>3. /\ nodePaths' \in Seq(Paths) /\ Len(nodePaths') = 1 /\ DOMAIN nodePaths' = {1}
          /\ nodePaths'[1] = AssemblyRoot
      BY <2>1, <2>2
    <2>4. FirstTree' \subseteq {1}
      BY <2>3 DEF FirstTree
    <2> QED BY <1>1, <1>2, <2>1, <2>2, <2>3, <2>4 DEF PathInv, PathsDistinct, NodesApart, NoPath,
                                                   AssemblyRoot
  <1> QED BY <1>3, <1>4

LEMMA NodePathInv == IInv /\ NodePath => IInv'
  <1> SUFFICES ASSUME IInv, NodePath PROVE IInv'
    OBVIOUS
  <1> USE DEF IInv
  <1> DEFINE parent == nodePaths[ParentOf(PathIdx)]
             below == Below(parent, Suffix[InstOf(PathIdx)])
  <1>1. /\ UNCHANGED <<doc, partNodes, stack, nextFree>> /\ Naming /\ phase' = "paths"
        /\ ParentOf(PathIdx) # 0
        /\ nodePaths' = Append(nodePaths, below)
    BY DEF NodePath, Naming, ParentOf, InstOf
  <1>2. PathIdx \in DOMAIN partNodes /\ PathIdx = Len(nodePaths) + 1 /\ Len(nodePaths) \in Nat
        /\ DOMAIN nodePaths = 1..Len(nodePaths) /\ DOMAIN partNodes = 1..Len(partNodes)
    BY <1>1 DEF Naming, PathIdx, TreeInv, ShapeInv, PathInv
  <1>3. ParentOf(PathIdx) \in DOMAIN nodePaths
    <2>1. ParentOf(PathIdx) \in DOMAIN partNodes /\ ParentOf(PathIdx) < PathIdx
      BY <1>1, <1>2 DEF TreeInv, ParentInv
    <2> QED BY <1>2, <2>1
  <1>4. parent \in Paths
    BY <1>3, ElementOf DEF PathInv
  <1>5. Suffix[InstOf(PathIdx)] \in PathNames
    BY <1>2, SuffixNamed DEF TreeInv
  <1>6. PICK path \in Paths : path = below
    BY <1>4, <1>5, BelowPath
  <1>7. nodePaths' = Append(nodePaths, path)
        /\ path = Below(nodePaths[ParentOf(PathIdx)], Suffix[InstOf(PathIdx)])
    BY <1>1, <1>6
  <1> HIDE DEF below, parent
  <1> QED BY <1>1, <1>3, <1>7, PathAddedInv

\* The step only ends the phase.
LEMMA PathsKept ==
  ASSUME IInv, UNCHANGED <<doc, partNodes, stack, nextFree, nodePaths>>,
         phase' \notin {"count", "fill"}
  PROVE  IInv'
  <1>1. TreeInv'
    BY TreeKept DEF IInv
  <1>2. PathInv' /\ PathsDistinct'
    BY SamePaths DEF IInv
  <1> QED BY <1>1, <1>2 DEF IInv

LEMMA StrayReadInv == IInv /\ StrayRead => IInv'
  <1> SUFFICES ASSUME IInv, StrayRead PROVE IInv'
    OBVIOUS
  <1>1. UNCHANGED <<doc, partNodes, stack, nextFree>> /\ Naming /\ ParentOf(PathIdx) = 0
    BY DEF StrayRead, ParentOf
  <1>2. CASE UNCHANGED phase
    <2>1. PICK parent \in StrayPaths :
            nodePaths' = Append(nodePaths, Below(parent, Suffix[InstOf(PathIdx)]))
      BY <1>1, <1>2 DEF StrayRead, Naming, InstOf
    <2>2. parent \in Paths
      <3>1. parent \in Seq(Range(parent)) /\ Range(parent) \subseteq PathNames
        BY StrayAssumption DEF PathNames
      <3> QED BY <3>1 DEF Paths
    <2>3. PathIdx \in DOMAIN partNodes
      BY <1>1 DEF Naming, PathIdx, IInv, TreeInv, ShapeInv, PathInv
    <2>4. PICK path \in Paths : path = Below(parent, Suffix[InstOf(PathIdx)])
      BY <2>2, <2>3, SuffixNamed, BelowPath DEF IInv, TreeInv
    <2> QED BY <1>1, <1>2, <2>1, <2>4, PathAddedInv DEF Naming
  <1>3. CASE phase' = "crashed" /\ UNCHANGED nodePaths
    BY <1>1, <1>3, PathsKept
  <1> QED BY <1>2, <1>3 DEF StrayRead

LEMMA NextInv == IInv /\ [Next]_vars => IInv'
  <1> SUFFICES ASSUME IInv, [Next]_vars PROVE IInv'
    OBVIOUS
  <1>1. CASE PathsDone
    <2>1. UNCHANGED <<doc, partNodes, stack, nextFree, nodePaths>> /\ phase' \notin {"count", "fill"}
      BY <1>1 DEF PathsDone
    <2> QED BY <2>1, PathsKept
  <1>2. CASE UNCHANGED vars
    <2>1. TreeInv'
      BY <1>2, TreeKept DEF IInv, vars
    <2>2. PathInv' /\ PathsDistinct'
      BY <1>2, SamePaths DEF IInv, PathInv, vars
    <2> QED BY <2>1, <2>2 DEF IInv
  <1> QED BY <1>1, <1>2, PhaseInv, PassOverInv, FillLeafInv, FillAssemblyInv, CloseAssemblyInv,
             RootPathInv, NodePathInv, StrayReadInv DEF Next

\* The tree's invariant always holds.
THEOREM Invariance == Spec => []IInv
  BY InitInv, NextInv, PTL DEF Spec

\* If the hash tells siblings apart, no two nodes of the first free shape are authored
\* on one prim: getNodePaths gives them different paths, wherever definitions recur.
THEOREM PathsApart == Spec => []PathsDistinct
  <1>1. IInv => PathsDistinct
    BY DEF IInv
  <1> QED BY <1>1, Invariance, PTL
---------------------------------------------------------------------------
\* How many nodes each component of a definition has, and each free shape.
PartCounts(d) == [k \in DOMAIN Parts(d) |-> PartNodes(Parts(d)[k])]
FreeCounts == [i \in DOMAIN doc.free |-> FreeNodes(doc.free[i])]

\* The definition a frame is of.
FrameDef(f) == DefOf(stack[f].node)

\* Where the loop of frame f will have taken the cursor when the call it made last
\* returns.  The outer loop counts as frame 0.
Reach(f) ==
  IF f = 0 THEN Sums(FreeCounts)[nextFree - 1]
  ELSE stack[f].node + Sums(PartCounts(FrameDef(f)))[stack[f].next - 1]

\* The phases' bounds on the loops.
LoopInv ==
  /\ nextFree \in 1..(Len(doc.free) + 1)
  /\ phase = "count" => numNodes = 0 /\ partNodes = << >> /\ stack = << >> /\ nextFree = 1
  /\ phase # "count" => numNodes = Total(FreeCounts)
  /\ phase \notin {"count", "fill"} => stack = << >> /\ nextFree = Len(doc.free) + 1
  /\ \A f \in DOMAIN stack :
       /\ doc.kind[FrameDef(f)] = "assembly"
       /\ stack[f].next \in 1..(Len(Parts(FrameDef(f))) + 1)

\* The cursor is where the innermost loop expects it, and a frame ends, with all the
\* nodes that were counted for its definition, where the loop around it expects that.
SlotInv ==
  /\ Len(partNodes) = Reach(Len(stack))
  /\ \A f \in DOMAIN stack :
       Reach(f - 1) = stack[f].node + DefNodes[FrameDef(f)] - 1

\* The components that get a node.
Fillable(d) == {k \in DOMAIN Parts(d) : Parts(d)[k] \in Def}

\* A node is as its definition says.
NodeInv ==
  /\ definitionShapes \subseteq Def
  /\ \A n \in DOMAIN partNodes :
       IF doc.kind[DefOf(n)] = "assembly"
       THEN /\ partNodes[n].type = "assembly"
            /\ partNodes[n].count = Cardinality(Fillable(DefOf(n)))
            /\ partNodes[n].first = IF Fillable(DefOf(n)) = {} THEN 0 ELSE n + 1
       ELSE /\ partNodes[n].type = "leaf" /\ DefOf(n) \in definitionShapes
            /\ partNodes[n].count = 0 /\ partNodes[n].first = 0

\* A node is that of a component of its parent, or of a free shape passed.
OriginInv ==
  \A n \in DOMAIN partNodes :
    IF ParentOf(n) # 0
    THEN /\ doc.kind[DefOf(ParentOf(n))] = "assembly"
         /\ partNodes[n].depth = partNodes[ParentOf(n)].depth + 1
         /\ \E k \in DOMAIN Parts(DefOf(ParentOf(n))) :
              /\ InstOf(n) = PartLabel(DefOf(ParentOf(n)), k)
              /\ DefOf(n) = Parts(DefOf(ParentOf(n)))[k]
    ELSE /\ doc.kind[DefOf(n)] # "other"
         /\ InstOf(n) = FreeLabel(DefOf(n))
         /\ \E i \in 1..(nextFree - 1) : DefOf(n) = doc.free[i]

\* Two roots are of two free shapes.
RootsInv ==
  \A m, n \in DOMAIN partNodes :
    m # n /\ ParentOf(m) = 0 /\ ParentOf(n) = 0 => InstOf(m) # InstOf(n)

\* What the loops have passed has its node.
PassedInv ==
  /\ \A i \in 1..(nextFree - 1) : doc.kind[doc.free[i]] # "other" =>
       \E n \in DOMAIN partNodes : ParentOf(n) = 0 /\ InstOf(n) = FreeLabel(doc.free[i])
  /\ \A n \in DOMAIN partNodes : doc.kind[DefOf(n)] = "assembly" =>
       \A k \in Fillable(DefOf(n)) :
         (\A f \in DOMAIN stack : stack[f].node = n => k < stack[f].next) =>
           \E m \in DOMAIN partNodes : ParentOf(m) = n /\ InstOf(m) = PartLabel(DefOf(n), k)

\* The first child, if there is one, is in the slot after its parent.
FirstInv ==
  /\ \A f \in DOMAIN stack :
       stack[f].node = Len(partNodes) \/ ParentOf(stack[f].node + 1) = stack[f].node
  /\ \A n \in DOMAIN partNodes : ParentOf(n) # 0 => ParentOf(ParentOf(n) + 1) = ParentOf(n)

LinksInv == NodeInv /\ OriginInv /\ RootsInv /\ PassedInv /\ FirstInv

\* What Sums computes.
LEMMA SumsOf ==
  ASSUME NEW s \in Seq(Nat)
  PROVE  /\ Sums(s) \in [0..Len(s) -> Nat] /\ Sums(s)[0] = 0 /\ Len(s) \in Nat
         /\ \A n \in 1..Len(s) : s[n] \in Nat /\ Sums(s)[n] = Sums(s)[n - 1] + s[n]
         /\ \A n \in 0..Len(s) : Sums(s)[n] <= Total(s)
         /\ Total(s) \in Nat
  <1> DEFINE G == [n \in 1..Len(s) |-> [x \in Nat |-> x + s[n]]]
             sum[n \in 0..Len(s)] == IF n = 0 THEN 0 ELSE sum[n - 1] + s[n]
  <1> HIDE DEF G, sum
  <1>1. Len(s) \in Nat /\ 0 \in Nat /\ \A n \in 1..Len(s) : s[n] \in Nat
    OBVIOUS
  <1>2. G \in [1..Len(s) -> [Nat -> Nat]]
    BY <1>1 DEF G
  <1>3. PICK f \in [0..Len(s) -> Nat] : Follows(f, Len(s), 0, G)
    BY <1>1, <1>2, NatRecursion
  <1>4. f[0] = 0 /\ \A n \in 1..Len(s) : f[n] = f[n - 1] + s[n]
    <2>1. \A n \in 1..Len(s) : n - 1 \in 0..Len(s) /\ f[n - 1] \in Nat
      <3>1. PICK N \in Nat : N = Len(s)
        BY <1>1
      <3>2. \A n \in 1..N : n - 1 \in 0..N
        OBVIOUS
      <3> QED BY <3>1, <3>2
    <2>2. f[0] = 0 /\ \A n \in 1..Len(s) : f[n] = G[n][f[n - 1]]
      BY <1>3 DEF Follows
    <2> QED BY <2>1, <2>2 DEF G
  <1>5. f = [n \in 0..Len(s) |-> IF n = 0 THEN 0 ELSE f[n - 1] + s[n]]
    <2> DEFINE g == [n \in 0..Len(s) |-> IF n = 0 THEN 0 ELSE f[n - 1] + s[n]]
    <2>1. ASSUME NEW n \in 0..Len(s) PROVE f[n] = g[n]
      <3>1. n # 0 => n \in 1..Len(s)
        BY <1>1
      <3> QED BY <1>4, <3>1
    <2> HIDE DEF g
    <2>2. f = [n \in 0..Len(s) |-> f[n]] /\ g = [n \in 0..Len(s) |-> g[n]]
      BY DEF g
    <2>3. f = g
      BY <2>1, <2>2
    <2> QED BY <2>3 DEF g
  <1>6. sum = [n \in 0..Len(s) |-> IF n = 0 THEN 0 ELSE sum[n - 1] + s[n]]
    BY <1>5 DEF sum
  <1>7. Sums(s) = sum
    BY DEF Sums, sum
  <1>8. Alike(sum, f, Len(s))
    <2>1. ASSUME NEW n \in 1..Len(s), sum[n - 1] = f[n - 1] PROVE sum[n] = f[n]
      <3>1. n \in 0..Len(s) /\ n # 0
        BY <1>1
      <3> QED BY <1>4, <1>6, <2>1, <3>1
    <2>2. sum[0] = f[0]
      BY <1>1, <1>4, <1>6
    <2> QED BY <1>1, <2>1, <2>2, SameSteps
  <1>9. Sums(s) = f
    <2>1. sum = [n \in 0..Len(s) |-> sum[n]] /\ f = [n \in 0..Len(s) |-> f[n]]
      BY <1>6
    <2>2. \A n \in 0..Len(s) : sum[n] = f[n]
      BY <1>8 DEF Alike
    <2> QED BY <1>7, <2>1, <2>2
  <1>10. ASSUME NEW n \in 0..Len(s) PROVE f[n] <= f[Len(s)]
    <2> DEFINE S == {m \in 0..Len(s) : m < n \/ f[n] <= f[m]}
    <2>1. 0 \in S
      BY <1>1
    <2>2. ASSUME NEW m \in 1..Len(s), m - 1 \in S PROVE m \in S
      <3>1. m \in 0..Len(s) /\ m - 1 \in 0..Len(s) /\ f[m] = f[m - 1] + s[m] /\ s[m] \in Nat
        BY <1>1, <1>4
      <3>2. f[m] \in Nat /\ f[m - 1] \in Nat /\ f[n] \in Nat
        BY <3>1
      <3>3. m - 1 < n => m < n \/ m = n
        BY <1>1
      <3> QED BY <2>2, <3>1, <3>2, <3>3
    <2> HIDE DEF S
    <2>3. 0..Len(s) \subseteq S
      BY <1>1, <2>1, <2>2, RangeInduction
    <2>4. Len(s) \in S
      BY <1>1, <2>3
    <2> QED BY <1>1, <2>4 DEF S
  <1>11. f[Len(s)] \in Nat /\ Total(s) = f[Len(s)]
    BY <1>1, <1>9 DEF Total
  <1> QED BY <1>1, <1>4, <1>9, <1>10, <1>11

\* The definitions its components have.
BelowDef ==
  [d \in Def |-> IF doc.kind[d] = "assembly"
                 THEN {Parts(d)[k] : k \in Fillable(d)} ELSE {}]

LEMMA PartsOf ==
  ASSUME doc \in Documents
  PROVE  /\ doc.free \in Seq(Def) /\ Len(doc.free) \in Nat /\ DOMAIN doc.free = 1..Len(doc.free)
         /\ \A i \in 1..Len(doc.free) : doc.free[i] \in Def
         /\ \A d \in Def : /\ Parts(d) \in Seq(Def \cup {NotShape, Dangling})
                           /\ Len(Parts(d)) \in Nat /\ DOMAIN Parts(d) = 1..Len(Parts(d))
         /\ BelowDef \in [Def -> SUBSET Def] /\ Grounded(Def, BelowDef)
  <1>1. doc.free \in Seq(Def) /\ \A d \in Def : Parts(d) \in Seq(Def \cup {NotShape, Dangling})
    BY TreeAssumption DEF Parts
  <1>2. Len(doc.free) \in Nat /\ DOMAIN doc.free = 1..Len(doc.free)
        /\ \A i \in 1..Len(doc.free) : doc.free[i] \in Def
    BY <1>1
  <1>3. \A d \in Def : Len(Parts(d)) \in Nat /\ DOMAIN Parts(d) = 1..Len(Parts(d))
    BY <1>1
  <1>4. BelowDef \in [Def -> SUBSET Def]
    BY DEF BelowDef, Fillable
  <1>5. ASSUME NEW D \in SUBSET Def, D # {} PROVE \E d \in D : BelowDef[d] \cap D = {}
    <2>1. PICK d \in D : doc.kind[d] = "assembly" => \A k \in DOMAIN doc.parts[d] : doc.parts[d][k] \notin D
      BY <1>5, TreeAssumption
    <2> QED BY <2>1 DEF BelowDef, Fillable, Parts
  <1> QED BY <1>1, <1>2, <1>3, <1>4, <1>5 DEF Grounded

\* What pass 1 counts.
LEMMA CountsOf ==
  ASSUME doc \in Documents
  PROVE  /\ DefNodes \in [Def -> Nat \ {0}]
         /\ \A d \in Def : DefNodes[d] =
              IF doc.kind[d] = "assembly" THEN 1 + Total(PartCounts(d)) ELSE 1
  <1> DEFINE V == Nat \ {0}
             Counts(d, f) == [k \in DOMAIN Parts(d) |-> IF Parts(d)[k] \in Def THEN f[Parts(d)[k]] ELSE 0]
             G == [d \in Def |-> [f \in [Def -> V] |->
                     IF doc.kind[d] = "assembly" THEN 1 + Total(Counts(d, f)) ELSE 1]]
             nodes[d \in Def] ==
               IF doc.kind[d] = "assembly"
               THEN 1 + Total([k \in DOMAIN Parts(d) |->
                                 IF Parts(d)[k] \in Def THEN nodes[Parts(d)[k]] ELSE 0])
               ELSE 1
  <1> HIDE DEF nodes
  <1>1. ASSUME NEW d \in Def, NEW f \in [Def -> V] PROVE Counts(d, f) \in Seq(Nat)
    <2>1. PICK K \in Nat : DOMAIN Parts(d) = 1..K
      BY PartsOf
    <2>2. \A k \in 1..K : Counts(d, f)[k] \in Nat
      BY <2>1
    <2>3. Counts(d, f) = [k \in 1..K |-> Counts(d, f)[k]]
      BY <2>1
    <2> HIDE DEF Counts
    <2> QED BY <2>2, <2>3, GivenSeq
  <1>2. \A d \in Def : \A f \in [Def -> V] : Total(Counts(d, f)) \in Nat
    BY <1>1, SumsOf
  <1>3. G \in [Def -> [[Def -> V] -> V]]
    BY <1>2
  <1>4. ASSUME NEW d \in Def, NEW f \in [Def -> V], NEW g \in [Def -> V],
               \A e \in BelowDef[d] : f[e] = g[e]
        PROVE  G[d][f] = G[d][g]
    <2>1. CASE doc.kind[d] = "assembly"
      <3>1. \A k \in DOMAIN Parts(d) : Parts(d)[k] \in Def => Parts(d)[k] \in BelowDef[d]
        BY <2>1 DEF BelowDef, Fillable
      <3>2. Counts(d, f) = Counts(d, g)
        BY <1>4, <3>1
      <3> QED BY <3>2
    <2>2. CASE doc.kind[d] # "assembly"
      BY <2>2
    <2> QED BY <2>1, <2>2
  <1>5. BelowDef \in [Def -> SUBSET Def] /\ Grounded(Def, BelowDef)
    BY PartsOf
  <1>6. PICK f \in [Def -> V] : \A d \in Def : f[d] = G[d][f]
    <2>1. 1 \in V
      OBVIOUS
    <2> HIDE DEF V, G
    <2>2. FromBelow(G, Def, V, BelowDef)
      BY <1>4 DEF FromBelow
    <2>3. Solvable(G, Def, V)
      BY <1>3, <1>5, <2>1, <2>2, GroundedRecursion
    <2> QED BY <2>3 DEF Solvable
  <1> DEFINE Step(h) == [d \in Def |-> IF doc.kind[d] = "assembly" THEN 1 + Total(Counts(d, h)) ELSE 1]
  <1>7. f = Step(f)
    BY <1>6 DEF G
  <1>8. nodes = Step(nodes)
    BY <1>7 DEF nodes
  <1>9. DefNodes = nodes
    BY DEF DefNodes, nodes
  <1>10. nodes = f
    <2> DEFINE Same == {d \in Def : nodes[d] = f[d]}
    <2>1. ASSUME NEW d \in Def, BelowDef[d] \subseteq Same PROVE d \in Same
      <3>1. CASE doc.kind[d] = "assembly"
        <4>1. \A k \in DOMAIN Parts(d) : Parts(d)[k] \in Def => nodes[Parts(d)[k]] = f[Parts(d)[k]]
          BY <2>1, <3>1 DEF BelowDef, Fillable
        <4>2. Counts(d, nodes) = Counts(d, f)
          BY <4>1
        <4>3. Step(nodes)[d] = 1 + Total(Counts(d, nodes)) /\ Step(f)[d] = 1 + Total(Counts(d, f))
          BY <3>1
        <4> HIDE DEF Step, Counts
        <4>4. nodes[d] = Step(nodes)[d] /\ f[d] = Step(f)[d]
          BY <1>7, <1>8
        <4> QED BY <4>2, <4>3, <4>4
      <3>2. CASE doc.kind[d] # "assembly"
        BY <1>7, <1>8, <3>2
      <3> QED BY <3>1, <3>2
    <2> HIDE DEF Same
    <2>2. Def \subseteq Same
      BY <1>5, <2>1, GroundedInduction
    <2>3. \A d \in Def : nodes[d] = f[d]
      BY <2>2 DEF Same
    <2>4. nodes = [d \in Def |-> nodes[d]] /\ f = [d \in Def |-> f[d]]
      BY <1>7, <1>8
    <2> QED BY <2>3, <2>4
  <1>11. ASSUME NEW d \in Def PROVE PartCounts(d) = Counts(d, f)
    BY <1>9, <1>10 DEF PartCounts, PartNodes
  <1> QED BY <1>6, <1>7, <1>9, <1>10, <1>11 DEF V
---------------------------------------------------------------------------
LEMMA CountSeqs ==
  ASSUME doc \in Documents
  PROVE  /\ FreeCounts \in Seq(Nat) /\ Len(FreeCounts) = Len(doc.free)
         /\ \A d \in Def : PartCounts(d) \in Seq(Nat) /\ Len(PartCounts(d)) = Len(Parts(d))
  <1>1. DefNodes \in [Def -> Nat \ {0}]
    BY CountsOf
  <1>2. FreeCounts \in Seq(Nat) /\ Len(FreeCounts) = Len(doc.free)
    <2>1. PICK K \in Nat : K = Len(doc.free) /\ DOMAIN doc.free = 1..K
      BY PartsOf
    <2>2. \A i \in 1..K : FreeCounts[i] \in Nat
      BY <1>1, <2>1, PartsOf DEF FreeCounts, FreeNodes
    <2>3. FreeCounts = [i \in 1..K |-> FreeCounts[i]]
      BY <2>1 DEF FreeCounts
    <2> QED BY <2>1, <2>2, <2>3, GivenSeq
  <1>3. ASSUME NEW d \in Def
        PROVE  PartCounts(d) \in Seq(Nat) /\ Len(PartCounts(d)) = Len(Parts(d))
    <2>1. PICK K \in Nat : K = Len(Parts(d)) /\ DOMAIN Parts(d) = 1..K
      BY PartsOf
    <2>2. \A k \in 1..K : PartCounts(d)[k] \in Nat
      BY <1>1, <2>1, PartsOf DEF PartCounts, PartNodes
    <2>3. PartCounts(d) = [k \in 1..K |-> PartCounts(d)[k]]
      BY <2>1 DEF PartCounts
    <2> QED BY <2>1, <2>2, <2>3, GivenSeq
  <1> QED BY <1>2, <1>3

\* What depends on the document alone stays.
LEMMA DocKept ==
  ASSUME UNCHANGED doc
  PROVE  /\ DefNodes' = DefNodes /\ FreeCounts' = FreeCounts
         /\ \A d : Parts(d)' = Parts(d) /\ PartCounts(d)' = PartCounts(d) /\ Fillable(d)' = Fillable(d)
  <1>1. DefNodes' = DefNodes
    BY DEF DefNodes, Parts
  <1>2. \A d : Parts(d)' = Parts(d) /\ Fillable(d)' = Fillable(d)
    BY DEF Parts, Fillable
  <1>3. \A d : FreeNodes(d)' = FreeNodes(d) /\ PartNodes(d)' = PartNodes(d)
    BY <1>1 DEF FreeNodes, PartNodes
  <1>4. FreeCounts' = FreeCounts /\ \A d : PartCounts(d)' = PartCounts(d)
    BY <1>2, <1>3 DEF FreeCounts, PartCounts
  <1> QED BY <1>1, <1>2, <1>4

\* How many nodes the call of fillNode makes.
Made == IF Fate = "none" THEN 0 ELSE DefNodes[Target]

\* What the call is made on.
LEMMA Call ==
  ASSUME IInv, LoopInv, Filling
  PROVE  /\ doc \in Documents /\ phase = "fill" /\ Len(stack) \in Nat /\ Made \in Nat
         /\ stack = << >> => /\ Len(stack) = 0 /\ nextFree \in 1..Len(doc.free)
                             /\ Target = doc.free[nextFree] /\ Target \in Def
                             /\ Made = FreeCounts[nextFree]
         /\ stack # << >> =>
              /\ Len(stack) \in DOMAIN stack /\ Top = stack[Len(stack)] /\ Len(stack) # 0
              /\ Top.node \in DOMAIN partNodes /\ DefOf(Top.node) \in Def
              /\ doc.kind[DefOf(Top.node)] = "assembly"
              /\ Top.next \in DOMAIN Parts(DefOf(Top.node))
              /\ Target = Parts(DefOf(Top.node))[Top.next]
              /\ Made = PartCounts(DefOf(Top.node))[Top.next]
  <1> USE DEF IInv, TreeInv
  <1>1. doc \in Documents /\ phase = "fill" /\ Len(stack) \in Nat /\ (stack = << >> <=> Len(stack) = 0)
    BY DEF ShapeInv, Filling
  <1>2. DefNodes \in [Def -> Nat \ {0}]
    BY <1>1, CountsOf
  <1>3. ASSUME stack = << >>
        PROVE  /\ nextFree \in 1..Len(doc.free) /\ Target = doc.free[nextFree] /\ Target \in Def
               /\ Made = FreeCounts[nextFree]
    <2>1. nextFree \in 1..Len(doc.free) /\ Target = doc.free[nextFree]
      BY <1>1, <1>3, PartsOf DEF LoopInv, Filling, Target
    <2>2. Target \in Def /\ DOMAIN doc.free = 1..Len(doc.free)
      BY <1>1, <2>1, PartsOf
    <2>3. Made = FreeNodes(Target)
      BY <1>3, <2>2 DEF Made, Fate, FreeNodes
    <2> QED BY <2>1, <2>2, <2>3 DEF FreeCounts
  <1>4. ASSUME stack # << >>
        PROVE  /\ Len(stack) \in DOMAIN stack /\ Top = stack[Len(stack)]
               /\ Top.node \in DOMAIN partNodes /\ DefOf(Top.node) \in Def
               /\ doc.kind[DefOf(Top.node)] = "assembly"
               /\ Top.next \in DOMAIN Parts(DefOf(Top.node))
               /\ Target = Parts(DefOf(Top.node))[Top.next]
               /\ Made = PartCounts(DefOf(Top.node))[Top.next]
    <2>1. /\ Len(stack) \in DOMAIN stack /\ Top = stack[Len(stack)]
          /\ Top.node \in DOMAIN partNodes /\ DefOf(Top.node) \in Def
      BY <1>4, TopFrame
    <2>2. doc.kind[DefOf(Top.node)] = "assembly" /\ Top.next \in 1..(Len(Parts(DefOf(Top.node))) + 1)
      BY <2>1 DEF LoopInv, FrameDef
    <2>3. Top.next <= Len(Parts(DefOf(Top.node))) /\ Target = Parts(DefOf(Top.node))[Top.next]
      BY <1>4 DEF Filling, Target, DefOf
    <2>4. Len(Parts(DefOf(Top.node))) \in Nat /\ DOMAIN Parts(DefOf(Top.node)) = 1..Len(Parts(DefOf(Top.node)))
      BY <1>1, <2>1, PartsOf
    <2>5. Top.next \in DOMAIN Parts(DefOf(Top.node))
      BY <2>2, <2>3, <2>4
    <2>6. Made = PartNodes(Target)
      BY <1>4 DEF Made, Fate, PartNodes
    <2> QED BY <2>1, <2>2, <2>3, <2>5, <2>6 DEF PartCounts
  <1>5. Made \in Nat
    <2>1. Fate # "none" => Target \in Def
      BY DEF Fate
    <2> QED BY <1>2, <2>1 DEF Made
  <1> QED BY <1>1, <1>3, <1>4, <1>5

\* The loops: where each stands, and that none reaches beyond what was counted.
LEMMA Reaches ==
  ASSUME IInv, LoopInv
  PROVE  /\ \A f \in 0..Len(stack) : Reach(f) \in Nat
         /\ Reach(0) <= Total(FreeCounts)
         /\ \A f \in DOMAIN stack :
              /\ FrameDef(f) \in Def /\ stack[f].node \in Nat \ {0}
              /\ DefNodes[FrameDef(f)] \in Nat \ {0}
              /\ Reach(f) <= stack[f].node + DefNodes[FrameDef(f)] - 1
  <1> USE DEF IInv, TreeInv
  <1>1. /\ doc \in Documents /\ Len(stack) \in Nat /\ DOMAIN stack = 1..Len(stack)
        /\ DOMAIN partNodes = 1..Len(partNodes) /\ Len(partNodes) \in Nat
    BY DEF ShapeInv
  <1>2. Reach(0) \in Nat /\ Reach(0) <= Total(FreeCounts)
    <2>1. FreeCounts \in Seq(Nat) /\ Len(FreeCounts) = Len(doc.free) /\ Len(doc.free) \in Nat
      BY <1>1, CountSeqs, PartsOf
    <2>2. nextFree - 1 \in 0..Len(doc.free)
      BY <2>1 DEF LoopInv
    <2> QED BY <2>1, <2>2, SumsOf DEF Reach
  <1>3. ASSUME NEW f \in DOMAIN stack
        PROVE  /\ FrameDef(f) \in Def /\ stack[f].node \in Nat \ {0}
               /\ DefNodes[FrameDef(f)] \in Nat \ {0}
               /\ Reach(f) \in Nat
               /\ Reach(f) <= stack[f].node + DefNodes[FrameDef(f)] - 1
    <2>1. PICK d : d = FrameDef(f)
      OBVIOUS
    <2>2. stack[f].node \in DOMAIN partNodes
      BY DEF FrameInv
    <2>3. partNodes[stack[f].node] \in NodeRecord
      BY <2>2, ElementOf DEF ShapeInv
    <2>4. d \in Def
      BY <2>1, <2>3 DEF NodeRecord, FrameDef, DefOf
    <2>5. doc.kind[d] = "assembly" /\ stack[f].next \in 1..(Len(Parts(d)) + 1)
      BY <2>1 DEF LoopInv
    <2>6. PartCounts(d) \in Seq(Nat) /\ Len(PartCounts(d)) = Len(Parts(d)) /\ Len(Parts(d)) \in Nat
      BY <1>1, <2>4, CountSeqs, PartsOf
    <2>7. stack[f].next - 1 \in 0..Len(PartCounts(d))
      BY <2>5, <2>6
    <2>8. PICK t : t = Sums(PartCounts(d))[stack[f].next - 1]
      OBVIOUS
    <2>9. t \in Nat /\ t <= Total(PartCounts(d)) /\ Total(PartCounts(d)) \in Nat
      BY <2>6, <2>7, <2>8, SumsOf
    <2>10. f # 0
      BY <1>1
    <2>11. Reach(f) = stack[f].node + t
      BY <2>1, <2>8, <2>10 DEF Reach
    <2>12. DefNodes[d] = 1 + Total(PartCounts(d))
      BY <1>1, <2>4, <2>5, CountsOf
    <2>13. stack[f].node \in Nat \ {0}
      BY <1>1, <2>2
    <2> QED BY <2>1, <2>4, <2>9, <2>11, <2>12, <2>13
  <1>4. ASSUME NEW f \in 0..Len(stack) PROVE Reach(f) \in Nat
    <2>1. f = 0 \/ f \in DOMAIN stack
      BY <1>1
    <2> QED BY <1>2, <1>3, <2>1
  <1> QED BY <1>2, <1>3, <1>4

\* The call moves its loop on by the nodes it makes, and no other loop.
LEMMA StepReach ==
  ASSUME IInv, LoopInv, Filling, UNCHANGED doc, Advance,
         \A n \in DOMAIN partNodes : partNodes'[n] = partNodes[n],
         \A f \in DOMAIN stack : stack'[f] = Stepped[f],
         NEW f \in 0..Len(stack)
  PROVE  Reach(f)' = IF f = Len(stack) THEN Reach(f) + Made ELSE Reach(f)
  <1> USE DEF IInv, TreeInv
  <1>1. /\ doc \in Documents /\ Len(stack) \in Nat /\ DOMAIN stack = 1..Len(stack)
        /\ DefNodes' = DefNodes /\ FreeCounts' = FreeCounts
        /\ \A d : PartCounts(d)' = PartCounts(d) /\ Parts(d)' = Parts(d)
    BY DocKept DEF ShapeInv
  <1>2. CASE f = 0 /\ stack = << >>
    <2>1. nextFree \in 1..Len(doc.free) /\ Made = FreeCounts[nextFree] /\ Len(stack) = 0
      BY <1>2, Call
    <2>2. FreeCounts \in Seq(Nat) /\ Len(FreeCounts) = Len(doc.free) /\ Len(doc.free) \in Nat
      BY <1>1, CountSeqs, PartsOf
    <2>3. Sums(FreeCounts)[nextFree] = Sums(FreeCounts)[nextFree - 1] + FreeCounts[nextFree]
      BY <2>1, <2>2, SumsOf
    <2>4. nextFree' - 1 = nextFree
      BY <1>2, <2>1 DEF Advance
    <2>5. Reach(f)' = Sums(FreeCounts)[nextFree' - 1] /\ Reach(f) = Sums(FreeCounts)[nextFree - 1]
      BY <1>1, <1>2 DEF Reach
    <2> QED BY <1>2, <2>1, <2>3, <2>4, <2>5
  <1>3. CASE f = 0 /\ stack # << >>
    <2>1. nextFree' = nextFree /\ f # Len(stack)
      BY <1>3 DEF Advance, ShapeInv
    <2> QED BY <1>1, <1>3, <2>1 DEF Reach
  <1>4. CASE f # 0
    <2>1. f \in DOMAIN stack /\ stack # << >>
      BY <1>1, <1>4
    <2>2. PICK d : d = FrameDef(f)
      OBVIOUS
    <2>3. stack'[f].node = stack[f].node /\ stack[f].node \in DOMAIN partNodes
      BY <2>1, SteppedFrames DEF FrameInv
    <2>4. FrameDef(f)' = d
      BY <2>2, <2>3 DEF DefOf, FrameDef
    <2>5. /\ Reach(f) = stack[f].node + Sums(PartCounts(d))[stack[f].next - 1]
          /\ Reach(f)' = stack[f].node + Sums(PartCounts(d))[stack'[f].next - 1]
      BY <1>1, <1>4, <2>2, <2>3, <2>4 DEF Reach
    <2>6. CASE f # Len(stack)
      <3>1. Stepped[f] = stack[f]
        BY <2>1, <2>6 DEF Stepped, ShapeInv
      <3> QED BY <2>1, <2>5, <2>6, <3>1
    <2>7. CASE f = Len(stack)
      <3>1. /\ Top = stack[f] /\ Top.next \in DOMAIN Parts(d) /\ d \in Def
            /\ Made = PartCounts(d)[Top.next] /\ Top.node \in DOMAIN partNodes
        BY <2>1, <2>2, <2>7, Call DEF FrameDef
      <3>2. stack'[f].next = Top.next + 1
        BY <2>1, <2>7, SteppedFrames
      <3>3. /\ PartCounts(d) \in Seq(Nat) /\ Len(PartCounts(d)) = Len(Parts(d))
            /\ DOMAIN Parts(d) = 1..Len(Parts(d)) /\ Len(Parts(d)) \in Nat
        BY <1>1, <3>1, CountSeqs, PartsOf
      <3>4. PICK k \in 1..Len(PartCounts(d)) : k = Top.next
        BY <3>1, <3>3
      <3>5. /\ Sums(PartCounts(d))[k] = Sums(PartCounts(d))[k - 1] + PartCounts(d)[k]
            /\ Sums(PartCounts(d))[k - 1] \in Nat /\ PartCounts(d)[k] \in Nat
        <4>1. PICK s \in Seq(Nat) : s = PartCounts(d)
          BY <3>3
        <4>2. Sums(s)[k] = Sums(s)[k - 1] + s[k] /\ s[k] \in Nat
          BY <3>4, <4>1, SumsOf
        <4>3. Sums(s) \in [0..Len(s) -> Nat] /\ k - 1 \in 0..Len(s)
          BY <3>4, <4>1, SumsOf
        <4> QED BY <4>1, <4>2, <4>3
      <3>6. stack'[f].next - 1 = k /\ stack[f].next = k
        BY <3>1, <3>2, <3>3, <3>4
      <3>7. stack[f].node \in Nat
        BY <2>3 DEF ShapeInv
      <3>8. Reach(f) = stack[f].node + Sums(PartCounts(d))[k - 1]
        BY <2>5, <3>6
      <3>9. Reach(f)' = stack[f].node + Sums(PartCounts(d))[k]
        BY <2>5, <3>6
      <3>10. Made = PartCounts(d)[k]
        BY <3>1, <3>4
      <3>11. Reach(f)' = Reach(f) + Made
        <4>1. PICK base \in Nat, before \in Nat, count \in Nat :
                base = stack[f].node /\ before = Sums(PartCounts(d))[k - 1] /\ count = PartCounts(d)[k]
          BY <3>5, <3>7
        <4>2. PICK after : after = Sums(PartCounts(d))[k]
          OBVIOUS
        <4>3. after = before + count /\ Reach(f) = base + before /\ Reach(f)' = base + after
              /\ Made = count
          BY <3>5, <3>8, <3>9, <3>10, <4>1, <4>2
        <4> QED BY <4>3
      <3> QED BY <2>7, <3>11
    <2> QED BY <2>6, <2>7
  <1> QED BY <1>2, <1>3, <1>4

\* A loop that a call was made from has not passed its end.
LEMMA NextInRange ==
  ASSUME IInv, LoopInv, Filling, \A f \in DOMAIN stack : stack'[f] = Stepped[f],
         NEW f \in DOMAIN stack
  PROVE  /\ doc.kind[FrameDef(f)] = "assembly"
         /\ stack'[f].next \in 1..(Len(Parts(FrameDef(f))) + 1)
  <1> USE DEF IInv, TreeInv
  <1>1. /\ doc.kind[FrameDef(f)] = "assembly"
        /\ stack[f].next \in 1..(Len(Parts(FrameDef(f))) + 1)
    BY DEF LoopInv
  <1>2. CASE f = Len(stack)
    <2>1. PICK d : d = FrameDef(f)
      OBVIOUS
    <2>2. stack # << >> /\ Top = stack[f] /\ d \in Def /\ Top.next \in DOMAIN Parts(d)
      BY <1>2, <2>1, Call DEF FrameDef, ShapeInv
    <2>3. Len(Parts(d)) \in Nat /\ DOMAIN Parts(d) = 1..Len(Parts(d))
      BY <2>2, PartsOf DEF ShapeInv
    <2>4. stack'[f].next = Top.next + 1
      BY <1>2, <2>2, SteppedFrames
    <2>5. stack'[f].next \in 1..(Len(Parts(d)) + 1)
      BY <2>2, <2>3, <2>4
    <2> QED BY <1>1, <2>1, <2>5
  <1>3. CASE f # Len(stack)
    <2>1. stack'[f] = stack[f]
      BY <1>3 DEF Stepped, ShapeInv
    <2> QED BY <1>1, <2>1
  <1> QED BY <1>2, <1>3

\* A call that opens no frame.
LEMMA SteppedInv ==
  ASSUME IInv, LoopInv, SlotInv, Filling, UNCHANGED <<doc, numNodes>>, phase' = "fill", Advance,
         stack' = Stepped, Len(partNodes') = Len(partNodes) + Made,
         \A n \in DOMAIN partNodes : partNodes'[n] = partNodes[n]
  PROVE  LoopInv' /\ SlotInv'
  <1> USE DEF IInv, TreeInv
  <1>1. /\ Len(stack) \in Nat /\ DOMAIN stack = 1..Len(stack) /\ Len(stack') = Len(stack)
        /\ DOMAIN stack' = DOMAIN stack /\ phase = "fill" /\ doc \in Documents
    <2>1. /\ stack \in Seq(Frames) /\ stack' \in Seq(Frames) /\ DOMAIN stack' = DOMAIN stack
      BY SteppedFrames DEF ShapeInv
    <2> QED BY <2>1, Call
  <1>2. /\ DefNodes' = DefNodes /\ FreeCounts' = FreeCounts
        /\ \A d : PartCounts(d)' = PartCounts(d) /\ Parts(d)' = Parts(d)
    BY DocKept
  <1>3. \A f \in 0..Len(stack) : Reach(f)' = IF f = Len(stack) THEN Reach(f) + Made ELSE Reach(f)
    BY StepReach
  <1>4. \A f \in DOMAIN stack : /\ stack'[f].node = stack[f].node /\ FrameDef(f)' = FrameDef(f)
    BY SteppedFrames DEF FrameInv, DefOf, FrameDef
  <1>5. SlotInv'
    <2>1. ASSUME NEW f, f = Len(stack) PROVE Len(partNodes') = Reach(f)'
      <3>1. f \in 0..Len(stack) /\ Len(partNodes) = Reach(f)
        BY <1>1, <2>1 DEF SlotInv
      <3> QED BY <1>3, <2>1, <3>1
    <2>2. ASSUME NEW f \in DOMAIN stack
          PROVE  Reach(f - 1)' = stack'[f].node + DefNodes[FrameDef(f)'] - 1
      <3>1. f - 1 \in 0..Len(stack) /\ f - 1 # Len(stack)
        BY <1>1
      <3>2. Reach(f - 1)' = Reach(f - 1)
        BY <1>3, <3>1
      <3> QED BY <1>4, <3>2 DEF SlotInv
    <2> QED BY <1>1, <1>2, <2>1, <2>2 DEF SlotInv
  <1>6. LoopInv'
    <2>1. nextFree' \in 1..(Len(doc.free) + 1)
      <3>1. CASE stack = << >>
        BY <3>1, Call, PartsOf DEF Advance
      <3>2. CASE stack # << >>
        BY <3>2 DEF Advance, LoopInv
      <3> QED BY <3>1, <3>2
    <2>2. ASSUME NEW f \in DOMAIN stack
          PROVE  /\ doc.kind[FrameDef(f)] = "assembly"
                 /\ stack'[f].next \in 1..(Len(Parts(FrameDef(f))) + 1)
      BY NextInRange
    <2>3. numNodes' = Total(FreeCounts')
      BY <1>1, <1>2 DEF LoopInv
    <2> QED BY <1>1, <1>2, <1>4, <2>1, <2>2, <2>3 DEF LoopInv
  <1> QED BY <1>5, <1>6

\* A call that opens a frame.
LEMMA PushedInv ==
  ASSUME IInv, LoopInv, SlotInv, Filling, UNCHANGED <<doc, numNodes>>, phase' = "fill", Advance,
         Fate = "assembly", NEW node \in NodeRecord, node.def = Target,
         partNodes' = Append(partNodes, node),
         stack' = Append(Stepped, [node |-> Len(partNodes) + 1, next |-> 1])
  PROVE  LoopInv' /\ SlotInv'
  <1> USE DEF IInv, TreeInv
  <1> DEFINE new == Len(partNodes) + 1
             frame == [node |-> new, next |-> 1]
             last == Len(stack) + 1
  <1>1. /\ Len(stack) \in Nat /\ DOMAIN stack = 1..Len(stack) /\ phase = "fill" /\ doc \in Documents
        /\ Len(partNodes) \in Nat /\ DOMAIN partNodes = 1..Len(partNodes)
    BY Call DEF ShapeInv
  <1>2. /\ DefNodes' = DefNodes /\ FreeCounts' = FreeCounts
        /\ \A d : PartCounts(d)' = PartCounts(d) /\ Parts(d)' = Parts(d)
    BY DocKept
  <1>3. /\ Len(partNodes') = new /\ partNodes'[new] = node
        /\ \A n \in DOMAIN partNodes : partNodes'[n] = partNodes[n]
    BY Extended DEF ShapeInv
  <1>4. frame \in Frames /\ frame.node = new /\ frame.next = 1
    BY <1>1 DEF Frames
  <1> HIDE DEF frame
  <1>5. /\ Len(stack') = last /\ DOMAIN stack' = DOMAIN stack \cup {last} /\ stack'[last] = frame
        /\ \A f \in DOMAIN stack : stack'[f] = Stepped[f]
    <2>1. Stepped \in Seq(Frames) /\ DOMAIN Stepped = DOMAIN stack
      BY SteppedFrames
    <2>2. Len(Stepped) = Len(stack)
      BY <1>1, <2>1
    <2>3. stack' = Append(Stepped, frame)
      BY DEF frame
    <2> QED BY <1>4, <2>1, <2>2, <2>3, Extended
  <1>6. \A f \in 0..Len(stack) : Reach(f)' = IF f = Len(stack) THEN Reach(f) + Made ELSE Reach(f)
    BY <1>3, <1>5, StepReach
  <1>7. \A f \in DOMAIN stack : /\ stack'[f].node = stack[f].node /\ FrameDef(f)' = FrameDef(f)
    BY <1>3, <1>5, SteppedFrames DEF FrameInv, DefOf, FrameDef
  <1>8. /\ Target \in Def /\ doc.kind[Target] = "assembly" /\ Made = DefNodes[Target]
        /\ DefNodes[Target] \in Nat \ {0}
    <2>1. Target \in Def /\ doc.kind[Target] = "assembly" /\ Made = DefNodes[Target]
      BY DEF Fate, Made
    <2> QED BY <1>1, <2>1, CountsOf
  <1>9. PICK l : l = last
    OBVIOUS
  <1>10. FrameDef(l)' = Target /\ stack'[l].node = new /\ stack'[l].next = 1
    BY <1>3, <1>4, <1>5, <1>9 DEF DefOf, FrameDef
  <1>11. Reach(l)' = new
    <2>1. l # 0
      BY <1>1, <1>9
    <2>2. Reach(l)' = stack'[l].node + Sums(PartCounts(Target))[stack'[l].next - 1]
      BY <1>2, <1>10, <2>1 DEF Reach
    <2>3. PartCounts(Target) \in Seq(Nat)
      BY <1>1, <1>8, CountSeqs
    <2>4. Sums(PartCounts(Target))[0] = 0
      BY <2>3, SumsOf
    <2> QED BY <1>1, <1>10, <2>2, <2>4
  <1>12. SlotInv'
    <2>1. \A f : f = Len(stack') => Len(partNodes') = Reach(f)'
      BY <1>3, <1>5, <1>9, <1>11
    <2>2. ASSUME NEW f \in DOMAIN stack'
          PROVE  Reach(f - 1)' = stack'[f].node + DefNodes[FrameDef(f)'] - 1
      <3>1. CASE f = last
        <4>1. f - 1 = Len(stack) /\ Len(stack) \in 0..Len(stack)
          BY <1>1, <3>1
        <4>2. Reach(f - 1)' = Len(partNodes) + DefNodes[Target]
          BY <1>6, <1>8, <4>1 DEF SlotInv
        <4> QED BY <1>1, <1>8, <1>9, <1>10, <3>1, <4>2
      <3>2. CASE f \in DOMAIN stack
        <4>1. f - 1 \in 0..Len(stack) /\ f - 1 # Len(stack)
          BY <1>1, <3>2
        <4>2. Reach(f - 1)' = Reach(f - 1)
          BY <1>6, <4>1
        <4> QED BY <1>7, <3>2, <4>2 DEF SlotInv
      <3> QED BY <1>5, <3>1, <3>2
    <2> QED BY <1>2, <2>1, <2>2 DEF SlotInv
  <1>13. LoopInv'
    <2>1. nextFree' \in 1..(Len(doc.free) + 1)
      <3>1. CASE stack = << >>
        BY <3>1, Call, PartsOf DEF Advance
      <3>2. CASE stack # << >>
        BY <3>2 DEF Advance, LoopInv
      <3> QED BY <3>1, <3>2
    <2>2. ASSUME NEW f \in DOMAIN stack'
          PROVE  /\ doc.kind[FrameDef(f)'] = "assembly"
                 /\ stack'[f].next \in 1..(Len(Parts(FrameDef(f)')) + 1)
      <3>1. CASE f = last
        <4>1. Len(Parts(Target)) \in Nat
          BY <1>1, <1>8, PartsOf
        <4> QED BY <1>8, <1>9, <1>10, <3>1, <4>1
      <3>2. CASE f \in DOMAIN stack
        BY <1>5, <1>7, <3>2, NextInRange
      <3> QED BY <1>5, <3>1, <3>2
    <2>3. numNodes' = Total(FreeCounts')
      BY <1>1, <1>2 DEF LoopInv
    <2> QED BY <1>2, <2>1, <2>2, <2>3 DEF LoopInv
  <1> QED BY <1>12, <1>13
---------------------------------------------------------------------------
\* A frame is closed when its loop has reached its end, which is where the loop around
\* it expects the cursor.
LEMMA CloseCount ==
  ASSUME IInv, LoopInv, SlotInv, CloseAssembly
  PROVE  LoopInv' /\ SlotInv'
  <1> USE DEF IInv, TreeInv
  <1>1. /\ stack # << >> /\ stack' = Front(stack) /\ phase = "fill" /\ doc \in Documents
        /\ UNCHANGED <<doc, phase, numNodes, partNodes, nextFree>> /\ ~Filling
    BY DEF CloseAssembly, ShapeInv
  <1>2. PICK l : l = Len(stack)
    OBVIOUS
  <1>3. /\ l \in Nat \ {0} /\ DOMAIN stack = 1..l /\ l \in DOMAIN stack
        /\ Len(stack') = l - 1 /\ DOMAIN stack' = 1..(l - 1)
        /\ \A f \in 1..(l - 1) : stack'[f] = stack[f] /\ f \in DOMAIN stack
    <2>1. /\ stack' \in Seq(Frames) /\ Len(stack') = l - 1 /\ l \in Nat \ {0}
          /\ \A f \in DOMAIN stack' : stack'[f] = stack[f] /\ f \in DOMAIN stack
      BY <1>1, <1>2, FrontOf DEF ShapeInv
    <2>2. DOMAIN stack = 1..l /\ DOMAIN stack' = 1..Len(stack')
      BY <1>2, <2>1 DEF ShapeInv
    <2> QED BY <2>1, <2>2
  <1>4. /\ DefNodes' = DefNodes /\ FreeCounts' = FreeCounts
        /\ \A d : PartCounts(d)' = PartCounts(d) /\ Parts(d)' = Parts(d)
    BY <1>1, DocKept
  <1>5. \A f \in 1..(l - 1) : FrameDef(f)' = FrameDef(f)
    BY <1>1, <1>3 DEF FrameDef, DefOf
  <1>6. \A f \in 0..(l - 1) : Reach(f)' = Reach(f)
    <2> TAKE f \in 0..(l - 1)
    <2>1. CASE f = 0
      BY <1>1, <1>4, <2>1 DEF Reach
    <2>2. CASE f # 0
      <3>1. f \in 1..(l - 1)
        BY <1>3, <2>2
      <3> QED BY <1>3, <1>4, <1>5, <2>2, <3>1 DEF Reach
    <2> QED BY <2>1, <2>2
  <1>7. Reach(l) = Reach(l - 1)
    <2>1. PICK d : d = FrameDef(l)
      OBVIOUS
    <2>2. /\ Top = stack[l] /\ d \in Def /\ doc.kind[d] = "assembly"
          /\ stack[l].next \in 1..(Len(Parts(d)) + 1) /\ stack[l].node \in Nat
      BY <1>2, <1>3, <2>1, Reaches DEF LoopInv, Top, Last
    <2>3. ~(stack[l].next <= Len(Parts(d)))
      BY <1>1, <2>1, <2>2 DEF Filling, FrameDef, DefOf
    <2>4. PartCounts(d) \in Seq(Nat) /\ Len(PartCounts(d)) = Len(Parts(d)) /\ Len(Parts(d)) \in Nat
      BY <1>1, <2>2, CountSeqs, PartsOf
    <2>5. stack[l].next - 1 = Len(PartCounts(d))
      BY <2>2, <2>3, <2>4
    <2>6. Reach(l) = stack[l].node + Total(PartCounts(d))
      BY <1>3, <2>1, <2>5 DEF Reach, Total
    <2>7. DefNodes[d] = 1 + Total(PartCounts(d)) /\ Total(PartCounts(d)) \in Nat
      BY <1>1, <2>2, <2>4, CountsOf, SumsOf
    <2> QED BY <1>3, <2>1, <2>2, <2>6, <2>7 DEF SlotInv
  <1>8. SlotInv'
    <2>1. l - 1 \in 0..(l - 1) /\ Reach(l) = Len(partNodes)
      BY <1>2, <1>3 DEF SlotInv
    <2>2. ASSUME NEW f, f = Len(stack') PROVE Reach(f)' = Len(partNodes')
      BY <1>1, <1>3, <1>6, <1>7, <2>1, <2>2
    <2>3. ASSUME NEW f \in 1..(l - 1) PROVE Reach(f - 1)' = stack'[f].node + DefNodes[FrameDef(f)'] - 1
      <3>1. f - 1 \in 0..(l - 1)
        BY <1>3
      <3> QED BY <1>3, <1>5, <1>6, <3>1 DEF SlotInv
    <2> QED BY <1>3, <1>4, <2>2, <2>3 DEF SlotInv
  <1>9. LoopInv'
    BY <1>1, <1>3, <1>4, <1>5 DEF LoopInv
  <1> QED BY <1>8, <1>9

\* A step that leaves the tree and the loops alone.
LEMMA RestCount ==
  ASSUME IInv, LoopInv, SlotInv, UNCHANGED <<doc, partNodes, stack, nextFree>>,
         phase' = "count" => phase = "count" /\ UNCHANGED numNodes,
         phase' # "count" => numNodes' = Total(FreeCounts),
         phase' \notin {"count", "fill"} => stack = << >> /\ nextFree = Len(doc.free) + 1
  PROVE  LoopInv' /\ SlotInv'
  <1>1. /\ DefNodes' = DefNodes /\ FreeCounts' = FreeCounts
        /\ \A d : PartCounts(d)' = PartCounts(d) /\ Parts(d)' = Parts(d)
    BY DocKept
  <1>2. \A f : FrameDef(f)' = FrameDef(f)
    BY DEF FrameDef, DefOf
  <1>3. \A f : Reach(f)' = Reach(f)
    BY <1>1, <1>2 DEF Reach
  <1>4. SlotInv'
    BY <1>1, <1>2, <1>3 DEF SlotInv
  <1>5. LoopInv'
    BY <1>1, <1>2 DEF LoopInv
  <1> QED BY <1>4, <1>5

LEMMA CountInit == Init => LoopInv /\ SlotInv
  <1> SUFFICES ASSUME Init PROVE LoopInv /\ SlotInv
    OBVIOUS
  <1>1. doc \in Documents /\ partNodes = << >> /\ stack = << >> /\ nextFree = 1 /\ phase = "count"
        /\ numNodes = 0 /\ DOMAIN stack = {} /\ Len(stack) = 0 /\ Len(partNodes) = 0
    BY DEF Init
  <1>2. Len(doc.free) \in Nat /\ FreeCounts \in Seq(Nat)
    BY <1>1, PartsOf, CountSeqs
  <1>3. Reach(0) = 0
    BY <1>1, <1>2, SumsOf DEF Reach
  <1> QED BY <1>1, <1>2, <1>3 DEF LoopInv, SlotInv

LEMMA CountStep == IInv /\ LoopInv /\ SlotInv /\ [Next]_vars => LoopInv' /\ SlotInv'
  <1> SUFFICES ASSUME IInv, LoopInv, SlotInv, [Next]_vars PROVE LoopInv' /\ SlotInv'
    OBVIOUS
  <1>1. doc \in Documents /\ Len(partNodes) \in Nat
    BY DEF IInv, TreeInv, ShapeInv
  <1>2. CASE CountNodes
    BY <1>2, RestCount DEF CountNodes, FreeCounts
  <1>3. CASE PassOver
    <2>1. /\ Filling /\ UNCHANGED <<doc, numNodes, partNodes>> /\ phase' = "fill" /\ Advance
          /\ stack' = Stepped /\ Made = 0
      BY <1>3 DEF PassOver, Filling, Made
    <2> QED BY <1>1, <2>1, SteppedInv
  <1>4. CASE FillLeaf
    <2>1. PICK node : node = Node("leaf", 0, 0)
      OBVIOUS
    <2>2. /\ Filling /\ UNCHANGED <<doc, numNodes>> /\ phase' = "fill" /\ Advance /\ stack' = Stepped
          /\ partNodes' = Append(partNodes, node) /\ Fate = "leaf"
      BY <1>4, <2>1 DEF FillLeaf, Filling
    <2>3. node \in NodeRecord
      BY <2>1, <2>2, NodeIsNode
    <2>4. /\ Len(partNodes') = Len(partNodes) + 1
          /\ \A n \in DOMAIN partNodes : partNodes'[n] = partNodes[n]
      BY <2>2, <2>3, Extended DEF IInv, TreeInv, ShapeInv
    <2>5. Made = 1
      <3>1. Target \in Def /\ doc.kind[Target] # "assembly"
        BY <2>2 DEF Fate
      <3> QED BY <1>1, <2>2, <3>1, CountsOf DEF Made
    <2> QED BY <2>2, <2>4, <2>5, SteppedInv
  <1>5. CASE FillAssembly
    <2> DEFINE valid == {k \in DOMAIN Parts(Target) : PartNodes(Parts(Target)[k]) > 0}
               first == IF valid = {} THEN 0 ELSE Len(partNodes) + 1 + 1
               count == Cardinality(valid)
    <2>1. PICK node : node = Node("assembly", first, count)
      OBVIOUS
    <2>2. /\ Filling /\ UNCHANGED <<doc, numNodes>> /\ phase' = "fill" /\ Advance /\ Fate = "assembly"
          /\ stack' = Append(Stepped, [node |-> Len(partNodes) + 1, next |-> 1])
          /\ partNodes' = Append(partNodes, node)
      BY <1>5, <2>1 DEF FillAssembly, Filling
    <2>3. node \in NodeRecord /\ node.def = Target
      <3>1. Target \in Def
        BY <2>2 DEF Fate
      <3>2. IsFiniteSet(valid)
        <4>1. DOMAIN Parts(Target) = 1..Len(Parts(Target)) /\ Len(Parts(Target)) \in Nat
          BY <1>1, <3>1, PartsOf
        <4>2. IsFiniteSet(DOMAIN Parts(Target))
          BY <4>1, FS_Interval
        <4> QED BY <4>2, FS_Subset
      <3>3. count \in Nat
        BY <3>2, FS_CardinalityType
      <3>4. first \in Nat
        BY <1>1
      <3> HIDE DEF valid, first, count
      <3> QED BY <2>1, <2>2, <3>3, <3>4, NodeIsNode DEF Node
    <2> QED BY <2>2, <2>3, PushedInv
  <1>6. CASE CloseAssembly
    BY <1>6, CloseCount
  <1>7. CASE TreeBuilt
    <2>1. /\ UNCHANGED <<doc, partNodes, stack, nextFree, numNodes>> /\ phase = "fill" /\ phase' = "paths"
          /\ stack = << >> /\ ~(nextFree <= Len(doc.free))
      BY <1>7 DEF TreeBuilt, Filling
    <2>2. nextFree = Len(doc.free) + 1
      BY <1>1, <2>1, PartsOf DEF LoopInv
    <2> QED BY <2>1, <2>2, RestCount DEF LoopInv
  <1>8. CASE RootPath \/ NodePath \/ StrayRead \/ PathsDone
    <2>1. /\ UNCHANGED <<doc, partNodes, stack, nextFree, numNodes>>
          /\ phase = "paths" /\ phase' \in {"paths", "done", "crashed"}
      BY <1>8 DEF RootPath, NodePath, StrayRead, PathsDone, Naming
    <2> QED BY <2>1, RestCount DEF LoopInv
  <1>9. CASE UNCHANGED vars
    <2>1. UNCHANGED <<doc, phase, partNodes, stack, nextFree, numNodes>>
      BY <1>9 DEF vars
    <2> QED BY <2>1, RestCount DEF LoopInv
  <1> QED BY <1>2, <1>3, <1>4, <1>5, <1>6, <1>7, <1>8, <1>9 DEF Next

\* Where the loops stand always agrees with what was counted.
THEOREM CountInvariance == Spec => [](LoopInv /\ SlotInv)
  <1>1. Init => LoopInv /\ SlotInv
    BY CountInit
  <1>2. IInv /\ LoopInv /\ SlotInv /\ [Next]_vars => LoopInv' /\ SlotInv'
    BY CountStep
  <1> QED BY <1>1, <1>2, Invariance, PTL DEF Spec

\* No slot is written that the first pass did not count, and when the tree is built none
\* is left: the assertion at the end of buildInstanceTree, for any document.
THEOREM PassesMatch == Spec => []PassesAgree
  <1>1. IInv /\ LoopInv /\ SlotInv => PassesAgree
    <2> SUFFICES ASSUME IInv, LoopInv, SlotInv PROVE PassesAgree
      OBVIOUS
    <2>1. doc \in Documents /\ Len(stack) \in Nat /\ DOMAIN stack = 1..Len(stack)
      BY DEF IInv, TreeInv, ShapeInv
    <2>2. FreeCounts \in Seq(Nat) /\ Len(FreeCounts) = Len(doc.free) /\ Len(doc.free) \in Nat
      BY <2>1, CountSeqs, PartsOf
    <2>3. PICK T \in Nat : T = Total(FreeCounts)
      BY <2>2, SumsOf
    <2> DEFINE S == {f \in 0..Len(stack) : Reach(f) <= T}
    <2>4. 0 \in S
      BY <2>1, <2>3, Reaches
    <2>5. ASSUME NEW f \in 1..Len(stack), f - 1 \in S PROVE f \in S
      <3>1. /\ Reach(f) \in Nat /\ f - 1 \in 0..Len(stack) /\ Reach(f - 1) <= T /\ f \in 0..Len(stack)
            /\ Reach(f) <= stack[f].node + DefNodes[FrameDef(f)] - 1
            /\ Reach(f - 1) = stack[f].node + DefNodes[FrameDef(f)] - 1
            /\ Reach(f - 1) \in Nat
        BY <2>1, <2>5, Reaches DEF SlotInv
      <3> QED BY <3>1
    <2> HIDE DEF S
    <2>6. 0..Len(stack) \subseteq S
      BY <2>1, <2>4, <2>5, RangeInduction
    <2>7. Len(partNodes) <= T
      <3>1. Len(stack) \in S
        BY <2>1, <2>6
      <3> QED BY <3>1 DEF S, SlotInv
    <2>8. ASSUME phase \in {"paths", "done"} PROVE Len(partNodes) = T
      <3>1. Len(stack) = 0 /\ nextFree = Len(doc.free) + 1
        BY <2>8 DEF LoopInv
      <3>2. Len(partNodes) = Sums(FreeCounts)[nextFree - 1]
        BY <3>1 DEF SlotInv, Reach
      <3>3. nextFree - 1 = Len(FreeCounts)
        BY <2>2, <3>1
      <3> QED BY <2>3, <3>2, <3>3 DEF Total
    <2> QED BY <2>3, <2>7, <2>8 DEF PassesAgree, LoopInv
  <1> QED BY <1>1, Invariance, CountInvariance, PTL
---------------------------------------------------------------------------
\* A node made for the label keeps the links right.
LEMMA LinksAdded ==
  ASSUME IInv, LoopInv, LinksInv, Filling, UNCHANGED doc, Advance, Fate # "none",
         NEW node \in NodeRecord, partNodes' = Append(partNodes, node),
         node.def = Target, node.inst = Label, node.parent = ParentIdx, node.depth = Depth,
         IF doc.kind[Target] = "assembly"
         THEN /\ stack' = Append(Stepped, [node |-> Len(partNodes) + 1, next |-> 1])
              /\ node.type = "assembly" /\ node.count = Cardinality(Fillable(Target))
              /\ node.first = IF Fillable(Target) = {} THEN 0 ELSE Len(partNodes) + 1 + 1
              /\ UNCHANGED definitionShapes
         ELSE /\ stack' = Stepped /\ node.type = "leaf" /\ node.count = 0 /\ node.first = 0
              /\ definitionShapes' = definitionShapes \cup {Target}
  PROVE  LinksInv'
  <1> USE DEF IInv, TreeInv, LinksInv
  <1>1. PICK N \in Nat : N = Len(partNodes)
    BY DEF ShapeInv
  <1>2. PICK new \in Nat : new = N + 1
    OBVIOUS
  <1>3. PICK L \in Nat : L = Len(stack)
    BY DEF ShapeInv
  <1>4. /\ doc \in Documents /\ DOMAIN partNodes = 1..N /\ DOMAIN stack = 1..L
        /\ DOMAIN partNodes' = DOMAIN partNodes \cup {new} /\ Len(partNodes') = new
        /\ new \notin DOMAIN partNodes /\ new # 0
        /\ \A n \in DOMAIN partNodes : partNodes'[n] = partNodes[n]
        /\ partNodes'[new] = node
    BY <1>1, <1>2, <1>3, Extended DEF ShapeInv
  <1>5. \A n \in DOMAIN partNodes :
          DefOf(n)' = DefOf(n) /\ ParentOf(n)' = ParentOf(n) /\ InstOf(n)' = InstOf(n)
    BY <1>4 DEF DefOf, ParentOf, InstOf
  <1>6. DefOf(new)' = Target /\ ParentOf(new)' = ParentIdx /\ InstOf(new)' = Label
    BY <1>4 DEF DefOf, ParentOf, InstOf
  <1>7. \A d : Parts(d)' = Parts(d) /\ Fillable(d)' = Fillable(d)
    BY DocKept
  <1>8. /\ \A f \in DOMAIN stack : f \in DOMAIN stack' /\ stack'[f] = Stepped[f]
        /\ \A f \in DOMAIN stack' : f \notin DOMAIN stack =>
             stack'[f].node = new /\ stack'[f].next = 1 /\ doc.kind[Target] = "assembly"
        /\ doc.kind[Target] = "assembly" => L + 1 \in DOMAIN stack' /\ L + 1 \notin DOMAIN stack
    <2> DEFINE frame == [node |-> new, next |-> 1]
    <2>1. Stepped \in Seq(Frames) /\ DOMAIN Stepped = DOMAIN stack /\ Len(Stepped) = L
      BY <1>4, SteppedFrames
    <2>2. frame \in Frames /\ frame.node = new /\ frame.next = 1
      BY DEF Frames
    <2> HIDE DEF frame
    <2>3. /\ DOMAIN Append(Stepped, frame) = DOMAIN Stepped \cup {L + 1}
          /\ Append(Stepped, frame)[L + 1] = frame
          /\ \A f \in DOMAIN Stepped : Append(Stepped, frame)[f] = Stepped[f]
      BY <2>1, <2>2, Extended
    <2>4. CASE doc.kind[Target] = "assembly"
      <3>1. stack' = Append(Stepped, frame)
        BY <1>1, <1>2, <2>4 DEF frame
      <3>2. L + 1 \notin DOMAIN stack
        BY <1>4
      <3> QED BY <2>1, <2>2, <2>3, <2>4, <3>1, <3>2
    <2>5. CASE doc.kind[Target] # "assembly"
      BY <2>1, <2>5
    <2> QED BY <2>4, <2>5
  <1>9. \A f \in DOMAIN stack :
          /\ stack'[f].node = stack[f].node /\ stack[f].node \in DOMAIN partNodes
          /\ stack[f].next \in Nat
          /\ f # L => stack'[f].next = stack[f].next
          /\ f = L => stack'[f].next = stack[f].next + 1 /\ stack[f] = Top
    <2> TAKE f \in DOMAIN stack
    <2>1. /\ stack'[f].node = stack[f].node /\ stack[f].node \in DOMAIN partNodes
          /\ stack[f].next \in Nat
      BY <1>8, SteppedFrames DEF FrameInv
    <2>2. f # L => stack'[f].next = stack[f].next
      BY <1>3, <1>8 DEF Stepped, ShapeInv
    <2>3. f = L => stack'[f].next = stack[f].next + 1 /\ stack[f] = Top
      BY <1>3, <1>8, SteppedFrames, TopFrame
    <2> QED BY <2>1, <2>2, <2>3
  \* What the call is made on.
  <1>10. ASSUME stack = << >>
         PROVE  /\ nextFree \in 1..Len(doc.free) /\ Target = doc.free[nextFree] /\ nextFree' = nextFree + 1
                /\ Label = FreeLabel(Target) /\ ParentIdx = 0 /\ doc.kind[Target] # "other"
                /\ Target \in Def
    BY <1>10, Call DEF Advance, Label, Target, ParentIdx, Fate
  <1>11. PICK p : p = Top.node
    OBVIOUS
  <1>12. ASSUME stack # << >>
         PROVE  /\ L \in DOMAIN stack /\ stack[L] = Top /\ nextFree' = nextFree /\ ParentIdx = p
                /\ p \in DOMAIN partNodes /\ p # new /\ p # 0
                /\ doc.kind[DefOf(p)] = "assembly" /\ Top.next \in DOMAIN Parts(DefOf(p))
                /\ Target = Parts(DefOf(p))[Top.next] /\ Label = PartLabel(DefOf(p), Top.next)
                /\ node.depth = partNodes[p].depth + 1
    BY <1>3, <1>4, <1>11, <1>12, Call DEF Advance, Label, ParentIdx, Depth, DefOf
  <1>13. Target \in Def
    BY DEF Fate
  <1>14. NodeInv'
    <2> SUFFICES ASSUME NEW n \in DOMAIN partNodes'
                 PROVE  IF doc.kind[DefOf(n)'] = "assembly"
                        THEN /\ partNodes'[n].type = "assembly"
                             /\ partNodes'[n].count = Cardinality(Fillable(DefOf(n)'))
                             /\ partNodes'[n].first = IF Fillable(DefOf(n)') = {} THEN 0 ELSE n + 1
                        ELSE /\ partNodes'[n].type = "leaf" /\ DefOf(n)' \in definitionShapes'
                             /\ partNodes'[n].count = 0 /\ partNodes'[n].first = 0
      BY <1>7, <1>13 DEF NodeInv
    <2>1. CASE n \in DOMAIN partNodes
      BY <1>4, <1>5, <2>1 DEF NodeInv
    <2>2. CASE n = new
      BY <1>1, <1>2, <1>4, <1>6, <2>2
    <2> QED BY <1>4, <2>1, <2>2
  <1>15. OriginInv'
    <2> SUFFICES ASSUME NEW n \in DOMAIN partNodes'
                 PROVE  IF ParentOf(n)' # 0
                        THEN /\ doc.kind[DefOf(ParentOf(n))'] = "assembly"
                             /\ partNodes'[n].depth = partNodes'[ParentOf(n)'].depth + 1
                             /\ \E k \in DOMAIN Parts(DefOf(ParentOf(n))') :
                                  /\ InstOf(n)' = PartLabel(DefOf(ParentOf(n))', k)
                                  /\ DefOf(n)' = Parts(DefOf(ParentOf(n))')[k]
                        ELSE /\ doc.kind[DefOf(n)'] # "other"
                             /\ InstOf(n)' = FreeLabel(DefOf(n)')
                             /\ \E i \in 1..(nextFree' - 1) : DefOf(n)' = doc.free[i]
      BY <1>7 DEF OriginInv
    <2>1. CASE n \in DOMAIN partNodes /\ ParentOf(n) # 0
      <3>1. PICK q : q = ParentOf(n)
        OBVIOUS
      <3>2. q \in DOMAIN partNodes
        BY <2>1, <3>1 DEF ParentInv
      <3>3. ParentOf(n)' = q /\ DefOf(ParentOf(n))' = DefOf(q)
        BY <1>4, <1>5, <2>1, <3>1, <3>2 DEF DefOf
      <3> QED BY <1>4, <1>5, <2>1, <3>1, <3>2, <3>3 DEF OriginInv
    <2>2. CASE n \in DOMAIN partNodes /\ ParentOf(n) = 0
      <3>1. nextFree' = nextFree \/ nextFree' = nextFree + 1
        BY DEF Advance
      <3>2. nextFree \in Nat
        BY DEF ShapeInv
      <3>3. \A i \in 1..(nextFree - 1) : i \in 1..(nextFree' - 1)
        BY <3>1, <3>2
      <3> QED BY <1>5, <2>2, <3>3 DEF OriginInv
    <2>3. CASE n = new /\ stack = << >>
      <3>1. ParentOf(n)' = 0 /\ DefOf(n)' = Target /\ InstOf(n)' = FreeLabel(Target)
        BY <1>6, <1>10, <2>3
      <3>2. nextFree \in 1..(nextFree' - 1)
        BY <1>10, <2>3
      <3> QED BY <1>10, <2>3, <3>1, <3>2
    <2>4. CASE n = new /\ stack # << >>
      <3>1. ParentOf(n)' = p /\ DefOf(n)' = Target /\ InstOf(n)' = Label
        BY <1>6, <1>12, <2>4
      <3>2. DefOf(ParentOf(n))' = DefOf(p) /\ partNodes'[p] = partNodes[p]
        BY <1>4, <1>12, <2>4, <3>1 DEF DefOf
      <3> QED BY <1>4, <1>12, <2>4, <3>1, <3>2
    <2> QED BY <1>4, <2>1, <2>2, <2>3, <2>4
  <1>16. ASSUME NEW n \in DOMAIN partNodes, ParentOf(n) = 0, ParentIdx = 0
         PROVE  InstOf(n) # Label
    <2>1. stack = << >>
      BY <1>12, <1>16
    <2>2. PICK i \in 1..(nextFree - 1) : DefOf(n) = doc.free[i]
      BY <1>16 DEF OriginInv
    <2>3. InstOf(n) = FreeLabel(DefOf(n))
      BY <1>16 DEF OriginInv
    <2>4. PICK K \in Nat : K = Len(doc.free) /\ DOMAIN doc.free = 1..K
      BY <1>4, PartsOf
    <2>5. i # nextFree /\ i \in DOMAIN doc.free /\ nextFree \in DOMAIN doc.free
      BY <1>10, <2>1, <2>4
    <2>6. DefOf(n) # Target
      BY <1>4, <1>10, <2>1, <2>2, <2>5, TreeAssumption DEF IsInjective
    <2> QED BY <1>10, <2>1, <2>3, <2>6 DEF FreeLabel
  <1>17. RootsInv'
    <2> SUFFICES ASSUME NEW m \in DOMAIN partNodes', NEW n \in DOMAIN partNodes', m # n,
                        ParentOf(m)' = 0, ParentOf(n)' = 0
                 PROVE  InstOf(m)' # InstOf(n)'
      BY DEF RootsInv
    <2>1. CASE m \in DOMAIN partNodes /\ n \in DOMAIN partNodes
      BY <1>5, <2>1 DEF RootsInv
    <2>2. CASE m = new /\ n \in DOMAIN partNodes
      BY <1>5, <1>6, <1>16, <2>2
    <2>3. CASE m \in DOMAIN partNodes /\ n = new
      BY <1>5, <1>6, <1>16, <2>3
    <2> QED BY <1>4, <2>1, <2>2, <2>3
  <1>18. PassedInv'
    <2>1. ASSUME NEW i \in 1..(nextFree' - 1), doc.kind[doc.free[i]] # "other"
          PROVE  \E n \in DOMAIN partNodes' :
                   ParentOf(n)' = 0 /\ InstOf(n)' = FreeLabel(doc.free[i])
      <3>1. CASE i \in 1..(nextFree - 1)
        <4>1. PICK n \in DOMAIN partNodes : ParentOf(n) = 0 /\ InstOf(n) = FreeLabel(doc.free[i])
          BY <2>1, <3>1 DEF PassedInv
        <4> QED BY <1>4, <1>5, <4>1
      <3>2. CASE i \notin 1..(nextFree - 1)
        <4>1. nextFree \in Nat
          BY DEF ShapeInv
        <4>2. stack = << >> /\ i = nextFree
          BY <1>10, <1>12, <2>1, <3>2, <4>1
        <4> QED BY <1>4, <1>6, <1>10, <4>2
      <3> QED BY <3>1, <3>2
    <2>2. ASSUME NEW n \in DOMAIN partNodes', doc.kind[DefOf(n)'] = "assembly",
                 NEW k \in Fillable(DefOf(n)'),
                 \A f \in DOMAIN stack' : stack'[f].node = n => k < stack'[f].next
          PROVE  \E m \in DOMAIN partNodes' : ParentOf(m)' = n /\ InstOf(m)' = PartLabel(DefOf(n)', k)
      <3>1. PICK d : d = DefOf(n)'
        OBVIOUS
      <3>2. d \in Def
        <4>1. n \in DOMAIN partNodes => partNodes[n] \in NodeRecord
          BY ElementOf DEF ShapeInv
        <4>2. n \in DOMAIN partNodes => d \in Def
          BY <1>5, <3>1, <4>1 DEF NodeRecord, DefOf
        <4> QED BY <1>4, <1>6, <1>13, <3>1, <4>2
      <3>3. k \in Nat /\ k >= 1
        BY <1>4, <2>2, <3>1, <3>2, PartsOf DEF Fillable
      <3>4. n \in DOMAIN partNodes
        <4> SUFFICES ASSUME n = new PROVE FALSE
          BY <1>4
        <4>1. doc.kind[Target] = "assembly"
          BY <1>6, <2>2
        <4>2. stack'[L + 1].node = new /\ stack'[L + 1].next = 1 /\ L + 1 \in DOMAIN stack'
          BY <1>8, <4>1
        <4>3. k < 1
          BY <2>2, <4>2
        <4> QED BY <3>3, <4>3
      <3>5. DefOf(n) = d /\ doc.kind[d] = "assembly" /\ k \in Fillable(d)
        BY <1>5, <2>2, <3>1, <3>4
      <3>6. CASE \A f \in DOMAIN stack : stack[f].node = n => k < stack[f].next
        <4>1. PICK m \in DOMAIN partNodes : ParentOf(m) = n /\ InstOf(m) = PartLabel(d, k)
          BY <3>4, <3>5, <3>6 DEF PassedInv
        <4> QED BY <1>4, <1>5, <3>1, <4>1
      <3>7. ASSUME NEW f \in DOMAIN stack, stack[f].node = n, ~(k < stack[f].next)
            PROVE  ParentOf(new)' = n /\ InstOf(new)' = PartLabel(d, k)
        <4>1. f \in DOMAIN stack' /\ k < stack'[f].next
          BY <1>8, <1>9, <2>2, <3>7
        <4>2. f = L
          BY <1>9, <3>7, <4>1
        <4>3. k = Top.next /\ p = n
          BY <1>9, <1>11, <3>3, <3>7, <4>1, <4>2
        <4> QED BY <1>6, <1>12, <3>5, <3>7, <4>3
      <3> QED BY <1>4, <3>1, <3>6, <3>7
    <2> QED BY <1>7, <2>1, <2>2 DEF PassedInv
  <1>19. FirstInv'
    <2>1. ASSUME NEW f \in DOMAIN stack', NEW q, q = stack'[f].node
          PROVE  q = new \/ ParentOf(q + 1)' = q
      <3>1. CASE f \notin DOMAIN stack
        BY <1>8, <2>1, <3>1
      <3>2. CASE f \in DOMAIN stack
        <4>1. stack[f].node = q /\ q \in 1..N
          BY <1>4, <1>9, <2>1, <3>2
        <4>2. CASE q = N
          <5>1. stack # << >> /\ L \in DOMAIN stack /\ f <= L
            BY <1>3, <1>4, <3>2 DEF ShapeInv
          <5>2. f < L => q < stack[L].node
            BY <3>2, <4>1, <5>1 DEF FrameInv
          <5>3. stack[L].node = p /\ p \in 1..N
            BY <1>4, <1>11, <1>12, <5>1
          <5>4. p = q
            BY <1>4, <3>2, <4>1, <4>2, <5>1, <5>2, <5>3
          <5>5. q + 1 = new
            BY <1>2, <4>2
          <5> QED BY <1>6, <1>12, <5>1, <5>4, <5>5
        <4>3. CASE q # N
          <5>1. q + 1 \in DOMAIN partNodes
            BY <1>4, <4>1, <4>3
          <5>2. ParentOf(q + 1) = q
            BY <1>1, <3>2, <4>1, <4>3 DEF FirstInv
          <5> QED BY <1>5, <5>1, <5>2
        <4> QED BY <4>2, <4>3
      <3> QED BY <3>1, <3>2
    <2>2. ASSUME NEW n \in DOMAIN partNodes', NEW q, q = ParentOf(n)', q # 0
          PROVE  ParentOf(q + 1)' = q
      <3>1. CASE n \in DOMAIN partNodes
        <4>1. ParentOf(n) = q /\ q \in 1..N /\ n \in 1..N /\ q < n
          BY <1>4, <1>5, <2>2, <3>1 DEF ParentInv
        <4>2. q + 1 \in DOMAIN partNodes
          BY <1>4, <4>1
        <4>3. ParentOf(q + 1) = q
          BY <2>2, <3>1, <4>1 DEF FirstInv
        <4> QED BY <1>5, <4>2, <4>3
      <3>2. CASE n = new
        <4>1. stack # << >>
          BY <1>6, <1>10, <2>2, <3>2
        <4>2. q = p /\ L \in DOMAIN stack'
          BY <1>6, <1>8, <1>12, <2>2, <3>2, <4>1
        <4>3. stack'[L].node = q /\ q # new
          BY <1>9, <1>11, <1>12, <4>1, <4>2
        <4> QED BY <2>1, <4>2, <4>3
      <3> QED BY <1>4, <3>1, <3>2
    <2> QED BY <1>4, <2>1, <2>2 DEF FirstInv
  <1> QED BY <1>14, <1>15, <1>17, <1>18, <1>19

\* A label that gets no node has none to get.
LEMMA PassOverLinks == IInv /\ LoopInv /\ LinksInv /\ PassOver => LinksInv'
  <1> SUFFICES ASSUME IInv, LoopInv, LinksInv, PassOver PROVE LinksInv'
    OBVIOUS
  <1> USE DEF IInv, TreeInv, LinksInv
  <1>1. /\ Filling /\ Fate = "none" /\ stack' = Stepped /\ Advance
        /\ UNCHANGED <<doc, partNodes, definitionShapes>>
    BY DEF PassOver
  <1>2. PICK L \in Nat : L = Len(stack)
    BY DEF ShapeInv
  <1>3. /\ \A n : DefOf(n)' = DefOf(n) /\ ParentOf(n)' = ParentOf(n) /\ InstOf(n)' = InstOf(n)
        /\ \A d : Parts(d)' = Parts(d) /\ Fillable(d)' = Fillable(d)
        /\ doc \in Documents /\ nextFree \in Nat
    BY <1>1, DocKept DEF DefOf, ParentOf, InstOf, ShapeInv
  <1>4. /\ DOMAIN stack' = DOMAIN stack
        /\ \A f \in DOMAIN stack :
             /\ stack'[f].node = stack[f].node /\ stack[f].next \in Nat
             /\ f # L => stack'[f].next = stack[f].next
             /\ f = L => stack'[f].next = stack[f].next + 1 /\ stack[f] = Top /\ stack # << >>
    <2>1. /\ DOMAIN stack' = DOMAIN stack
          /\ \A f \in DOMAIN stack : stack'[f].node = stack[f].node /\ stack[f].next \in Nat
      BY <1>1, SteppedFrames
    <2>2. ASSUME NEW f \in DOMAIN stack, f # L PROVE stack'[f].next = stack[f].next
      BY <1>1, <1>2, <2>2 DEF Stepped, ShapeInv
    <2>3. ASSUME NEW f \in DOMAIN stack, f = L
          PROVE  stack'[f].next = stack[f].next + 1 /\ stack[f] = Top /\ stack # << >>
      <3>1. stack # << >>
        OBVIOUS
      <3> QED BY <1>1, <1>2, <2>3, <3>1, SteppedFrames, TopFrame
    <2> QED BY <2>1, <2>2, <2>3
  <1>5. NodeInv'
    BY <1>1, <1>3 DEF NodeInv
  <1>6. RootsInv'
    BY <1>1, <1>3 DEF RootsInv
  <1>7. FirstInv'
    BY <1>1, <1>3, <1>4 DEF FirstInv
  <1>8. OriginInv'
    <2>1. nextFree' = nextFree \/ nextFree' = nextFree + 1
      BY <1>1 DEF Advance
    <2>2. \A i \in 1..(nextFree - 1) : i \in 1..(nextFree' - 1)
      BY <1>3, <2>1
    <2>3. \A n : DefOf(ParentOf(n))' = DefOf(ParentOf(n))
      BY <1>1 DEF DefOf, ParentOf
    <2> QED BY <1>1, <1>3, <2>2, <2>3 DEF OriginInv
  <1>9. PassedInv'
    <2>1. ASSUME NEW i \in 1..(nextFree' - 1), doc.kind[doc.free[i]] # "other"
          PROVE  \E n \in DOMAIN partNodes : ParentOf(n) = 0 /\ InstOf(n) = FreeLabel(doc.free[i])
      <3>1. CASE i \in 1..(nextFree - 1)
        BY <2>1, <3>1 DEF PassedInv
      <3>2. CASE i \notin 1..(nextFree - 1)
        <4>1. stack = << >> /\ i = nextFree
          BY <1>1, <1>3, <2>1, <3>2 DEF Advance
        <4>2. Target = doc.free[i] /\ Target \in Def
          BY <1>1, <4>1, Call
        <4> QED BY <1>1, <2>1, <4>1, <4>2 DEF Fate
      <3> QED BY <3>1, <3>2
    <2>2. ASSUME NEW n \in DOMAIN partNodes, doc.kind[DefOf(n)] = "assembly", NEW k \in Fillable(DefOf(n)),
                 \A f \in DOMAIN stack : stack'[f].node = n => k < stack'[f].next
          PROVE  \E m \in DOMAIN partNodes : ParentOf(m) = n /\ InstOf(m) = PartLabel(DefOf(n), k)
      <3>1. ASSUME NEW f \in DOMAIN stack, stack[f].node = n PROVE k < stack[f].next
        <4> SUFFICES ASSUME ~(k < stack[f].next) PROVE FALSE
          OBVIOUS
        <4>1. DefOf(n) \in Def
          <5>1. partNodes[n] \in NodeRecord
            BY ElementOf DEF ShapeInv
          <5> QED BY <5>1 DEF NodeRecord, DefOf
        <4>2. k \in Nat /\ k < stack'[f].next
          <5>1. Parts(DefOf(n)) \in Seq(Def \cup {NotShape, Dangling})
            BY <1>3, <4>1, PartsOf
          <5>2. k \in Nat
            BY <5>1 DEF Fillable
          <5>3. stack'[f].node = n
            BY <1>4, <3>1
          <5> QED BY <2>2, <5>2, <5>3
        <4>3. f = L
          BY <1>4, <4>2
        <4>4. k = Top.next /\ Top.node = n /\ stack # << >>
          BY <1>4, <3>1, <4>2, <4>3
        <4>5. Target = Parts(DefOf(n))[k] /\ Target \in Def
          BY <1>1, <4>4, Call DEF Fillable
        <4> QED BY <1>1, <4>4, <4>5 DEF Fate
      <3> QED BY <2>2, <3>1 DEF PassedInv
    <2> QED BY <1>1, <1>3, <1>4, <2>1, <2>2 DEF PassedInv
  <1> QED BY <1>5, <1>6, <1>7, <1>8, <1>9

\* A closed frame has passed all its components.
LEMMA CloseLinks == IInv /\ LoopInv /\ LinksInv /\ CloseAssembly => LinksInv'
  <1> SUFFICES ASSUME IInv, LoopInv, LinksInv, CloseAssembly PROVE LinksInv'
    OBVIOUS
  <1> USE DEF IInv, TreeInv, LinksInv
  <1>1. /\ stack # << >> /\ stack' = Front(stack) /\ ~Filling /\ phase = "fill"
        /\ UNCHANGED <<doc, partNodes, definitionShapes, nextFree>>
    BY DEF CloseAssembly
  <1>2. PICK L \in Nat : L = Len(stack)
    BY DEF ShapeInv
  <1>3. /\ \A n : DefOf(n)' = DefOf(n) /\ ParentOf(n)' = ParentOf(n) /\ InstOf(n)' = InstOf(n)
        /\ \A d : Parts(d)' = Parts(d) /\ Fillable(d)' = Fillable(d)
        /\ doc \in Documents
    BY <1>1, DocKept DEF DefOf, ParentOf, InstOf, ShapeInv
  <1>4. /\ \A f \in DOMAIN stack' : f \in DOMAIN stack /\ stack'[f] = stack[f]
        /\ \A f \in DOMAIN stack : f = L \/ f \in DOMAIN stack'
    <2>1. /\ stack' \in Seq(Frames) /\ Len(stack') = L - 1
          /\ \A f \in DOMAIN stack' : stack'[f] = stack[f] /\ f \in DOMAIN stack
      BY <1>1, <1>2, FrontOf DEF ShapeInv
    <2>2. DOMAIN stack = 1..L /\ DOMAIN stack' = 1..Len(stack')
      BY <1>2, <2>1 DEF ShapeInv
    <2> QED BY <2>1, <2>2
  <1>5. NodeInv' /\ RootsInv'
    BY <1>1, <1>3 DEF NodeInv, RootsInv
  <1>6. FirstInv'
    BY <1>1, <1>3, <1>4 DEF FirstInv
  <1>7. OriginInv'
    <2>1. \A n : DefOf(ParentOf(n))' = DefOf(ParentOf(n))
      BY <1>1 DEF DefOf, ParentOf
    <2> QED BY <1>1, <1>3, <2>1 DEF OriginInv
  <1>8. PassedInv'
    <2>1. ASSUME NEW n \in DOMAIN partNodes, doc.kind[DefOf(n)] = "assembly", NEW k \in Fillable(DefOf(n)),
                 \A f \in DOMAIN stack' : stack'[f].node = n => k < stack'[f].next,
                 NEW f \in DOMAIN stack, stack[f].node = n
          PROVE  k < stack[f].next
      <3>1. CASE f \in DOMAIN stack'
        BY <1>4, <2>1, <3>1
      <3>2. CASE f = L
        <4>1. Top = stack[f] /\ Top.node = n
          BY <1>1, <1>2, <2>1, <3>2, TopFrame
        <4>2. PICK d : d = DefOf(n)
          OBVIOUS
        <4>3. d \in Def
          BY <1>1, <4>1, <4>2, TopFrame
        <4>4. PICK K \in Nat : K = Len(Parts(d)) /\ DOMAIN Parts(d) = 1..K
          BY <1>3, <4>3, PartsOf
        <4>5. k \in 1..K
          BY <2>1, <4>2, <4>4 DEF Fillable
        <4>6. ~(Top.next <= K)
          BY <1>1, <4>1, <4>2, <4>4 DEF Filling, DefOf
        <4>7. stack[f].next \in Nat
          BY FrameTypes
        <4> QED BY <4>1, <4>5, <4>6, <4>7
      <3> QED BY <1>4, <3>1, <3>2
    <2> QED BY <1>1, <1>3, <2>1 DEF PassedInv
  <1> QED BY <1>5, <1>6, <1>7, <1>8

\* Nothing else touches the tree.
LEMMA RestLinks ==
  ASSUME LinksInv, UNCHANGED <<doc, partNodes, definitionShapes, stack, nextFree>>
  PROVE  LinksInv'
  <1> USE DEF LinksInv
  <1>1. /\ \A n : DefOf(n)' = DefOf(n) /\ ParentOf(n)' = ParentOf(n) /\ InstOf(n)' = InstOf(n)
        /\ \A d : Parts(d)' = Parts(d) /\ Fillable(d)' = Fillable(d)
    BY DocKept DEF DefOf, ParentOf, InstOf
  <1>2. \A n : DefOf(ParentOf(n))' = DefOf(ParentOf(n)) /\ ParentOf(ParentOf(n) + 1)' = ParentOf(ParentOf(n) + 1)
    BY DEF DefOf, ParentOf
  <1>3. NodeInv' /\ RootsInv' /\ OriginInv'
    BY <1>1, <1>2 DEF NodeInv, RootsInv, OriginInv
  <1>4. PassedInv'
    BY <1>1 DEF PassedInv
  <1>5. FirstInv'
    BY <1>1, <1>2 DEF FirstInv
  <1> QED BY <1>3, <1>4, <1>5

LEMMA LinksInit == Init => LinksInv
  BY DEF Init, LinksInv, NodeInv, RootsInv, OriginInv, PassedInv, FirstInv

LEMMA LinksStep == IInv /\ LoopInv /\ LinksInv /\ [Next]_vars => LinksInv'
  <1> SUFFICES ASSUME IInv, LoopInv, LinksInv, [Next]_vars PROVE LinksInv'
    OBVIOUS
  <1>1. doc \in Documents /\ Len(partNodes) \in Nat
    BY DEF IInv, TreeInv, ShapeInv
  <1>2. CASE CountNodes \/ TreeBuilt \/ RootPath \/ NodePath \/ StrayRead \/ PathsDone \/ UNCHANGED vars
    <2>1. UNCHANGED <<doc, partNodes, definitionShapes, stack, nextFree>>
      BY <1>2 DEF CountNodes, TreeBuilt, RootPath, NodePath, StrayRead, PathsDone, vars
    <2> QED BY <2>1, RestLinks
  <1>3. CASE FillLeaf
    <2>1. PICK node : node = Node("leaf", 0, 0)
      OBVIOUS
    <2>2. /\ Filling /\ UNCHANGED doc /\ Advance /\ stack' = Stepped /\ Fate = "leaf"
          /\ partNodes' = Append(partNodes, node) /\ definitionShapes' = definitionShapes \cup {Target}
      BY <1>3, <2>1 DEF FillLeaf
    <2>3. node \in NodeRecord
      BY <2>1, <2>2, NodeIsNode
    <2>4. /\ node.def = Target /\ node.inst = Label /\ node.parent = ParentIdx /\ node.depth = Depth
          /\ node.type = "leaf" /\ node.count = 0 /\ node.first = 0
      BY <2>1 DEF Node
    <2>5. doc.kind[Target] # "assembly"
      BY <2>2 DEF Fate
    <2> QED BY <2>2, <2>3, <2>4, <2>5, LinksAdded
  <1>4. CASE FillAssembly
    <2> DEFINE valid == {k \in DOMAIN Parts(Target) : PartNodes(Parts(Target)[k]) > 0}
               count == Cardinality(Fillable(Target))
               first == IF Fillable(Target) = {} THEN 0 ELSE Len(partNodes) + 1 + 1
    <2>1. PICK node : node = Node("assembly", first, count)
      OBVIOUS
    <2>2. Filling /\ UNCHANGED <<doc, definitionShapes>> /\ Advance /\ Fate = "assembly"
      BY <1>4 DEF FillAssembly
    <2>3. Target \in Def /\ doc.kind[Target] = "assembly"
      BY <2>2 DEF Fate
    <2>4. valid = Fillable(Target)
      <3>1. \A d \in Def : DefNodes[d] \in Nat /\ DefNodes[d] > 0
        BY <1>1, CountsOf
      <3>2. \A r : PartNodes(r) > 0 <=> r \in Def
        BY <3>1 DEF PartNodes
      <3> QED BY <3>2 DEF Fillable
    <2>5. /\ stack' = Append(Stepped, [node |-> Len(partNodes) + 1, next |-> 1])
          /\ partNodes' = Append(partNodes, node)
      BY <1>4, <2>1, <2>4 DEF FillAssembly
    <2>6. node \in NodeRecord
      <3>1. DOMAIN Parts(Target) = 1..Len(Parts(Target)) /\ Len(Parts(Target)) \in Nat
        BY <1>1, <2>3, PartsOf
      <3>2. IsFiniteSet(DOMAIN Parts(Target))
        BY <3>1, FS_Interval
      <3>3. IsFiniteSet(Fillable(Target))
        BY <3>2, FS_Subset DEF Fillable
      <3>4. count \in Nat
        BY <3>3, FS_CardinalityType
      <3>5. first \in Nat
        BY <1>1
      <3> HIDE DEF first, count
      <3> QED BY <2>1, <2>2, <3>4, <3>5, NodeIsNode
    <2>7. /\ node.def = Target /\ node.inst = Label /\ node.parent = ParentIdx /\ node.depth = Depth
          /\ node.type = "assembly" /\ node.count = count /\ node.first = first
      BY <2>1 DEF Node
    <2> QED BY <2>2, <2>3, <2>5, <2>6, <2>7, LinksAdded
  <1> QED BY <1>2, <1>3, <1>4, PassOverLinks, CloseLinks DEF Next

\* What the links say always holds.
THEOREM LinksInvariance == Spec => []LinksInv
  <1>1. Init => LinksInv
    BY LinksInit
  <1>2. IInv /\ LoopInv /\ LinksInv /\ [Next]_vars => LinksInv'
    BY LinksStep
  <1>3. Spec => []LoopInv
    BY CountInvariance, PTL
  <1> QED BY <1>1, <1>2, <1>3, Invariance, PTL DEF Spec

\* Between sets that a function matches one to one, the numbers agree.
LEMMA Matched ==
  ASSUME NEW S, NEW T, IsFiniteSet(S), NEW g \in [S -> T],
         \A s, r \in S : g[s] = g[r] => s = r,
         \A t \in T : \E s \in S : g[s] = t
  PROVE  IsFiniteSet(T) /\ Cardinality(T) = Cardinality(S)
  <1>1. g \in Bijection(S, T)
    BY DEF Bijection, Injection, Surjection, IsInjective
  <1> QED BY <1>1, FS_Bijection DEF ExistsBijection

\* Whatever the definitions share and whichever components get no node: firstChildIdx,
\* childCount, parentIdx and depth of every node say what the tree is, and the
\* definition of a leaf is among the prototypes.
THEOREM LinksRight == Spec => []LinksMatch
  <1>1. IInv /\ LoopInv /\ LinksInv => LinksMatch
    <2> SUFFICES ASSUME IInv, LoopInv, LinksInv, phase \in {"paths", "done"},
                        NEW n \in DOMAIN partNodes
                 PROVE  LET children == {m \in DOMAIN partNodes : ParentOf(m) = n}
                        IN /\ ParentOf(n) # 0 =>
                                /\ ParentOf(n) < n
                                /\ partNodes[ParentOf(n)].type = "assembly"
                                /\ partNodes[n].depth = partNodes[ParentOf(n)].depth + 1
                           /\ partNodes[n].count = Cardinality(children)
                           /\ partNodes[n].first = IF children = {} THEN 0 ELSE Min(children)
                           /\ partNodes[n].type = "leaf" => children = {} /\ DefOf(n) \in definitionShapes
      BY DEF LinksMatch, ParentOf, DefOf
    <2> USE DEF IInv, TreeInv, LinksInv
    <2> DEFINE children == {m \in DOMAIN partNodes : ParentOf(m) = n}
    <2>1. stack = << >> /\ doc \in Documents /\ DOMAIN stack = {}
      BY DEF LoopInv, ShapeInv
    <2>2. PICK N \in Nat : DOMAIN partNodes = 1..N
      BY DEF ShapeInv
    <2>3. PICK d : d = DefOf(n)
      OBVIOUS
    <2>4. d \in Def
      <3>1. partNodes[n] \in NodeRecord
        BY ElementOf DEF ShapeInv
      <3> QED BY <2>3, <3>1 DEF NodeRecord, DefOf
    <2>5. ASSUME ParentOf(n) # 0
          PROVE  /\ ParentOf(n) < n /\ partNodes[ParentOf(n)].type = "assembly"
                 /\ partNodes[n].depth = partNodes[ParentOf(n)].depth + 1
      BY <2>5 DEF ParentInv, OriginInv, NodeInv
    <2>6. \A m \in children : /\ doc.kind[d] = "assembly"
                              /\ \E k \in Fillable(d) : InstOf(m) = PartLabel(d, k)
      <3> TAKE m \in children
      <3>1. m \in DOMAIN partNodes /\ ParentOf(m) = n /\ n # 0
        BY <2>2
      <3>2. DefOf(m) \in Def
        <4>1. partNodes[m] \in NodeRecord
          BY <3>1, ElementOf DEF ShapeInv
        <4> QED BY <4>1 DEF NodeRecord, DefOf
      <3> QED BY <2>3, <3>1, <3>2 DEF OriginInv, Fillable
    <2>7. CASE doc.kind[d] # "assembly"
      <3>1. children = {}
        BY <2>6, <2>7
      <3>2. Cardinality({}) = 0
        BY FS_EmptySet
      <3> QED BY <2>3, <2>5, <2>7, <3>1, <3>2 DEF NodeInv
    <2>8. CASE doc.kind[d] = "assembly"
      <3>1. \A k \in Fillable(d) : \E m \in children : InstOf(m) = PartLabel(d, k)
        BY <2>1, <2>3, <2>8 DEF PassedInv
      <3>2. \A l, m \in children : InstOf(l) = InstOf(m) => l = m
        BY <2>2 DEF SiblingInv
      <3> DEFINE g == [k \in Fillable(d) |-> CHOOSE m \in children : InstOf(m) = PartLabel(d, k)]
      <3>3. \A k \in Fillable(d) : g[k] \in children /\ InstOf(g[k]) = PartLabel(d, k)
        BY <3>1
      <3>4. IsFiniteSet(Fillable(d))
        <4>1. DOMAIN Parts(d) = 1..Len(Parts(d)) /\ Len(Parts(d)) \in Nat
          BY <2>1, <2>4, PartsOf
        <4>2. IsFiniteSet(DOMAIN Parts(d))
          BY <4>1, FS_Interval
        <4> QED BY <4>2, FS_Subset DEF Fillable
      <3>5. Cardinality(children) = Cardinality(Fillable(d))
        <4>1. g \in [Fillable(d) -> children]
          BY <3>3
        <4> HIDE DEF g, children
        <4>2. \A k, l \in Fillable(d) : g[k] = g[l] => k = l
          BY <3>3 DEF PartLabel
        <4>3. \A m \in children : \E k \in Fillable(d) : g[k] = m
          BY <2>6, <3>2, <3>3
        <4> QED BY <3>4, <4>1, <4>2, <4>3, Matched
      <3>6. partNodes[n].first = IF children = {} THEN 0 ELSE Min(children)
        <4>1. Fillable(d) = {} <=> children = {}
          BY <2>6, <3>1
        <4>2. ASSUME children # {} PROVE Min(children) = n + 1
          <5>1. PICK m \in children : TRUE
            BY <4>2
          <5>2. n \in 1..N /\ m \in 1..N /\ n < m /\ n # 0
            BY <2>2 DEF ParentInv
          <5>3. ParentOf(n + 1) = n
            BY <5>2 DEF FirstInv
          <5>4. n + 1 \in children
            BY <2>2, <5>2, <5>3
          <5>5. \A c \in children : c \in Nat /\ n + 1 <= c
            <6> TAKE c \in children
            <6>1. c \in 1..N /\ n < c
              BY <2>2, <5>2 DEF ParentInv
            <6> QED BY <5>2, <6>1
          <5> HIDE DEF children
          <5>6. \A x \in children : (\A y \in children : x <= y) => x = n + 1
            <6> TAKE x \in children
            <6> HAVE \A y \in children : x <= y
            <6>1. x <= n + 1 /\ n + 1 <= x /\ x \in Nat /\ n \in Nat
              BY <5>2, <5>4, <5>5
            <6> QED BY <6>1
          <5> QED BY <5>4, <5>5, <5>6 DEF Min
        <4> HIDE DEF children
        <4> QED BY <2>3, <2>8, <4>1, <4>2 DEF NodeInv
      <3> QED BY <2>3, <2>5, <2>8, <3>5, <3>6 DEF NodeInv
    <2> QED BY <2>7, <2>8
  <1>2. Spec => []LoopInv
    BY CountInvariance, PTL
  <1> QED BY <1>1, <1>2, Invariance, LinksInvariance, PTL

\* The cursor, the counts, the frames and the paths stay what they are taken to be: a
\* frame is of a node that is there, and the outer loop ends at the last free shape.
\* The types hold for any document: a frame is of a node that is there, and the outer
\* loop ends behind the last free shape.
THEOREM TypeCorrect == Spec => []TypeOK
  <1> DEFINE Phases == {"count", "fill", "paths", "done", "crashed"}
             PhaseOK == phase \in Phases
  <1>1. Init => PhaseOK
    BY DEF Init
  <1>2. PhaseOK /\ [Next]_vars => PhaseOK'
    BY DEF Next, vars, CountNodes, PassOver, FillLeaf, FillAssembly, CloseAssembly, TreeBuilt,
           RootPath, NodePath, StrayRead, PathsDone
  <1>3. IInv /\ LoopInv /\ LinksInv /\ PhaseOK => TypeOK
    <2> SUFFICES ASSUME IInv, LoopInv, LinksInv, PhaseOK PROVE TypeOK
      OBVIOUS
    <2> USE DEF IInv, TreeInv
    <2>1. /\ doc \in Documents /\ partNodes \in Seq(NodeRecord) /\ DOMAIN partNodes = 1..Len(partNodes)
          /\ Len(partNodes) \in Nat
      BY DEF ShapeInv
    <2>2. doc.free \in Seq(Def)
      BY <2>1, PartsOf
    <2>3. numNodes \in Nat
      <3>1. Total(FreeCounts) \in Nat
        BY <2>1, CountSeqs, SumsOf
      <3> QED BY <3>1 DEF LoopInv
    <2>4. stack \in Seq([node : 1..Len(partNodes), next : Nat \ {0}])
      <3> DEFINE Kind == [node : 1..Len(partNodes), next : Nat \ {0}]
      <3>1. PICK L \in Nat : L = Len(stack) /\ DOMAIN stack = 1..L
        BY DEF ShapeInv
      <3>2. ASSUME NEW f \in 1..L PROVE stack[f] \in Kind
        <4>1. stack[f] \in Frames /\ stack[f].node \in 1..Len(partNodes) /\ stack[f].next > 0
              /\ stack[f].next \in Nat
          BY <2>1, <3>1, FrameTypes DEF FrameInv
        <4> QED BY <4>1 DEF Frames
      <3>3. stack = [f \in 1..L |-> stack[f]]
        BY <3>1 DEF ShapeInv
      <3> HIDE DEF Kind
      <3>4. stack \in Seq(Kind)
        BY <3>2, <3>3, GivenSeq
      <3> QED BY <3>4 DEF Kind
    <2>5. \A n \in DOMAIN nodePaths : nodePaths[n] \in Seq(PathNames)
      BY ElementOf DEF PathInv, Paths
    <2> QED BY <2>1, <2>2, <2>3, <2>4, <2>5 DEF TypeOK, LoopInv, LinksInv, NodeInv
  <1>4. Spec => []PhaseOK
    BY <1>1, <1>2, PTL DEF Spec
  <1>5. Spec => []LoopInv
    BY CountInvariance, PTL
  <1> HIDE DEF PhaseOK
  <1> QED BY <1>3, <1>4, <1>5, Invariance, LinksInvariance, PTL
---------------------------------------------------------------------------
ChainSeqs == Seq(DOMAIN Suffix)

\* The node above a node, if there is one.
AboveNode == [n \in DOMAIN partNodes |-> {ParentOf(n)} \ {0}]

LEMMA NodesGrounded ==
  ASSUME ParentInv, partNodes \in Seq(NodeRecord)
  PROVE  /\ AboveNode \in [DOMAIN partNodes -> SUBSET DOMAIN partNodes]
         /\ Grounded(DOMAIN partNodes, AboveNode)
  <1>1. DOMAIN partNodes \subseteq Nat
    OBVIOUS
  <1>2. \A n \in DOMAIN partNodes : AboveNode[n] = {ParentOf(n)} \ {0}
    BY DEF AboveNode
  <1>3. \A n \in DOMAIN partNodes : AboveNode[n] \subseteq DOMAIN partNodes
    BY <1>2 DEF ParentInv
  <1>4. AboveNode \in [DOMAIN partNodes -> SUBSET DOMAIN partNodes]
    BY <1>2, <1>3 DEF AboveNode
  <1>5. ASSUME NEW E \in SUBSET DOMAIN partNodes, E # {} PROVE \E n \in E : AboveNode[n] \cap E = {}
    <2>1. PICK n \in E : \A m \in E : n <= m
      BY <1>1, <1>5, LeastNat
    <2>2. ASSUME NEW p \in AboveNode[n], p \in E PROVE FALSE
      <3>1. p = ParentOf(n) /\ p # 0 /\ n \in DOMAIN partNodes
        BY <1>2, <2>2
      <3>2. p < n /\ p \in Nat /\ n \in Nat
        BY <1>1, <2>2, <3>1 DEF ParentInv
      <3>3. n <= p
        BY <2>1, <2>2
      <3> QED BY <3>2, <3>3
    <2> QED BY <2>2
  <1> QED BY <1>4, <1>5 DEF Grounded

\* What Chain computes.
LEMMA ChainOf ==
  ASSUME IInv
  PROVE  /\ Chain \in [DOMAIN partNodes -> ChainSeqs \ {<< >>}]
         /\ \A n \in DOMAIN partNodes :
              /\ InstOf(n) \in DOMAIN Suffix
              /\ Chain[n] = IF ParentOf(n) = 0 THEN <<InstOf(n)>>
                            ELSE Append(Chain[ParentOf(n)], InstOf(n))
  <1> DEFINE D == DOMAIN partNodes
             V == ChainSeqs \ {<< >>}
             G == [n \in D |-> [f \in [D -> V] |->
                     IF ParentOf(n) = 0 THEN <<InstOf(n)>> ELSE Append(f[ParentOf(n)], InstOf(n))]]
             chain[n \in D] ==
               IF partNodes[n].parent = 0 THEN <<partNodes[n].inst>>
               ELSE Append(chain[partNodes[n].parent], partNodes[n].inst)
  <1> HIDE DEF chain
  <1>1. AboveNode \in [D -> SUBSET D] /\ Grounded(D, AboveNode)
    BY NodesGrounded DEF IInv, TreeInv, ShapeInv
  <1>2. \A n \in D : InstOf(n) \in DOMAIN Suffix
    <2> TAKE n \in D
    <2>1. partNodes[n] \in NodeRecord
      BY ElementOf DEF IInv, TreeInv, ShapeInv
    <2> QED BY <2>1 DEF NodeRecord, InstOf
  <1>3. \A n \in D : ParentOf(n) # 0 => ParentOf(n) \in D
    BY DEF IInv, TreeInv, ParentInv
  <1>4. ASSUME NEW n \in D, NEW f \in [D -> V]
        PROVE  (IF ParentOf(n) = 0 THEN <<InstOf(n)>> ELSE Append(f[ParentOf(n)], InstOf(n))) \in V
    <2>1. <<InstOf(n)>> \in ChainSeqs /\ <<InstOf(n)>> # << >>
      BY <1>2 DEF ChainSeqs
    <2>2. ASSUME ParentOf(n) # 0
          PROVE  Append(f[ParentOf(n)], InstOf(n)) \in ChainSeqs /\ Append(f[ParentOf(n)], InstOf(n)) # << >>
      <3>1. f[ParentOf(n)] \in ChainSeqs
        BY <1>3, <2>2
      <3> HIDE DEF D, V
      <3> QED BY <1>2, <3>1, Appended DEF ChainSeqs
    <2> QED BY <2>1, <2>2
  <1>5. G \in [D -> [[D -> V] -> V]]
    <2> HIDE DEF V
    <2> QED BY <1>4
  <1>6. FromBelow(G, D, V, AboveNode)
    <2> SUFFICES ASSUME NEW n \in D, NEW f \in [D -> V], NEW g \in [D -> V],
                        \A e \in AboveNode[n] : f[e] = g[e]
                 PROVE  G[n][f] = G[n][g]
      BY DEF FromBelow
    <2>1. ParentOf(n) # 0 => f[ParentOf(n)] = g[ParentOf(n)]
      BY DEF AboveNode
    <2> HIDE DEF V
    <2> QED BY <2>1
  <1>7. PICK f \in [D -> V] : \A n \in D : f[n] = G[n][f]
    <2>1. CASE D = {}
      <3> DEFINE f == [n \in D |-> << >>]
      <3>1. f \in [D -> V] /\ \A n \in D : f[n] = G[n][f]
        BY <2>1
      <3> QED BY <3>1
    <2>2. CASE D # {}
      <3>1. PICK n \in D : TRUE
        BY <2>2
      <3>2. <<InstOf(n)>> \in V
        BY <1>2 DEF ChainSeqs
      <3> HIDE DEF D, V, G
      <3>3. Solvable(G, D, V)
        BY <1>1, <1>5, <1>6, <3>2, GroundedRecursion
      <3> QED BY <3>3 DEF Solvable
    <2> QED BY <2>1, <2>2
  <1> DEFINE Step(h) == [n \in D |-> IF partNodes[n].parent = 0 THEN <<partNodes[n].inst>>
                                   ELSE Append(h[partNodes[n].parent], partNodes[n].inst)]
  <1>8. f = Step(f)
    <2>1. \A n \in D : f[n] = Step(f)[n]
      BY <1>7 DEF ParentOf, InstOf
    <2> HIDE DEF V
    <2>2. f = [n \in D |-> f[n]] /\ Step(f) = [n \in D |-> Step(f)[n]]
      OBVIOUS
    <2> HIDE DEF Step
    <2> QED BY <2>1, <2>2
  <1>9. chain = Step(chain)
    BY <1>8 DEF chain
  <1>10. Chain = chain
    BY DEF Chain, chain
  <1>11. \A n \in D : chain[n] = IF ParentOf(n) = 0 THEN <<InstOf(n)>>
                                ELSE Append(chain[ParentOf(n)], InstOf(n))
    BY <1>9 DEF ParentOf, InstOf
  <1> DEFINE S == {n \in D : chain[n] \in V}
  <1>12. ASSUME NEW n \in D, AboveNode[n] \subseteq S PROVE n \in S
    <2>1. ASSUME ParentOf(n) = 0 PROVE chain[n] \in V
      <3>1. <<InstOf(n)>> \in V
        BY <1>2 DEF ChainSeqs
      <3> QED BY <1>11, <2>1, <3>1
    <2>2. ASSUME ParentOf(n) # 0 PROVE chain[n] \in V
      <3>1. ParentOf(n) \in S
        BY <1>12, <2>2 DEF AboveNode
      <3>2. PICK s \in ChainSeqs : s = chain[ParentOf(n)]
        BY <3>1
      <3>3. PICK x \in DOMAIN Suffix : x = InstOf(n)
        BY <1>2
      <3>4. Append(s, x) \in V
        BY Appended DEF ChainSeqs
      <3> QED BY <1>11, <2>2, <3>2, <3>3, <3>4
    <2> QED BY <2>1, <2>2
  <1> HIDE DEF S
  <1>13. D \subseteq S
    BY <1>1, <1>12, GroundedInduction
  <1>14. chain \in [D -> V]
    <2>1. \A n \in D : chain[n] \in V
      BY <1>13 DEF S
    <2> HIDE DEF V
    <2>2. chain = [n \in D |-> chain[n]]
      BY <1>9
    <2> QED BY <2>1, <2>2
  <1> QED BY <1>2, <1>10, <1>11, <1>14

\* What is below a definition, and what Occurrences makes of it.
BelowOf(d, b) ==
  {<< >>} \cup
  IF doc.kind[d] # "assembly" THEN {}
  ELSE UNION {{<<PartLabel(d, k)>> \o c : c \in b[Parts(d)[k]]} :
                k \in {k \in DOMAIN Parts(d) : Parts(d)[k] \in Def}}

FromRoots(b) ==
  UNION {{<<FreeLabel(d)>> \o c : c \in b[d]} :
           d \in {d \in Range(doc.free) : doc.kind[d] # "other"}}

IsBelow(b) == b \in [Def -> SUBSET ChainSeqs] /\ \A d \in Def : b[d] = BelowOf(d, b)

LEMMA InBelow ==
  ASSUME NEW d, NEW b, NEW x
  PROVE  x \in BelowOf(d, b) <=>
           \/ x = << >>
           \/ /\ doc.kind[d] = "assembly"
              /\ \E k \in Fillable(d) : \E c \in b[Parts(d)[k]] : x = <<PartLabel(d, k)>> \o c
  <1> DEFINE Join(k, c) == <<PartLabel(d, k)>> \o c
             Some(k) == {Join(k, c) : c \in b[Parts(d)[k]]}
             All == UNION {Some(k) : k \in Fillable(d)}
  <1>1. \A k : \A y : y \in Some(k) <=> \E c \in b[Parts(d)[k]] : y = Join(k, c)
    <2> HIDE DEF Join
    <2> QED OBVIOUS
  <1>2. BelowOf(d, b) = {<< >>} \cup IF doc.kind[d] # "assembly" THEN {} ELSE All
    BY DEF BelowOf, Fillable
  <1> HIDE DEF Some
  <1>3. x \in All <=> \E k \in Fillable(d) : x \in Some(k)
    OBVIOUS
  <1> HIDE DEF All
  <1>4. x \in All <=> \E k \in Fillable(d) : \E c \in b[Parts(d)[k]] : x = Join(k, c)
    BY <1>1, <1>3
  <1> HIDE DEF Join
  <1>5. x \in BelowOf(d, b) <=> x = << >> \/ (doc.kind[d] = "assembly" /\ x \in All)
    BY <1>2
  <1> QED BY <1>4, <1>5 DEF Join

LEMMA InRoots ==
  ASSUME NEW b, NEW x
  PROVE  x \in FromRoots(b) <=>
           \E d \in Range(doc.free) :
             doc.kind[d] # "other" /\ \E c \in b[d] : x = <<FreeLabel(d)>> \o c
  <1> DEFINE Join(d, c) == <<FreeLabel(d)>> \o c
             Some(d) == {Join(d, c) : c \in b[d]}
             Roots == {d \in Range(doc.free) : doc.kind[d] # "other"}
  <1>1. \A d : \A y : y \in Some(d) <=> \E c \in b[d] : y = Join(d, c)
    <2> HIDE DEF Join
    <2> QED OBVIOUS
  <1>2. FromRoots(b) = UNION {Some(d) : d \in Roots}
    BY DEF FromRoots
  <1> HIDE DEF Some
  <1>3. x \in UNION {Some(d) : d \in Roots} <=> \E d \in Roots : x \in Some(d)
    OBVIOUS
  <1>4. x \in FromRoots(b) <=> \E d \in Roots : x \in Some(d)
    BY <1>2, <1>3
  <1> HIDE DEF Join
  <1>5. x \in FromRoots(b) <=> \E d \in Roots : \E c \in b[d] : x = Join(d, c)
    BY <1>1, <1>4
  <1> QED BY <1>5 DEF Join

LEMMA OccurrencesOf ==
  ASSUME doc \in Documents
  PROVE  \E b : IsBelow(b) /\ Occurrences = FromRoots(b)
  <1> DEFINE V == SUBSET ChainSeqs
             G == [d \in Def |-> [f \in [Def -> V] |-> BelowOf(d, f)]]
             below[d \in Def] ==
               {<< >>} \cup
               IF doc.kind[d] # "assembly" THEN {}
               ELSE UNION {{<<PartLabel(d, k)>> \o c : c \in below[Parts(d)[k]]} :
                             k \in {k \in DOMAIN Parts(d) : Parts(d)[k] \in Def}}
  <1> HIDE DEF below
  <1>1. BelowDef \in [Def -> SUBSET Def] /\ Grounded(Def, BelowDef)
    BY PartsOf
  <1>2. ASSUME NEW d \in Def, NEW f, \A e \in BelowDef[d] : f[e] \in V
        PROVE  BelowOf(d, f) \in V
    <2>1. << >> \in ChainSeqs
      BY DEF ChainSeqs
    <2>2. ASSUME doc.kind[d] = "assembly", NEW k \in Fillable(d), NEW c \in f[Parts(d)[k]]
          PROVE  <<PartLabel(d, k)>> \o c \in ChainSeqs
      <3>1. Parts(d)[k] \in BelowDef[d] /\ k \in DOMAIN Parts(d)
        BY <2>2 DEF BelowDef, Fillable
      <3>2. c \in ChainSeqs
        BY <1>2, <2>2, <3>1
      <3>3. PartLabel(d, k) \in DOMAIN Suffix
        BY <3>1, TreeAssumption DEF Parts
      <3> QED BY <3>2, <3>3 DEF ChainSeqs
    <2>3. ASSUME NEW x \in BelowOf(d, f) PROVE x \in ChainSeqs
      <3>1. \/ x = << >>
            \/ /\ doc.kind[d] = "assembly"
               /\ \E k \in Fillable(d) : \E c \in f[Parts(d)[k]] : x = <<PartLabel(d, k)>> \o c
        BY <2>3, InBelow
      <3> QED BY <2>1, <2>2, <3>1
    <2> QED BY <2>3
  <1>3. G \in [Def -> [[Def -> V] -> V]]
    <2>1. \A d \in Def : BelowDef[d] \subseteq Def
      BY <1>1
    <2>2. \A d \in Def : \A f \in [Def -> V] : BelowOf(d, f) \in V
      BY <1>2, <2>1
    <2> HIDE DEF V
    <2> QED BY <2>2
  <1>4. ASSUME NEW d \in Def, NEW f, NEW g, \A e \in BelowDef[d] : f[e] = g[e]
        PROVE  BelowOf(d, f) = BelowOf(d, g)
    <2>1. doc.kind[d] = "assembly" => \A k \in Fillable(d) : f[Parts(d)[k]] = g[Parts(d)[k]]
      BY <1>4 DEF BelowDef
    <2> DEFINE Is(h, x) == \/ x = << >>
                           \/ /\ doc.kind[d] = "assembly"
                              /\ \E k \in Fillable(d) : \E c \in h[Parts(d)[k]] : x = <<PartLabel(d, k)>> \o c
    <2>2. ASSUME NEW x PROVE x \in BelowOf(d, f) <=> x \in BelowOf(d, g)
      <3>1. Is(f, x) <=> Is(g, x)
        BY <2>1
      <3>2. x \in BelowOf(d, f) <=> Is(f, x)
        BY InBelow
      <3>3. x \in BelowOf(d, g) <=> Is(g, x)
        BY InBelow
      <3> QED BY <3>1, <3>2, <3>3
    <2> QED BY <2>2
  <1>5. PICK f \in [Def -> V] : \A d \in Def : f[d] = BelowOf(d, f)
    <2>1. V # {}
      OBVIOUS
    <2>2. FromBelow(G, Def, V, BelowDef)
      <3> HIDE DEF V
      <3> QED BY <1>4 DEF FromBelow
    <2> HIDE DEF V, G
    <2>3. Solvable(G, Def, V)
      BY <1>1, <1>3, <2>1, <2>2, GroundedRecursion
    <2>4. PICK f \in [Def -> V] : \A d \in Def : f[d] = G[d][f]
      BY <2>3 DEF Solvable
    <2> QED BY <2>4 DEF G
  <1>6. f = [d \in Def |-> BelowOf(d, f)]
    <2> HIDE DEF V
    <2> QED BY <1>5
  <1>7. below = [d \in Def |-> BelowOf(d, below)]
    <2> DEFINE Step(h) == [d \in Def |->
                 {<< >>} \cup
                 IF doc.kind[d] # "assembly" THEN {}
                 ELSE UNION {{<<PartLabel(d, k)>> \o c : c \in h[Parts(d)[k]]} :
                               k \in {k \in DOMAIN Parts(d) : Parts(d)[k] \in Def}}]
    <2>1. f = Step(f)
      BY <1>6 DEF BelowOf
    <2>2. below = Step(below)
      BY <2>1 DEF below
    <2> QED BY <2>2 DEF BelowOf
  <1> DEFINE S == {d \in Def : below[d] \in V}
  <1>8. ASSUME NEW d \in Def, BelowDef[d] \subseteq S PROVE d \in S
    <2>1. \A e \in BelowDef[d] : below[e] \in V
      BY <1>8
    <2>2. BelowOf(d, below) \in V
      BY <1>2, <2>1
    <2> HIDE DEF V
    <2> QED BY <1>7, <2>2
  <1> HIDE DEF S
  <1>9. Def \subseteq S
    BY <1>1, <1>8, GroundedInduction
  <1>10. below \in [Def -> V]
    <2>1. \A d \in Def : below[d] \in V
      BY <1>9 DEF S
    <2> HIDE DEF V
    <2>2. below = [d \in Def |-> below[d]]
      BY <1>7
    <2> QED BY <2>1, <2>2
  <1>11. Occurrences = FromRoots(below)
    BY DEF Occurrences, below, FromRoots
  <1>12. \A d \in Def : below[d] = BelowOf(d, below)
    BY <1>7
  <1> QED BY <1>10, <1>11, <1>12 DEF IsBelow

\* Every place of any document has exactly one node, however often its definition is
\* shared and whichever components get none: the chains of the nodes are the places,
\* and no two nodes have one chain.
THEOREM OneNodeEach == Spec => []EveryOccurrenceOnce
  <1>1. IInv /\ LoopInv /\ LinksInv => EveryOccurrenceOnce
    <2> SUFFICES ASSUME IInv, LoopInv, LinksInv, phase \in {"paths", "done"}
                 PROVE  Range(Chain) = Occurrences /\ Cardinality(Occurrences) = Len(partNodes)
      BY DEF EveryOccurrenceOnce
    <2> USE DEF IInv, TreeInv, LinksInv
    <2> DEFINE D == DOMAIN partNodes
    <2>1. /\ stack = << >> /\ DOMAIN stack = {} /\ doc \in Documents /\ nextFree - 1 = Len(doc.free)
          /\ D = 1..Len(partNodes) /\ Len(partNodes) \in Nat
      BY PartsOf DEF LoopInv, ShapeInv
    <2>2. /\ Chain \in [D -> ChainSeqs \ {<< >>}]
          /\ \A n \in D : /\ InstOf(n) \in DOMAIN Suffix
                          /\ Chain[n] = IF ParentOf(n) = 0 THEN <<InstOf(n)>>
                                        ELSE Append(Chain[ParentOf(n)], InstOf(n))
      BY ChainOf
    <2>3. AboveNode \in [D -> SUBSET D] /\ Grounded(D, AboveNode)
      BY NodesGrounded DEF ShapeInv
    <2>4. BelowDef \in [Def -> SUBSET Def] /\ Grounded(Def, BelowDef)
      BY <2>1, PartsOf
    <2>5. PICK b : IsBelow(b) /\ Occurrences = FromRoots(b)
      BY <2>1, OccurrencesOf
    <2>6. \A n \in D : DefOf(n) \in Def
      <3> TAKE n \in D
      <3>1. partNodes[n] \in NodeRecord
        BY ElementOf DEF ShapeInv
      <3> QED BY <3>1 DEF NodeRecord, DefOf
    <2>7. \A n \in D : ParentOf(n) # 0 => ParentOf(n) \in D
      BY DEF ParentInv
    \* Joining at the end of a chain or at the start of what follows it is the same.
    <2>8. ASSUME NEW s \in ChainSeqs, NEW x \in DOMAIN Suffix, NEW c \in ChainSeqs
          PROVE  Append(s, x) \o c = s \o (<<x>> \o c)
      BY DEF ChainSeqs
    \* Below a node there is a node for everything below its definition.
    <2> DEFINE Down == {d \in Def : \A n \in D : DefOf(n) = d =>
                          \A c \in b[d] : Chain[n] \o c \in Range(Chain)}
    <2>9. ASSUME NEW d \in Def, BelowDef[d] \subseteq Down PROVE d \in Down
      <3> SUFFICES ASSUME NEW n \in D, DefOf(n) = d, NEW c \in b[d] PROVE Chain[n] \o c \in Range(Chain)
        OBVIOUS
      <3>1. CASE c = << >>
        <4>1. Chain[n] \in ChainSeqs
          BY <2>2
        <4>2. Chain[n] \o c = Chain[n]
          BY <3>1, <4>1 DEF ChainSeqs
        <4> QED BY <2>2, <4>2 DEF Range
      <3>2. ASSUME c # << >> PROVE Chain[n] \o c \in Range(Chain)
        <4>1. c \in BelowOf(d, b)
          BY <2>5 DEF IsBelow
        <4>2. /\ doc.kind[d] = "assembly"
              /\ \E k \in Fillable(d) : \E e \in b[Parts(d)[k]] : c = <<PartLabel(d, k)>> \o e
          BY <3>2, <4>1, InBelow
        <4>3. PICK k \in Fillable(d) : \E e \in b[Parts(d)[k]] : c = <<PartLabel(d, k)>> \o e
          BY <4>2
        <4>4. PICK e \in b[Parts(d)[k]] : c = <<PartLabel(d, k)>> \o e
          BY <4>3
        <4>5. PICK m \in D : ParentOf(m) = n /\ InstOf(m) = PartLabel(d, k)
          BY <2>1, <4>2 DEF PassedInv
        <4>6. DefOf(m) = Parts(d)[k]
          <5>1. n # 0
            BY <2>1
          <5>2. PICK l \in DOMAIN Parts(d) : InstOf(m) = PartLabel(d, l) /\ DefOf(m) = Parts(d)[l]
            BY <4>5, <5>1 DEF OriginInv
          <5> QED BY <4>5, <5>2 DEF PartLabel
        <4>7. Parts(d)[k] \in BelowDef[d] /\ Parts(d)[k] \in Def
          BY <4>2 DEF BelowDef, Fillable
        <4>8. Chain[m] \o e \in Range(Chain)
          BY <2>9, <4>4, <4>6, <4>7
        <4>9. Chain[m] = Append(Chain[n], InstOf(m))
          <5>1. n # 0
            BY <2>1
          <5> QED BY <2>2, <4>5, <5>1
        <4>10. e \in ChainSeqs
          BY <2>5, <4>7 DEF IsBelow
        <4>11. Chain[m] \o e = Chain[n] \o c
          BY <2>2, <2>8, <4>4, <4>5, <4>9, <4>10
        <4> QED BY <4>8, <4>11
      <3> QED BY <3>1, <3>2
    <2> HIDE DEF Down
    <2>10. Def \subseteq Down
      BY <2>4, <2>9, GroundedInduction
    <2>11. Occurrences \subseteq Range(Chain)
      <3> SUFFICES ASSUME NEW x \in Occurrences PROVE x \in Range(Chain)
        OBVIOUS
      <3>1. \E d \in Range(doc.free) :
              doc.kind[d] # "other" /\ \E c \in b[d] : x = <<FreeLabel(d)>> \o c
        BY <2>5, InRoots
      <3>2. PICK d \in Range(doc.free) :
              doc.kind[d] # "other" /\ \E c \in b[d] : x = <<FreeLabel(d)>> \o c
        BY <3>1
      <3>3. PICK i \in 1..Len(doc.free) : d = doc.free[i]
        BY <2>1, PartsOf DEF Range
      <3>4. PICK n \in D : ParentOf(n) = 0 /\ InstOf(n) = FreeLabel(d)
        BY <2>1, <3>3, <3>2 DEF PassedInv
      <3>5. DefOf(n) = d /\ d \in Def
        BY <2>6, <3>4 DEF OriginInv, FreeLabel
      <3>6. Chain[n] = <<FreeLabel(d)>>
        BY <2>2, <3>4
      <3> QED BY <2>10, <3>5, <3>6, <3>2 DEF Down
    \* What is below the definition of a node is an occurrence below its chain.
    <2> DEFINE Up == {n \in D : \A c \in b[DefOf(n)] : Chain[n] \o c \in Occurrences}
    <2>12. ASSUME NEW n \in D, AboveNode[n] \subseteq Up PROVE n \in Up
      <3> SUFFICES ASSUME NEW c \in b[DefOf(n)] PROVE Chain[n] \o c \in Occurrences
        OBVIOUS
      <3>1. CASE ParentOf(n) = 0
        <4>1. PICK i \in 1..Len(doc.free) : DefOf(n) = doc.free[i]
          BY <2>1, <3>1 DEF OriginInv
        <4>2. DefOf(n) \in Range(doc.free)
          BY <2>1, <4>1, PartsOf DEF Range
        <4>3. doc.kind[DefOf(n)] # "other" /\ Chain[n] = <<FreeLabel(DefOf(n))>>
          BY <2>2, <3>1 DEF OriginInv
        <4> QED BY <2>5, <4>2, <4>3, InRoots
      <3>2. CASE ParentOf(n) # 0
        <4>1. PICK p \in D : p = ParentOf(n)
          BY <2>7, <3>2
        <4>2. p \in Up
          BY <2>12, <3>2, <4>1 DEF AboveNode
        <4>3. PICK d \in Def : d = DefOf(p)
          BY <2>6
        <4>4. PICK k \in DOMAIN Parts(d) : InstOf(n) = PartLabel(d, k) /\ DefOf(n) = Parts(d)[k]
          BY <3>2, <4>1, <4>3 DEF OriginInv
        <4>5. doc.kind[d] = "assembly"
          BY <3>2, <4>1, <4>3 DEF OriginInv
        <4>6. <<InstOf(n)>> \o c \in b[d]
          <5>1. k \in Fillable(d) /\ c \in b[Parts(d)[k]]
            BY <2>6, <4>4 DEF Fillable
          <5>2. <<InstOf(n)>> \o c \in BelowOf(d, b)
            BY <4>4, <4>5, <5>1, InBelow
          <5> QED BY <2>5, <5>2 DEF IsBelow
        <4>7. Chain[p] \o (<<InstOf(n)>> \o c) \in Occurrences
          BY <4>2, <4>3, <4>6
        <4>8. Chain[n] = Append(Chain[p], InstOf(n))
          BY <2>2, <3>2, <4>1
        <4>9. c \in ChainSeqs
          BY <2>5, <2>6 DEF IsBelow
        <4>10. Chain[p] \in ChainSeqs /\ InstOf(n) \in DOMAIN Suffix
          BY <2>2
        <4>11. Chain[n] \o c = Chain[p] \o (<<InstOf(n)>> \o c)
          BY <2>8, <4>8, <4>9, <4>10
        <4> QED BY <4>7, <4>11
      <3> QED BY <3>1, <3>2
    <2> HIDE DEF Up
    <2>13. D \subseteq Up
      BY <2>3, <2>12, GroundedInduction
    <2>14. Range(Chain) \subseteq Occurrences
      <3> SUFFICES ASSUME NEW n \in D PROVE Chain[n] \in Occurrences
        BY <2>2 DEF Range
      <3>1. << >> \in b[DefOf(n)]
        BY <2>5, <2>6, InBelow DEF IsBelow
      <3>2. Chain[n] \o << >> \in Occurrences
        BY <2>13, <3>1 DEF Up
      <3>3. Chain[n] \in ChainSeqs
        BY <2>2
      <3> QED BY <3>2, <3>3 DEF ChainSeqs
    \* No two nodes have one chain.
    <2> DEFINE Alone == {m \in D : \A n \in D : Chain[m] = Chain[n] => m = n}
    <2>15. ASSUME NEW m \in D, AboveNode[m] \subseteq Alone PROVE m \in Alone
      <3> SUFFICES ASSUME NEW n \in D, Chain[m] = Chain[n] PROVE m = n
        OBVIOUS
      <3>1. ASSUME NEW s \in ChainSeqs \ {<< >>}, NEW x \in DOMAIN Suffix, NEW y \in DOMAIN Suffix
            PROVE  Append(s, x) # <<y>>
        <4>1. Len(s) # 0 /\ Len(s) \in Nat /\ Len(Append(s, x)) = Len(s) + 1
          BY DEF ChainSeqs
        <4>2. Len(<<y>>) = 1
          OBVIOUS
        <4>3. PICK r : r = Append(s, x)
          OBVIOUS
        <4>4. PICK q : q = <<y>>
          OBVIOUS
        <4>5. Len(r) # Len(q)
          BY <4>1, <4>2, <4>3, <4>4
        <4>6. r # q
          BY <4>5
        <4> QED BY <4>3, <4>4, <4>6
      <3>2. ASSUME NEW s \in ChainSeqs, NEW t \in ChainSeqs, NEW x \in DOMAIN Suffix, NEW y \in DOMAIN Suffix,
                   Append(s, x) = Append(t, y)
            PROVE  s = t /\ x = y
        BY <3>2, AppendInjective DEF ChainSeqs
      <3>3. CASE ParentOf(m) = 0 /\ ParentOf(n) = 0
        <4>1. <<InstOf(m)>> = <<InstOf(n)>>
          BY <2>2, <3>3
        <4>2. InstOf(m) = InstOf(n)
          BY <4>1
        <4> QED BY <3>3, <4>2 DEF RootsInv
      <3>4. CASE ParentOf(m) = 0 /\ ParentOf(n) # 0
        <4>1. Append(Chain[ParentOf(n)], InstOf(n)) = <<InstOf(m)>>
          BY <2>2, <3>4
        <4> QED BY <2>2, <2>7, <3>1, <3>4, <4>1
      <3>5. CASE ParentOf(m) # 0 /\ ParentOf(n) = 0
        <4>1. Append(Chain[ParentOf(m)], InstOf(m)) = <<InstOf(n)>>
          BY <2>2, <3>5
        <4> QED BY <2>2, <2>7, <3>1, <3>5, <4>1
      <3>6. CASE ParentOf(m) # 0 /\ ParentOf(n) # 0
        <4>1. PICK p \in D, q \in D : p = ParentOf(m) /\ q = ParentOf(n)
          BY <2>7, <3>6
        <4>2. Append(Chain[p], InstOf(m)) = Append(Chain[q], InstOf(n))
          BY <2>2, <3>6, <4>1
        <4>3. Chain[p] = Chain[q] /\ InstOf(m) = InstOf(n)
          BY <2>2, <3>2, <4>2
        <4>4. p \in Alone
          BY <2>15, <3>6, <4>1 DEF AboveNode
        <4>5. p = q
          BY <4>3, <4>4
        <4> QED BY <3>6, <4>1, <4>3, <4>5 DEF SiblingInv
      <3> QED BY <3>3, <3>4, <3>5, <3>6
    <2> HIDE DEF Alone
    <2>16. D \subseteq Alone
      BY <2>3, <2>15, GroundedInduction
    <2>17. Range(Chain) = Occurrences
      BY <2>11, <2>14
    <2>18. Cardinality(Occurrences) = Len(partNodes)
      <3>1. IsFiniteSet(D) /\ Cardinality(D) = Len(partNodes)
        <4>1. PICK N \in Nat : N = Len(partNodes) /\ D = 1..N
          BY <2>1
        <4>2. IsFiniteSet(1..N) /\ Cardinality(1..N) = IF 1 > N THEN 0 ELSE N - 1 + 1
          BY FS_Interval
        <4> QED BY <4>1, <4>2
      <3>2. Chain \in [D -> Occurrences]
        <4>1. \A n \in D : Chain[n] \in Occurrences
          BY <2>2, <2>14 DEF Range
        <4> QED BY <2>2, <4>1
      <3>3. \A m, n \in D : Chain[m] = Chain[n] => m = n
        BY <2>16 DEF Alone
      <3>4. \A t \in Occurrences : \E n \in D : Chain[n] = t
        BY <2>2, <2>17 DEF Range
      <3> QED BY <3>1, <3>2, <3>3, <3>4, Matched
    <2> QED BY <2>17, <2>18
  <1>2. Spec => []LoopInv
    BY CountInvariance, PTL
  <1> QED BY <1>1, <1>2, Invariance, LinksInvariance, PTL
=============================================================================
