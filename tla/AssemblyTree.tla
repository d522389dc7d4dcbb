---------------------------- MODULE AssemblyTree ----------------------------
(***************************************************************************)
(* lib/CadUSD/OpenCascadeAssembly.cpp: how the label tree of a CAD         *)
(* document, a graph in which assemblies share the definitions of their    *)
(* components, is unfolded into the flat array partNodes (a pass that      *)
(* counts, one that fills through a shared cursor), and how the nodes then *)
(* get their paths (getNodePaths).  fillNode's recursion is followed call  *)
(* by call, with its stack as a variable.                                  *)
(*                                                                         *)
(* Names, colours, visibility and transforms of a node are left out: none  *)
(* has a part in which nodes there are, and of two components that are     *)
(* named alike, or not at all, only the suffix tells them apart.  Indices  *)
(* are one higher than in the code; 0 is its -1.                           *)
(***************************************************************************)
EXTENDS Naturals, SequencesExt

CONSTANTS Def,        \* labels of the definitions
          Documents,  \* free shapes, kinds and components of each document considered
          Suffix,     \* stableLabelSuffix of each instance label
          StrayPaths  \* what nodePaths[-1] may be taken for

\* A component whose label is no shape, and one whose reference leads nowhere.
NotShape == "not a shape"
Dangling == "dangling"

\* Instance labels: a free shape is its own, a component is one place of an assembly.
FreeLabel(d) == <<d>>
PartLabel(d, k) == <<d, k>>

\* The suffix is a hash of the label's entry, which may send two of them to one.  No
\* definition is a component of itself, however deep: any set of definitions has one
\* without a component in the set.  (The code's recursion would not end on another
\* document.)
ASSUME TreeAssumption ==
  \A doc \in Documents :
    /\ doc.free \in Seq(Def) /\ IsInjective(doc.free)
    /\ doc.kind \in [Def -> {"assembly", "simple", "other"}]
    /\ \A d \in Def :
         /\ doc.parts[d] \in Seq(Def \cup {NotShape, Dangling})
         /\ FreeLabel(d) \in DOMAIN Suffix
         /\ \A k \in DOMAIN doc.parts[d] : PartLabel(d, k) \in DOMAIN Suffix
    /\ \A D \in SUBSET Def : D # {} =>
         \E d \in D : doc.kind[d] = "assembly" =>
           \A k \in DOMAIN doc.parts[d] : doc.parts[d][k] \notin D

ASSUME StrayAssumption == \A path \in StrayPaths : path \in Seq(Range(path))

VARIABLES
  doc,
  phase,             \* "count", "fill", "paths", "done", or "crashed"
  numNodes,          \* the size partNodes is given
  partNodes,         \* the nodes filled so far; its length is the cursor
  definitionShapes,  \* keys of definitionShapes, definitionNames and their suffixes
  nextFree,          \* the free shape the outer loop is on
  stack,             \* fillAssembly's frames: its node and the component it is on
  nodePaths          \* the paths computed so far

vars == <<doc, phase, numNodes, partNodes, definitionShapes, nextFree, stack, nodePaths>>

Parts(d) == doc.parts[d]
---------------------------------------------------------------------------
\* Entry n is the sum of the first n numbers.
Sums(numbers) ==
  LET sum[n \in 0..Len(numbers)] == IF n = 0 THEN 0 ELSE sum[n - 1] + numbers[n]
  IN sum

Total(numbers) == Sums(numbers)[Len(numbers)]

\* Mutated form: only simple definitions are counted as leaves.
DefNodes_SimpleOnly ==
  LET nodes[d \in Def] ==
        IF doc.kind[d] = "assembly"
        THEN 1 + Total([k \in DOMAIN Parts(d) |->
                          IF Parts(d)[k] \in Def THEN nodes[Parts(d)[k]] ELSE 0])
        ELSE IF doc.kind[d] = "simple" THEN 1 ELSE 0
  IN nodes

\* countNodes on a component with a definition, and countAssemblyChildren.
DefNodes ==
  LET nodes[d \in Def] ==
        IF doc.kind[d] = "assembly"
        THEN 1 + Total([k \in DOMAIN Parts(d) |->
                          IF Parts(d)[k] \in Def THEN nodes[Parts(d)[k]] ELSE 0])
        ELSE 1
  IN nodes

\* countNodes on a component.
PartNodes(r) == IF r \in Def THEN DefNodes[r] ELSE 0

\* countNodes on a free shape: one that is neither assembly nor simple has none.
FreeNodes(d) == IF doc.kind[d] = "other" THEN 0 ELSE DefNodes[d]

\* Pass 1.
CountNodes ==
  /\ phase = "count"
  /\ numNodes' = Total([n \in DOMAIN doc.free |-> FreeNodes(doc.free[n])])
  /\ phase' = "fill"
  /\ UNCHANGED <<doc, partNodes, definitionShapes, nextFree, stack, nodePaths>>

---------------------------------------------------------------------------
Top == Last(stack)

\* What the next call of fillNode is made on.
Filling ==
  /\ phase = "fill"
  /\ IF stack = << >> THEN nextFree <= Len(doc.free)
                      ELSE Top.next <= Len(Parts(partNodes[Top.node].def))

Label ==
  IF stack = << >> THEN FreeLabel(doc.free[nextFree])
                   ELSE PartLabel(partNodes[Top.node].def, Top.next)

Target ==
  IF stack = << >> THEN doc.free[nextFree] ELSE Parts(partNodes[Top.node].def)[Top.next]

ParentIdx == IF stack = << >> THEN 0 ELSE Top.node
Depth == IF stack = << >> THEN 0 ELSE partNodes[Top.node].depth + 1

Node(type, first, count) ==
  [type |-> type, def |-> Target, inst |-> Label, parent |-> ParentIdx,
   first |-> first, count |-> count, depth |-> Depth]

\* The loop that made the call goes on.
Stepped == IF stack = << >> THEN stack ELSE [stack EXCEPT ![Len(stack)].next = @ + 1]

\* Mutated form: the outer loop moves on with every node.
Advance_Always == nextFree' = nextFree + 1

Advance == nextFree' = IF stack = << >> THEN nextFree + 1 ELSE nextFree

\* What fillNode makes of the label: a node of its kind, or none.
Fate ==
  IF Target \notin Def \/ (stack = << >> /\ doc.kind[Target] = "other") THEN "none"
  ELSE IF doc.kind[Target] = "assembly" THEN "assembly" ELSE "leaf"

\* Mutated form: a component that cannot be filled ends its parent's loop.
PassOver_EndsLoop ==
  /\ Filling
  /\ Fate = "none"
  /\ stack' = IF stack = << >> THEN stack ELSE Front(stack)
  /\ Advance
  /\ UNCHANGED <<doc, phase, numNodes, partNodes, definitionShapes, nodePaths>>

PassOver ==
  /\ Filling
  /\ Fate = "none"
  /\ stack' = Stepped
  /\ Advance
  /\ UNCHANGED <<doc, phase, numNodes, partNodes, definitionShapes, nodePaths>>

FillLeaf ==
  /\ Filling
  /\ Fate = "leaf"
  /\ partNodes' = Append(partNodes, Node("leaf", 0, 0))
  /\ definitionShapes' = definitionShapes \cup {Target}
  /\ stack' = Stepped
  /\ Advance
  /\ UNCHANGED <<doc, phase, numNodes, nodePaths>>

\* Mutated form: every component is taken to become a child.
FillAssembly_AllChildren ==
  /\ Filling
  /\ Fate = "assembly"
  /\ LET node  == Len(partNodes) + 1
         valid == DOMAIN Parts(Target)
     IN /\ partNodes' = Append(partNodes,
                          Node("assembly", IF valid = {} THEN 0 ELSE node + 1, Cardinality(valid)))
        /\ stack' = Append(Stepped, [node |-> node, next |-> 1])
  /\ Advance
  /\ UNCHANGED <<doc, phase, numNodes, definitionShapes, nodePaths>>

\* The node is claimed before its components are filled; its first child is the
\* slot after it.
FillAssembly ==
  /\ Filling
  /\ Fate = "assembly"
  /\ LET node  == Len(partNodes) + 1
         valid == {k \in DOMAIN Parts(Target) : PartNodes(Parts(Target)[k]) > 0}
     IN /\ partNodes' = Append(partNodes,
                          Node("assembly", IF valid = {} THEN 0 ELSE node + 1, Cardinality(valid)))
        /\ stack' = Append(Stepped, [node |-> node, next |-> 1])
  /\ Advance
  /\ UNCHANGED <<doc, phase, numNodes, definitionShapes, nodePaths>>

\* fillAssembly returns.
CloseAssembly ==
  /\ phase = "fill" /\ stack # << >> /\ ~Filling
  /\ stack' = Front(stack)
  /\ UNCHANGED <<doc, phase, numNodes, partNodes, definitionShapes, nextFree, nodePaths>>

TreeBuilt ==
  /\ phase = "fill" /\ stack = << >> /\ ~Filling
  /\ phase' = "paths"
  /\ UNCHANGED <<doc, numNodes, partNodes, definitionShapes, nextFree, stack, nodePaths>>

---------------------------------------------------------------------------
\* Paths, as the names below the root.  The empty SdfPath is none of them.
NoPath == << >>
AssemblyRoot == << "root" >>

\* The path of a node: nothing if its parent has none.
Below(parent, suffix) == IF parent = NoPath THEN NoPath ELSE Append(parent, suffix)

\* The first node gets the root itself.  Without nodes this is a write behind an
\* empty vector: it is not noticed, or the process ends.
RootPath ==
  /\ phase = "paths" /\ nodePaths = << >>
  /\ IF partNodes = << >> THEN phase' \in {"done", "crashed"} /\ UNCHANGED nodePaths
                          ELSE nodePaths' = <<AssemblyRoot>> /\ UNCHANGED phase
  /\ UNCHANGED <<doc, numNodes, partNodes, definitionShapes, nextFree, stack>>

PathIdx == Len(nodePaths) + 1
Naming == phase = "paths" /\ nodePaths # << >> /\ PathIdx <= Len(partNodes)

\* Mutated form: the suffix is that of the definition.
NodePath_DefSuffix ==
  /\ Naming
  /\ partNodes[PathIdx].parent # 0
  /\ nodePaths' = Append(nodePaths, Below(nodePaths[partNodes[PathIdx].parent],
                                           Suffix[FreeLabel(partNodes[PathIdx].def)]))
  /\ UNCHANGED <<doc, phase, numNodes, partNodes, definitionShapes, nextFree, stack>>

\* A node below another.
NodePath ==
  /\ Naming
  /\ partNodes[PathIdx].parent # 0
  /\ nodePaths' = Append(nodePaths, Below(nodePaths[partNodes[PathIdx].parent],
                                           Suffix[partNodes[PathIdx].inst]))
  /\ UNCHANGED <<doc, phase, numNodes, partNodes, definitionShapes, nextFree, stack>>

\* The root of a further free shape: its parent's path is read from before the
\* vector, where anything may be that is taken for a path or ends the process.
StrayRead ==
  /\ Naming
  /\ partNodes[PathIdx].parent = 0
  /\ \/ \E parent \in StrayPaths :
          nodePaths' = Append(nodePaths, Below(parent, Suffix[partNodes[PathIdx].inst]))
        /\ UNCHANGED phase
     \/ phase' = "crashed" /\ UNCHANGED nodePaths
  /\ UNCHANGED <<doc, numNodes, partNodes, definitionShapes, nextFree, stack>>

PathsDone ==
  /\ phase = "paths" /\ nodePaths # << >> /\ PathIdx > Len(partNodes)
  /\ phase' = "done"
  /\ UNCHANGED <<doc, numNodes, partNodes, definitionShapes, nextFree, stack, nodePaths>>

Init ==
  /\ doc \in Documents
  /\ phase = "count"
  /\ numNodes = 0 /\ partNodes = << >> /\ definitionShapes = {}
  /\ nextFree = 1 /\ stack = << >> /\ nodePaths = << >>

Next ==
  \/ CountNodes
  \/ PassOver \/ FillLeaf \/ FillAssembly \/ CloseAssembly \/ TreeBuilt
  \/ RootPath \/ NodePath \/ StrayRead \/ PathsDone

Spec == Init /\ [][Next]_vars
---------------------------------------------------------------------------
NodeRecord ==
  [type : {"leaf", "assembly"}, def : Def, inst : DOMAIN Suffix, parent : Nat,
   first : Nat, count : Nat, depth : Nat]

PathNames == {"root"} \cup Range(Suffix) \cup UNION {Range(path) : path \in StrayPaths}

TypeOK ==
  /\ doc.free \in Seq(Def)
  /\ phase \in {"count", "fill", "paths", "done", "crashed"}
  /\ numNodes \in Nat
  /\ partNodes \in Seq(NodeRecord)
  /\ definitionShapes \subseteq Def
  /\ nextFree \in 1..(Len(doc.free) + 1)
  /\ stack \in Seq([node : 1..Len(partNodes), next : Nat \ {0}])
  /\ \A n \in DOMAIN nodePaths : nodePaths[n] \in Seq(PathNames)

\* The two passes agree: no slot is written that the first pass did not count, and
\* at the end none is left unwritten (the assertion at the end of buildInstanceTree).
PassesAgree ==
  /\ phase # "count" => Len(partNodes) <= numNodes
  /\ phase \in {"paths", "done"} => Len(partNodes) = numNodes

\* The chains of instance labels from the root of each node down to it.
Chain ==
  LET chain[n \in DOMAIN partNodes] ==
        IF partNodes[n].parent = 0 THEN <<partNodes[n].inst>>
        ELSE Append(chain[partNodes[n].parent], partNodes[n].inst)
  IN chain

\* All places in the unfolded document, told from the document alone.
Occurrences ==
  LET below[d \in Def] ==
        {<< >>} \cup
        IF doc.kind[d] # "assembly" THEN {}
        ELSE UNION {{<<PartLabel(d, k)>> \o c : c \in below[Parts(d)[k]]} :
                      k \in {k \in DOMAIN Parts(d) : Parts(d)[k] \in Def}}
  IN UNION {{<<FreeLabel(d)>> \o c : c \in below[d]} :
              d \in {d \in Range(doc.free) : doc.kind[d] # "other"}}

\* Every place of the unfolded document has exactly one node, however often its
\* definition is shared and whatever components cannot be filled.
EveryOccurrenceOnce ==
  phase \in {"paths", "done"} =>
    /\ Range(Chain) = Occurrences
    /\ Cardinality(Occurrences) = Len(partNodes)

\* The links between nodes are right: a parent comes before its children and is an
\* assembly one level up; firstChildIdx and childCount are those of its children; a
\* leaf's definition is among the prototypes.
LinksMatch ==
  phase \in {"paths", "done"} =>
    \A n \in DOMAIN partNodes :
      LET node == partNodes[n]
          children == {m \in DOMAIN partNodes : partNodes[m].parent = n}
      IN /\ node.parent # 0 => /\ node.parent < n
                               /\ partNodes[node.parent].type = "assembly"
                               /\ node.depth = partNodes[node.parent].depth + 1
         /\ node.count = Cardinality(children)
         /\ node.first = IF children = {} THEN 0 ELSE Min(children)
         /\ node.type = "leaf" => children = {} /\ node.def \in definitionShapes

\* Nodes of the first free shape: those before the next root.
FirstTree == {n \in DOMAIN nodePaths : \A m \in 2..n : partNodes[m].parent # 0}

\* No two nodes of the first free shape are authored on one prim.
NodesApart == \A m, n \in FirstTree : m # n => nodePaths[m] # nodePaths[n]

\* "instanceLabel entry is unique per slot in the XCAF tree, so two rods under the same
\* parent get different suffixes" (OpenCascadeAssembly.cpp:163): the hash of the entry
\* tells siblings apart.  Nothing in the code makes it so.
SiblingsApart ==
  \A m, n \in DOMAIN partNodes :
    m # n /\ partNodes[m].parent = partNodes[n].parent /\ partNodes[n].parent # 0 =>
      Suffix[partNodes[m].inst] # Suffix[partNodes[n].inst]

\* It is enough that siblings have different suffixes: definitions are shared and a
\* suffix may occur anywhere else, yet no two nodes get one path.
PathsDistinct == SiblingsApart => NodesApart

\* Since partNodes is in pre-order, the parent's path is there when a node's is made.
ParentResolved == Naming => partNodes[PathIdx].parent \in DOMAIN nodePaths
=============================================================================
