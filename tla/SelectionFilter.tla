-------------------------- MODULE SelectionFilter --------------------------
(***************************************************************************)
(* How the pipeline reads the -p paths (lib/CadUSD/PopulateUsd.cpp): which *)
(* prototypes are active, which container variants are visited, and which  *)
(* prototype stages are rebuilt from nothing.  `selected' is the set of    *)
(* paths given; empty means everything.                                    *)
(***************************************************************************)
EXTENDS SdfPaths

CONSTANTS Name,              \* names of prims, variant sets and variants
          ContainerPrimPath

Node == Seq(Name)
Path == Seq(Node)

NoVariant == NoNode

PrototypesPath == Append(ContainerPrimPath, <<"Prototypes">>)
AssemblyPath   == Append(ContainerPrimPath, <<"Assembly">>)

\* The container under a variant of it.
ContainerUnder(variant) ==
  IF variant = NoVariant THEN ContainerPrimPath ELSE Append(ContainerPrimPath, variant)

\* Some prim carries two different selections in the two paths.
Conflicts(sel, path) ==
  \E prim \in VariantPrims(sel) \cap VariantPrims(path) :
    VariantOn(sel, prim) # VariantOn(path, prim)

\* Mutated form: variant selections are not compared.
PrototypeActive_AnyVariant(selected, protoPath, variant) ==
  \/ selected = {}
  \/ \E sel \in selected : Related(Strip(sel), Strip(protoPath))

\* Mutated form: a path above the prototype is not taken to include it.
PrototypeActive_NotFromAbove(selected, protoPath, variant) ==
  LET path == ReplacePrefix(protoPath, ContainerPrimPath, ContainerUnder(variant))
  IN \/ selected = {}
     \/ \E sel \in selected : HasPrefix(Strip(sel), Strip(path)) /\ ~Conflicts(sel, path)

\* isPrototypeActiveInFilter
PrototypeActive(selected, protoPath, variant) ==
  LET path == ReplacePrefix(protoPath, ContainerPrimPath, ContainerUnder(variant))
  IN \/ selected = {}
     \/ \E sel \in selected : Related(Strip(sel), Strip(path)) /\ ~Conflicts(sel, path)

\* isAssemblyActiveInFilter
AssemblyActive(selected, path) ==
  \/ selected = {}
  \/ /\ HasPrefix(Strip(path), AssemblyPath)
     /\ \E sel \in selected : Related(Strip(path), Strip(sel))

\* findMatchingPrefixWithoutVariants: the first prefix that is the target once
\* its variants are dropped, so never with a variant on its last prim.
MatchingPrefix(path, target) ==
  LET match == {n \in DOMAIN path : Strip(SubSeq(path, 1, n)) = target}
  IN IF match = {} THEN NoPath ELSE SubSeq(path, 1, Min(match))

\* classifySelection: the stage a path is about, and how.
Classify(sel) ==
  LET stage     == MatchingPrefix(sel, PrototypesPath)
      container == MatchingPrefix(sel, ContainerPrimPath)
  IN IF stage # NoPath
     THEN [kind |-> IF Strip(sel) = PrototypesPath THEN "whole" ELSE "specific", key |-> stage]
     ELSE IF container # NoPath
          THEN [kind |-> "whole", key |-> Append(container, <<"Prototypes">>)]
          ELSE [kind |-> "none", key |-> NoPath]

\* resolveStageFilterInfo: the stages some path is about, and those among them
\* that some path takes as a whole.
FilteredStages(selected) == {Classify(sel).key : sel \in selected} \ {NoPath}

WholeStages(selected) ==
  {Classify(sel).key : sel \in {p \in selected : Classify(p).kind = "whole"}}

\* getStageMakeFresh
StageMakeFresh(selected, variant) ==
  LET key == Append(ContainerUnder(variant), <<"Prototypes">>)
  IN \/ selected = {}
     \/ IF key \in FilteredStages(selected) THEN key \in WholeStages(selected)
                                            ELSE PrototypesPath \in WholeStages(selected)

\* Mutated form: a path through another variant is taken as well.
VariantSelected_AnyVariant(selected, variant) ==
  \/ selected = {}
  \/ \E sel \in selected : Related(Strip(sel), ContainerPrimPath)

\* Mutated form: only a path through the variant itself, or above the container.
VariantSelected_OwnPathOnly(selected, variant) ==
  selected = {} \/ \E sel \in selected : Related(sel, ContainerUnder(variant))

\* isContainerVariantSelected
VariantSelected(selected, variant) ==
  LET variantPath == ContainerUnder(variant)
      Elsewhere(sel) == \E p \in PrefixesOf(sel) :
        Strip(p) = ContainerPrimPath /\ p # ContainerPrimPath /\ p # variantPath
  IN \/ selected = {}
     \/ \E sel \in selected :
          \/ Related(sel, variantPath)
          \/ ~Elsewhere(sel) /\ Related(sel, ContainerPrimPath)

\* validateVariants: every variant a path names exists, as far as the stage has
\* the prim and the prim has that variant set.
ValidSelection(selected, VariantsOf) ==
  \A sel \in selected : \A n \in DOMAIN sel :
    LET prim == Strip(SubSeq(sel, 1, n)) IN
      IsVariant(sel[n]) /\ prim \in DOMAIN VariantsOf =>
        /\ VariantsOf[prim] # {}
        /\ sel[n] \in VariantsOf[prim] \/ \A v \in VariantsOf[prim] : v[1] # sel[n][1]
=============================================================================
