------------------------------ MODULE SdfPaths ------------------------------
(***************************************************************************)
(* The part of OpenUSD's SdfPath that the pipeline relies on (external:    *)
(* modelled from how lib/CadUSD/PopulateUsd.cpp uses it).                  *)
(*                                                                         *)
(* A path is a sequence of nodes.  <<name>> is a prim; <<set, variant>>,   *)
(* always after a prim, is a variant selected on it:                       *)
(* /C{LOD=high}rod is << <<"C">>, <<"LOD","high">>, <<"rod">> >>.  The     *)
(* empty sequence stands for "no path".                                    *)
(***************************************************************************)
EXTENDS Naturals, Sequences, FiniteSetsExt, SequencesExt

NoPath == << >>
NoNode == << >>

IsPrim(node) == Len(node) = 1
IsVariant(node) == Len(node) = 2

\* StripAllVariantSelections
Strip(path) ==
  LET prims[n \in 0..Len(path)] ==
        IF n = 0 THEN << >>
        ELSE IF IsVariant(path[n]) THEN prims[n - 1] ELSE Append(prims[n - 1], path[n])
  IN prims[Len(path)]

\* GetPrefixes: a variant selection counts as a node of its own.
PrefixesOf(path) == {SubSeq(path, 1, n) : n \in 1..Len(path)}

HasPrefix(path, prefix) == IsPrefix(prefix, path)

\* Either path lies at or under the other.
Related(p, q) == HasPrefix(p, q) \/ HasPrefix(q, p)

\* ReplacePrefix
ReplacePrefix(path, old, new) ==
  IF HasPrefix(path, old) THEN new \o SubSeq(path, Len(old) + 1, Len(path)) ELSE path

\* The prims of a path that carry a variant selection.
VariantPrims(path) ==
  {Strip(prefix) : prefix \in {p \in PrefixesOf(path) : IsVariant(Last(p))}}

\* The selection a path makes on a prim; of several, the last, which is the one
\* left in a map keyed by the stripped prefix.
VariantOn(path, prim) ==
  LET at == {n \in DOMAIN path : IsVariant(path[n]) /\ Strip(SubSeq(path, 1, n)) = prim}
  IN IF at = {} THEN NoNode ELSE path[Max(at)]
=============================================================================
