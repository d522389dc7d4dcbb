----------------------------- MODULE ModelLoad -----------------------------
(***************************************************************************)
(* CadUsdPipeline::create (lib/CadUSD/PopulateUsd.cpp): the scan of the    *)
(* container file for the CAD models it refers to, and their loading into  *)
(* modelCache.  Every prim is visited; one with variant sets is visited    *)
(* under every combination of their variants, by a recursion over the sets *)
(* (collectAllVariants) that authors each selection on the stage itself    *)
(* and puts back the selection it found when it is through with a set.     *)
(* The recursion is followed call by call, with its stack as a variable.   *)
(***************************************************************************)
EXTENDS Naturals, SequencesExt

CONSTANTS Prims,       \* for each prim of the traversal, its variant sets in order:
                       \* each the sequence of its variants
          Asset,       \* for each prim, the models it refers to, by combination
          Authored     \* the selections the file may have: per prim, per set

Unselected == "unselected"

Prim    == DOMAIN Prims
Sets(p) == Len(Prims[p])

\* The combinations of a prim: one variant of each of its sets.
Combinations(p) ==
  {c \in [1..Sets(p) -> UNION {ToSet(Prims[p][d]) : d \in 1..Sets(p)}] :
     \A d \in 1..Sets(p) : c[d] \in ToSet(Prims[p][d])}

ASSUME LoadAssumption ==
  /\ Prims \in Seq(Range(Prims))
  /\ \A p \in Prim : Prims[p] \in Seq(Range(Prims[p]))
  /\ \A p \in Prim : \A d \in 1..Sets(p) :
       Prims[p][d] \in Seq(ToSet(Prims[p][d])) /\ IsInjective(Prims[p][d]) /\ Prims[p][d] # << >>
  /\ \A p \in Prim : \A c \in Combinations(p) : c \in DOMAIN Asset[p]
  /\ \A a \in Authored :
       /\ a = [p \in Prim |-> [d \in 1..Sets(p) |-> a[p][d]]]
       /\ \A p \in Prim : \A d \in 1..Sets(p) : a[p][d] \in ToSet(Prims[p][d]) \cup {Unselected}

VARIABLES
  before,      \* the selections of the stage when create() is called
  selection,   \* the selections it has now
  prim,        \* the prim the traversal is on
  stack,       \* a frame per set being tried: the selection found, variants tried
  pc,          \* "enter" a call of the recursion, or go on with the top "loop"
  visited,     \* the combinations collectFromPrim was called under, per prim
  referenced,  \* referencedAssetBundles
  modelCache,
  phase        \* "scan", "load" or "ready"

vars == <<before, selection, prim, stack, pc, visited, referenced, modelCache, phase>>

At(step) == phase = "scan" /\ prim <= Len(Prims) /\ pc = step

---------------------------------------------------------------------------
\* What collectFromPrim adds.  Its second `if' has no braces: only the warning
\* depends on it, and the return that follows is always taken.
Collected == {}

\* Every set has a selection: collectFromPrim is called, and the call returns to
\* the loop of the last set, or to the traversal if the prim has no sets.
Visit ==
  /\ At("enter")
  /\ Len(stack) = Sets(prim)
  /\ visited' = [visited EXCEPT ![prim] = Append(@, selection[prim])]
  /\ referenced' = referenced \cup Collected
  /\ IF stack = << >> THEN prim' = prim + 1 /\ UNCHANGED pc
                      ELSE pc' = "loop" /\ UNCHANGED prim
  /\ UNCHANGED <<before, selection, stack, modelCache, phase>>

\* The next set: its selection is noted.
EnterSet ==
  /\ At("enter")
  /\ Len(stack) < Sets(prim)
  /\ stack' = Append(stack, [found |-> selection[prim][Len(stack) + 1], tried |-> 0])
  /\ pc' = "loop"
  /\ UNCHANGED <<before, selection, prim, visited, referenced, modelCache, phase>>

\* The top loop selects its next variant and calls on.
TryVariant ==
  LET d == Len(stack) IN
    /\ At("loop")
    /\ stack[d].tried < Len(Prims[prim][d])
    /\ selection' = [selection EXCEPT ![prim][d] = Prims[prim][d][stack[d].tried + 1]]
    /\ stack' = [stack EXCEPT ![d].tried = @ + 1]
    /\ pc' = "enter"
    /\ UNCHANGED <<before, prim, visited, referenced, modelCache, phase>>

\* Mutated form: the loop may stop one variant short.
RestoreSet_OneShort ==
  LET d == Len(stack) IN
    /\ At("loop")
    /\ stack[d].tried + 1 >= Len(Prims[prim][d])
    /\ selection' = [selection EXCEPT ![prim][d] = stack[d].found]
    /\ stack' = Front(stack)
    /\ IF d = 1 THEN prim' = prim + 1 /\ pc' = "enter" ELSE UNCHANGED <<prim, pc>>
    /\ UNCHANGED <<before, visited, referenced, modelCache, phase>>

\* Mutated form: a set that had no selection is left with its last variant.
RestoreSet_OnlySelected ==
  LET d == Len(stack) IN
    /\ At("loop")
    /\ stack[d].tried >= Len(Prims[prim][d])
    /\ selection' = [selection EXCEPT ![prim][d] =
                       IF stack[d].found = Unselected THEN @ ELSE stack[d].found]
    /\ stack' = Front(stack)
    /\ IF d = 1 THEN prim' = prim + 1 /\ pc' = "enter" ELSE UNCHANGED <<prim, pc>>
    /\ UNCHANGED <<before, visited, referenced, modelCache, phase>>

\* Mutated form: a return from an inner set moves the traversal on.
RestoreSet_NextPrim ==
  LET d == Len(stack) IN
    /\ At("loop")
    /\ stack[d].tried >= Len(Prims[prim][d])
    /\ selection' = [selection EXCEPT ![prim][d] = stack[d].found]
    /\ stack' = Front(stack)
    /\ prim' = prim + 1
    /\ IF d = 1 THEN pc' = "enter" ELSE UNCHANGED pc
    /\ UNCHANGED <<before, visited, referenced, modelCache, phase>>

\* Mutated form: the loop waits for one variant too many.
RestoreSet_OneTooMany ==
  LET d == Len(stack) IN
    /\ At("loop")
    /\ stack[d].tried > Len(Prims[prim][d])
    /\ selection' = [selection EXCEPT ![prim][d] = stack[d].found]
    /\ stack' = Front(stack)
    /\ IF d = 1 THEN prim' = prim + 1 /\ pc' = "enter" ELSE UNCHANGED <<prim, pc>>
    /\ UNCHANGED <<before, visited, referenced, modelCache, phase>>

\* Its variants are exhausted: the selection found is put back (cleared if there
\* was none), and the call returns.
RestoreSet ==
  LET d == Len(stack) IN
    /\ At("loop")
    /\ stack[d].tried >= Len(Prims[prim][d])
    /\ selection' = [selection EXCEPT ![prim][d] = stack[d].found]
    /\ stack' = Front(stack)
    /\ IF d = 1 THEN prim' = prim + 1 /\ pc' = "enter" ELSE UNCHANGED <<prim, pc>>
    /\ UNCHANGED <<before, visited, referenced, modelCache, phase>>

ScanDone ==
  /\ phase = "scan"
  /\ prim > Len(Prims)
  /\ phase' = "load"
  /\ UNCHANGED <<before, selection, prim, stack, pc, visited, referenced, modelCache>>

\* The models are loaded in parallel; those that fail to load are left out.
LoadModels ==
  /\ phase = "load"
  /\ modelCache' \in SUBSET referenced
  /\ phase' = "ready"
  /\ UNCHANGED <<before, selection, prim, stack, pc, visited, referenced>>

Init ==
  /\ before \in Authored
  /\ selection = before
  /\ prim = 1 /\ stack = << >> /\ pc = "enter"
  /\ visited = [p \in Prim |-> << >>]
  /\ referenced = {} /\ modelCache = {}
  /\ phase = "scan"

Next == Visit \/ EnterSet \/ TryVariant \/ RestoreSet \/ ScanDone \/ LoadModels

Spec == Init /\ [][Next]_vars

\* The scan is one thread that waits for nothing.
FairSpec == Spec /\ WF_vars(Next)
---------------------------------------------------------------------------
Frame(p, d) ==
  [found : ToSet(Prims[p][d]) \cup {Unselected}, tried : 0..Len(Prims[p][d])]

TypeOK ==
  /\ before \in Authored
  /\ \A p \in Prim : \A d \in 1..Sets(p) : selection[p][d] \in ToSet(Prims[p][d]) \cup {Unselected}
  /\ prim \in 1..(Len(Prims) + 1)
  /\ pc \in {"enter", "loop"}
  /\ IF prim \in Prim THEN Len(stack) <= Sets(prim) /\ \A d \in DOMAIN stack : stack[d] \in Frame(prim, d)
                      ELSE stack = << >>
  /\ \A p \in Prim : ToSet(visited[p]) \subseteq Combinations(p)
  /\ modelCache \subseteq referenced
  /\ phase \in {"scan", "load", "ready"}

\* At every moment of the scan a set that is not being tried has the selection the
\* file came with, on the prim being visited and on every other: the stage the
\* pipeline goes on with is the one the user wrote.
SelectionsRestored ==
  \A p \in Prim : \A d \in 1..Sets(p) :
    p # prim \/ d > Len(stack) => selection[p][d] = before[p][d]

\* Every prim is looked at under every combination of its variants, and under none
\* twice.
EveryCombinationOnce ==
  phase # "scan" =>
    \A p \in Prim : ToSet(visited[p]) = Combinations(p) /\ IsInjective(visited[p])

\* The scan ends, however the sets nest.
ScanEnds == <>(phase = "ready")

\* All models some prim refers to under some combination are found by the scan.
EveryReferenceFound ==
  phase # "scan" =>
    UNION {{Asset[p][c] : c \in Combinations(p)} : p \in Prim} \subseteq referenced
=============================================================================
