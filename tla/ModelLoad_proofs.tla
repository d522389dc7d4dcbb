--------------------------- MODULE ModelLoad_proofs ---------------------------
(***************************************************************************)
(* Whatever variant sets the prims have and whatever is selected in them:  *)
(* the scan puts each selection back, on the level that changed it.        *)
(*                                                                         *)
(* A frame's selection is the one put back, so it must be what the file    *)
(* had: the set was not being tried when the frame was made.  Then: each   *)
(* combination the nested loops come to is visited, and none twice.        *)
(***************************************************************************)
EXTENDS ModelLoad, TLAPS

\* Selections are functions, over the sets of each prim.
ShapeInv ==
  /\ before \in Authored
  /\ DOMAIN selection = Prim
  /\ \A p \in Prim :
       /\ selection[p] = [d \in 1..Sets(p) |-> selection[p][d]]
       /\ \A d \in 1..Sets(p) : selection[p][d] \in ToSet(Prims[p][d]) \cup {Unselected}

ChoicesIn(p, d) == ToSet(Prims[p][d]) \cup {Unselected}
Selectable == {Unselected} \cup UNION {UNION {ToSet(Prims[p][d]) : d \in 1..Sets(p)} : p \in Prim}
Frames == [found : Selectable, tried : Nat]

\* Frames: one for each set being tried, with the selection the file has there.
StackInv ==
  /\ stack \in Seq(Frames)
  /\ prim \in 1..(Len(Prims) + 1)
  /\ prim \notin Prim => stack = << >>
  /\ prim \in Prim =>
       /\ Len(stack) <= Sets(prim)
       /\ \A d \in DOMAIN stack :
            stack[d].found = before[prim][d] /\ stack[d].tried \in 0..Len(Prims[prim][d])
  /\ pc \in {"enter", "loop"}
  /\ pc = "loop" => stack # << >>

\* Every set being tried has a variant selected, but for the last, whose loop may not
\* have begun or may just be through.
TriedInv ==
  \A d \in DOMAIN stack :
    d < Len(stack) \/ pc = "enter" => selection[prim][d] \in ToSet(Prims[prim][d])

VisitedInv ==
  /\ DOMAIN visited = Prim
  /\ \A p \in Prim : visited[p] \in Seq(Combinations(p))
  /\ modelCache \subseteq referenced
  /\ phase \in {"scan", "load", "ready"}

IInv == ShapeInv /\ StackInv /\ TriedInv /\ VisitedInv /\ SelectionsRestored
---------------------------------------------------------------------------
LEMMA PrimFacts ==
  /\ Len(Prims) \in Nat /\ Prim = 1..Len(Prims)
  /\ \A p \in Prim : Sets(p) \in Nat
  /\ \A p \in Prim : \A d \in 1..Sets(p) :
       /\ Len(Prims[p][d]) \in Nat
       /\ \A n \in 1..Len(Prims[p][d]) : Prims[p][d][n] \in ToSet(Prims[p][d])
  <1>1. Len(Prims) \in Nat /\ Prim = 1..Len(Prims)
    BY LoadAssumption DEF Prim
  <1>2. \A p \in Prim : Sets(p) \in Nat
    BY LoadAssumption DEF Sets
  <1>3. ASSUME NEW p \in Prim, NEW d \in 1..Sets(p)
        PROVE  /\ Len(Prims[p][d]) \in Nat
               /\ \A n \in 1..Len(Prims[p][d]) : Prims[p][d][n] \in ToSet(Prims[p][d])
    BY LoadAssumption
  <1> QED BY <1>1, <1>2, <1>3

LEMMA ElementOf ==
  ASSUME NEW S, NEW s \in Seq(S), NEW n \in DOMAIN s
  PROVE  s[n] \in S
  OBVIOUS

LEMMA AppendSeq ==
  ASSUME NEW S, NEW s \in Seq(S), NEW x \in S
  PROVE  Append(s, x) \in Seq(S)
  OBVIOUS

LEMMA ReplaceElement ==
  ASSUME NEW S, NEW s \in Seq(S), NEW n \in DOMAIN s, NEW x \in S
  PROVE  /\ [s EXCEPT ![n] = x] \in Seq(S)
         /\ Len([s EXCEPT ![n] = x]) = Len(s)
         /\ DOMAIN [s EXCEPT ![n] = x] = DOMAIN s
  OBVIOUS

LEMMA FrontOf ==
  ASSUME NEW S, NEW s \in Seq(S), s # << >>
  PROVE  /\ Front(s) \in Seq(S) /\ Len(s) \in Nat \ {0}
         /\ Len(Front(s)) = Len(s) - 1 /\ DOMAIN Front(s) = 1..(Len(s) - 1)
         /\ \A n \in 1..(Len(s) - 1) : Front(s)[n] = s[n] /\ n \in DOMAIN s
  <1>1. Len(s) \in Nat \ {0} /\ DOMAIN s = 1..Len(s)
    OBVIOUS
  <1>2. Front(s) = SubSeq(s, 1, Len(s) - 1)
    BY DEF Front
  <1>3. Len(s) - 1 \in 0..Len(s) /\ 1 \in 1..(Len(s) + 1)
    BY <1>1
  <1>4. /\ SubSeq(s, 1, Len(s) - 1) \in Seq(S)
        /\ Len(SubSeq(s, 1, Len(s) - 1)) = Len(s) - 1
        /\ \A n \in 1..(Len(s) - 1) : SubSeq(s, 1, Len(s) - 1)[n] = s[n]
    BY <1>1, <1>3
  <1> QED BY <1>1, <1>2, <1>4

LEMMA FrameFacts ==
  /\ \A x \in Selectable : \A t \in Nat : [found |-> x, tried |-> t] \in Frames
  /\ \A f \in Frames : f.found \in Selectable /\ f.tried \in Nat
  /\ \A p \in Prim : \A d \in 1..Sets(p) : ToSet(Prims[p][d]) \cup {Unselected} \subseteq Selectable
  BY DEF Frames, Selectable

LEMMA BeforeFacts ==
  ASSUME before \in Authored, NEW p \in Prim, NEW d \in 1..Sets(p)
  PROVE  before[p][d] \in ToSet(Prims[p][d]) \cup {Unselected} /\ before[p][d] \in Selectable
  <1>1. before[p][d] \in ToSet(Prims[p][d]) \cup {Unselected}
    BY LoadAssumption
  <1> QED BY <1>1, FrameFacts

LEMMA InitInv == Init => IInv
  <1> SUFFICES ASSUME Init PROVE IInv
    OBVIOUS
  <1>1. /\ before \in Authored /\ selection = before /\ prim = 1 /\ stack = << >> /\ pc = "enter"
        /\ visited = [p \in Prim |-> << >>] /\ referenced = {} /\ modelCache = {} /\ phase = "scan"
    BY DEF Init
  <1>2. ShapeInv
    <2>1. before = [p \in Prim |-> [d \in 1..Sets(p) |-> before[p][d]]]
      BY <1>1, LoadAssumption
    <2>2. \A p \in Prim : \A d \in 1..Sets(p) : before[p][d] \in ToSet(Prims[p][d]) \cup {Unselected}
      BY <1>1, LoadAssumption
    <2>3. DOMAIN before = Prim /\ \A p \in Prim : before[p] = [d \in 1..Sets(p) |-> before[p][d]]
      BY <2>1
    <2> QED BY <1>1, <2>2, <2>3 DEF ShapeInv
  <1>3. StackInv /\ TriedInv
    BY <1>1, PrimFacts DEF StackInv, TriedInv
  <1>4. VisitedInv /\ SelectionsRestored
    BY <1>1 DEF VisitedInv, SelectionsRestored
  <1> QED BY <1>2, <1>3, <1>4 DEF IInv

\* What the steps of the recursion need of its top frame.
LEMMA TopFrame ==
  ASSUME IInv, At("loop")
  PROVE  /\ prim \in Prim /\ stack # << >>
         /\ Len(stack) \in DOMAIN stack /\ Len(stack) \in 1..Sets(prim)
         /\ stack[Len(stack)].found = before[prim][Len(stack)]
         /\ stack[Len(stack)].tried \in 0..Len(Prims[prim][Len(stack)])
  <1>1. prim \in Prim /\ stack # << >>
    BY PrimFacts DEF At, IInv, StackInv
  <1>2. stack \in Seq(Frames)
        /\ Len(stack) <= Sets(prim)
    BY <1>1 DEF IInv, StackInv
  <1>3. Len(stack) \in Nat \ {0} /\ DOMAIN stack = 1..Len(stack)
    BY <1>1, <1>2
  <1>4. Len(stack) \in DOMAIN stack /\ Len(stack) \in 1..Sets(prim)
    BY <1>1, <1>2, <1>3, PrimFacts
  <1> QED BY <1>1, <1>4 DEF IInv, StackInv

\* A selection changed in one set of one prim.
LEMMA Selected ==
  ASSUME ShapeInv, NEW p \in Prim, NEW d \in 1..Sets(p), NEW x \in ChoicesIn(p, d)
  PROVE  LET new == [selection EXCEPT ![p] = [selection[p] EXCEPT ![d] = x]] IN
           /\ DOMAIN new = Prim
           /\ \A q \in Prim :
                /\ new[q] = [e \in 1..Sets(q) |-> new[q][e]]
                /\ \A e \in 1..Sets(q) : new[q][e] \in ToSet(Prims[q][e]) \cup {Unselected}
           /\ new[p][d] = x
           /\ \A q \in Prim : \A e \in 1..Sets(q) : q # p \/ e # d => new[q][e] = selection[q][e]
  <1> DEFINE new == [selection EXCEPT ![p] = [selection[p] EXCEPT ![d] = x]]
  <1>1. DOMAIN selection = Prim /\ DOMAIN selection[p] = 1..Sets(p)
    BY DEF ShapeInv
  <1>2. /\ DOMAIN new = Prim
        /\ new[p] = [selection[p] EXCEPT ![d] = x]
        /\ \A q \in Prim \ {p} : new[q] = selection[q]
    BY <1>1
  <1> HIDE DEF new
  <1>3. /\ DOMAIN new[p] = 1..Sets(p)
        /\ new[p][d] = x
        /\ \A e \in 1..Sets(p) \ {d} : new[p][e] = selection[p][e]
        /\ new[p] = [e \in 1..Sets(p) |-> new[p][e]]
    BY <1>1, <1>2
  <1>4. ASSUME NEW q \in Prim
        PROVE  /\ new[q] = [e \in 1..Sets(q) |-> new[q][e]]
               /\ \A e \in 1..Sets(q) : new[q][e] \in ToSet(Prims[q][e]) \cup {Unselected}
    BY <1>2, <1>3 DEF ShapeInv, ChoicesIn
  <1> QED BY <1>2, <1>3, <1>4 DEF new

\* What a visit changes: the combination selected is visited.
LEMMA VisitEffect ==
  ASSUME IInv, Visit
  PROVE  /\ pc = "enter" /\ prim \in 1..Len(Prims) /\ prim \in Prim /\ Sets(prim) \in Nat
         /\ stack \in Seq(Frames) /\ Len(stack) = Sets(prim) /\ phase = "scan"
         /\ selection[prim] \in Combinations(prim)
         /\ \A p \in Prim :
              visited'[p] = IF p = prim THEN Append(visited[p], selection[prim]) ELSE visited[p]
         /\ DOMAIN visited' = Prim
         /\ referenced' = referenced \cup Collected
         /\ \/ stack = << >> /\ prim' = prim + 1 /\ pc' = "enter"
            \/ stack # << >> /\ prim' = prim /\ pc' = "loop"
         /\ UNCHANGED <<before, selection, stack, modelCache, phase>>
  <1> USE DEF IInv
  <1>1. /\ pc = "enter" /\ prim \in 1..Len(Prims) /\ Len(stack) = Sets(prim) /\ phase = "scan"
        /\ visited' = [visited EXCEPT ![prim] = Append(@, selection[prim])]
        /\ referenced' = referenced \cup Collected
        /\ \/ stack = << >> /\ prim' = prim + 1 /\ pc' = "enter"
           \/ stack # << >> /\ prim' = prim /\ pc' = "loop"
        /\ UNCHANGED <<before, selection, stack, modelCache, phase>>
    BY PrimFacts DEF Visit, At, StackInv
  <1>2. prim \in Prim /\ Sets(prim) \in Nat
    BY <1>1, PrimFacts
  <1>3. selection[prim] \in Combinations(prim)
    <2>1. stack \in Seq(Frames)
      BY <1>2 DEF StackInv
    <2>2. \A d \in 1..Sets(prim) : selection[prim][d] \in ToSet(Prims[prim][d])
      BY <1>1, <2>1 DEF TriedInv
    <2>3. selection[prim] = [d \in 1..Sets(prim) |-> selection[prim][d]]
      BY <1>2 DEF ShapeInv
    <2>4. selection[prim] \in [1..Sets(prim) -> UNION {ToSet(Prims[prim][d]) : d \in 1..Sets(prim)}]
      BY <2>2, <2>3
    <2> QED BY <2>2, <2>4 DEF Combinations
  <1>4. DOMAIN visited' = Prim /\ \A p \in Prim :
          visited'[p] = IF p = prim THEN Append(visited[p], selection[prim]) ELSE visited[p]
    BY <1>1, <1>2 DEF VisitedInv
  <1>5. stack \in Seq(Frames)
    BY DEF StackInv
  <1> QED BY <1>1, <1>2, <1>3, <1>4, <1>5

LEMMA VisitInv ==
  ASSUME IInv, Visit
  PROVE  IInv'
  <1> USE DEF IInv
  <1>1. /\ pc = "enter" /\ prim \in 1..Len(Prims) /\ Len(stack) = Sets(prim)
        /\ referenced' = referenced \cup Collected
        /\ \/ stack = << >> /\ prim' = prim + 1 /\ pc' = "enter"
           \/ stack # << >> /\ prim' = prim /\ pc' = "loop"
        /\ UNCHANGED <<before, selection, stack, modelCache, phase>>
    BY VisitEffect
  <1>2. prim \in Prim /\ Sets(prim) \in Nat
    BY VisitEffect
  <1>3. selection[prim] \in Combinations(prim)
    BY VisitEffect
  <1>4. VisitedInv'
    <2>1. DOMAIN visited' = Prim /\ \A p \in Prim :
            visited'[p] = IF p = prim THEN Append(visited[p], selection[prim]) ELSE visited[p]
      BY VisitEffect
    <2>2. \A p \in Prim : visited'[p] \in Seq(Combinations(p))
      BY <1>3, <2>1, AppendSeq DEF VisitedInv
    <2> QED BY <1>1, <2>1, <2>2 DEF VisitedInv
  <1>5. CASE stack = << >> /\ prim' = prim + 1 /\ pc' = "enter"
    <2>1. StackInv'
      BY <1>1, <1>5, PrimFacts DEF StackInv
    <2>2. TriedInv' /\ ShapeInv'
      BY <1>1, <1>5 DEF TriedInv, ShapeInv
    <2>3. SelectionsRestored'
      <3>1. \A d \in 1..Sets(prim) : d > Len(stack)
        BY <1>5
      <3> QED BY <1>1, <1>5, <3>1 DEF SelectionsRestored
    <2> QED BY <1>4, <2>1, <2>2, <2>3
  <1>6. CASE stack # << >> /\ prim' = prim /\ pc' = "loop"
    BY <1>1, <1>4, <1>6 DEF ShapeInv, StackInv, TriedInv, SelectionsRestored
  <1> QED BY <1>1, <1>5, <1>6

\* What entering the next set changes: a frame with the selection the file has.
LEMMA EnterSetEffect ==
  ASSUME IInv, EnterSet
  PROVE  /\ pc = "enter" /\ pc' = "loop" /\ prim \in Prim /\ Sets(prim) \in Nat
         /\ stack \in Seq(Frames) /\ Len(stack) + 1 \in 1..Sets(prim)
         /\ Len(Prims[prim][Len(stack) + 1]) \in Nat
         /\ stack' \in Seq(Frames) /\ stack' # << >> /\ Len(stack') = Len(stack) + 1
         /\ DOMAIN stack' = DOMAIN stack \cup {Len(stack) + 1}
         /\ stack'[Len(stack) + 1].found = before[prim][Len(stack) + 1]
         /\ stack'[Len(stack) + 1].tried = 0
         /\ \A e \in DOMAIN stack : stack'[e] = stack[e] /\ e < Len(stack) + 1
         /\ UNCHANGED <<before, selection, prim, visited, referenced, modelCache, phase>>
  <1> USE DEF IInv
  <1> DEFINE d == Len(stack) + 1
             frame == [found |-> selection[prim][d], tried |-> 0]
  <1>1. /\ pc = "enter" /\ pc' = "loop" /\ prim \in 1..Len(Prims) /\ Len(stack) < Sets(prim)
        /\ stack' = Append(stack, frame)
        /\ UNCHANGED <<before, selection, prim, visited, referenced, modelCache, phase>>
    BY PrimFacts DEF EnterSet, At, StackInv
  <1>2. prim \in Prim /\ Sets(prim) \in Nat
        /\ stack \in Seq(Frames)
    BY <1>1, PrimFacts DEF StackInv
  <1>3. d \in 1..Sets(prim) /\ Len(Prims[prim][d]) \in Nat
    BY <1>1, <1>2, PrimFacts
  <1>4. frame.found = before[prim][d] /\ frame.tried = 0 /\ frame \in Frames
    <2>1. d > Len(stack)
      BY <1>2
    <2>2. selection[prim][d] = before[prim][d]
      BY <1>2, <1>3, <2>1 DEF SelectionsRestored
    <2>3. before[prim][d] \in Selectable
      BY <1>2, <1>3, BeforeFacts DEF ShapeInv
    <2> QED BY <2>2, <2>3, FrameFacts
  <1> HIDE DEF frame
  <1>5. /\ stack' \in Seq(Frames)
        /\ Len(stack') = d /\ DOMAIN stack' = DOMAIN stack \cup {d}
        /\ stack'[d] = frame /\ stack' # << >>
        /\ \A e \in DOMAIN stack : stack'[e] = stack[e] /\ e < d
    BY <1>1, <1>2, <1>4
  <1> QED BY <1>1, <1>2, <1>3, <1>4, <1>5

LEMMA EnterSetInv ==
  ASSUME IInv, EnterSet
  PROVE  IInv'
  <1> USE DEF IInv
  <1> DEFINE d == Len(stack) + 1
  <1>1. /\ pc = "enter" /\ pc' = "loop"
        /\ UNCHANGED <<before, selection, prim, visited, referenced, modelCache, phase>>
    BY EnterSetEffect
  <1>2. prim \in Prim /\ Sets(prim) \in Nat
        /\ stack \in Seq(Frames)
    BY EnterSetEffect
  <1>3. d \in 1..Sets(prim) /\ Len(Prims[prim][d]) \in Nat
    BY EnterSetEffect
  <1>4. stack'[d].found = before[prim][d] /\ stack'[d].tried = 0
    BY EnterSetEffect
  <1>5. /\ stack' \in Seq(Frames)
        /\ Len(stack') = d /\ DOMAIN stack' = DOMAIN stack \cup {d}
        /\ stack' # << >>
        /\ \A e \in DOMAIN stack : stack'[e] = stack[e] /\ e < d
    BY EnterSetEffect
  <1>6. StackInv'
    <2>1. \A e \in DOMAIN stack' :
            stack'[e].found = before[prim][e] /\ stack'[e].tried \in 0..Len(Prims[prim][e])
      BY <1>2, <1>3, <1>4, <1>5 DEF StackInv
    <2> QED BY <1>1, <1>2, <1>3, <1>5, <2>1 DEF StackInv
  <1>7. TriedInv'
    BY <1>1, <1>5 DEF TriedInv
  <1>8. SelectionsRestored'
    <2>1. \A e \in Nat : e > d => e > Len(stack)
      BY <1>2
    <2> QED BY <1>1, <1>5, <2>1, PrimFacts DEF SelectionsRestored
  <1> QED BY <1>1, <1>6, <1>7, <1>8 DEF ShapeInv, VisitedInv

\* What selecting the next variant of the top set changes.
LEMMA TryVariantEffect ==
  ASSUME IInv, TryVariant
  PROVE  /\ At("loop") /\ pc' = "enter"
         /\ prim \in Prim /\ Len(stack) \in DOMAIN stack /\ Len(stack) \in 1..Sets(prim)
         /\ stack[Len(stack)].found = before[prim][Len(stack)]
         /\ stack[Len(stack)].tried \in 0..Len(Prims[prim][Len(stack)])
         /\ stack[Len(stack)].tried + 1 \in 1..Len(Prims[prim][Len(stack)])
         /\ stack \in Seq(Frames)
         /\ ShapeInv'
         /\ selection'[prim][Len(stack)] = Prims[prim][Len(stack)][stack[Len(stack)].tried + 1]
         /\ \A q \in Prim : \A e \in 1..Sets(q) :
              q # prim \/ e # Len(stack) => selection'[q][e] = selection[q][e]
         /\ stack' \in Seq(Frames) /\ Len(stack') = Len(stack) /\ DOMAIN stack' = DOMAIN stack
         /\ stack'[Len(stack)].found = stack[Len(stack)].found
         /\ stack'[Len(stack)].tried = stack[Len(stack)].tried + 1
         /\ \A e \in DOMAIN stack \ {Len(stack)} : stack'[e] = stack[e]
         /\ UNCHANGED <<before, prim, visited, referenced, modelCache, phase>>
  <1> USE DEF IInv
  <1> DEFINE d == Len(stack)
             x == Prims[prim][d][stack[d].tried + 1]
  <1>1. /\ At("loop") /\ pc' = "enter" /\ stack[d].tried < Len(Prims[prim][d])
        /\ selection' = [selection EXCEPT ![prim][d] = x]
        /\ stack' = [stack EXCEPT ![d].tried = @ + 1]
        /\ UNCHANGED <<before, prim, visited, referenced, modelCache, phase>>
    BY DEF TryVariant
  <1>2. /\ prim \in Prim /\ d \in DOMAIN stack /\ d \in 1..Sets(prim)
        /\ stack[d].found = before[prim][d] /\ stack[d].tried \in 0..Len(Prims[prim][d])
        /\ stack \in Seq(Frames)
    BY <1>1, TopFrame DEF StackInv
  <1>3. stack[d].tried + 1 \in 1..Len(Prims[prim][d]) /\ x \in ToSet(Prims[prim][d])
    BY <1>1, <1>2, PrimFacts
  <1> HIDE DEF x
  <1>4. /\ ShapeInv' /\ selection'[prim][d] = x
        /\ \A q \in Prim : \A e \in 1..Sets(q) :
             q # prim \/ e # d => selection'[q][e] = selection[q][e]
    <2>1. selection' = [selection EXCEPT ![prim] = [selection[prim] EXCEPT ![d] = x]]
      BY <1>1, <1>2 DEF ShapeInv
    <2>2. ShapeInv /\ before' = before /\ prim \in Prim /\ d \in 1..Sets(prim)
      BY <1>1, <1>2
    <2> DEFINE new == [selection EXCEPT ![prim] = [selection[prim] EXCEPT ![d] = x]]
    <2> HIDE DEF d
    <2>3. x \in ChoicesIn(prim, d)
      BY <1>3 DEF ChoicesIn, d
    <2>4. /\ DOMAIN new = Prim
          /\ \A q \in Prim :
               /\ new[q] = [e \in 1..Sets(q) |-> new[q][e]]
               /\ \A e \in 1..Sets(q) : new[q][e] \in ToSet(Prims[q][e]) \cup {Unselected}
          /\ new[prim][d] = x
          /\ \A q \in Prim : \A e \in 1..Sets(q) : q # prim \/ e # d => new[q][e] = selection[q][e]
      BY <2>2, <2>3, Selected
    <2> HIDE DEF new
    <2> QED BY <2>1, <2>2, <2>4 DEF ShapeInv, new
  <1>5. /\ stack' \in Seq(Frames)
        /\ Len(stack') = d /\ DOMAIN stack' = DOMAIN stack
        /\ stack'[d].found = stack[d].found /\ stack'[d].tried = stack[d].tried + 1
        /\ \A e \in DOMAIN stack \ {d} : stack'[e] = stack[e]
    <2> DEFINE f == stack[d]
               g == [f EXCEPT !.tried = f.tried + 1]
    <2>1. f \in Frames
      BY <1>2, ElementOf
    <2>2. g \in Frames /\ g.found = f.found /\ g.tried = f.tried + 1
      BY <2>1 DEF Frames
    <2>3. stack' = [stack EXCEPT ![d] = g]
      BY <1>1, <1>2
    <2> HIDE DEF g
    <2> QED BY <1>2, <2>2, <2>3, ReplaceElement
  <1> QED BY <1>1, <1>2, <1>3, <1>4, <1>5 DEF x

LEMMA TryVariantInv ==
  ASSUME IInv, TryVariant
  PROVE  IInv'
  <1> USE DEF IInv
  <1> DEFINE d == Len(stack)
             x == Prims[prim][d][stack[d].tried + 1]
  <1>1. /\ At("loop") /\ pc' = "enter"
        /\ UNCHANGED <<before, prim, visited, referenced, modelCache, phase>>
    BY TryVariantEffect
  <1>2. /\ prim \in Prim /\ d \in DOMAIN stack /\ d \in 1..Sets(prim)
        /\ stack[d].found = before[prim][d] /\ stack[d].tried \in 0..Len(Prims[prim][d])
        /\ stack \in Seq(Frames)
    BY TryVariantEffect
  <1>3. stack[d].tried + 1 \in 1..Len(Prims[prim][d]) /\ x \in ToSet(Prims[prim][d])
    BY <1>2, TryVariantEffect, PrimFacts
  <1>4. /\ ShapeInv' /\ selection'[prim][d] = x
        /\ \A q \in Prim : \A e \in 1..Sets(q) :
             q # prim \/ e # d => selection'[q][e] = selection[q][e]
    BY TryVariantEffect
  <1>5. /\ stack' \in Seq(Frames)
        /\ Len(stack') = d /\ DOMAIN stack' = DOMAIN stack
        /\ stack'[d].found = stack[d].found /\ stack'[d].tried = stack[d].tried + 1
        /\ \A e \in DOMAIN stack \ {d} : stack'[e] = stack[e]
    BY TryVariantEffect
  <1> HIDE DEF x
  <1>6. StackInv'
    BY <1>1, <1>2, <1>3, <1>5 DEF StackInv
  <1>7. TriedInv'
    <2>1. ASSUME NEW e \in DOMAIN stack PROVE selection'[prim][e] \in ToSet(Prims[prim][e])
      <3>1. Sets(prim) \in Nat /\ e \in 1..d
        BY <1>2, PrimFacts
      <3>2. e \in 1..Sets(prim) /\ (e = d \/ e < d)
        BY <1>2, <3>1
      <3>3. CASE e = d
        BY <1>3, <1>4, <3>3
      <3>4. CASE e < d
        BY <1>2, <1>4, <3>2, <3>4 DEF TriedInv
      <3> QED BY <3>2, <3>3, <3>4
    <2> QED BY <1>1, <1>5, <2>1 DEF TriedInv
  <1>8. SelectionsRestored'
    <2>1. \A e \in 1..Sets(prim) : e > d => e # d
      BY <1>2
    <2>2. \A p \in Prim : \A e \in 1..Sets(p) : p # prim \/ e > d => selection'[p][e] = before[p][e]
      BY <1>4, <2>1 DEF SelectionsRestored
    <2> QED BY <1>1, <1>5, <2>2 DEF SelectionsRestored
  <1> QED BY <1>1, <1>4, <1>6, <1>7, <1>8 DEF VisitedInv

\* What putting back the selection of the top set changes.
LEMMA RestoreSetEffect ==
  ASSUME IInv, RestoreSet
  PROVE  /\ pc = "loop" /\ stack # << >> /\ stack \in Seq(Frames)
         /\ prim \in Prim /\ Len(stack) \in DOMAIN stack /\ Len(stack) \in 1..Sets(prim)
         /\ ShapeInv'
         /\ selection'[prim][Len(stack)] = before[prim][Len(stack)]
         /\ \A q \in Prim : \A e \in 1..Sets(q) :
              q # prim \/ e # Len(stack) => selection'[q][e] = selection[q][e]
         /\ stack' \in Seq(Frames) /\ Len(stack') = Len(stack) - 1 /\ Len(stack) - 1 \in Nat
         /\ DOMAIN stack' = 1..(Len(stack) - 1)
         /\ \A e \in DOMAIN stack' : stack'[e] = stack[e] /\ e \in DOMAIN stack /\ e < Len(stack)
         /\ \/ Len(stack) = 1 /\ prim' = prim + 1 /\ pc' = "enter"
            \/ Len(stack) # 1 /\ prim' = prim /\ pc' = pc
         /\ UNCHANGED <<before, visited, referenced, modelCache, phase>>
  <1> USE DEF IInv
  <1> DEFINE d == Len(stack)
             x == stack[d].found
  <1>1. /\ At("loop")
        /\ selection' = [selection EXCEPT ![prim][d] = x]
        /\ stack' = Front(stack)
        /\ \/ d = 1 /\ prim' = prim + 1 /\ pc' = "enter"
           \/ d # 1 /\ prim' = prim /\ pc' = pc
        /\ UNCHANGED <<before, visited, referenced, modelCache, phase>>
    BY DEF RestoreSet
  <1>2. /\ prim \in Prim /\ d \in DOMAIN stack /\ d \in 1..Sets(prim)
        /\ x = before[prim][d]
        /\ stack \in Seq(Frames) /\ stack # << >>
        /\ pc = "loop"
    BY <1>1, TopFrame DEF StackInv, At
  <1>3. x \in ToSet(Prims[prim][d]) \cup {Unselected}
    BY <1>2, BeforeFacts DEF ShapeInv
  <1> HIDE DEF x
  <1>4. /\ ShapeInv' /\ selection'[prim][d] = x
        /\ \A q \in Prim : \A e \in 1..Sets(q) :
             q # prim \/ e # d => selection'[q][e] = selection[q][e]
    <2>1. selection' = [selection EXCEPT ![prim] = [selection[prim] EXCEPT ![d] = x]]
      BY <1>1, <1>2 DEF ShapeInv
    <2>2. ShapeInv /\ before' = before /\ prim \in Prim /\ d \in 1..Sets(prim)
      BY <1>1, <1>2
    <2> DEFINE new == [selection EXCEPT ![prim] = [selection[prim] EXCEPT ![d] = x]]
    <2> HIDE DEF d
    <2>3. x \in ChoicesIn(prim, d)
      BY <1>3 DEF ChoicesIn, d
    <2>4. /\ DOMAIN new = Prim
          /\ \A q \in Prim :
               /\ new[q] = [e \in 1..Sets(q) |-> new[q][e]]
               /\ \A e \in 1..Sets(q) : new[q][e] \in ToSet(Prims[q][e]) \cup {Unselected}
          /\ new[prim][d] = x
          /\ \A q \in Prim : \A e \in 1..Sets(q) : q # prim \/ e # d => new[q][e] = selection[q][e]
      BY <2>2, <2>3, Selected
    <2> HIDE DEF new
    <2> QED BY <2>1, <2>2, <2>4 DEF ShapeInv, new
  <1>5. /\ stack' \in Seq(Frames)
        /\ Len(stack') = d - 1 /\ DOMAIN stack' = 1..(d - 1) /\ d - 1 \in Nat
        /\ \A e \in DOMAIN stack' : stack'[e] = stack[e] /\ e \in DOMAIN stack /\ e < d
    BY <1>1, <1>2, FrontOf
  <1> QED BY <1>1, <1>2, <1>4, <1>5

LEMMA RestoreSetInv ==
  ASSUME IInv, RestoreSet
  PROVE  IInv'
  <1> USE DEF IInv
  <1> DEFINE d == Len(stack)
  <1>1. /\ \/ d = 1 /\ prim' = prim + 1 /\ pc' = "enter"
           \/ d # 1 /\ prim' = prim /\ pc' = pc
        /\ UNCHANGED <<before, visited, referenced, modelCache, phase>>
    BY RestoreSetEffect
  <1>2. /\ prim \in Prim /\ d \in DOMAIN stack /\ d \in 1..Sets(prim)
        /\ stack \in Seq(Frames) /\ stack # << >>
        /\ pc = "loop"
    BY RestoreSetEffect
  <1>4. /\ ShapeInv' /\ selection'[prim][d] = before[prim][d]
        /\ \A q \in Prim : \A e \in 1..Sets(q) :
             q # prim \/ e # d => selection'[q][e] = selection[q][e]
    BY RestoreSetEffect
  <1>5. /\ stack' \in Seq(Frames)
        /\ Len(stack') = d - 1 /\ DOMAIN stack' = 1..(d - 1) /\ d - 1 \in Nat
        /\ \A e \in DOMAIN stack' : stack'[e] = stack[e] /\ e \in DOMAIN stack /\ e < d
    BY RestoreSetEffect
  <1>6. \A p \in Prim : \A e \in 1..Sets(p) : p # prim \/ e > d - 1 => selection'[p][e] = before[p][e]
    <2> SUFFICES ASSUME NEW p \in Prim, NEW e \in 1..Sets(p), p # prim \/ e > d - 1
                 PROVE  selection'[p][e] = before[p][e]
      OBVIOUS
    <2>1. CASE p = prim /\ e = d
      BY <1>2, <1>4, <2>1
    <2>2. CASE p # prim \/ e # d
      <3>1. p # prim \/ e > d
        BY <1>2, <2>2, PrimFacts
      <3> QED BY <1>4, <2>2, <3>1 DEF SelectionsRestored
    <2> QED BY <2>1, <2>2
  <1>7. CASE d = 1 /\ prim' = prim + 1 /\ pc' = "enter"
    <2>1. stack' = << >>
      BY <1>5, <1>7
    <2>2. StackInv' /\ TriedInv'
      BY <1>1, <1>2, <1>7, <2>1, PrimFacts DEF StackInv, TriedInv
    <2>3. SelectionsRestored'
      <3>1. \A p \in Prim : \A e \in 1..Sets(p) : e > d - 1
        BY <1>7
      <3> QED BY <1>1, <1>6, <3>1 DEF SelectionsRestored
    <2> QED BY <1>1, <1>4, <2>2, <2>3 DEF VisitedInv
  <1>8. CASE d # 1 /\ prim' = prim /\ pc' = pc
    <2>1. stack' # << >> /\ Len(stack') <= Sets(prim)
      BY <1>2, <1>5, <1>8, PrimFacts
    <2>2. StackInv'
      BY <1>1, <1>2, <1>5, <1>8, <2>1 DEF StackInv
    <2>3. TriedInv'
      <3>1. \A e \in DOMAIN stack' : e \in 1..Sets(prim) /\ e < d
        BY <1>2, <1>5, PrimFacts
      <3> QED BY <1>2, <1>4, <1>5, <1>8, <3>1 DEF TriedInv
    <2>4. SelectionsRestored'
      BY <1>1, <1>5, <1>6, <1>8 DEF SelectionsRestored
    <2> QED BY <1>1, <1>4, <2>2, <2>3, <2>4 DEF VisitedInv
  <1> QED BY <1>1, <1>7, <1>8
---------------------------------------------------------------------------
LEMMA NextInv ==
  ASSUME IInv, [Next]_vars
  PROVE  IInv'
  <1>1. CASE Visit
    BY <1>1, VisitInv
  <1>2. CASE EnterSet
    BY <1>2, EnterSetInv
  <1>3. CASE TryVariant
    BY <1>3, TryVariantInv
  <1>4. CASE RestoreSet
    BY <1>4, RestoreSetInv
  <1>5. CASE ScanDone \/ LoadModels \/ UNCHANGED vars
    BY <1>5 DEF ScanDone, LoadModels, vars, IInv, ShapeInv, StackInv, TriedInv, VisitedInv,
                SelectionsRestored
  <1> QED BY <1>1, <1>2, <1>3, <1>4, <1>5 DEF Next

LEMMA Invariance == Spec => []IInv
  BY InitInv, NextInv, PTL DEF Spec

\* The scan's variables keep their types, and it looks at prims under combinations of
\* their own variants only.
THEOREM TypeCorrect == Spec => []TypeOK
  <1>1. IInv => TypeOK
    <2> SUFFICES ASSUME IInv PROVE TypeOK
      OBVIOUS
    <2>1. \A p \in Prim : ToSet(visited[p]) \subseteq Combinations(p)
      BY DEF IInv, VisitedInv, ToSet
    <2>2. prim \in Prim => Len(stack) <= Sets(prim) /\ \A d \in DOMAIN stack : stack[d] \in Frame(prim, d)
      <3> SUFFICES ASSUME prim \in Prim, NEW d \in DOMAIN stack PROVE stack[d] \in Frame(prim, d)
        BY DEF IInv, StackInv
      <3>1. /\ stack \in Seq(Frames)
            /\ Len(stack) <= Sets(prim)
        BY DEF IInv, StackInv
      <3>2. stack[d] \in Frames
            /\ d \in 1..Sets(prim)
        BY <3>1, PrimFacts
      <3>3. before[prim][d] \in ToSet(Prims[prim][d]) \cup {Unselected}
        BY <3>2, LoadAssumption DEF IInv, ShapeInv
      <3>4. stack[d].found = before[prim][d] /\ stack[d].tried \in 0..Len(Prims[prim][d])
        BY DEF IInv, StackInv
      <3>5. stack[d] = [found |-> stack[d].found, tried |-> stack[d].tried]
        BY <3>2 DEF Frames
      <3> QED BY <3>3, <3>4, <3>5 DEF Frame
    <2> QED BY <2>1, <2>2 DEF TypeOK, IInv, ShapeInv, StackInv, VisitedInv
  <1> QED BY <1>1, Invariance, PTL

\* For any prims and variant sets: what is selected in a set that is not being tried is
\* what the file has there, so that the scan leaves the stage as it was.
THEOREM Restored == Spec => []SelectionsRestored
  <1>1. IInv => SelectionsRestored
    BY DEF IInv
  <1> QED BY <1>1, Invariance, PTL
---------------------------------------------------------------------------
\* A set being tried has its last variant tried selected, but for the last set, whose
\* loop may not have begun or may just be through.
ChosenInv ==
  \A d \in 1..Len(stack) :
    d < Len(stack) \/ pc = "enter" =>
      stack[d].tried > 0 /\ selection[prim][d] = Prims[prim][d][stack[d].tried]

\* The combinations the recursion is through with: in some set being tried they have a
\* variant tried before the present one, and what is selected in the sets above it.  A
\* loop that a call has returned to is through with the present variant as well.
Passed(c) ==
  \E d \in 1..Len(stack) :
    /\ \A e \in 1..(d - 1) : c[e] = selection[prim][e]
    /\ \E k \in 1..stack[d].tried :
         /\ c[d] = Prims[prim][d][k]
         /\ k < stack[d].tried \/ (pc = "loop" /\ d = Len(stack))

\* Visits so far: all of the prims before, those passed of the present one, none of the
\* prims after, and none twice.
CoverInv ==
  /\ \A p \in Prim : IsInjective(visited[p])
  /\ \A p \in Prim : p < prim => ToSet(visited[p]) = Combinations(p)
  /\ \A p \in Prim : p > prim => visited[p] = << >>
  /\ prim \in Prim => \A c \in Combinations(prim) : c \in ToSet(visited[prim]) <=> Passed(c)
  /\ phase # "scan" => prim > Len(Prims)

ScanInv == ChosenInv /\ CoverInv

\* A combination has one of the variants in each set; a variant is listed once.
LEMMA CombinationFacts ==
  ASSUME NEW p \in Prim
  PROVE  /\ \A c \in Combinations(p) :
              /\ c = [d \in 1..Sets(p) |-> c[d]]
              /\ \A d \in 1..Sets(p) : \E k \in 1..Len(Prims[p][d]) : c[d] = Prims[p][d][k]
         /\ \A d \in 1..Sets(p) : \A j, k \in 1..Len(Prims[p][d]) :
              Prims[p][d][j] = Prims[p][d][k] => j = k
  <1>1. ASSUME NEW d \in 1..Sets(p)
        PROVE  /\ DOMAIN Prims[p][d] = 1..Len(Prims[p][d])
               /\ IsInjective(Prims[p][d])
    BY LoadAssumption
  <1>2. \A c \in Combinations(p) :
          /\ c = [d \in 1..Sets(p) |-> c[d]]
          /\ \A d \in 1..Sets(p) : c[d] \in ToSet(Prims[p][d])
    BY DEF Combinations
  <1>3. \A c \in Combinations(p) : \A d \in 1..Sets(p) :
          \E k \in 1..Len(Prims[p][d]) : c[d] = Prims[p][d][k]
    BY <1>1, <1>2 DEF ToSet
  <1>4. \A d \in 1..Sets(p) : \A j, k \in 1..Len(Prims[p][d]) :
          Prims[p][d][j] = Prims[p][d][k] => j = k
    BY <1>1 DEF IsInjective
  <1> QED BY <1>2, <1>3, <1>4

\* A new element appended: none occurs twice.
LEMMA AppendNew ==
  ASSUME NEW S, NEW s \in Seq(S), NEW x \in S
  PROVE  /\ \A y : y \in ToSet(Append(s, x)) <=> y \in ToSet(s) \/ y = x
         /\ IsInjective(s) /\ x \notin ToSet(s) => IsInjective(Append(s, x))
  <1> DEFINE t == Append(s, x)
  <1>1. /\ Len(s) \in Nat /\ DOMAIN s = 1..Len(s) /\ DOMAIN t = 1..(Len(s) + 1)
        /\ \A n \in 1..Len(s) : t[n] = s[n]
        /\ t[Len(s) + 1] = x
    OBVIOUS
  <1> HIDE DEF t
  <1>2. PICK size \in Nat : size = Len(s)
    BY <1>1
  <1>3. \A n \in DOMAIN t : (n \in DOMAIN s /\ t[n] = s[n]) \/ (n = size + 1 /\ t[n] = x)
    <2>1. \A n \in 1..(size + 1) : n \in 1..size \/ n = size + 1
      OBVIOUS
    <2>2. /\ DOMAIN s = 1..size /\ DOMAIN t = 1..(size + 1)
          /\ \A n \in 1..size : t[n] = s[n]
          /\ t[size + 1] = x
      BY <1>1, <1>2
    <2> QED BY <2>1, <2>2
  <1>4. /\ \A n \in DOMAIN s : n \in DOMAIN t /\ t[n] = s[n] /\ n # size + 1
        /\ size + 1 \in DOMAIN t /\ t[size + 1] = x
    BY <1>1, <1>2
  <1>5. \A y : y \in ToSet(t) <=> y \in ToSet(s) \/ y = x
    BY <1>3, <1>4 DEF ToSet
  <1>6. ASSUME IsInjective(s), x \notin ToSet(s) PROVE IsInjective(t)
    <2>1. \A n \in DOMAIN s : s[n] # x
      BY <1>6 DEF ToSet
    <2>2. \A a, b \in DOMAIN s : s[a] = s[b] => a = b
      BY <1>6 DEF IsInjective
    <2>3. \A a, b \in DOMAIN t : t[a] = t[b] => a = b
      BY <1>3, <2>1, <2>2
    <2> QED BY <2>3 DEF IsInjective
  <1> QED BY <1>5, <1>6 DEF t

\* What the invariant says of the frames, the variants tried and the visits.
LEMMA FramesTried ==
  ASSUME IInv
  PROVE  /\ stack \in Seq(Frames) /\ Len(stack) \in Nat /\ DOMAIN stack = 1..Len(stack)
         /\ prim \in Nat /\ DOMAIN visited = Prim
         /\ \A p \in Prim : visited[p] \in Seq(Combinations(p))
         /\ prim \in Prim =>
              /\ Len(stack) <= Sets(prim)
              /\ \A d \in 1..Len(stack) :
                   d \in 1..Sets(prim) /\ stack[d].tried \in 0..Len(Prims[prim][d])
                   /\ stack[d].tried \in Nat
  <1>1. stack \in Seq(Frames) /\ prim \in Nat
    BY PrimFacts DEF IInv, StackInv
  <1>2. Len(stack) \in Nat /\ DOMAIN stack = 1..Len(stack)
    BY <1>1
  <1>3. ASSUME prim \in Prim
        PROVE  /\ Len(stack) <= Sets(prim)
               /\ \A d \in 1..Len(stack) :
                    d \in 1..Sets(prim) /\ stack[d].tried \in 0..Len(Prims[prim][d])
    BY <1>2, <1>3, PrimFacts DEF IInv, StackInv
  <1>4. ASSUME prim \in Prim, NEW d \in 1..Len(stack) PROVE stack[d].tried \in Nat
    BY <1>3, <1>4, PrimFacts
  <1> QED BY <1>1, <1>2, <1>3, <1>4 DEF IInv, VisitedInv

\* A visit passes the combination selected, and no other.
LEMMA VisitScan ==
  ASSUME IInv, ScanInv, Visit
  PROVE  ScanInv'
  <1> DEFINE chosen == selection[prim]
  <1>1. /\ pc = "enter" /\ prim \in 1..Len(Prims) /\ prim \in Prim /\ Sets(prim) \in Nat
        /\ Len(stack) = Sets(prim) /\ phase = "scan"
        /\ chosen \in Combinations(prim)
        /\ \A p \in Prim : visited'[p] = IF p = prim THEN Append(visited[p], chosen) ELSE visited[p]
        /\ UNCHANGED <<selection, stack, phase>>
    BY VisitEffect
  <1>2. \/ stack = << >> /\ prim' = prim + 1 /\ pc' = "enter"
        \/ stack # << >> /\ prim' = prim /\ pc' = "loop"
    BY VisitEffect
  <1>3. /\ Len(stack) \in Nat /\ prim \in Nat
        /\ \A p \in Prim : visited[p] \in Seq(Combinations(p)) /\ p \in Nat
        /\ \A d \in 1..Len(stack) :
             d \in 1..Sets(prim) /\ stack[d].tried \in 0..Len(Prims[prim][d])
             /\ stack[d].tried \in Nat
    BY <1>1, FramesTried, PrimFacts
  <1>4. ChosenInv /\ CoverInv
    BY DEF ScanInv
  <1>5. \A d \in 1..Len(stack) :
          stack[d].tried > 0 /\ chosen[d] = Prims[prim][d][stack[d].tried]
    BY <1>1, <1>4 DEF ChosenInv
  <1> HIDE DEF chosen
  <1>6. ~Passed(chosen)
    <2>1. SUFFICES ASSUME NEW d \in 1..Len(stack), NEW k \in 1..stack[d].tried,
                          chosen[d] = Prims[prim][d][k], k < stack[d].tried
                   PROVE  FALSE
      BY <1>1 DEF Passed
    <2>2. /\ k \in 1..Len(Prims[prim][d]) /\ stack[d].tried \in 1..Len(Prims[prim][d])
          /\ d \in 1..Sets(prim) /\ k # stack[d].tried
      BY <1>1, <1>3, <1>5, <2>1, PrimFacts
    <2> QED BY <1>1, <1>5, <2>1, <2>2, CombinationFacts
  <1>7. /\ \A c : c \in ToSet(visited'[prim]) <=> c \in ToSet(visited[prim]) \/ c = chosen
        /\ IsInjective(visited'[prim])
    <2>1. chosen \notin ToSet(visited[prim]) /\ IsInjective(visited[prim])
      BY <1>1, <1>4, <1>6 DEF CoverInv
    <2>2. visited[prim] \in Seq(Combinations(prim)) /\ visited'[prim] = Append(visited[prim], chosen)
      BY <1>1, <1>3
    <2> QED BY <1>1, <2>1, <2>2, AppendNew
  <1>8. \A p \in Prim : IsInjective(visited'[p])
    BY <1>1, <1>4, <1>7 DEF CoverInv
  <1>9. \A c \in Combinations(prim) : (\A d \in 1..Sets(prim) : c[d] = chosen[d]) => c = chosen
    BY <1>1, CombinationFacts
  <1>10. CASE stack = << >> /\ prim' = prim + 1 /\ pc' = "enter"
    <2>1. Sets(prim) = 0 /\ \A c \in Combinations(prim) : c = chosen
      BY <1>1, <1>9, <1>10
    <2>2. ToSet(visited'[prim]) = Combinations(prim)
      <3>1. \A c \in ToSet(visited[prim]) : c \in Combinations(prim)
        BY <1>1, <1>3 DEF ToSet
      <3> QED BY <1>1, <1>7, <2>1, <3>1
    <2>3. /\ \A p \in Prim : p < prim' => p < prim \/ p = prim
          /\ \A p \in Prim : p > prim' \/ p = prim' => p > prim /\ p # prim
      BY <1>3, <1>10
    <2>4. \A p \in Prim : p < prim' => ToSet(visited'[p]) = Combinations(p)
      BY <1>1, <1>4, <2>2, <2>3 DEF CoverInv
    <2>5. \A p \in Prim : p > prim' \/ p = prim' => visited'[p] = << >>
      BY <1>1, <1>4, <2>3 DEF CoverInv
    <2>6. prim' \in Prim => \A c \in Combinations(prim') : c \in ToSet(visited'[prim']) <=> Passed(c)'
      <3>1. \A c : ~Passed(c)'
        BY <1>1, <1>10 DEF Passed
      <3>2. \A c : c \notin ToSet(<< >>)
        BY DEF ToSet
      <3> QED BY <2>5, <3>1, <3>2
    <2>7. ChosenInv'
      BY <1>1, <1>10 DEF ChosenInv
    <2>8. CoverInv'
      BY <1>1, <1>8, <2>4, <2>5, <2>6 DEF CoverInv
    <2> QED BY <2>7, <2>8 DEF ScanInv
  <1>11. CASE stack # << >> /\ prim' = prim /\ pc' = "loop"
    <2>1. Len(stack) \in 1..Len(stack)
      BY <1>3, <1>11, FramesTried
    <2>2. ASSUME NEW c \in Combinations(prim) PROVE Passed(c)' <=> Passed(c) \/ c = chosen
      <3>1. ASSUME Passed(c) PROVE Passed(c)'
        BY <1>1, <1>11, <3>1 DEF Passed
      <3>2. ASSUME c = chosen PROVE Passed(c)'
        <4>1. \A e \in 1..(Len(stack) - 1) : c[e] = selection[prim][e]
          BY <3>2 DEF chosen
        <4>2. /\ stack[Len(stack)].tried \in 1..stack[Len(stack)].tried
              /\ c[Len(stack)] = Prims[prim][Len(stack)][stack[Len(stack)].tried]
          BY <1>3, <1>5, <2>1, <3>2
        <4> QED BY <1>1, <1>11, <2>1, <4>1, <4>2 DEF Passed
      <3>3. ASSUME Passed(c)', ~Passed(c) PROVE c = chosen
        <4>1. PICK d \in 1..Len(stack) :
                /\ \A e \in 1..(d - 1) : c[e] = selection[prim][e]
                /\ \E k \in 1..stack[d].tried :
                     /\ c[d] = Prims[prim][d][k]
                     /\ k < stack[d].tried \/ d = Len(stack)
          BY <1>1, <1>11, <3>3 DEF Passed
        <4>2. PICK k \in 1..stack[d].tried :
                c[d] = Prims[prim][d][k] /\ (k < stack[d].tried \/ d = Len(stack))
          BY <4>1
        <4>3. ~(k < stack[d].tried)
          BY <3>3, <4>1, <4>2 DEF Passed
        <4>4. d = Len(stack) /\ k = stack[d].tried
          BY <1>3, <4>1, <4>2, <4>3
        <4>5. c[d] = chosen[d] /\ \A e \in 1..(d - 1) : c[e] = chosen[e]
          BY <1>5, <4>1, <4>2, <4>4 DEF chosen
        <4>6. \A e \in 1..Sets(prim) : e = d \/ e \in 1..(d - 1)
          BY <1>1, <4>4
        <4> QED BY <1>9, <4>5, <4>6
      <3> QED BY <3>1, <3>2, <3>3
    <2>3. \A c \in Combinations(prim) : c \in ToSet(visited'[prim]) <=> Passed(c)'
      BY <1>1, <1>4, <1>7, <2>2 DEF CoverInv
    <2>4. ChosenInv'
      <3>1. \A d \in 1..Len(stack) :
              stack[d].tried > 0 /\ selection[prim][d] = Prims[prim][d][stack[d].tried]
        BY <1>5 DEF chosen
      <3> QED BY <1>1, <1>11, <3>1 DEF ChosenInv
    <2>5. \A p \in Prim : p # prim => visited'[p] = visited[p]
      BY <1>1
    <2>6. CoverInv'
      BY <1>1, <1>3, <1>4, <1>8, <1>11, <2>3, <2>5 DEF CoverInv
    <2> QED BY <2>4, <2>6 DEF ScanInv
  <1> QED BY <1>2, <1>10, <1>11

\* Entering a set passes nothing.
LEMMA EnterSetScan ==
  ASSUME IInv, ScanInv, EnterSet
  PROVE  ScanInv'
  <1>1. /\ pc = "enter" /\ pc' = "loop" /\ prim \in Prim
        /\ Len(stack') = Len(stack) + 1
        /\ stack'[Len(stack) + 1].tried = 0
        /\ \A e \in DOMAIN stack : stack'[e] = stack[e]
        /\ UNCHANGED <<selection, prim, visited, phase>>
    BY EnterSetEffect
  <1>2. Len(stack) \in Nat /\ DOMAIN stack = 1..Len(stack)
    BY FramesTried
  <1>3. ChosenInv /\ CoverInv
    BY DEF ScanInv
  <1>4. /\ \A d \in 1..Len(stack') : d \in 1..Len(stack) \/ (d = Len(stack) + 1 /\ d = Len(stack'))
        /\ \A d \in 1..Len(stack) : d \in 1..Len(stack') /\ d # Len(stack') /\ stack'[d] = stack[d]
    <2>1. PICK size \in Nat : size = Len(stack)
      BY <1>2
    <2>2. \A d \in 1..(size + 1) : d \in 1..size \/ d = size + 1
      OBVIOUS
    <2>3. \A d \in 1..size : d \in 1..(size + 1) /\ d # size + 1
      OBVIOUS
    <2> QED BY <1>1, <1>2, <2>1, <2>2, <2>3
  <1>5. ChosenInv'
    <2> SUFFICES ASSUME NEW d \in 1..Len(stack'), d < Len(stack')
                 PROVE  stack'[d].tried > 0 /\ selection[prim][d] = Prims[prim][d][stack'[d].tried]
      BY <1>1 DEF ChosenInv
    <2>1. d \in 1..Len(stack) /\ stack'[d] = stack[d]
      BY <1>1, <1>2, <1>4
    <2> QED BY <1>1, <1>3, <2>1 DEF ChosenInv
  <1>6. \A c : Passed(c)' <=> Passed(c)
    <2>1. TAKE c
    <2>2. ASSUME Passed(c) PROVE Passed(c)'
      <3>1. PICK d \in 1..Len(stack) :
              /\ \A e \in 1..(d - 1) : c[e] = selection[prim][e]
              /\ \E k \in 1..stack[d].tried : c[d] = Prims[prim][d][k] /\ k < stack[d].tried
        BY <1>1, <2>2 DEF Passed
      <3>2. d \in 1..Len(stack') /\ stack'[d] = stack[d]
        BY <1>4
      <3> QED BY <1>1, <3>1, <3>2 DEF Passed
    <2>3. ASSUME Passed(c)' PROVE Passed(c)
      <3>1. PICK d \in 1..Len(stack') :
              /\ \A e \in 1..(d - 1) : c[e] = selection[prim][e]
              /\ \E k \in 1..stack'[d].tried :
                   c[d] = Prims[prim][d][k] /\ (k < stack'[d].tried \/ d = Len(stack'))
        BY <1>1, <2>3 DEF Passed
      <3>2. d # Len(stack) + 1
        BY <1>1, <3>1
      <3>3. d \in 1..Len(stack) /\ d # Len(stack') /\ stack'[d] = stack[d]
        BY <1>4, <3>2
      <3> QED BY <3>1, <3>3 DEF Passed
    <2> QED BY <2>2, <2>3
  <1>7. CoverInv'
    BY <1>1, <1>3, <1>6 DEF CoverInv
  <1> QED BY <1>5, <1>7 DEF ScanInv

\* Selecting the next variant passes nothing more: the loop was through with the one
\* before.
LEMMA TryVariantScan ==
  ASSUME IInv, ScanInv, TryVariant
  PROVE  ScanInv'
  <1>1. /\ pc = "loop" /\ pc' = "enter" /\ prim \in Prim
        /\ Len(stack) \in 1..Len(stack) /\ Len(stack) \in 1..Sets(prim)
        /\ selection'[prim][Len(stack)] = Prims[prim][Len(stack)][stack[Len(stack)].tried + 1]
        /\ \A e \in 1..Sets(prim) : e # Len(stack) => selection'[prim][e] = selection[prim][e]
        /\ Len(stack') = Len(stack)
        /\ stack'[Len(stack)].tried = stack[Len(stack)].tried + 1
        /\ \A e \in 1..Len(stack) : e # Len(stack) => stack'[e] = stack[e]
        /\ UNCHANGED <<prim, visited, phase>>
    BY TryVariantEffect, FramesTried DEF At
  <1>2. PICK size \in Nat : size = Len(stack)
    BY FramesTried
  <1>3. \A d \in 1..size :
          /\ d \in 1..Sets(prim) /\ stack[d].tried \in Nat
          /\ \A e \in 1..(d - 1) : e \in 1..Sets(prim) /\ e # size
    <2>1. \A d \in 1..size : d \in 1..Sets(prim) /\ stack[d].tried \in Nat
      BY <1>1, <1>2, FramesTried
    <2>2. \A d \in 1..size : \A e \in 1..(d - 1) : e \in 1..size /\ e # size
      OBVIOUS
    <2> QED BY <2>1, <2>2
  <1>4. ChosenInv /\ CoverInv
    BY DEF ScanInv
  <1>5. ChosenInv'
    <2> SUFFICES ASSUME NEW d \in 1..size
                 PROVE  stack'[d].tried > 0 /\ selection'[prim][d] = Prims[prim][d][stack'[d].tried]
      BY <1>1, <1>2 DEF ChosenInv
    <2>1. CASE d = size
      BY <1>1, <1>2, <1>3, <2>1
    <2>2. CASE d # size
      <3>1. d < size
        BY <2>2
      <3>2. stack[d].tried > 0 /\ selection[prim][d] = Prims[prim][d][stack[d].tried]
        BY <1>2, <1>4, <3>1 DEF ChosenInv
      <3>3. stack'[d] = stack[d] /\ selection'[prim][d] = selection[prim][d]
        BY <1>1, <1>2, <1>3, <2>2
      <3> QED BY <3>2, <3>3
    <2> QED BY <2>1, <2>2
  <1>6. \A c : \A d \in 1..size :
          (\A e \in 1..(d - 1) : c[e] = selection'[prim][e]) <=> (\A e \in 1..(d - 1) : c[e] = selection[prim][e])
    BY <1>1, <1>2, <1>3
  <1>7. \A d \in 1..size : \A k :
          (k \in 1..stack'[d].tried /\ k < stack'[d].tried) <=>
            (k \in 1..stack[d].tried /\ (k < stack[d].tried \/ d = size))
    <2> SUFFICES ASSUME NEW d \in 1..size, NEW k
                 PROVE  (k \in 1..stack'[d].tried /\ k < stack'[d].tried) <=>
                          (k \in 1..stack[d].tried /\ (k < stack[d].tried \/ d = size))
      OBVIOUS
    <2>1. PICK t \in Nat : t = stack[d].tried
      BY <1>3
    <2>2. CASE d = size
      <3>1. stack'[d].tried = t + 1
        BY <1>1, <1>2, <2>1, <2>2
      <3>2. (k \in 1..(t + 1) /\ k < t + 1) <=> k \in 1..t
        OBVIOUS
      <3> QED BY <2>1, <2>2, <3>1, <3>2
    <2>3. CASE d # size
      BY <1>1, <1>2, <2>3
    <2> QED BY <2>2, <2>3
  <1>8. \A c : Passed(c)' <=> Passed(c)
    <2>1. TAKE c
    <2>2. Passed(c) <=> \E d \in 1..size :
            /\ \A e \in 1..(d - 1) : c[e] = selection[prim][e]
            /\ \E k : /\ k \in 1..stack[d].tried /\ (k < stack[d].tried \/ d = size)
                      /\ c[d] = Prims[prim][d][k]
      BY <1>1, <1>2 DEF Passed
    <2>3. Passed(c)' <=> \E d \in 1..size :
            /\ \A e \in 1..(d - 1) : c[e] = selection'[prim][e]
            /\ \E k : /\ k \in 1..stack'[d].tried /\ k < stack'[d].tried
                      /\ c[d] = Prims[prim][d][k]
      BY <1>1, <1>2 DEF Passed
    <2> QED BY <1>6, <1>7, <2>2, <2>3
  <1>9. CoverInv'
    BY <1>1, <1>4, <1>8 DEF CoverInv
  <1> QED BY <1>5, <1>9 DEF ScanInv
\* Putting back the selection of the top set: the variants of that set are all passed,
\* and with them the variant selected in the set above.
LEMMA RestoreSetScan ==
  ASSUME IInv, ScanInv, RestoreSet
  PROVE  ScanInv'
  <1>1. /\ pc = "loop" /\ prim \in Prim
        /\ Len(stack) \in 1..Len(stack) /\ Len(stack) \in 1..Sets(prim)
        /\ \A q \in Prim : \A e \in 1..Sets(q) :
             q # prim \/ e # Len(stack) => selection'[q][e] = selection[q][e]
        /\ Len(stack') = Len(stack) - 1
        /\ \A e \in 1..(Len(stack) - 1) : stack'[e] = stack[e]
        /\ \/ Len(stack) = 1 /\ prim' = prim + 1 /\ pc' = "enter"
           \/ Len(stack) # 1 /\ prim' = prim /\ pc' = "loop"
        /\ UNCHANGED <<visited, phase>>
    BY RestoreSetEffect, FramesTried
  <1>2. PICK size \in Nat : size = Len(stack) /\ size > 0
    BY <1>1, FramesTried
  <1>3. /\ \A d \in 1..size : /\ d \in 1..Sets(prim) /\ stack[d].tried \in Nat
                              /\ stack[d].tried \in 0..Len(Prims[prim][d])
        /\ \A p \in Prim : p \in Nat /\ visited[p] \in Seq(Combinations(p))
        /\ prim \in Nat
    BY <1>1, <1>2, FramesTried, PrimFacts
  <1>4. ChosenInv /\ CoverInv
    BY DEF ScanInv
  <1>5. stack[size].tried = Len(Prims[prim][size])
    <2>1. stack[size].tried >= Len(Prims[prim][size]) /\ size \in 1..size
      BY <1>2 DEF RestoreSet
    <2>2. Len(Prims[prim][size]) \in Nat /\ stack[size].tried \in 0..Len(Prims[prim][size])
      BY <1>1, <1>3, <2>1, PrimFacts
    <2> QED BY <2>1, <2>2
\* Agreeing with the selections above the top set is enough to be passed.
  <1>6. ASSUME NEW c \in Combinations(prim), \A e \in 1..(size - 1) : c[e] = selection[prim][e]
        PROVE  Passed(c)
    <2>1. size \in 1..Sets(prim) /\ size \in 1..Len(stack)
      BY <1>1, <1>2
    <2>2. PICK k \in 1..Len(Prims[prim][size]) : c[size] = Prims[prim][size][k]
      BY <1>1, <2>1, CombinationFacts
    <2>3. k \in 1..stack[size].tried
      BY <1>5, <2>2
    <2> QED BY <1>1, <1>2, <1>6, <2>1, <2>2, <2>3 DEF Passed
  <1>7. CASE Len(stack) = 1 /\ prim' = prim + 1 /\ pc' = "enter"
    <2>1. Len(stack') = 0 /\ size = 1
      BY <1>1, <1>2, <1>7
    <2>2. \A c \in Combinations(prim) : Passed(c)
      BY <1>6, <2>1
    <2>3. ToSet(visited[prim]) = Combinations(prim)
      <3>1. \A c \in ToSet(visited[prim]) : c \in Combinations(prim)
        BY <1>1, <1>3 DEF ToSet
      <3>2. \A c \in Combinations(prim) : c \in ToSet(visited[prim])
        BY <1>1, <1>4, <2>2 DEF CoverInv
      <3> QED BY <3>1, <3>2
    <2>4. /\ \A p \in Prim : p < prim' => p < prim \/ p = prim
          /\ \A p \in Prim : p > prim' \/ p = prim' => p > prim
          /\ prim' > Len(Prims) \/ prim <= Len(Prims)
      BY <1>1, <1>3, <1>7, PrimFacts
    <2>5. \A p \in Prim : p < prim' => ToSet(visited[p]) = Combinations(p)
      BY <1>4, <2>3, <2>4 DEF CoverInv
    <2>6. \A p \in Prim : p > prim' \/ p = prim' => visited[p] = << >>
      BY <1>4, <2>4 DEF CoverInv
    <2>7. prim' \in Prim => \A c \in Combinations(prim') : c \in ToSet(visited[prim']) <=> Passed(c)'
      <3>1. \A c : ~Passed(c)'
        BY <2>1 DEF Passed
      <3>2. \A c : c \notin ToSet(<< >>)
        BY DEF ToSet
      <3> QED BY <2>6, <3>1, <3>2
    <2>8. phase # "scan" => prim' > Len(Prims)
      <3>1. prim <= Len(Prims) /\ Len(Prims) \in Nat
        BY <1>1, PrimFacts
      <3> QED BY <1>3, <1>4, <3>1 DEF CoverInv
    <2>9. ChosenInv'
      BY <2>1 DEF ChosenInv
    <2>10. CoverInv'
      BY <1>1, <1>4, <2>5, <2>6, <2>7, <2>8 DEF CoverInv
    <2> QED BY <2>9, <2>10 DEF ScanInv
  <1>8. CASE Len(stack) # 1 /\ prim' = prim /\ pc' = "loop"
    <2>1. PICK top \in Nat : top = size - 1 /\ top > 0 /\ size = top + 1
      BY <1>2, <1>8
    <2>2. /\ Len(stack') = top /\ Len(stack) = top + 1
          /\ \A d \in 1..top : stack'[d] = stack[d] /\ d \in 1..size /\ d # size
          /\ \A d \in 1..top : \A e \in 1..(d - 1) : e \in 1..top
          /\ \A d \in 1..size : d \in 1..top \/ d = size
          /\ top \in 1..top /\ size \in 1..size /\ \A d \in 1..top : d < Len(stack)
      BY <1>1, <1>2, <2>1
    <2>3. \A d \in 1..top : selection'[prim][d] = selection[prim][d]
      BY <1>1, <1>2, <1>3, <2>2
    <2>4. \A d \in 1..top :
            stack[d].tried > 0 /\ selection[prim][d] = Prims[prim][d][stack[d].tried]
      BY <1>2, <1>4, <2>2 DEF ChosenInv
    <2>5. ChosenInv'
      BY <1>8, <2>2, <2>3, <2>4 DEF ChosenInv
    <2>6. ASSUME NEW c \in Combinations(prim) PROVE Passed(c)' <=> Passed(c)
      <3>1. Passed(c)' <=> \E d \in 1..top :
              /\ \A e \in 1..(d - 1) : c[e] = selection[prim][e]
              /\ \E k \in 1..stack[d].tried :
                   c[d] = Prims[prim][d][k] /\ (k < stack[d].tried \/ d = top)
        <4>1. Passed(c)' <=> \E d \in 1..top :
              /\ \A e \in 1..(d - 1) : c[e] = selection'[prim][e]
              /\ \E k \in 1..stack'[d].tried :
                   c[d] = Prims[prim][d][k] /\ (k < stack'[d].tried \/ d = top)
          BY <1>8, <2>2 DEF Passed
        <4>2. \A d \in 1..top : (\A e \in 1..(d - 1) : c[e] = selection'[prim][e])
                                  <=> (\A e \in 1..(d - 1) : c[e] = selection[prim][e])
          BY <2>2, <2>3
        <4>3. \A d \in 1..top : stack'[d].tried = stack[d].tried
          BY <2>2
        <4> QED BY <4>1, <4>2, <4>3
      <3>2. ASSUME Passed(c) PROVE Passed(c)'
        <4>1. PICK d \in 1..size :
                /\ \A e \in 1..(d - 1) : c[e] = selection[prim][e]
                /\ \E k \in 1..stack[d].tried :
                     c[d] = Prims[prim][d][k] /\ (k < stack[d].tried \/ d = size)
          BY <1>2, <3>2 DEF Passed
        <4>2. CASE d \in 1..top
          BY <2>2, <3>1, <4>1, <4>2
        <4>3. CASE d = size
          <5>1. top \in 1..(size - 1) /\ \A e \in 1..(top - 1) : e \in 1..(size - 1)
            BY <2>1
          <5>2. /\ c[top] = Prims[prim][top][stack[top].tried]
                /\ stack[top].tried \in 1..stack[top].tried
                /\ \A e \in 1..(top - 1) : c[e] = selection[prim][e]
            BY <1>3, <2>2, <2>4, <4>1, <4>3, <5>1
          <5> QED BY <2>2, <3>1, <5>2
        <4> QED BY <2>2, <4>2, <4>3
      <3>3. ASSUME Passed(c)' PROVE Passed(c)
        <4>1. PICK d \in 1..top :
                /\ \A e \in 1..(d - 1) : c[e] = selection[prim][e]
                /\ \E k \in 1..stack[d].tried :
                     c[d] = Prims[prim][d][k] /\ (k < stack[d].tried \/ d = top)
          BY <3>1, <3>3
        <4>2. PICK k \in 1..stack[d].tried :
                c[d] = Prims[prim][d][k] /\ (k < stack[d].tried \/ d = top)
          BY <4>1
        <4>3. CASE k < stack[d].tried
          <5>1. d \in 1..Len(stack)
            BY <1>2, <2>2
          <5> QED BY <4>1, <4>2, <4>3, <5>1 DEF Passed
        <4>4. CASE ~(k < stack[d].tried)
          <5>1. d = top /\ k = stack[top].tried
            BY <1>3, <2>2, <4>2, <4>4
          <5>2. c[top] = selection[prim][top]
            BY <2>2, <2>4, <4>2, <5>1
          <5>3. \A e \in 1..(size - 1) : e = top \/ e \in 1..(top - 1)
            BY <2>1
          <5>4. \A e \in 1..(size - 1) : c[e] = selection[prim][e]
            BY <4>1, <5>1, <5>2, <5>3
          <5> QED BY <1>6, <5>4
        <4> QED BY <4>3, <4>4
      <3> QED BY <3>2, <3>3
    <2>7. CoverInv'
      BY <1>1, <1>4, <1>8, <2>6 DEF CoverInv
    <2> QED BY <2>5, <2>7 DEF ScanInv
  <1> QED BY <1>1, <1>7, <1>8

LEMMA ScanInvariance == Spec => []ScanInv
  <1>1. Init => ScanInv
    <2> SUFFICES ASSUME Init PROVE ScanInv
      OBVIOUS
    <2>1. /\ prim = 1 /\ stack = << >> /\ phase = "scan"
          /\ \A p \in Prim : visited[p] = << >> /\ p \in 1..Len(Prims)
      BY PrimFacts DEF Init
    <2>2. IsInjective(<< >>) /\ \A c : c \notin ToSet(<< >>)
      BY DEF IsInjective, ToSet
    <2>3. ChosenInv /\ \A c : ~Passed(c)
      BY <2>1 DEF ChosenInv, Passed
    <2>4. \A p \in Prim : ~(p < prim)
      BY <2>1
    <2> QED BY <2>1, <2>2, <2>3, <2>4 DEF ScanInv, CoverInv
  <1>2. IInv /\ ScanInv /\ [Next]_vars => ScanInv'
    <2> SUFFICES ASSUME IInv, ScanInv, [Next]_vars PROVE ScanInv'
      OBVIOUS
    <2>1. CASE Visit
      BY <2>1, VisitScan
    <2>2. CASE EnterSet
      BY <2>2, EnterSetScan
    <2>3. CASE TryVariant
      BY <2>3, TryVariantScan
    <2>4. CASE RestoreSet
      BY <2>4, RestoreSetScan
    <2>5. CASE ScanDone \/ LoadModels \/ UNCHANGED vars
      <3>1. /\ UNCHANGED <<selection, prim, stack, pc, visited>>
            /\ phase' # "scan" => phase # "scan" \/ prim > Len(Prims)
        BY <2>5 DEF ScanDone, LoadModels, vars
      <3>2. \A c : Passed(c)' <=> Passed(c)
        BY <3>1 DEF Passed
      <3> QED BY <3>1, <3>2 DEF ScanInv, ChosenInv, CoverInv
    <2> QED BY <2>1, <2>2, <2>3, <2>4, <2>5 DEF Next
  <1> QED BY <1>1, <1>2, Invariance, PTL DEF Spec

\* For any prims and variant sets, however deep the recursion: when the scan ends every
\* prim was looked at under every combination of its variants, and under none twice.
THEOREM AllVisitedOnce == Spec => []EveryCombinationOnce
  <1>1. IInv /\ ScanInv => EveryCombinationOnce
    <2> SUFFICES ASSUME IInv, ScanInv, phase # "scan", NEW p \in Prim
                 PROVE  ToSet(visited[p]) = Combinations(p) /\ IsInjective(visited[p])
      BY DEF EveryCombinationOnce
    <2>1. prim > Len(Prims) /\ p \in 1..Len(Prims)
      BY PrimFacts DEF ScanInv, CoverInv
    <2>2. p < prim
      BY <2>1, FramesTried, PrimFacts
    <2> QED BY <2>2 DEF ScanInv, CoverInv
  <1> QED BY <1>1, Invariance, ScanInvariance, PTL
=============================================================================
