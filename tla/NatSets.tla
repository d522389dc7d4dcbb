-------------------------------- MODULE NatSets --------------------------------
(***************************************************************************)
(* The least number, induction and definition by recursion, stated for     *)
(* sets and functions of natural numbers: no operator is a parameter, so   *)
(* that provers for first-order logic can use them.  Then the same for     *)
(* sets on which a relation is grounded, and what FlattenSeq builds, with  *)
(* it a loop that keeps some of what it passes.                            *)
(***************************************************************************)
EXTENDS Naturals, FiniteSets, SequencesExt, FiniteSetTheorems, SequenceTheorems, TLAPS

\* A set of natural numbers that is not empty has a least element: the sets of those
\* below an element are finite, and strict inclusion of finite sets is well-founded.
LEMMA LeastNat ==
  ASSUME NEW T \in SUBSET Nat, T # {}
  PROVE  \E x \in T : \A y \in T : x <= y
  <1> DEFINE Below(b) == {t \in T : t < b}
             Sets == {Below(b) : b \in T}
  <1>1. Sets \subseteq FiniteSubsetsOf(Nat) /\ Sets # {}
    <2>1. ASSUME NEW x \in T PROVE IsFiniteSet(Below(x))
      <3>1. x \in Nat
        OBVIOUS
      <3>2. Below(x) \in SUBSET Nat
        OBVIOUS
      <3>3. \A y \in Below(x) : y <= x
        BY <3>1
      <3> HIDE DEF Below
      <3> QED BY <3>1, <3>2, <3>3, FS_BoundedSetOfNaturals
    <2> QED BY <2>1 DEF FiniteSubsetsOf
  <1> HIDE DEF Sets
  <1>2. PICK S \in Sets : \A U \in Sets : ~(<<U, S>> \in StrictSubsetOrdering(Nat))
    BY <1>1, FS_StrictSubsetOrderingWellFounded, WFMin
  <1>3. PICK x \in T : S = Below(x)
    BY DEF Sets
  <1>4. ASSUME NEW y \in T, y < x PROVE FALSE
    <2>1. x \in Nat /\ y \in Nat
      OBVIOUS
    <2>2. \A t \in T : t < y => t < x
      BY <2>1, <1>4
    <2>3. Below(y) \subseteq Below(x)
      BY <2>2
    <2>4. y \in Below(x) /\ y \notin Below(y)
      BY <2>1, <1>4
    <2>5. Below(y) \in Sets /\ Below(x) \subseteq Nat /\ Below(y) \subseteq Nat
      BY DEF Sets
    <2> HIDE DEF Below
    <2>6. <<Below(y), Below(x)>> \in StrictSubsetOrdering(Nat)
      BY <2>3, <2>4, <2>5 DEF StrictSubsetOrdering
    <2> QED BY <1>2, <1>3, <2>5, <2>6
  <1> QED BY <1>4

\* Induction: a set that has zero and the successors of what it has, has all.
LEMMA NatSetInduction ==
  ASSUME NEW S, 0 \in S, \A n \in Nat : n \in S => n + 1 \in S
  PROVE  Nat \subseteq S
  <1> SUFFICES ASSUME Nat \ S # {} PROVE FALSE
    OBVIOUS
  <1>1. PICK x \in Nat \ S : \A y \in Nat \ S : x <= y
    BY LeastNat
  <1>2. x # 0 /\ x - 1 \in Nat /\ x = (x - 1) + 1
    BY <1>1
  <1>3. x - 1 \in S
    BY <1>1, <1>2
  <1> QED BY <1>1, <1>2, <1>3

\* Induction up to a bound.
LEMMA RangeInduction ==
  ASSUME NEW N \in Nat, NEW S, 0 \in S, \A n \in 1..N : n - 1 \in S => n \in S
  PROVE  0..N \subseteq S
  <1> DEFINE T == {n \in Nat : n <= N => n \in S}
  <1>1. 0 \in T
    OBVIOUS
  <1>2. \A n \in Nat : n \in T => n + 1 \in T
    <2> SUFFICES ASSUME NEW n \in Nat, n \in T, n + 1 <= N PROVE n + 1 \in S
      OBVIOUS
    <2>1. n \in S /\ n + 1 \in 1..N /\ (n + 1) - 1 = n
      OBVIOUS
    <2>2. QED
      BY <2>1
  <1> HIDE DEF T
  <1>3. Nat \subseteq T
    BY <1>1, <1>2, NatSetInduction
  <1> QED
    BY <1>3 DEF T

\* f starts at x0 and takes the steps of G.
Follows(f, N, x0, G) == f[0] = x0 /\ \A n \in 1..N : f[n] = G[n][f[n - 1]]

\* Recursion: a recursive definition chooses a function that satisfies its equation;
\* this lemma says there is one.
LEMMA NatRecursion ==
  ASSUME NEW N \in Nat, NEW D, NEW x0 \in D, NEW G \in [1..N -> [D -> D]]
  PROVE  \E f \in [0..N -> D] : Follows(f, N, x0, G)
  <1> DEFINE Upto(m) == \E f \in [0..m -> D] :
               f[0] = x0 /\ \A n \in 1..m : f[n] = G[n][f[n - 1]]
             S == {m \in 0..N : Upto(m)}
  <1>1. 0 \in S
    <2> DEFINE f == [n \in 0..0 |-> x0]
    <2>1. f \in [0..0 -> D] /\ f[0] = x0 /\ \A n \in 1..0 : f[n] = G[n][f[n - 1]]
      OBVIOUS
    <2>2. Upto(0)
      BY <2>1
    <2> QED
      BY <2>2
  <1>2. ASSUME NEW k \in 1..N, k - 1 \in S PROVE k \in S
    <2>1. PICK m \in Nat : m = k - 1 /\ k = m + 1
      OBVIOUS
    <2>2. PICK f \in [0..m -> D] : f[0] = x0 /\ \A n \in 1..m : f[n] = G[n][f[n - 1]]
      BY <1>2, <2>1
    <2>3. G[k][f[m]] \in D
      BY <2>1, <2>2
    <2> DEFINE g == [n \in 0..k |-> IF n = k THEN G[k][f[m]] ELSE f[n]]
    <2>4. g \in [0..k -> D] /\ g[0] = x0
      BY <2>1, <2>2, <2>3
    <2>5. ASSUME NEW n \in 1..k PROVE g[n] = G[n][g[n - 1]]
      <3>1. n - 1 \in 0..m /\ g[n - 1] = f[n - 1]
        BY <2>1
      <3>2. n # k => n \in 1..m /\ g[n] = f[n]
        BY <2>1
      <3> QED
        BY <2>1, <2>2, <3>1, <3>2
    <2> HIDE DEF g
    <2>6. Upto(k)
      BY <2>4, <2>5
    <2> QED
      BY <2>6
  <1> HIDE DEF S
  <1>3. 0..N \subseteq S
    BY <1>1, <1>2, RangeInduction
  <1>4. Upto(N)
    BY <1>3 DEF S
  <1> QED
    BY <1>4 DEF Follows

\* f and g agree up to N.
Alike(f, g, N) == \A n \in 0..N : f[n] = g[n]

\* Two functions that start alike and take the same steps are alike.
LEMMA SameSteps ==
  ASSUME NEW N \in Nat, NEW f, NEW g, f[0] = g[0],
         \A n \in 1..N : f[n - 1] = g[n - 1] => f[n] = g[n]
  PROVE  Alike(f, g, N)
  <1> DEFINE S == {n \in 0..N : f[n] = g[n]}
  <1>1. 0 \in S /\ \A n \in 1..N : n - 1 \in S => n \in S
    OBVIOUS
  <1> HIDE DEF S
  <1>2. 0..N \subseteq S
    BY <1>1, RangeInduction
  <1> QED
    BY <1>2 DEF S, Alike
---------------------------------------------------------------------------
\* Every set of elements of D has one with nothing below it in the set.
Grounded(D, Below) == \A E \in SUBSET D : E # {} => \E d \in E : Below[d] \cap E = {}

\* Induction upwards from the elements with nothing below them.
LEMMA GroundedInduction ==
  ASSUME NEW D, NEW Below \in [D -> SUBSET D], Grounded(D, Below), NEW S,
         \A d \in D : Below[d] \subseteq S => d \in S
  PROVE  D \subseteq S
  <1> SUFFICES ASSUME D \ S # {} PROVE FALSE
    OBVIOUS
  <1>1. D \ S \in SUBSET D
    OBVIOUS
  <1>2. PICK d \in D \ S : Below[d] \cap (D \ S) = {}
    BY <1>1 DEF Grounded
  <1>3. Below[d] \subseteq S
    BY <1>2
  <1> QED
    BY <1>2, <1>3

\* f is as G says on all of E, which has what is below its elements.
Solves(f, E, D, Below, G) ==
  \A d \in E : Below[d] \subseteq E /\ f[d] = G[d][f]

\* G says what a function is at an element from what it is below the element.
FromBelow(G, D, V, Below) ==
  \A d \in D : \A f, g \in [D -> V] :
    (\A e \in Below[d] : f[e] = g[e]) => G[d][f] = G[d][g]

Solvable(G, D, V) == \E f \in [D -> V] : \A d \in D : f[d] = G[d][f]

\* Recursion: there is a function that is everywhere as G says.
LEMMA GroundedRecursion ==
  ASSUME NEW D, NEW V, V # {},
         NEW Below \in [D -> SUBSET D], Grounded(D, Below), NEW G \in [D -> [[D -> V] -> V]],
         FromBelow(G, D, V, Below)
  PROVE  Solvable(G, D, V)
  <1> DEFINE Partial == {E \in SUBSET D : \E f \in [D -> V] : Solves(f, E, D, Below, G)}
             U == UNION Partial
  <1>1. ASSUME NEW E \in SUBSET D, NEW F \in SUBSET D, NEW f \in [D -> V], NEW g \in [D -> V],
               Solves(f, E, D, Below, G), Solves(g, F, D, Below, G)
        PROVE  \A d \in E \cap F : f[d] = g[d]
    <2> DEFINE Bad == {d \in E \cap F : f[d] # g[d]}
    <2> SUFFICES ASSUME Bad # {} PROVE FALSE
      OBVIOUS
    <2>1. Bad \in SUBSET D
      OBVIOUS
    <2>2. PICK d \in Bad : Below[d] \cap Bad = {}
      BY <2>1 DEF Grounded
    <2>3. Below[d] \subseteq E /\ Below[d] \subseteq F /\ f[d] = G[d][f] /\ g[d] = G[d][g]
      BY <1>1 DEF Solves
    <2>4. \A e \in Below[d] : f[e] = g[e]
      BY <2>2, <2>3
    <2>5. d \in D /\ f[d] # g[d]
      OBVIOUS
    <2> QED
      BY <2>3, <2>4, <2>5 DEF FromBelow
  <1> DEFINE Has(d, f) == \E E \in SUBSET D : d \in E /\ Solves(f, E, D, Below, G)
             F == [d \in D |-> IF d \in U THEN (CHOOSE f \in [D -> V] : Has(d, f))[d] ELSE CHOOSE v \in V : TRUE]
  <1>2. ASSUME NEW d \in U PROVE (CHOOSE f \in [D -> V] : Has(d, f)) \in [D -> V]
                                 /\ Has(d, CHOOSE f \in [D -> V] : Has(d, f))
    <2>1. \E f \in [D -> V] : Has(d, f)
      OBVIOUS
    <2> HIDE DEF Has
    <2> QED
      BY <2>1
  <1>3. F \in [D -> V]
    BY <1>2
  <1>4. ASSUME NEW E \in SUBSET D, NEW f \in [D -> V], Solves(f, E, D, Below, G)
        PROVE  E \subseteq U /\ \A d \in E : F[d] = f[d]
    <2>1. E \subseteq U
      BY <1>4
    <2>2. ASSUME NEW d \in E PROVE F[d] = f[d]
      <3> DEFINE g == CHOOSE g \in [D -> V] : Has(d, g)
      <3>1. d \in U /\ d \in D
        BY <2>1
      <3>2. g \in [D -> V] /\ Has(d, g) /\ F[d] = g[d]
        BY <1>2, <3>1
      <3> HIDE DEF g, F
      <3>3. PICK H \in SUBSET D : d \in H /\ Solves(g, H, D, Below, G)
        BY <3>2
      <3> QED
        BY <1>1, <1>4, <3>2, <3>3
    <2> QED
      BY <2>1, <2>2
  <1> HIDE DEF F
  <1>5. \A d \in U : Below[d] \subseteq U /\ F[d] = G[d][F]
    <2> SUFFICES ASSUME NEW d \in U PROVE Below[d] \subseteq U /\ F[d] = G[d][F]
      OBVIOUS
    <2>1. PICK E \in SUBSET D : d \in E /\ \E f \in [D -> V] : Solves(f, E, D, Below, G)
      OBVIOUS
    <2>2. PICK f \in [D -> V] : Solves(f, E, D, Below, G)
      BY <2>1
    <2>3. Below[d] \subseteq E /\ f[d] = G[d][f] /\ d \in D
      BY <2>1, <2>2 DEF Solves
    <2>4. E \subseteq U /\ \A e \in E : F[e] = f[e]
      BY <1>4, <2>2
    <2>5. G[d][f] = G[d][F]
      BY <1>3, <2>3, <2>4 DEF FromBelow
    <2> HIDE DEF U
    <2> QED
      BY <2>1, <2>3, <2>4, <2>5
  <1>6. U \subseteq D
    OBVIOUS
  <1>7. ASSUME NEW d \in D, Below[d] \subseteq U PROVE d \in U
    <2> SUFFICES ASSUME d \notin U PROVE FALSE
      OBVIOUS
    <2> DEFINE g == [F EXCEPT ![d] = G[d][F]]
               E == U \cup {d}
    <2>1. g \in [D -> V] /\ g[d] = G[d][F] /\ \A e \in D \ {d} : g[e] = F[e]
      BY <1>3
    <2> HIDE DEF g
    <2>2. ASSUME NEW e \in E PROVE Below[e] \subseteq E /\ g[e] = G[e][g]
      <3>1. Below[e] \subseteq U /\ e \in D
        BY <1>5, <1>6, <1>7
      <3> HIDE DEF U
      <3>2. \A b \in Below[e] : F[b] = g[b]
        BY <1>6, <2>1, <3>1
      <3>3. G[e][F] = G[e][g]
        BY <1>3, <2>1, <3>1, <3>2 DEF FromBelow
      <3>4. g[e] = G[e][F]
        BY <1>5, <1>6, <2>1
      <3> QED
        BY <3>1, <3>3, <3>4
    <2>3. Solves(g, E, D, Below, G)
      BY <2>2 DEF Solves
    <2>4. E \in SUBSET D
      BY <1>6
    <2>5. E \subseteq U
      BY <1>4, <2>1, <2>3, <2>4
    <2> QED
      BY <2>5
  <1> HIDE DEF U
  <1>8. D \subseteq U
    BY <1>7, GroundedInduction
  <1> QED
    BY <1>3, <1>5, <1>8 DEF Solvable
---------------------------------------------------------------------------
\* Appending one element.
LEMMA Appended ==
  ASSUME NEW A, NEW s \in Seq(A), NEW x \in A
  PROVE  /\ Append(s, x) \in Seq(A) /\ Append(s, x) # << >>
         /\ Len(s) \in Nat /\ Len(Append(s, x)) = Len(s) + 1
         /\ DOMAIN s = 1..Len(s) /\ DOMAIN Append(s, x) = 1..(Len(s) + 1)
         /\ \A n \in 1..Len(s) : Append(s, x)[n] = s[n]
         /\ Append(s, x)[Len(s) + 1] = x
  OBVIOUS

\* A sequence given by its elements.
LEMMA GivenSeq ==
  ASSUME NEW A, NEW K \in Nat, NEW s, s = [n \in 1..K |-> s[n]], \A n \in 1..K : s[n] \in A
  PROVE  s \in Seq(A) /\ Len(s) = K
  OBVIOUS

\* Without the ends that were put on, a run is what it was.
LEMMA BetweenEnds ==
  ASSUME NEW A, NEW run \in Seq(A), NEW a \in A, NEW b \in A
  PROVE  Front(Tail(<<a>> \o run \o <<b>>)) = run
  <1> DEFINE N == Len(run)
             s == <<a>> \o run \o <<b>>
             t == Tail(s)
             u == Front(t)
  <1>1. N \in Nat /\ run = [n \in 1..N |-> run[n]] /\ \A n \in 1..N : run[n] \in A
    OBVIOUS
  <1>2. s \in Seq(A) /\ Len(s) = N + 2 /\ \A n \in 1..N : s[n + 1] = run[n]
    <2>1. <<a>> \in Seq(A) /\ Len(<<a>>) = 1 /\ <<b>> \in Seq(A) /\ Len(<<b>>) = 1
      OBVIOUS
    <2>2. <<a>> \o run \in Seq(A) /\ Len(<<a>> \o run) = N + 1
          /\ \A n \in 1..N : (<<a>> \o run)[n + 1] = run[n]
      BY <1>1, <2>1
    <2> DEFINE h == <<a>> \o run
    <2> HIDE DEF h
    <2>3. h \o <<b>> \in Seq(A) /\ Len(h \o <<b>>) = N + 2 /\ \A n \in 1..(N + 1) : (h \o <<b>>)[n] = h[n]
      BY <1>1, <2>1, <2>2 DEF h
    <2>4. \A n \in 1..N : n + 1 \in 1..(N + 1)
      BY <1>1
    <2> QED BY <2>2, <2>3, <2>4 DEF h
  <1> HIDE DEF s
  <1>3. t \in Seq(A) /\ Len(t) = N + 1 /\ \A n \in 1..N : t[n] = run[n]
    BY <1>1, <1>2
  <1> HIDE DEF t, N
  <1>4. u = SubSeq(t, 1, N)
    BY <1>1, <1>3 DEF Front
  <1>5. u = [n \in 1..N |-> u[n]] /\ \A n \in 1..N : u[n] = t[n]
    BY <1>1, <1>3, <1>4
  <1> HIDE DEF u
  <1>6. u = run
    BY <1>1, <1>3, <1>5
  <1> QED BY <1>6 DEF u, t, s
---------------------------------------------------------------------------
\* The sequences before the n-th, joined.
FlatOf(seqs, f) ==
  f[0] = << >> /\ \A n \in 1..Len(seqs) : f[n] = f[n - 1] \o seqs[n]

\* A sequence of sequences has sequences.
LEMMA SeqOfSeqs ==
  ASSUME NEW A, NEW seqs \in Seq(Seq(A))
  PROVE  Len(seqs) \in Nat /\ \A n \in 1..Len(seqs) : seqs[n] \in Seq(A)
  <1> DEFINE D == Seq(A)
  <1>1. seqs \in Seq(D)
    OBVIOUS
  <1> HIDE DEF D
  <1>2. Len(seqs) \in Nat /\ \A n \in 1..Len(seqs) : seqs[n] \in D
    BY <1>1
  <1> QED
    BY <1>2 DEF D

\* Where two sequences are in the one they make.
IsJoin(c, a, b) ==
  /\ Len(a) \in Nat /\ Len(b) \in Nat /\ Len(c) = Len(a) + Len(b)
  /\ \A k \in 1..Len(a) : k \in 1..Len(c) /\ c[k] = a[k]
  /\ \A i \in 1..Len(b) : Len(a) + i \in 1..Len(c) /\ c[Len(a) + i] = b[i]
  /\ \A k \in 1..Len(c) : k \in 1..Len(a) \/ \E i \in 1..Len(b) : k = Len(a) + i

LEMMA Joined ==
  ASSUME NEW A, NEW a \in Seq(A), NEW b \in Seq(A), NEW c, c = a \o b
  PROVE  c \in Seq(A) /\ IsJoin(c, a, b)
  <1>1. PICK m \in Nat, n \in Nat : m = Len(a) /\ n = Len(b)
    OBVIOUS
  <1>2. c \in Seq(A) /\ Len(c) = m + n
    BY <1>1
  <1>3. \A k \in 1..m : k \in 1..(m + n) /\ c[k] = a[k]
    BY <1>1
  <1>4. \A i \in 1..n : m + i \in 1..(m + n) /\ c[m + i] = b[i]
    BY <1>1
  <1>5. \A k \in 1..(m + n) : k \in 1..m \/ \E i \in 1..n : k = m + i
    <2> SUFFICES ASSUME NEW k \in 1..(m + n), k \notin 1..m PROVE \E i \in 1..n : k = m + i
      OBVIOUS
    <2>1. k - m \in 1..n /\ k = m + (k - m)
      OBVIOUS
    <2> QED
      BY <2>1
  <1> QED
    BY <1>1, <1>2, <1>3, <1>4, <1>5 DEF IsJoin

\* FlattenSeq joins the sequences from left to right.
LEMMA FlatDef ==
  ASSUME NEW A, NEW seqs \in Seq(Seq(A))
  PROVE  \E f \in [0..Len(seqs) -> Seq(A)] : FlatOf(seqs, f) /\ FlattenSeq(seqs) = f[Len(seqs)]
  <1> DEFINE G == [n \in 1..Len(seqs) |-> [x \in Seq(A) |-> x \o seqs[n]]]
             flatten[i \in 1..Len(seqs)] == IF i = 1 THEN seqs[i] ELSE flatten[i - 1] \o seqs[i]
  <1> HIDE DEF G, flatten
  <1>1. PICK N \in Nat : N = Len(seqs)
    BY SeqOfSeqs
  <1>2. << >> \in Seq(A) /\ \A n \in 1..N : seqs[n] \in Seq(A)
    BY <1>1, SeqOfSeqs
  <1>3. G \in [1..N -> [Seq(A) -> Seq(A)]]
    BY <1>1, <1>2 DEF G
  <1>4. PICK f \in [0..N -> Seq(A)] : Follows(f, N, << >>, G)
    BY <1>2, <1>3, NatRecursion
  <1>5. f[0] = << >> /\ \A n \in 1..N : f[n] = f[n - 1] \o seqs[n]
    <2>1. f[0] = << >> /\ \A n \in 1..N : f[n] = G[n][f[n - 1]]
      BY <1>4 DEF Follows
    <2>2. \A n \in 1..N : f[n - 1] \in Seq(A)
      OBVIOUS
    <2> QED
      BY <1>1, <2>1, <2>2 DEF G
  <1>6. \A n \in 1..N : f[n] = IF n = 1 THEN seqs[n] ELSE f[n - 1] \o seqs[n]
    <2> SUFFICES ASSUME NEW n \in 1..N, n = 1 PROVE f[n] = seqs[n]
      BY <1>5
    <2>1. n - 1 = 0
      OBVIOUS
    <2>2. f[n] = << >> \o seqs[n] /\ seqs[n] \in Seq(A)
      BY <1>2, <1>5, <2>1
    <2> QED
      BY <2>1, <2>2, ConcatEmptySeq
  <1>7. ASSUME N = 0 PROVE FlattenSeq(seqs) = f[N]
    <2>1. seqs = << >>
      BY <1>1, <1>7, EmptySeq
    <2>2. FlattenSeq(seqs) = << >>
      BY <1>1, <1>7, <2>1 DEF FlattenSeq
    <2> QED
      BY <1>5, <1>7, <2>2
  <1>8. ASSUME N # 0 PROVE FlattenSeq(seqs) = f[N]
    <2> DEFINE g == [n \in 1..N |-> f[n]]
    <2>1. g = [n \in 1..N |-> IF n = 1 THEN seqs[n] ELSE g[n - 1] \o seqs[n]]
      <3> DEFINE h == [n \in 1..N |-> IF n = 1 THEN seqs[n] ELSE g[n - 1] \o seqs[n]]
      <3>1. \A n \in 1..N : g[n] = h[n]
        <4>1. TAKE n \in 1..N
        <4>2. n # 1 => n - 1 \in 1..N /\ g[n - 1] = f[n - 1]
          OBVIOUS
        <4> QED
          BY <1>6, <4>2
      <3> QED
        BY <3>1
    <2> HIDE DEF g
    <2>2. flatten = [n \in 1..N |-> IF n = 1 THEN seqs[n] ELSE flatten[n - 1] \o seqs[n]]
      BY <1>1, <2>1 DEF flatten
    <2>3. \A n \in 1..N : flatten[n] = f[n]
      <3> DEFINE S == {n \in 0..N : n # 0 => flatten[n] = f[n]}
      <3>1. 0 \in S
        OBVIOUS
      <3>2. ASSUME NEW n \in 1..N, n - 1 \in S PROVE n \in S
        <4>1. flatten[n] = IF n = 1 THEN seqs[n] ELSE flatten[n - 1] \o seqs[n]
          BY <2>2
        <4>2. n # 1 => flatten[n - 1] = f[n - 1]
          BY <3>2
        <4> QED
          BY <1>6, <4>1, <4>2
      <3> HIDE DEF S
      <3>3. 0..N \subseteq S
        BY <3>1, <3>2, RangeInduction
      <3> QED
        BY <3>3 DEF S
    <2>4. FlattenSeq(seqs) = flatten[N]
      BY <1>1, <1>8 DEF FlattenSeq, flatten
    <2>5. N \in 1..N
      BY <1>8
    <2> QED
      BY <2>3, <2>4, <2>5
  <1>9. FlatOf(seqs, f)
    BY <1>1, <1>5 DEF FlatOf
  <1> QED
    BY <1>1, <1>7, <1>8, <1>9

\* What a joined sequence holds is what the sequences hold.
HoldsAll(out, seqs) ==
  /\ \A k \in 1..Len(out) : \E n \in 1..Len(seqs) : \E i \in 1..Len(seqs[n]) : out[k] = seqs[n][i]
  /\ \A n \in 1..Len(seqs) : \A i \in 1..Len(seqs[n]) : \E k \in 1..Len(out) : out[k] = seqs[n][i]

LEMMA FlatRange ==
  ASSUME NEW A, NEW seqs \in Seq(Seq(A))
  PROVE  FlattenSeq(seqs) \in Seq(A) /\ HoldsAll(FlattenSeq(seqs), seqs)
  <1>1. PICK N \in Nat : N = Len(seqs)
    BY SeqOfSeqs
  <1>2. PICK f \in [0..N -> Seq(A)] : FlatOf(seqs, f) /\ FlattenSeq(seqs) = f[N]
    BY <1>1, FlatDef
  <1>3. f[0] = << >> /\ \A n \in 1..N : f[n] = f[n - 1] \o seqs[n]
    BY <1>1, <1>2 DEF FlatOf
  <1>4. (\A n \in 1..N : seqs[n] \in Seq(A)) /\ \A n \in 0..N : f[n] \in Seq(A)
    BY <1>1, SeqOfSeqs
  <1> DEFINE From(m) == \A k \in 1..Len(f[m]) : \E n \in 1..m : \E i \in 1..Len(seqs[n]) : f[m][k] = seqs[n][i]
             Into(m) == \A n \in 1..m : \A i \in 1..Len(seqs[n]) : \E k \in 1..Len(f[m]) : f[m][k] = seqs[n][i]
             S == {m \in 0..N : From(m) /\ Into(m)}
  <1>5. 0 \in S
    BY <1>3
  <1>6. ASSUME NEW m \in 1..N, m - 1 \in S PROVE m \in S
    <2>1. PICK l \in 0..N : l = m - 1
      BY <1>6
    <2>2. f[l] \in Seq(A) /\ seqs[m] \in Seq(A) /\ f[m] = f[l] \o seqs[m]
      BY <1>3, <1>4, <2>1
    <2>3. From(l) /\ Into(l)
      BY <1>6, <2>1
    <2>7. IsJoin(f[m], f[l], seqs[m])
      BY <2>2, Joined
    <2>4. /\ \A k \in 1..Len(f[l]) : k \in 1..Len(f[m]) /\ f[m][k] = f[l][k]
          /\ \A i \in 1..Len(seqs[m]) :
               Len(f[l]) + i \in 1..Len(f[m]) /\ f[m][Len(f[l]) + i] = seqs[m][i]
          /\ \A k \in 1..Len(f[m]) :
               k \in 1..Len(f[l]) \/ \E i \in 1..Len(seqs[m]) : k = Len(f[l]) + i
      BY <2>7 DEF IsJoin
    <2>5. From(m)
      <3>1. TAKE k \in 1..Len(f[m])
      <3>2. CASE k \in 1..Len(f[l])
        <4>1. PICK n \in 1..l : \E i \in 1..Len(seqs[n]) : f[l][k] = seqs[n][i]
          BY <2>3, <3>2
        <4>2. n \in 1..m /\ f[m][k] = f[l][k]
          BY <2>1, <2>4, <3>2
        <4> QED
          BY <4>1, <4>2
      <3>3. ASSUME NEW i \in 1..Len(seqs[m]), k = Len(f[l]) + i
            PROVE  \E n \in 1..m : \E h \in 1..Len(seqs[n]) : f[m][k] = seqs[n][h]
        <4>1. f[m][k] = seqs[m][i] /\ m \in 1..m
          BY <2>4, <3>3
        <4> QED
          BY <4>1
      <3> QED
        BY <2>4, <3>2, <3>3
    <2>6. Into(m)
      <3>1. TAKE n \in 1..m
      <3>2. TAKE i \in 1..Len(seqs[n])
      <3>3. CASE n = m
        <4>1. \A h \in 1..Len(seqs[m]) : \E k \in 1..Len(f[m]) : f[m][k] = seqs[m][h]
          BY <2>4
        <4> QED
          BY <3>3, <4>1
      <3>4. CASE n # m
        <4>1. n \in 1..l
          BY <2>1, <3>4
        <4>2. PICK k \in 1..Len(f[l]) : f[l][k] = seqs[n][i]
          BY <2>3, <4>1
        <4>3. k \in 1..Len(f[m]) /\ f[m][k] = f[l][k]
          BY <2>4
        <4> QED
          BY <4>2, <4>3
      <3> QED
        BY <3>3, <3>4
    <2> QED
      BY <2>5, <2>6
  <1> HIDE DEF S
  <1>7. 0..N \subseteq S
    BY <1>1, <1>5, <1>6, RangeInduction
  <1>8. N \in S /\ N \in 0..N
    BY <1>7
  <1>9. From(N) /\ Into(N)
    BY <1>8 DEF S
  <1>10. f[N] \in Seq(A)
    BY <1>8
  <1> QED
    BY <1>1, <1>2, <1>9, <1>10 DEF HoldsAll
\* The first n sequences, joined.
FlatPart(seqs, n) == FlattenSeq(SubSeq(seqs, 1, n))

\* They grow by one sequence at a time, to the whole.
Grows(seqs, A) ==
  /\ FlatPart(seqs, 0) = << >>
  /\ FlatPart(seqs, Len(seqs)) = FlattenSeq(seqs)
  /\ \A n \in 1..Len(seqs) : FlatPart(seqs, n) = FlatPart(seqs, n - 1) \o seqs[n]
  /\ \A n \in 0..Len(seqs) : FlatPart(seqs, n) \in Seq(A)

LEMMA FlatGrows ==
  ASSUME NEW A, NEW seqs \in Seq(Seq(A))
  PROVE  Grows(seqs, A)
  <1>1. PICK N \in Nat : N = Len(seqs)
    BY SeqOfSeqs
  <1>2. PICK f \in [0..N -> Seq(A)] : FlatOf(seqs, f) /\ FlattenSeq(seqs) = f[N]
    BY <1>1, FlatDef
  <1>3. f[0] = << >> /\ \A n \in 1..N : f[n] = f[n - 1] \o seqs[n]
    BY <1>1, <1>2 DEF FlatOf
  <1>4. ASSUME NEW n \in 0..N PROVE FlatPart(seqs, n) = f[n]
    <2> DEFINE sub == SubSeq(seqs, 1, n)
    <2>1. sub \in Seq(Seq(A)) /\ Len(sub) = n /\ \A k \in 1..n : sub[k] = seqs[k]
      <3> DEFINE D == Seq(A)
      <3>1. seqs \in Seq(D)
        OBVIOUS
      <3> HIDE DEF D
      <3>2. sub \in Seq(D) /\ Len(sub) = n /\ \A k \in 1..n : sub[k] = seqs[k]
        BY <1>1, <3>1
      <3> QED
        BY <3>2 DEF D
    <2> HIDE DEF sub
    <2>2. PICK g \in [0..n -> Seq(A)] : FlatOf(sub, g) /\ FlattenSeq(sub) = g[n]
      BY <2>1, FlatDef
    <2>3. g[0] = << >> /\ \A k \in 1..n : g[k] = g[k - 1] \o seqs[k]
      BY <2>1, <2>2 DEF FlatOf
    <2>4. n \in Nat /\ \A k \in 1..n : k \in 1..N
      OBVIOUS
    <2>5. \A k \in 1..n : f[k - 1] = g[k - 1] => f[k] = g[k]
      BY <1>3, <2>3, <2>4
    <2>6. Alike(f, g, n)
      BY <1>3, <2>3, <2>4, <2>5, SameSteps
    <2>7. f[n] = g[n]
      BY <2>4, <2>6 DEF Alike
    <2> QED
      BY <2>2, <2>7 DEF FlatPart, sub
  <1>5. \A n \in 1..N : FlatPart(seqs, n) = FlatPart(seqs, n - 1) \o seqs[n]
    <2>1. TAKE n \in 1..N
    <2>2. n \in 0..N /\ n - 1 \in 0..N
      OBVIOUS
    <2> QED
      BY <1>3, <1>4, <2>2
  <1>6. \A n \in 0..N : FlatPart(seqs, n) \in Seq(A)
    BY <1>4
  <1>7. FlatPart(seqs, 0) = << >> /\ FlatPart(seqs, N) = FlattenSeq(seqs)
    BY <1>2, <1>3, <1>4
  <1> QED
    BY <1>1, <1>5, <1>6, <1>7 DEF Grows

\* A loop over 1..N that keeps v[n] for the n in T.
Kept(v, N, T) == FlattenSeq([n \in 1..N |-> IF n \in T THEN <<v[n]>> ELSE << >>])

IsKept(out, v, N, T) ==
  /\ out \in Seq({v[n] : n \in T})
  /\ \A k \in 1..Len(out) : \E n \in T : out[k] = v[n]
  /\ \A n \in T : \E k \in 1..Len(out) : out[k] = v[n]

LEMMA KeptFacts ==
  ASSUME NEW N \in Nat, NEW v, NEW T \in SUBSET (1..N)
  PROVE  IsKept(Kept(v, N, T), v, N, T)
  <1> DEFINE A == {v[n] : n \in T}
             seqs == [n \in 1..N |-> IF n \in T THEN <<v[n]>> ELSE << >>]
             out == FlattenSeq(seqs)
  <1>1. \A n \in 1..N : seqs[n] \in Seq(A)
    <2>1. ASSUME NEW n \in T PROVE <<v[n]>> \in Seq(A)
      <3>1. v[n] \in A
        OBVIOUS
      <3> HIDE DEF A
      <3> QED
        BY <3>1
    <2> HIDE DEF A
    <2>2. << >> \in Seq(A)
      OBVIOUS
    <2> QED
      BY <2>1, <2>2
  <1>2. seqs \in Seq(Seq(A)) /\ Len(seqs) = N
    <2> DEFINE D == Seq(A)
    <2>1. \A n \in 1..N : seqs[n] \in D
      BY <1>1
    <2>2. seqs = [n \in 1..N |-> seqs[n]]
      OBVIOUS
    <2> HIDE DEF D, seqs
    <2>3. seqs \in [1..N -> D]
      BY <2>1, <2>2
    <2>4. seqs \in Seq(D) /\ Len(seqs) = N
      BY <2>3
    <2> QED
      BY <2>4 DEF D
  <1>3. \A n \in 1..N : \A i \in 1..Len(seqs[n]) : n \in T /\ seqs[n][i] = v[n]
    OBVIOUS
  <1>4. \A n \in T : n \in 1..N /\ 1 \in 1..Len(seqs[n]) /\ seqs[n][1] = v[n]
    OBVIOUS
  <1> HIDE DEF seqs
  <1>5. /\ out \in Seq(A)
        /\ \A k \in 1..Len(out) : \E n \in 1..N : \E i \in 1..Len(seqs[n]) : out[k] = seqs[n][i]
        /\ \A n \in 1..N : \A i \in 1..Len(seqs[n]) : \E k \in 1..Len(out) : out[k] = seqs[n][i]
    <2>1. out \in Seq(A) /\ HoldsAll(out, seqs)
      BY <1>2, FlatRange
    <2> QED
      BY <1>2, <2>1 DEF HoldsAll
  <1>6. \A k \in 1..Len(out) : \E n \in T : out[k] = v[n]
    <2>1. TAKE k \in 1..Len(out)
    <2>2. PICK n \in 1..N : \E i \in 1..Len(seqs[n]) : out[k] = seqs[n][i]
      BY <1>5
    <2> QED
      BY <1>3, <2>2
  <1>7. \A n \in T : \E k \in 1..Len(out) : out[k] = v[n]
    <2>1. TAKE n \in T
    <2>2. \E k \in 1..Len(out) : out[k] = seqs[n][1]
      BY <1>4, <1>5
    <2> QED
      BY <1>4, <2>2
  <1>8. out = Kept(v, N, T)
    BY DEF Kept, seqs
  <1> HIDE DEF out
  <1> QED
    BY <1>5, <1>6, <1>7, <1>8 DEF IsKept

\* A loop that keeps all.
LEMMA KeptAll ==
  ASSUME NEW N \in Nat, NEW v
  PROVE  Kept(v, N, 1..N) = [n \in 1..N |-> v[n]]
  <1> DEFINE A == {v[n] : n \in 1..N}
             seqs == [n \in 1..N |-> IF n \in 1..N THEN <<v[n]>> ELSE << >>]
             all == [n \in 1..N |-> v[n]]
  <1>1. seqs \in Seq(Seq(A)) /\ Len(seqs) = N
    <2> DEFINE D == Seq(A)
    <2>1. \A n \in 1..N : seqs[n] \in D
      <3>1. TAKE n \in 1..N
      <3>2. v[n] \in A
        OBVIOUS
      <3> HIDE DEF A
      <3>3. <<v[n]>> \in Seq(A)
        BY <3>2
      <3> QED
        BY <3>3
    <2>2. seqs = [n \in 1..N |-> seqs[n]]
      OBVIOUS
    <2> HIDE DEF D, seqs
    <2>3. seqs \in [1..N -> D]
      BY <2>1, <2>2
    <2>4. seqs \in Seq(D) /\ Len(seqs) = N
      BY <2>3
    <2> QED
      BY <2>4 DEF D
  <1>2. \A n \in 1..N : seqs[n] = <<v[n]>>
    OBVIOUS
  <1>3. \A n \in 1..N : v[n] \in A
    OBVIOUS
  <1>4. all \in Seq(A) /\ Len(all) = N /\ \A n \in 1..N : all[n] = v[n]
    <2> HIDE DEF A
    <2>1. all \in [1..N -> A]
      BY <1>3
    <2> QED
      BY <2>1
  <1> HIDE DEF seqs, A, all
  <1>5. PICK f \in [0..N -> Seq(A)] : FlatOf(seqs, f) /\ FlattenSeq(seqs) = f[N]
    BY <1>1, FlatDef
  <1>6. f[0] = << >> /\ \A n \in 1..N : f[n] = f[n - 1] \o <<v[n]>>
    BY <1>1, <1>2, <1>5 DEF FlatOf
  <1> DEFINE S == {n \in 0..N : Len(f[n]) = n /\ \A k \in 1..n : f[n][k] = v[k]}
  <1>7. 0 \in S
    BY <1>6
  <1>8. ASSUME NEW n \in 1..N, n - 1 \in S PROVE n \in S
    <2>1. PICK m \in 0..N : m = n - 1 /\ n = m + 1
      OBVIOUS
    <2>2. f[m] \in Seq(A) /\ <<v[n]>> \in Seq(A) /\ f[n] = f[m] \o <<v[n]>>
      BY <1>3, <1>6, <2>1
    <2>3. Len(f[m]) = m /\ \A k \in 1..m : f[m][k] = v[k]
      BY <1>8, <2>1
    <2>4. IsJoin(f[n], f[m], <<v[n]>>)
      BY <2>2, Joined
    <2>5. Len(f[n]) = n /\ f[n][n] = v[n] /\ \A k \in 1..m : f[n][k] = v[k]
      BY <2>1, <2>3, <2>4 DEF IsJoin
    <2>6. \A k \in 1..n : k \in 1..m \/ k = n
      BY <2>1
    <2>7. \A k \in 1..n : f[n][k] = v[k]
      BY <2>5, <2>6
    <2> QED
      BY <2>5, <2>7
  <1> HIDE DEF S
  <1>9. 0..N \subseteq S
    BY <1>7, <1>8, RangeInduction
  <1>10. Len(f[N]) = N /\ \A k \in 1..N : f[N][k] = v[k]
    BY <1>9 DEF S
  <1>11. f[N] = all
    <2>1. f[N] \in Seq(A) /\ Len(f[N]) = Len(all)
      BY <1>4, <1>10
    <2>2. \A k \in 1..Len(f[N]) : f[N][k] = all[k]
      BY <1>4, <1>10
    <2> QED
      BY <1>4, <2>1, <2>2, SeqEqual
  <1>12. Kept(v, N, 1..N) = FlattenSeq(seqs)
    BY DEF Kept, seqs
  <1> QED
    BY <1>5, <1>11, <1>12 DEF all
=============================================================================
