------------------------- MODULE GeometryWrite_proofs -------------------------
(***************************************************************************)
(* However many jobs there are, however the list is cut into slices and in *)
(* whatever order these end: what is selected is written, and what is not  *)
(* is kept.                                                                *)
(*                                                                         *)
(* Slices are merged one after the other, job by job.  What has to be      *)
(* carried along is which jobs the loop has passed, that every slice comes *)
(* up in it, and that a body holds, besides what was there, only what its  *)
(* own job makes: then no job can undo what another has written.           *)
(***************************************************************************)
EXTENDS GeometryWrite, TLAPS

\* The loops over the slices stand at a job of a slice, and all slices are there.
CursorInv ==
  step # "writing" =>
    /\ \A s \in slices : \E n \in DOMAIN results : results[n] = s
    /\ res \in DOMAIN results
    /\ job \in results[res].from..results[res].to

DomainInv ==
  /\ DOMAIN body = Paths
  /\ DOMAIN variantActive = Paths
  /\ DOMAIN selection = Protos
  /\ DOMAIN active = Protos

\* A body holds what an earlier run left and what its own job makes.
BodyInv ==
  \A path \in Paths : \A prim \in DOMAIN body[path] :
    \/ body[path][prim] = Earlier
    \/ \E j \in DOMAIN Jobs :
         body[path][prim] = j /\ PathOf(j) = path /\ prim \in Jobs[j].makes

\* The current loop has passed job i.
Passed(i) ==
  \E n \in DOMAIN results :
    /\ i \in results[n].from..results[n].to
    /\ n < res \/ (n = res /\ i < job)

Shown(i) ==
  \A prim \in Jobs[i].makes : prim \in DOMAIN body[PathOf(i)] /\ body[PathOf(i)][prim] = i

OthersCleared(i) ==
  \A prim \in DOMAIN body[PathOf(i)] \ Jobs[i].makes :
    IF IsPlain(i) THEN Child[prim] \notin Jobs[i].makes ELSE prim \notin Cleared

Right(i) == Shown(i) /\ OthersCleared(i)

\* Jobs the loops are done with.
Merged(i) ==
  /\ IsPlain(i)
  /\ step \in {"rewriting", "done"} \/ (step = "merging" /\ Passed(i))

Rewritten(i) ==
  /\ ~IsPlain(i) /\ Jobs[i].proto \in defined
  /\ step = "done" \/ (step = "rewriting" /\ Passed(i))

WrittenInv ==
  \A i \in selected : Merged(i) \/ Rewritten(i) => Right(i)

IInv == TypeOK /\ CursorInv /\ DomainInv /\ BodyInv /\ WrittenInv
---------------------------------------------------------------------------
LEMMA JobFacts ==
  /\ Len(Jobs) \in Nat \ {0}
  /\ DOMAIN Jobs = 1..Len(Jobs)
  /\ \A i \in DOMAIN Jobs : PathOf(i) \in Paths /\ Jobs[i].makes \subseteq Prims
                            /\ Jobs[i].proto \in Protos
  BY JobAssumption DEF Protos, PathOf, WithChildren

\* A slice lies in the list.
LEMMA SliceFacts ==
  ASSUME TypeOK, NEW n \in DOMAIN results
  PROVE  /\ results[n] \in slices
         /\ results[n].from \in DOMAIN Jobs /\ results[n].to \in DOMAIN Jobs
         /\ results[n].from <= results[n].to
         /\ n \in 1..Len(results) /\ Len(results) \in Nat
  <1>1. results[n] \in slices /\ n \in 1..Len(results) /\ Len(results) \in Nat
    BY DEF TypeOK
  <1>2. slices \subseteq Slices
    BY DEF TypeOK, Partitions
  <1> QED BY <1>1, <1>2 DEF Slices

\* Every job lies in a slice.
LEMMA Covered ==
  ASSUME TypeOK, CursorInv, step # "writing", NEW i \in DOMAIN Jobs
  PROVE  \E n \in DOMAIN results : i \in results[n].from..results[n].to
  BY DEF TypeOK, CursorInv, Partitions

\* At the start of a loop no job has been passed.
LEMMA NonePassedAtStart ==
  ASSUME TypeOK', NEW i, res' = 1, job' = results'[1].from
  PROVE  ~Passed(i)'
  <1> SUFFICES ASSUME NEW n \in DOMAIN results',
                      i \in results'[n].from..results'[n].to,
                      n < 1 \/ (n = 1 /\ i < results'[1].from)
               PROVE  FALSE
    BY DEF Passed
  <1>1. n \in 1..Len(results') /\ Len(results') \in Nat
    BY DEF TypeOK
  <1>2. results'[n] \in slices' /\ slices' \subseteq Slices
    BY DEF TypeOK, Partitions
  <1>3. results'[n].from \in Nat
    BY <1>2, JobFacts DEF Slices
  <1> QED BY <1>1, <1>2, <1>3

\* The next job: the loop has passed one more, or it is over, and has passed them all.
LEMMA AdvanceStep ==
  ASSUME TypeOK, CursorInv, step # "writing", UNCHANGED <<slices, results>>,
         NEW after, after # "writing", Advance(after)
  PROVE  /\ CursorInv'
         /\ res' \in DOMAIN results /\ job' \in DOMAIN Jobs
         /\ \/ step' = step /\ \A i \in DOMAIN Jobs : Passed(i)' => Passed(i) \/ i = job
            \/ /\ step' = after /\ res' = 1 /\ job' = results[1].from
               /\ \A i \in DOMAIN Jobs : Passed(i) \/ i = job
  <1>1. /\ res \in 1..Len(results) /\ Len(results) \in Nat
        /\ DOMAIN results = 1..Len(results)
        /\ job \in results[res].from..results[res].to
    BY DEF TypeOK, CursorInv
  <1>2. \A n \in DOMAIN results :
          /\ results[n].from \in DOMAIN Jobs /\ results[n].to \in DOMAIN Jobs
          /\ results[n].from <= results[n].to
    BY SliceFacts
  <1>3. \A n \in DOMAIN results : \A i \in results[n].from..results[n].to : i \in DOMAIN Jobs
    BY <1>2, JobFacts
  <1>4. 1 \in DOMAIN results
    BY <1>1
  <1>5. \A s \in slices' : \E n \in DOMAIN results' : results'[n] = s
    BY DEF CursorInv
  <1>6. CASE job < results[res].to
    <2>1. job' = job + 1 /\ step' = step /\ res' = res
      BY <1>6 DEF Advance
    <2>2. job' \in results[res].from..results[res].to
      BY <1>1, <1>2, <1>6, <2>1, JobFacts
    <2>3. \A i \in DOMAIN Jobs : Passed(i)' => Passed(i) \/ i = job
      BY <1>1, <1>2, <2>1, JobFacts DEF Passed
    <2> QED BY <1>1, <1>3, <1>5, <2>1, <2>2, <2>3 DEF CursorInv
  <1>7. CASE ~(job < results[res].to) /\ res < Len(results)
    <2>1. res' = res + 1 /\ job' = results[res + 1].from /\ step' = step
      BY <1>7 DEF Advance
    <2>2. res + 1 \in DOMAIN results
      BY <1>1, <1>7
    <2>3. job' \in results[res + 1].from..results[res + 1].to
      BY <1>2, <2>1, <2>2, JobFacts
    <2>4. ASSUME NEW i \in DOMAIN Jobs, Passed(i)' PROVE Passed(i) \/ i = job
      <3>1. PICK n \in DOMAIN results :
              /\ i \in results[n].from..results[n].to
              /\ n < res + 1 \/ (n = res + 1 /\ i < results[res + 1].from)
        BY <2>1, <2>4 DEF Passed
      <3>2. n < res \/ n = res
        BY <1>1, <1>2, <3>1, <2>2, JobFacts
      <3>3. n = res => i < job \/ i = job
        BY <1>1, <1>2, <1>7, <3>1, JobFacts
      <3> QED BY <3>1, <3>2, <3>3 DEF Passed
    <2> QED BY <1>3, <1>5, <2>1, <2>2, <2>3, <2>4 DEF CursorInv
  <1>8. CASE ~(job < results[res].to) /\ ~(res < Len(results))
    <2>1. res' = 1 /\ job' = results[1].from /\ step' = after
      BY <1>8 DEF Advance
    <2>2. job' \in results[1].from..results[1].to
      BY <1>2, <1>4, <2>1, JobFacts
    <2>3. ASSUME NEW i \in DOMAIN Jobs PROVE Passed(i) \/ i = job
      <3>1. PICK n \in DOMAIN results : i \in results[n].from..results[n].to
        BY Covered
      <3>2. n < res \/ n = res
        BY <1>1, <1>8, <3>1
      <3>3. n = res => i < job \/ i = job
        BY <1>1, <1>2, <1>8, <3>1, JobFacts
      <3> QED BY <3>1, <3>2, <3>3 DEF Passed
    <2> QED BY <1>3, <1>4, <1>5, <2>1, <2>2, <2>3 DEF CursorInv
  <1> QED BY <1>6, <1>7, <1>8
---------------------------------------------------------------------------
LEMMA InitInv == Init => IInv
  <1> SUFFICES ASSUME Init PROVE IInv
    OBVIOUS
  <1>1. \A path \in Paths : DOMAIN body[path] \subseteq Prims
                            /\ \A prim \in DOMAIN body[path] : body[path][prim] = Earlier
    <2> SUFFICES ASSUME NEW path \in Paths
                 PROVE  DOMAIN body[path] \subseteq Prims
                        /\ \A prim \in DOMAIN body[path] : body[path][prim] = Earlier
      OBVIOUS
    <2>1. PICK prims \in Found : body[path] = [prim \in prims |-> Earlier]
      BY DEF Init
    <2> QED BY <2>1, JobAssumption DEF WithChildren
  <1>2. TypeOK
    <2>1. results \in Seq(slices) /\ 1 \in DOMAIN Jobs
      BY JobFacts DEF Init
    <2>2. \A path \in Paths : Range(body[path]) \subseteq DOMAIN Jobs \cup {Earlier}
      BY <1>1 DEF Range
    <2>3. \A p \in Protos : <<p, selection[p]>> \in Paths /\ active[p] \in {{}, {TRUE}, {FALSE}}
      BY JobAssumption DEF Init, Protos
    <2>4. \A path \in Paths : variantActive[path] \in {{}, {TRUE}, {FALSE}}
      BY DEF Init
    <2> QED BY <1>1, <2>1, <2>2, <2>3, <2>4 DEF Init, TypeOK
  <1>3. DomainInv
    BY DEF Init, DomainInv
  <1> QED BY <1>1, <1>2, <1>3 DEF Init, IInv, CursorInv, BodyInv, WrittenInv, Merged, Rewritten
---------------------------------------------------------------------------
\* What a step leaves alone in a body, it leaves right.
LEMMA ShownKept ==
  ASSUME NEW i \in DOMAIN Jobs, PathOf(i) \in Paths, body'[PathOf(i)] = body[PathOf(i)]
  PROVE  Right(i) => Right(i)'
  BY DEF Right, Shown, OthersCleared, PathOf, IsPlain

LEMMA FinishSliceInv ==
  ASSUME IInv, NEW s \in slices, FinishSlice(s)
  PROVE  IInv'
  <1>1. step = "writing" /\ step' = "writing" /\ results' = Append(results, s)
        /\ UNCHANGED <<selected, slices, cursor, stage>>
    BY DEF FinishSlice, cursor
  <1>2. TypeOK'
    <2>1. results' \in Seq(slices) /\ DOMAIN results \subseteq DOMAIN results'
      BY <1>1 DEF IInv, TypeOK
    <2> QED BY <1>1, <2>1 DEF IInv, TypeOK, cursor, stage
  <1> QED BY <1>1, <1>2 DEF IInv, CursorInv, DomainInv, BodyInv, WrittenInv, Merged, Rewritten,
                              Right, Shown, OthersCleared, PathOf, IsPlain, stage, cursor

LEMMA PreCreateInv ==
  ASSUME IInv, PreCreateVariants
  PROVE  IInv'
  <1>1. /\ step' = "merging" /\ res' = 1 /\ job' = results[1].from
        /\ \A s \in slices : \E n \in DOMAIN results : results[n] = s
        /\ UNCHANGED <<selected, slices, results, defined, body, selection, active, variantActive>>
    BY DEF PreCreateVariants
  <1>2. 1 \in DOMAIN results
    <2>1. PICK s \in slices : 1 \in s.from..s.to
      BY JobFacts DEF IInv, TypeOK, Partitions
    <2>2. PICK n \in DOMAIN results : results[n] = s
      BY <1>1
    <2> QED BY <2>2 DEF IInv, TypeOK
  <1>3. results[1].from \in DOMAIN Jobs /\ results[1].to \in DOMAIN Jobs
        /\ results[1].from <= results[1].to
    BY <1>2, SliceFacts DEF IInv
  <1>4. variants' \subseteq Paths
    BY JobFacts DEF PreCreateVariants, IInv, TypeOK
  <1>5. TypeOK'
    BY <1>1, <1>3, <1>4 DEF IInv, TypeOK
  <1>6. CursorInv'
    BY <1>1, <1>2, <1>3, JobFacts DEF CursorInv
  <1>7. DomainInv' /\ BodyInv'
    BY <1>1 DEF IInv, DomainInv, BodyInv, PathOf
  <1>8. \A i : ~Passed(i)'
    BY <1>1, <1>5, NonePassedAtStart
  <1>9. WrittenInv'
    BY <1>1, <1>8 DEF WrittenInv, Merged, Rewritten
  <1> QED BY <1>5, <1>6, <1>7, <1>9 DEF IInv

\* The step of a loop: the jobs passed and written so far stay so.
LEMMA LoopInv ==
  ASSUME IInv, step \in {"merging", "rewriting"}, UNCHANGED <<selected, slices, results>>,
         Advance(IF step = "merging" THEN "rewriting" ELSE "done"),
         NEW now \in DOMAIN Jobs, now = job,
         \A i \in DOMAIN Jobs \ {now} : body'[PathOf(i)] = body[PathOf(i)],
         step = "rewriting" => defined' = defined,
         now \in selected /\ IsPlain(now) /\ (step = "merging" \/ Right(now)) => Right(now)',
         now \in selected /\ ~IsPlain(now) /\ step = "rewriting" /\ Jobs[now].proto \in defined
           => Right(now)'
  PROVE  CursorInv' /\ WrittenInv' /\ res' \in DOMAIN results' /\ job' \in DOMAIN Jobs
         /\ step' \in {"merging", "rewriting", "done"}
  <1> DEFINE after == IF step = "merging" THEN "rewriting" ELSE "done"
  <1> USE DEF IInv
  <1>1. /\ CursorInv'
        /\ res' \in DOMAIN results /\ job' \in DOMAIN Jobs
        /\ \/ step' = step /\ \A i \in DOMAIN Jobs : Passed(i)' => Passed(i) \/ i = job
           \/ /\ step' = after /\ res' = 1 /\ job' = results[1].from
              /\ \A i \in DOMAIN Jobs : Passed(i) \/ i = job
    BY AdvanceStep
  <1>2. step' = "rewriting" /\ step = "merging" => \A i \in DOMAIN Jobs : ~Passed(i)'
    <2>1. SUFFICES ASSUME step = "merging", step' = "rewriting", NEW i \in DOMAIN Jobs, Passed(i)'
                   PROVE  FALSE
      OBVIOUS
    <2>2. res' = 1 /\ job' = results[1].from
      BY <1>1, <2>1
    <2>3. PICK n \in DOMAIN results :
            /\ i \in results[n].from..results[n].to
            /\ n < 1 \/ (n = 1 /\ i < results[1].from)
      BY <2>1, <2>2 DEF Passed
    <2> QED BY <2>3, SliceFacts, JobFacts
  <1>3. ASSUME NEW i \in selected' PROVE Merged(i)' => Right(i)'
    <2>1. i \in selected /\ i \in DOMAIN Jobs /\ PathOf(i) \in Paths
      BY <1>3, JobFacts DEF TypeOK
    <2>2. SUFFICES ASSUME Merged(i)' PROVE Right(i)'
      OBVIOUS
    <2>3. IsPlain(i)
      BY <2>2 DEF Merged, IsPlain
    <2>4. CASE i = now
      <3>1. step = "rewriting" => Right(now)
        BY <2>1, <2>3, <2>4 DEF WrittenInv, Merged
      <3> QED BY <2>1, <2>3, <2>4, <3>1
    <2>5. CASE i # now
      <3>1. Merged(i)
        BY <1>1, <2>1, <2>2, <2>3, <2>5 DEF Merged
      <3> QED BY <2>1, <2>5, <3>1, ShownKept DEF WrittenInv
    <2> QED BY <2>4, <2>5
  <1>4. ASSUME NEW i \in selected' PROVE Rewritten(i)' => Right(i)'
    <2>1. i \in selected /\ i \in DOMAIN Jobs /\ PathOf(i) \in Paths
      BY <1>4, JobFacts DEF TypeOK
    <2>2. SUFFICES ASSUME Rewritten(i)' PROVE Right(i)'
      OBVIOUS
    <2>3. ~IsPlain(i) /\ step = "rewriting" /\ Jobs[i].proto \in defined
      BY <1>1, <1>2, <2>1, <2>2 DEF Rewritten, IsPlain
    <2>4. CASE i = now
      BY <2>1, <2>3, <2>4
    <2>5. CASE i # now
      <3>1. Rewritten(i)
        BY <1>1, <2>1, <2>2, <2>3, <2>5 DEF Rewritten
      <3> QED BY <2>1, <2>5, <3>1, ShownKept DEF WrittenInv
    <2> QED BY <2>4, <2>5
  <1>5. step' \in {"merging", "rewriting", "done"}
    BY <1>1
  <1> QED BY <1>1, <1>3, <1>4, <1>5 DEF WrittenInv

\* Jobs have bodies of their own.
LEMMA OwnBody ==
  ASSUME NEW i \in DOMAIN Jobs, NEW j \in DOMAIN Jobs, i # j
  PROVE  PathOf(i) # PathOf(j)
  BY JobAssumption

LEMMA MergeJobInv ==
  ASSUME IInv, MergeJob
  PROVE  IInv'
  <1> USE DEF IInv
  <1> PICK now \in DOMAIN Jobs : now = job
    BY JobFacts DEF TypeOK
  <1>1. /\ step = "merging" /\ now \in selected /\ IsPlain(now)
        /\ body' = [body EXCEPT ![PathOf(now)] = Copied(@, now)]
        /\ defined' = defined \cup {Jobs[now].proto}
        /\ Advance("rewriting")
        /\ UNCHANGED <<selected, slices, results, variants, selection, active, variantActive>>
    BY DEF MergeJob
  <1>2. PathOf(now) \in Paths /\ PathOf(now) \in DOMAIN body
        /\ Jobs[now].makes \subseteq Prims /\ Jobs[now].proto \in Protos
    BY <1>1, JobFacts DEF TypeOK, DomainInv
  <1>3. \A path \in Paths : path # PathOf(now) => body'[path] = body[path]
    BY <1>1 DEF DomainInv
  <1>4. body'[PathOf(now)] = Copied(body[PathOf(now)], now)
    BY <1>1, <1>2
  <1>5. /\ Jobs[now].makes \subseteq DOMAIN body'[PathOf(now)]
        /\ \A prim \in Jobs[now].makes : body'[PathOf(now)][prim] = now
        /\ \A prim \in DOMAIN body'[PathOf(now)] \ Jobs[now].makes :
             /\ prim \in DOMAIN body[PathOf(now)] /\ body'[PathOf(now)][prim] = body[PathOf(now)][prim]
             /\ Child[prim] \notin Jobs[now].makes
    BY <1>4 DEF Copied, Over, Without
  <1>6. Right(now)'
    BY <1>1, <1>5 DEF Right, Shown, OthersCleared, PathOf, IsPlain
  <1>7. CursorInv' /\ WrittenInv' /\ res' \in DOMAIN results' /\ job' \in DOMAIN Jobs
        /\ step' \in {"merging", "rewriting", "done"}
    BY <1>1, <1>2, <1>3, <1>6, JobFacts, OwnBody, LoopInv
  <1>8. BodyInv'
    BY <1>2, <1>3, <1>5 DEF BodyInv, PathOf
  <1>9. TypeOK'
    <2>1. \A path \in Paths :
            /\ DOMAIN body'[path] \subseteq Prims
            /\ Range(body'[path]) \subseteq DOMAIN Jobs \cup {Earlier}
      <3>1. \A path \in Paths : DOMAIN body'[path] \subseteq Prims
        BY <1>2, <1>3, <1>5 DEF TypeOK
      <3> QED BY <1>8, <3>1 DEF BodyInv, Range
    <2> QED BY <1>1, <1>2, <1>7, <2>1 DEF TypeOK
  <1>10. DomainInv'
    BY <1>1 DEF DomainInv
  <1> QED BY <1>7, <1>8, <1>9, <1>10

LEMMA RewriteVariantInv ==
  ASSUME IInv, RewriteVariant
  PROVE  IInv'
  <1> USE DEF IInv
  <1> PICK now \in DOMAIN Jobs : now = job
    BY JobFacts DEF TypeOK
  <1> DEFINE p == Jobs[now].proto
  <1>1. /\ step = "rewriting" /\ now \in selected /\ ~IsPlain(now)
        /\ p \in defined
        /\ active' = IF Authored(p) = {} THEN active ELSE [active EXCEPT ![p] = {TRUE}]
        /\ variants' = variants \cup {PathOf(now)}
        /\ selection' = [selection EXCEPT ![p] = Jobs[now].variant]
        /\ body' = [body EXCEPT ![PathOf(now)] = Over(Without(@, Cleared), now)]
        /\ variantActive' = [variantActive EXCEPT ![PathOf(now)] = Authored(p)]
        /\ Advance("done")
        /\ UNCHANGED <<selected, slices, results, defined>>
    BY DEF RewriteVariant
  <1>2. PathOf(now) \in Paths /\ PathOf(now) \in DOMAIN body /\ PathOf(now) = <<p, Jobs[now].variant>>
        /\ Jobs[now].makes \subseteq Prims /\ p \in Protos
    BY <1>1, JobFacts DEF TypeOK, DomainInv, PathOf
  <1>3. \A path \in Paths : path # PathOf(now) => body'[path] = body[path]
    BY <1>1 DEF DomainInv
  <1>4. body'[PathOf(now)] = Over(Without(body[PathOf(now)], Cleared), now)
    BY <1>1, <1>2
  <1>5. /\ Jobs[now].makes \subseteq DOMAIN body'[PathOf(now)]
        /\ \A prim \in Jobs[now].makes : body'[PathOf(now)][prim] = now
        /\ \A prim \in DOMAIN body'[PathOf(now)] \ Jobs[now].makes :
             /\ prim \in DOMAIN body[PathOf(now)] /\ body'[PathOf(now)][prim] = body[PathOf(now)][prim]
             /\ prim \notin Cleared
    BY <1>4 DEF Over, Without
  <1>6. Right(now)'
    BY <1>1, <1>5 DEF Right, Shown, OthersCleared, PathOf, IsPlain
  <1>7. CursorInv' /\ WrittenInv' /\ res' \in DOMAIN results' /\ job' \in DOMAIN Jobs
        /\ step' \in {"merging", "rewriting", "done"}
    BY <1>1, <1>2, <1>3, <1>6, JobFacts, OwnBody, LoopInv
  <1>8. BodyInv'
    BY <1>2, <1>3, <1>5 DEF BodyInv, PathOf
  <1>9. TypeOK'
    <2>1. \A path \in Paths :
            /\ DOMAIN body'[path] \subseteq Prims
            /\ Range(body'[path]) \subseteq DOMAIN Jobs \cup {Earlier}
      <3>1. \A path \in Paths : DOMAIN body'[path] \subseteq Prims
        BY <1>2, <1>3, <1>5 DEF TypeOK
      <3> QED BY <1>8, <3>1 DEF BodyInv, Range
    <2>2. Authored(p) \in {{}, {TRUE}, {FALSE}}
      BY <1>2 DEF Authored, TypeOK
    <2>3. \A path \in Paths : variantActive'[path] \in {{}, {TRUE}, {FALSE}}
      BY <1>1, <2>2 DEF TypeOK, DomainInv
    <2>4. \A q \in Protos : active'[q] \in {{}, {TRUE}, {FALSE}}
      BY <1>1 DEF TypeOK, DomainInv
    <2>5. \A q \in Protos : <<q, selection'[q]>> \in Paths
      BY <1>1, <1>2 DEF TypeOK, DomainInv
    <2> QED BY <1>1, <1>2, <1>7, <2>1, <2>3, <2>4, <2>5 DEF TypeOK
  <1>10. DomainInv'
    BY <1>1 DEF DomainInv
  <1> QED BY <1>7, <1>8, <1>9, <1>10

\* A job that is passed over changes nothing but the cursor.
LEMMA PassInv ==
  ASSUME IInv, PassMerge \/ PassRewrite
  PROVE  IInv'
  <1> USE DEF IInv
  <1> PICK now \in DOMAIN Jobs : now = job
    BY JobFacts DEF TypeOK
  <1>1. /\ step \in {"merging", "rewriting"}
        /\ step = "merging" => now \notin selected \/ ~IsPlain(now)
        /\ step = "rewriting" => now \notin selected \/ IsPlain(now) \/ Jobs[now].proto \notin defined
        /\ Advance(IF step = "merging" THEN "rewriting" ELSE "done")
        /\ UNCHANGED <<selected, slices, results>> /\ UNCHANGED stage
    BY DEF PassMerge, PassRewrite
  <1>2. UNCHANGED <<defined, body, variants, selection, active, variantActive>>
    BY <1>1 DEF stage
  <1>3. Right(now) => Right(now)'
    BY <1>2, JobFacts, ShownKept
  <1>4. CursorInv' /\ WrittenInv' /\ res' \in DOMAIN results' /\ job' \in DOMAIN Jobs
        /\ step' \in {"merging", "rewriting", "done"}
    BY <1>1, <1>2, <1>3, LoopInv
  <1>5. TypeOK'
    BY <1>1, <1>2, <1>4 DEF TypeOK
  <1>6. DomainInv' /\ BodyInv'
    BY <1>2 DEF DomainInv, BodyInv, PathOf
  <1> QED BY <1>4, <1>5, <1>6

LEMMA StutterInv ==
  ASSUME IInv, UNCHANGED vars
  PROVE  IInv'
  BY DEF IInv, vars, cursor, stage, TypeOK, CursorInv, DomainInv, BodyInv, WrittenInv, Merged,
         Rewritten, Passed, Right, Shown, OthersCleared, PathOf, IsPlain

LEMMA Invariance == Spec => []IInv
  <1>1. IInv /\ [Next]_vars => IInv'
    BY FinishSliceInv, PreCreateInv, MergeJobInv, RewriteVariantInv, PassInv, StutterInv DEF Next
  <1> QED BY InitInv, <1>1, PTL DEF Spec
---------------------------------------------------------------------------
\* The variables of writePrototypeGeometries have their types, whatever the jobs.
THEOREM TypeCorrect == Spec => []TypeOK
  <1>1. IInv => TypeOK
    BY DEF IInv
  <1> QED BY <1>1, Invariance, PTL

\* When the layers have been merged and the variants written again, each selected job's
\* geometry is in the stage, and beside it only prims of an earlier run: those in other
\* children than a plain job makes, and those that clearPrim does not remove.
THEOREM Written == Spec => []SelectedWritten
  <1>1. IInv => SelectedWritten
    <2> SUFFICES ASSUME IInv, step = "done", NEW i \in selected, Jobs[i].proto \in defined
                 PROVE  /\ Right(i)
                        /\ \A prim \in DOMAIN body[PathOf(i)] \ Jobs[i].makes :
                             body[PathOf(i)][prim] = Earlier
      BY DEF SelectedWritten, Right, Shown, OthersCleared
    <2>1. i \in DOMAIN Jobs /\ PathOf(i) \in Paths
      BY JobFacts DEF IInv, TypeOK
    <2>2. Right(i)
      BY DEF IInv, WrittenInv, Merged, Rewritten
    <2>3. \A prim \in DOMAIN body[PathOf(i)] \ Jobs[i].makes : body[PathOf(i)][prim] = Earlier
      BY <2>1, OwnBody DEF IInv, BodyInv
    <2> QED BY <2>2, <2>3
  <1> QED BY <1>1, Invariance, PTL

\* No step of the call touches a body of which no job is selected.
THEOREM Kept == Spec => UnselectedKept
  <1> DEFINE Keeps == \A path \in Paths \ {PathOf(i) : i \in selected} : body'[path] = body[path]
  <1>1. IInv /\ [Next]_vars => [Keeps]_vars
    <2> SUFFICES ASSUME IInv, Next, NEW path \in Paths, \A i \in selected : path # PathOf(i)
                 PROVE  body'[path] = body[path]
      OBVIOUS
    <2>1. DOMAIN body = Paths
      BY DEF IInv, DomainInv
    <2>2. CASE MergeJob
      BY <2>1, <2>2 DEF MergeJob
    <2>3. CASE RewriteVariant
      BY <2>1, <2>3 DEF RewriteVariant
    <2>4. CASE PassMerge \/ PassRewrite \/ PreCreateVariants \/ \E s \in slices : FinishSlice(s)
      BY <2>4 DEF PassMerge, PassRewrite, PreCreateVariants, FinishSlice, stage
    <2> QED BY <2>2, <2>3, <2>4 DEF Next
  <1>2. Spec => [][Next]_vars
    BY PTL DEF Spec
  <1> QED BY <1>1, <1>2, Invariance, PTL DEF UnselectedKept
=============================================================================
