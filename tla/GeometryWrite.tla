----------------------------- MODULE GeometryWrite -----------------------------
(***************************************************************************)
(* writePrototypeGeometries (lib/CadUSD/WritePrims.cpp) on one prototypes  *)
(* stage: slices of the job list are written in parallel, each to an       *)
(* anonymous layer of its own, and the layers are merged in the order in   *)
(* which the slices finished.  Geometry of a prototype without variants is *)
(* copied from the layer; that of a prototype's variant is written again,  *)
(* on the stage itself.                                                    *)
(*                                                                         *)
(* A body is what the stage has under a prototype, or in one of its        *)
(* variants: prims, each with the job that wrote it, or Earlier.  A prim   *)
(* is a child of the body or lies in one: Plane_0 lies in SketchPlanes.    *)
(* In its anonymous layer a job's body is what it makes: the layer is new. *)
(* What a layer has in variants is never read.  Properties, which are      *)
(* copied like children, and the progress count are left out.              *)
(***************************************************************************)
EXTENDS Naturals, Sequences, Functions

CONSTANTS Jobs,      \* the jobs by size: prototype, variant, prims its routine makes
          Paths,     \* prototypes and their variants: <<prototype, variant>>
          NoVariant, \* the variant of a prototype's own body
          Prims,     \* prims a routine may define in a body
          Child,     \* prim -> the child of the body that it is or lies in
          Found,     \* sets of prims an earlier run may have left in a body
          Earlier,   \* no job: the writer of what was there
          Inactive   \* prototypes that may have been deactivated by hand

Protos == {path[1] : path \in Paths}
PathOf(i) == <<Jobs[i].proto, Jobs[i].variant>>
IsPlain(i) == Jobs[i].variant = NoVariant
WithChildren(prims) == prims \subseteq Prims /\ \A prim \in prims : Child[prim] \in prims

\* populateTessellationJobs makes one job for a prototype, or one for each variant.
ASSUME JobAssumption ==
  /\ Jobs \in Seq(Range(Jobs)) /\ Jobs # << >>
  /\ Child \in [Prims -> Prims]
  /\ \A i \in DOMAIN Jobs : PathOf(i) \in Paths /\ WithChildren(Jobs[i].makes)
  /\ \A i, j \in DOMAIN Jobs :
       i # j => PathOf(i) # PathOf(j) /\ (IsPlain(i) => Jobs[i].proto # Jobs[j].proto)
  /\ \A path \in Paths : path = <<path[1], path[2]>> /\ <<path[1], NoVariant>> \in Paths
  /\ \A prims \in Found : WithChildren(prims)
  /\ Earlier \notin DOMAIN Jobs

\* clearPrim of the mesh and of the sketch routine removes these children with all that
\* lies in them.  (The planes lie in SketchPlanes, not in SketchPlane.)
Cleared == {prim \in Prims : Child[prim] \in {"Mesh", "Wireframe", "Sketch", "SketchPlane"}}

Slices == {s \in [from : DOMAIN Jobs, to : DOMAIN Jobs] : s.from <= s.to}
Partitions ==
  {p \in SUBSET Slices : \A i \in DOMAIN Jobs : \E s \in p :
     i \in s.from..s.to /\ \A t \in p : i \in t.from..t.to => t = s}

VARIABLES
  selected,  \* jobs that are active in the filter
  slices,    \* how WorkParallelForN cuts the list
  results,   \* threadResults: slices in the order in which they finished
  step,      \* "writing", "merging", "rewriting", "done"
  res, job,  \* where the loops over results and their jobs are
  defined,   \* prototypes that have a prim
  body,      \* path -> prim -> writer
  variants,  \* variant specs
  selection, \* prototype -> the variant selected, NoVariant if none
  active,    \* prototype -> the value authored on the prim: TRUE, FALSE, or {}
  variantActive \* path -> the value authored in the variant

cursor == <<step, res, job>>
stage  == <<defined, body, variants, selection, active, variantActive>>
vars   == <<selected, slices, results, cursor, stage>>
---------------------------------------------------------------------------
Without(b, prims) == [prim \in DOMAIN b \ prims |-> b[prim]]

\* Prims are defined over what a body has.
Over(b, i) == [prim \in DOMAIN b \cup Jobs[i].makes |-> IF prim \in Jobs[i].makes THEN i ELSE b[prim]]

\* A child that is copied replaces the one of its name and all that lies in it.
Copied(b, i) == Over(Without(b, {prim \in DOMAIN b : Child[prim] \in Jobs[i].makes}), i)

\* A task has written its layer and reports it.
FinishSlice(s) ==
  /\ step = "writing"
  /\ \A n \in DOMAIN results : results[n] # s
  /\ results' = Append(results, s)
  /\ UNCHANGED <<selected, slices, cursor, stage>>

\* The variants of all jobs get their specs, selected or not, if the prototype is there.
PreCreateVariants ==
  /\ step = "writing"
  /\ \A s \in slices : \E n \in DOMAIN results : results[n] = s
  /\ variants' = variants \cup
       {PathOf(i) : i \in {j \in DOMAIN Jobs : ~IsPlain(j) /\ Jobs[j].proto \in defined}}
  /\ step' = "merging" /\ res' = 1 /\ job' = results[1].from
  /\ UNCHANGED <<selected, slices, results, defined, body, selection, active, variantActive>>

\* Mutated form: the end of a slice is taken as part of it.
Advance_PastEnd(after) ==
  IF job <= results[res].to THEN job' = job + 1 /\ UNCHANGED <<step, res>>
  ELSE IF res < Len(results)
  THEN res' = res + 1 /\ job' = results[res + 1].from /\ UNCHANGED step
  ELSE res' = 1 /\ job' = results[1].from /\ step' = after

\* The next job of the slice, the first of the next, or the first in the loops after.
Advance(after) ==
  IF job < results[res].to THEN job' = job + 1 /\ UNCHANGED <<step, res>>
  ELSE IF res < Len(results)
  THEN res' = res + 1 /\ job' = results[res + 1].from /\ UNCHANGED step
  ELSE res' = 1 /\ job' = results[1].from /\ step' = after

\* Mutated form: jobs outside the filter are merged too.
MergeJob_Unfiltered ==
  /\ step = "merging"
  /\ IsPlain(job)
  /\ body' = [body EXCEPT ![PathOf(job)] = Copied(@, job)]
  /\ defined' = defined \cup {Jobs[job].proto}
  /\ Advance("rewriting")
  /\ UNCHANGED <<selected, slices, results, variants, selection, active, variantActive>>

\* The children in the layer replace those of their name; without a prim in the stage
\* the whole prim is copied.
MergeJob ==
  /\ step = "merging"
  /\ job \in selected /\ IsPlain(job)
  /\ body' = [body EXCEPT ![PathOf(job)] = Copied(@, job)]
  /\ defined' = defined \cup {Jobs[job].proto}
  /\ Advance("rewriting")
  /\ UNCHANGED <<selected, slices, results, variants, selection, active, variantActive>>

PassMerge ==
  /\ step = "merging"
  /\ job \notin selected \/ ~IsPlain(job)
  /\ Advance("rewriting")
  /\ UNCHANGED <<selected, slices, results, stage>>

\* The prim's own opinion about being active wins over that of the variant selected.
Authored(p) == IF active[p] # {} THEN active[p] ELSE variantActive[<<p, selection[p]>>]

\* Mutated form: nothing is cleared.
RewriteVariant_NotCleared ==
  /\ step = "rewriting"
  /\ job \in selected /\ ~IsPlain(job)
  /\ LET p == Jobs[job].proto IN
       /\ p \in defined
       /\ active' = IF Authored(p) = {} THEN active ELSE [active EXCEPT ![p] = {TRUE}]
       /\ variants' = variants \cup {PathOf(job)}
       /\ selection' = [selection EXCEPT ![p] = Jobs[job].variant]
       /\ body' = [body EXCEPT ![PathOf(job)] = Over(@, job)]
       /\ variantActive' = [variantActive EXCEPT ![PathOf(job)] = Authored(p)]
  /\ Advance("done")
  /\ UNCHANGED <<selected, slices, results, defined>>

\* The prim is made active, the variant selected, and its body cleared, defined and
\* written.  What is restored at the end is written into the variant too, whose edit
\* context is still open: the prim stays active, and the selection stays.
RewriteVariant ==
  /\ step = "rewriting"
  /\ job \in selected /\ ~IsPlain(job)
  /\ LET p == Jobs[job].proto IN
       /\ p \in defined
       /\ active' = IF Authored(p) = {} THEN active ELSE [active EXCEPT ![p] = {TRUE}]
       /\ variants' = variants \cup {PathOf(job)}
       /\ selection' = [selection EXCEPT ![p] = Jobs[job].variant]
       /\ body' = [body EXCEPT ![PathOf(job)] = Over(Without(@, Cleared), job)]
       /\ variantActive' = [variantActive EXCEPT ![PathOf(job)] = Authored(p)]
  /\ Advance("done")
  /\ UNCHANGED <<selected, slices, results, defined>>

PassRewrite ==
  /\ step = "rewriting"
  /\ job \notin selected \/ IsPlain(job) \/ Jobs[job].proto \notin defined
  /\ Advance("done")
  /\ UNCHANGED <<selected, slices, results, stage>>

Init ==
  /\ selected \in SUBSET DOMAIN Jobs
  /\ slices \in Partitions
  /\ results = << >>
  /\ step = "writing" /\ res = 1 /\ job = 1
  /\ defined \in SUBSET Protos
  /\ body \in [Paths -> {[prim \in prims |-> Earlier] : prims \in Found}]
  /\ variants = {path \in Paths : path[2] # NoVariant /\ DOMAIN body[path] # {}}
  /\ \A path \in Paths : DOMAIN body[path] # {} => path[1] \in defined
  /\ selection = [p \in Protos |-> NoVariant]
  /\ active \in {a \in [Protos -> {{}, {FALSE}}] : \A p \in Protos \ Inactive : a[p] = {}}
  /\ variantActive = [path \in Paths |-> {}]

Next ==
  \/ \E s \in slices : FinishSlice(s)
  \/ PreCreateVariants
  \/ MergeJob \/ PassMerge
  \/ RewriteVariant \/ PassRewrite

Spec == Init /\ [][Next]_vars
---------------------------------------------------------------------------
\* Variables have their types.
TypeOK ==
  /\ selected \subseteq DOMAIN Jobs
  /\ slices \in Partitions
  /\ results \in Seq(slices)
  /\ step \in {"writing", "merging", "rewriting", "done"}
  /\ res \in DOMAIN results \cup {1}
  /\ job \in DOMAIN Jobs
  /\ defined \subseteq Protos
  /\ variants \subseteq Paths
  /\ \A path \in Paths :
       /\ DOMAIN body[path] \subseteq Prims
       /\ Range(body[path]) \subseteq DOMAIN Jobs \cup {Earlier}
       /\ variantActive[path] \in {{}, {TRUE}, {FALSE}}
  /\ \A p \in Protos : <<p, selection[p]>> \in Paths /\ active[p] \in {{}, {TRUE}, {FALSE}}

\* However the list is cut and whichever slice ends first: a selected job's body ends
\* up with what its routine made.  Beside that there are only prims of an earlier run
\* that the routine makes no more: in a prototype's own body, those in other children
\* than it makes; in a variant, those that clearPrim does not remove.
SelectedWritten ==
  step = "done" =>
    \A i \in selected : Jobs[i].proto \in defined =>
      /\ \A prim \in Jobs[i].makes : prim \in DOMAIN body[PathOf(i)] /\ body[PathOf(i)][prim] = i
      /\ \A prim \in DOMAIN body[PathOf(i)] \ Jobs[i].makes :
           /\ body[PathOf(i)][prim] = Earlier
           /\ IF IsPlain(i) THEN Child[prim] \notin Jobs[i].makes ELSE prim \notin Cleared

\* "Clear any previously written geometry under this variant" (WritePrims.cpp:567): when
\* a variant has been written again, nothing of an earlier run is left in it.
VariantsCleared ==
  step = "done" =>
    \A i \in selected : Jobs[i].proto \in defined /\ ~IsPlain(i) =>
      Earlier \notin Range(body[PathOf(i)])

\* A body of which no job is selected is never touched, although its neighbours in the
\* slice and the other variants of its prototype are written.
UnselectedKept ==
  [][\A path \in Paths \ {PathOf(i) : i \in selected} : body'[path] = body[path]]_vars
=============================================================================
