---------------------------- MODULE TessPromise ----------------------------
(***************************************************************************)
(* What CadUsdPipeline::tessellateGeometry promises its caller, with no    *)
(* threads, grouping or monitor: every job of the list is settled exactly  *)
(* once before the call returns; a job the filter leaves out is skipped; a *)
(* selected job is served with geometry made from its own shape under its  *)
(* own parameters, or it fails.  Jobs that share shape and parameters may  *)
(* be served, or fail, together.  Nothing a settled job holds changes.     *)
(***************************************************************************)
EXTENDS Naturals

CONSTANTS Job,       \* indices of the tessellation jobs
          ShapeOf,   \* the TShape each job's definition refers to
          ParamsOf   \* the tessellation parameters of each job

VARIABLES selected,  \* the jobs isPrototypeActiveInFilter accepts (an input)
          status,    \* what has become of each job
          geometry,  \* the (shape, parameters) a job's geometry was made from
          returned   \* whether the call has returned

vars == <<selected, status, geometry, returned>>

Nothing == <<>>

Need(j) == <<ShapeOf[j], ParamsOf[j]>>

Init ==
  /\ selected \in SUBSET Job
  /\ status = [j \in Job |-> "todo"]
  /\ geometry = [j \in Job |-> Nothing]
  /\ returned = FALSE

\* A job outside the selection is settled without being tessellated.
Skip(j) ==
  /\ j \notin selected
  /\ status[j] = "todo"
  /\ status' = [status EXCEPT ![j] = "skipped"]
  /\ UNCHANGED <<selected, geometry, returned>>

\* A batch may be settled together: all of it selected, unsettled and alike.
Batch(J) ==
  /\ J \subseteq selected
  /\ \A j \in J : status[j] = "todo"
  /\ \A i, j \in J : Need(i) = Need(j)

Serve(J) ==
  /\ Batch(J)
  /\ status' = [j \in Job |-> IF j \in J THEN "served" ELSE status[j]]
  /\ geometry' = [j \in Job |-> IF j \in J THEN Need(j) ELSE geometry[j]]
  /\ UNCHANGED <<selected, returned>>

Fail(J) ==
  /\ Batch(J)
  /\ status' = [j \in Job |-> IF j \in J THEN "failed" ELSE status[j]]
  /\ UNCHANGED <<selected, geometry, returned>>

Return ==
  /\ ~returned
  /\ \A j \in Job : status[j] # "todo"
  /\ returned' = TRUE
  /\ UNCHANGED <<selected, status, geometry>>

Next ==
  \/ \E j \in Job : Skip(j)
  \/ \E J \in SUBSET Job : Serve(J) \/ Fail(J)
  \/ Return

Spec == Init /\ [][Next]_vars
=============================================================================
