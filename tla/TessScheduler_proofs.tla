------------------------ MODULE TessScheduler_proofs ------------------------
(***************************************************************************)
(* Proofs about TessScheduler for every job list, every assignment of      *)
(* shapes and parameters, and every tally threshold.                       *)
(***************************************************************************)
EXTENDS TessScheduler, FiniteSetTheorems, TLAPS

\* The job belongs to the batch its shape's task is on.
OnBatch(j) == leader[j] = current[ShapeOf[j]]

\* A job and the first job of its subgroup are alike.
LeaderInv ==
  \A j \in Job : leader[j] # NoJob =>
    /\ ShapeOf[leader[j]] = ShapeOf[j]
    /\ ParamsOf[leader[j]] = ParamsOf[j]
    /\ leader[leader[j]] = leader[j]
    /\ j \in selected <=> leader[j] \in selected
    /\ j \notin selected => leader[j] = j

\* A routine holds what its own job's shape and parameters gave, and a job has
\* another's routine exactly when tessellate() returned for its subgroup.
RoutineInv ==
  \A j \in Job :
    /\ result[j] = "none" => madeFrom[j] = Nothing
    /\ result[j] # "none" =>
         /\ madeFrom[j] = <<ShapeOf[j], ParamsOf[j]>>
         /\ leader[j] = j
         /\ j \in selected
    /\ routine[j] = IF leader[j] # NoJob /\ result[leader[j]] \in {"ok", "refused"}
                    THEN leader[j] ELSE j

\* Which jobs are counted, pending and active, told from where the task of
\* their shape stands.
PlaceInv ==
  \A j \in Job :
    /\ leader[j] = NoJob => j \notin counted
    /\ leader[j] # NoJob /\ j \notin selected /\ j \notin counted =>
         task[ShapeOf[j]] = "count" /\ OnBatch(j)
    /\ leader[j] # NoJob /\ j \in selected /\ j \in counted => result[leader[j]] # "none"
    /\ leader[j] # NoJob /\ result[leader[j]] # "none" /\ j \notin counted =>
         task[ShapeOf[j]] \in {"erase", "count"} /\ OnBatch(j)
    /\ j \in pendingJobs <=> j \notin counted /\ ~(task[ShapeOf[j]] = "count" /\ OnBatch(j))
    /\ j \in active <=> task[ShapeOf[j]] \in {"run", "erase"} /\ OnBatch(j)

\* What a task knows of the batch it is on.
TaskInv ==
  \A s \in Shape :
    /\ task[s] \in {"run", "erase", "count"} =>
         /\ current[s] \in Job
         /\ ShapeOf[current[s]] = s
         /\ leader[current[s]] = current[s]
    /\ task[s] = "run" => current[s] \in selected /\ result[current[s]] = "none"
    /\ task[s] = "erase" => current[s] \in selected /\ result[current[s]] # "none"
    /\ task[s] = "count" /\ current[s] \in selected => result[current[s]] # "none"
    /\ task[s] = "done" => Unvisited(s) = {} /\ Waiting(s) = {}

\* The counter, and the monitor's copies of it and of the map.
TallyInv ==
  /\ completedJobs = Cardinality(counted)
  /\ monitor = "tally" =>
       remaining <= NearEndThreshold /\ Cardinality(pendingJobs) <= remaining
  /\ monitor = "report" =>
       remaining <= NearEndThreshold /\ Cardinality(snapshot) <= remaining

MainInv == main # "tessellating" => \A s \in Shape : task[s] = "done"

IInv == TypeOK /\ LeaderInv /\ RoutineInv /\ PlaceInv /\ TaskInv /\ TallyInv /\ MainInv
---------------------------------------------------------------------------
USE DEF taskVars, routineVars, tallyVars, monitorVars

\* No job has the index that stands for none.
LEMMA NoJobIsNone == NoJob \notin Job
BY DEF NoJob, Job

\* Job is a finite set with NumJobs elements.
LEMMA JobCardinality == IsFiniteSet(Job) /\ Cardinality(Job) = NumJobs
<1>1. NumJobs \in Nat
  BY TessAssumption
<1>2. QED
  BY <1>1, FS_Interval DEF Job

\* The types are kept: the task invariant tells that a task in a call of
\* tessellate() is on a job.
LEMMA TypeStep == TypeOK /\ TaskInv /\ [Next]_vars => TypeOK'
<1> SUFFICES ASSUME TypeOK, TaskInv, [Next]_vars PROVE TypeOK'
  OBVIOUS
<1> USE TessAssumption DEF TypeOK
<1>1. ASSUME NEW s \in Shape, StartTask(s) PROVE TypeOK'
  BY <1>1 DEF StartTask
<1>2. ASSUME NEW s \in Shape, GroupJob(s) PROVE TypeOK'
  <2>1. PICK j \in Job, p \in Job : leader' = [leader EXCEPT ![j] = p]
    BY <1>2 DEF GroupJob, Waiting, JobsOf
  <2>2. QED
    BY <2>1, <1>2 DEF GroupJob
<1>3. ASSUME NEW s \in Shape, SkipJob(s) PROVE TypeOK'
  <2>1. PICK j \in Job : /\ leader' = [leader EXCEPT ![j] = j]
                         /\ current' = [current EXCEPT ![s] = j]
                         /\ pendingJobs' = pendingJobs \ {j}
                         /\ active' = active \ {j}
    BY <1>3 DEF SkipJob
  <2>2. QED
    BY <2>1, <1>3 DEF SkipJob
<1>4. ASSUME NEW s \in Shape, BeginSubgroup(s) PROVE TypeOK'
  BY <1>4 DEF BeginSubgroup
<1>5. ASSUME NEW s \in Shape, Tessellate(s) PROVE TypeOK'
  <2>1. PICK r \in {"ok", "refused"} : result' = [result EXCEPT ![current[s]] = r]
    BY <1>5 DEF Tessellate
  <2>2. /\ result' \in [Job -> {"none", "ok", "refused", "threw"}]
        /\ task' \in [Shape -> {"queued", "scan", "run", "erase", "count", "done"}]
    BY <2>1, <1>5 DEF Tessellate
  <2>3. madeFrom' \in [Job -> (Shape \X Param) \cup {Nothing}]
    BY <1>5 DEF Tessellate
  <2>4. routine' \in [Job -> Job]
    BY <1>5 DEF Tessellate, TaskInv
  <2>5. QED
    BY <2>2, <2>3, <2>4, <1>5 DEF Tessellate
<1>6. ASSUME NEW s \in Shape, TessellateThrows(s) PROVE TypeOK'
  BY <1>6 DEF TessellateThrows
<1>7. ASSUME NEW s \in Shape, EraseSubgroup(s) PROVE TypeOK'
  BY <1>7 DEF EraseSubgroup, Batch
<1>8. ASSUME NEW s \in Shape, CountJob(s) PROVE TypeOK'
  <2>1. PICK j \in Job : counted' = counted \cup {j}
    BY <1>8 DEF CountJob
  <2>2. QED
    BY <2>1, <1>8 DEF CountJob
<1>9. ASSUME NEW s \in Shape, FinishTask(s) PROVE TypeOK'
  BY <1>9 DEF FinishTask
<1>10. CASE MonitorWake
  <2>1. NearEndThreshold \in Nat /\ NumJobs \in Nat
    BY TessAssumption
  <2>2. remaining' \in 0..NearEndThreshold
    BY <2>1, <1>10 DEF MonitorWake
  <2>3. QED
    BY <2>2, <1>10 DEF MonitorWake
<1>11. CASE MonitorSnapshot
  BY <1>11 DEF MonitorSnapshot
<1>12. CASE MonitorReport
  BY <1>12 DEF MonitorReport
<1>13. CASE MonitorExit
  BY <1>13 DEF MonitorExit
<1>14. CASE StopMonitor
  BY <1>14 DEF StopMonitor
<1>15. CASE JoinMonitor
  BY <1>15 DEF JoinMonitor
<1>16. CASE UNCHANGED vars
  BY <1>16 DEF vars
<1>17. QED
  BY <1>1, <1>2, <1>3, <1>4, <1>5, <1>6, <1>7, <1>8, <1>9, <1>10, <1>11, <1>12, <1>13, <1>14, <1>15, <1>16 DEF Next, TaskStep, MonitorStep, MainStep

\* Removing jobs from pendingJobs keeps its size under a bound.
LEMMA PendingShrinks ==
  ASSUME pendingJobs \subseteq Job, NEW S \in SUBSET pendingJobs, NEW n \in Nat,
         Cardinality(pendingJobs) <= n
  PROVE  Cardinality(S) <= n
<1>1. IsFiniteSet(pendingJobs)
  BY JobCardinality, FS_Subset
<1>2. Cardinality(S) \in Nat /\ Cardinality(pendingJobs) \in Nat /\ Cardinality(S) <= Cardinality(pendingJobs)
  BY <1>1, FS_Subset, FS_CardinalityType
<1>3. QED
  BY <1>2

Rest == LeaderInv /\ RoutineInv /\ PlaceInv /\ TaskInv /\ TallyInv /\ MainInv

LEMMA StartTaskStep == ASSUME IInv, TypeOK', NEW s \in Shape, StartTask(s) PROVE Rest'
<1> USE NoJobIsNone DEF IInv, TypeOK
<1>1. LeaderInv'
  BY DEF StartTask, LeaderInv
<1>2. RoutineInv'
  BY DEF StartTask, LeaderInv, RoutineInv
<1>3. PlaceInv'
  BY DEF StartTask, LeaderInv, RoutineInv, PlaceInv, TaskInv, OnBatch
<1>4. TaskInv'
  BY DEF StartTask, LeaderInv, RoutineInv, TaskInv, PlaceInv, OnBatch, Unvisited, Waiting, JobsOf
<1>5. TallyInv'
  BY DEF StartTask, TallyInv
<1>6. MainInv'
  BY DEF StartTask, MainInv
<1>7. QED
  BY <1>1, <1>2, <1>3, <1>4, <1>5, <1>6 DEF Rest

LEMMA GroupJobStep == ASSUME IInv, TypeOK', NEW s \in Shape, GroupJob(s) PROVE Rest'
<1> USE NoJobIsNone DEF IInv, TypeOK
<1>1. LeaderInv'
  BY DEF GroupJob, LeaderInv, Unvisited, Waiting, JobsOf, MayMerge, IsFirst, TaskInv, RoutineInv, PlaceInv
<1>2. RoutineInv'
  BY DEF GroupJob, LeaderInv, RoutineInv, Unvisited, Waiting, JobsOf, MayMerge, IsFirst, TaskInv, PlaceInv
<1>3. PlaceInv'
  BY DEF GroupJob, LeaderInv, RoutineInv, PlaceInv, TaskInv, OnBatch, Unvisited, Waiting, JobsOf, MayMerge, IsFirst
<1>4. TaskInv'
  BY DEF GroupJob, LeaderInv, RoutineInv, TaskInv, PlaceInv, OnBatch, Unvisited, Waiting, JobsOf, MayMerge, IsFirst
<1>5. TallyInv'
  BY DEF GroupJob, TallyInv, Unvisited, Waiting, JobsOf, MayMerge, IsFirst, TaskInv, LeaderInv, RoutineInv, PlaceInv
<1>6. MainInv'
  BY DEF GroupJob, MainInv, Unvisited, Waiting, JobsOf, MayMerge, IsFirst, TaskInv, LeaderInv, RoutineInv, PlaceInv
<1>7. QED
  BY <1>1, <1>2, <1>3, <1>4, <1>5, <1>6 DEF Rest

LEMMA SkipJobStep == ASSUME IInv, TypeOK', NEW s \in Shape, SkipJob(s) PROVE Rest'
<1> USE NoJobIsNone DEF IInv, TypeOK
<1>1. LeaderInv'
  BY DEF SkipJob, LeaderInv, Unvisited, Waiting, JobsOf, MayMerge, IsFirst, TaskInv, RoutineInv, PlaceInv
<1>2. RoutineInv'
  BY DEF SkipJob, LeaderInv, RoutineInv, Unvisited, Waiting, JobsOf, MayMerge, IsFirst, TaskInv, PlaceInv
<1>3. PlaceInv'
  BY DEF SkipJob, LeaderInv, RoutineInv, PlaceInv, TaskInv, OnBatch, Unvisited, Waiting, JobsOf, MayMerge, IsFirst
<1>4. TaskInv'
  BY DEF SkipJob, LeaderInv, RoutineInv, TaskInv, PlaceInv, OnBatch, Unvisited, Waiting, JobsOf, MayMerge, IsFirst
<1>5. TallyInv'
  <2>1. pendingJobs' \in SUBSET pendingJobs
    BY DEF SkipJob
  <2>2. QED
    BY <2>1, PendingShrinks DEF SkipJob, TallyInv, monitorVars
<1>6. MainInv'
  BY DEF SkipJob, MainInv, Unvisited, Waiting, JobsOf, MayMerge, IsFirst, TaskInv, LeaderInv, RoutineInv, PlaceInv
<1>7. QED
  BY <1>1, <1>2, <1>3, <1>4, <1>5, <1>6 DEF Rest

LEMMA BeginSubgroupStep == ASSUME IInv, TypeOK', NEW s \in Shape, BeginSubgroup(s) PROVE Rest'
<1> USE NoJobIsNone DEF IInv, TypeOK
<1>1. LeaderInv'
  BY DEF BeginSubgroup, LeaderInv, Unvisited, Waiting, JobsOf, MayMerge, IsFirst, TaskInv, RoutineInv, PlaceInv
<1>2. RoutineInv'
  BY DEF BeginSubgroup, LeaderInv, RoutineInv, Unvisited, Waiting, JobsOf, MayMerge, IsFirst, TaskInv, PlaceInv
<1>3. PlaceInv'
  BY DEF BeginSubgroup, LeaderInv, RoutineInv, PlaceInv, TaskInv, OnBatch, Unvisited, Waiting, JobsOf, MayMerge, IsFirst
<1>4. TaskInv'
  BY DEF BeginSubgroup, LeaderInv, RoutineInv, TaskInv, PlaceInv, OnBatch, Unvisited, Waiting, JobsOf, MayMerge, IsFirst
<1>5. TallyInv'
  BY DEF BeginSubgroup, TallyInv, Unvisited, Waiting, JobsOf, MayMerge, IsFirst, TaskInv, LeaderInv, RoutineInv, PlaceInv
<1>6. MainInv'
  BY DEF BeginSubgroup, MainInv, Unvisited, Waiting, JobsOf, MayMerge, IsFirst, TaskInv, LeaderInv, RoutineInv, PlaceInv
<1>7. QED
  BY <1>1, <1>2, <1>3, <1>4, <1>5, <1>6 DEF Rest

LEMMA TessellateStep == ASSUME IInv, TypeOK', NEW s \in Shape, Tessellate(s) PROVE Rest'
<1> USE NoJobIsNone DEF IInv, TypeOK
<1>1. LeaderInv'
  BY DEF Tessellate, Batch, LeaderInv
<1>2. RoutineInv'
  BY DEF Tessellate, Batch, LeaderInv, RoutineInv, TaskInv
<1>3. PlaceInv'
  BY DEF Tessellate, Batch, LeaderInv, RoutineInv, PlaceInv, TaskInv, OnBatch
<1>4. TaskInv'
  BY DEF Tessellate, Batch, LeaderInv, RoutineInv, TaskInv, PlaceInv, OnBatch, Unvisited, Waiting, JobsOf
<1>5. TallyInv'
  BY DEF Tessellate, Batch, TallyInv
<1>6. MainInv'
  BY DEF Tessellate, Batch, MainInv
<1>7. QED
  BY <1>1, <1>2, <1>3, <1>4, <1>5, <1>6 DEF Rest

LEMMA TessellateThrowsStep == ASSUME IInv, TypeOK', NEW s \in Shape, TessellateThrows(s) PROVE Rest'
<1> USE NoJobIsNone DEF IInv, TypeOK
<1>1. LeaderInv'
  BY DEF TessellateThrows, LeaderInv
<1>2. RoutineInv'
  BY DEF TessellateThrows, LeaderInv, RoutineInv, TaskInv
<1>3. PlaceInv'
  BY DEF TessellateThrows, LeaderInv, RoutineInv, PlaceInv, TaskInv, OnBatch
<1>4. TaskInv'
  BY DEF TessellateThrows, LeaderInv, RoutineInv, TaskInv, PlaceInv, OnBatch, Unvisited, Waiting, JobsOf
<1>5. TallyInv'
  BY DEF TessellateThrows, TallyInv
<1>6. MainInv'
  BY DEF TessellateThrows, MainInv
<1>7. QED
  BY <1>1, <1>2, <1>3, <1>4, <1>5, <1>6 DEF Rest

LEMMA EraseSubgroupStep == ASSUME IInv, TypeOK', NEW s \in Shape, EraseSubgroup(s) PROVE Rest'
<1> USE NoJobIsNone DEF IInv, TypeOK
<1>1. LeaderInv'
  BY DEF EraseSubgroup, Batch, LeaderInv
<1>2. RoutineInv'
  BY DEF EraseSubgroup, Batch, LeaderInv, RoutineInv
<1>3. PlaceInv'
  BY DEF EraseSubgroup, Batch, LeaderInv, RoutineInv, PlaceInv, TaskInv, OnBatch
<1>4. TaskInv'
  BY DEF EraseSubgroup, Batch, LeaderInv, RoutineInv, TaskInv, PlaceInv, OnBatch, Unvisited, Waiting, JobsOf
<1>5. TallyInv'
  <2>1. pendingJobs' \in SUBSET pendingJobs
    BY DEF EraseSubgroup
  <2>2. QED
    BY <2>1, PendingShrinks DEF EraseSubgroup, TallyInv
<1>6. MainInv'
  BY DEF EraseSubgroup, Batch, MainInv
<1>7. QED
  BY <1>1, <1>2, <1>3, <1>4, <1>5, <1>6 DEF Rest

LEMMA CountJobStep == ASSUME IInv, TypeOK', NEW s \in Shape, CountJob(s) PROVE Rest'
<1> USE NoJobIsNone DEF IInv, TypeOK
<1>1. LeaderInv'
  BY DEF CountJob, Batch, LeaderInv, Unvisited, Waiting, JobsOf, MayMerge, IsFirst, TaskInv, RoutineInv, PlaceInv
<1>2. RoutineInv'
  BY DEF CountJob, Batch, LeaderInv, RoutineInv, Unvisited, Waiting, JobsOf, MayMerge, IsFirst, TaskInv, PlaceInv
<1>3. PlaceInv'
  BY DEF CountJob, Batch, LeaderInv, RoutineInv, PlaceInv, TaskInv, OnBatch, Unvisited, Waiting, JobsOf, MayMerge, IsFirst
<1>4. TaskInv'
  BY DEF CountJob, Batch, LeaderInv, RoutineInv, TaskInv, PlaceInv, OnBatch, Unvisited, Waiting, JobsOf, MayMerge, IsFirst
<1>5. TallyInv'
  <2>1. PICK j \in Job : j \notin counted /\ counted' = counted \cup {j}
    BY DEF CountJob, IsFirst
  <2>2. IsFiniteSet(counted)
    BY JobCardinality, FS_Subset
  <2>3. Cardinality(counted') = Cardinality(counted) + 1
    BY <2>1, <2>2, FS_AddElement
  <2>4. QED
    BY <2>3 DEF CountJob, TallyInv
<1>6. MainInv'
  BY DEF CountJob, Batch, MainInv, Unvisited, Waiting, JobsOf, MayMerge, IsFirst, TaskInv, LeaderInv, RoutineInv, PlaceInv
<1>7. QED
  BY <1>1, <1>2, <1>3, <1>4, <1>5, <1>6 DEF Rest

LEMMA FinishTaskStep == ASSUME IInv, TypeOK', NEW s \in Shape, FinishTask(s) PROVE Rest'
<1> USE NoJobIsNone DEF IInv, TypeOK
<1>1. LeaderInv'
  BY DEF FinishTask, LeaderInv
<1>2. RoutineInv'
  BY DEF FinishTask, LeaderInv, RoutineInv
<1>3. PlaceInv'
  BY DEF FinishTask, LeaderInv, RoutineInv, PlaceInv, TaskInv, OnBatch
<1>4. TaskInv'
  BY DEF FinishTask, LeaderInv, RoutineInv, TaskInv, PlaceInv, OnBatch, Unvisited, Waiting, JobsOf
<1>5. TallyInv'
  BY DEF FinishTask, TallyInv
<1>6. MainInv'
  BY DEF FinishTask, MainInv
<1>7. QED
  BY <1>1, <1>2, <1>3, <1>4, <1>5, <1>6 DEF Rest
LEMMA MonitorAndMainStep == ASSUME IInv, TypeOK', MonitorStep \/ MainStep PROVE Rest'
<1> USE DEF IInv, TypeOK
<1>1. (LeaderInv /\ RoutineInv /\ PlaceInv /\ TaskInv)'
  BY DEF MonitorStep, MonitorWake, MonitorSnapshot, MonitorReport, MonitorExit, MainStep,
         StopMonitor, JoinMonitor, LeaderInv, RoutineInv, PlaceInv, TaskInv, OnBatch,
         Unvisited, Waiting, JobsOf
<1>2. TallyInv'
  <2>1. CASE MonitorWake
    <3>1. pendingJobs \cap counted = {}
      BY DEF PlaceInv
    <3>2. /\ IsFiniteSet(pendingJobs) /\ Cardinality(pendingJobs) \in Nat
          /\ IsFiniteSet(counted) /\ Cardinality(counted) \in Nat
      BY JobCardinality, FS_Subset, FS_CardinalityType
    <3>3. Cardinality(pendingJobs \cup counted) = Cardinality(pendingJobs) + Cardinality(counted)
      <4>1. Cardinality(pendingJobs \cap counted) = 0
        BY <3>1, FS_EmptySet
      <4>2. Cardinality(pendingJobs \cup counted)
            = Cardinality(pendingJobs) + Cardinality(counted) - Cardinality(pendingJobs \cap counted)
        BY <3>2, FS_Union
      <4>3. QED
        BY <3>2, <4>1, <4>2
    <3>4. Cardinality(pendingJobs \cup counted) <= NumJobs
      BY JobCardinality, FS_Subset
    <3>5. Cardinality(pendingJobs) <= NumJobs - completedJobs
      BY <3>2, <3>3, <3>4, TessAssumption DEF TallyInv
    <3>6. QED
      BY <3>5, <2>1, TessAssumption DEF MonitorWake, TallyInv
  <2>2. CASE MonitorSnapshot
    BY <2>2 DEF MonitorSnapshot, TallyInv
  <2>3. CASE MonitorReport \/ MonitorExit \/ MainStep
    BY <2>3 DEF MonitorReport, MonitorExit, MainStep, StopMonitor, JoinMonitor, TallyInv
  <2>4. QED
    BY <2>1, <2>2, <2>3 DEF MonitorStep
<1>3. MainInv'
  BY DEF MonitorStep, MonitorWake, MonitorSnapshot, MonitorReport, MonitorExit, MainStep,
         StopMonitor, JoinMonitor, MainInv
<1>4. QED
  BY <1>1, <1>2, <1>3 DEF Rest

\* The invariant holds of every reachable state.
THEOREM Invariance == Spec => []IInv
<1>1. Init => IInv
  <2> SUFFICES ASSUME Init PROVE IInv
    OBVIOUS
  <2>1. TypeOK
    BY TessAssumption DEF Init, TypeOK, Nothing
  <2>2. LeaderInv /\ RoutineInv /\ PlaceInv /\ MainInv
    BY NoJobIsNone, TessAssumption DEF Init, LeaderInv, RoutineInv, PlaceInv, MainInv, OnBatch
  <2>3. TaskInv
    BY DEF Init, TaskInv, Unvisited, Waiting, JobsOf
  <2>4. TallyInv
    BY FS_EmptySet DEF Init, TallyInv
  <2>5. QED
    BY <2>1, <2>2, <2>3, <2>4 DEF IInv
<1>2. IInv /\ [Next]_vars => IInv'
  <2> SUFFICES ASSUME IInv, [Next]_vars PROVE IInv'
    OBVIOUS
  <2>1. TypeOK'
    BY TypeStep DEF IInv
  <2>2. ASSUME NEW s \in Shape, TaskStep(s) PROVE Rest'
    BY <2>1, <2>2, StartTaskStep, GroupJobStep, SkipJobStep, BeginSubgroupStep,
       TessellateStep, TessellateThrowsStep, EraseSubgroupStep, CountJobStep,
       FinishTaskStep DEF TaskStep
  <2>3. ASSUME MonitorStep \/ MainStep PROVE Rest'
    BY <2>1, <2>3, MonitorAndMainStep
  <2>4. CASE UNCHANGED vars
    BY <2>4 DEF vars, IInv, Rest, TypeOK, LeaderInv, RoutineInv, PlaceInv, TaskInv,
       TallyInv, MainInv, OnBatch, Unvisited, Waiting, JobsOf
  <2>5. QED
    BY <2>1, <2>2, <2>3, <2>4 DEF Next, IInv, Rest
<1>3. QED
  BY <1>1, <1>2, PTL DEF Spec
---------------------------------------------------------------------------
\* Once every task is done every job is counted.
LEMMA DoneCountsAll ==
  ASSUME IInv, \A s \in Shape : task[s] = "done"
  PROVE  \A j \in Job : j \in counted /\ statusBar[j] # "todo"
<1> SUFFICES ASSUME NEW j \in Job PROVE j \in counted /\ statusBar[j] # "todo"
  OBVIOUS
<1>1. ShapeOf[j] \in Shape
  BY TessAssumption
<1>2. leader[j] \in Job
  BY <1>1 DEF IInv, TypeOK, TaskInv, Unvisited, JobsOf
<1>3. j \in selected => result[leader[j]] # "none"
  BY <1>1, <1>2, NoJobIsNone DEF IInv, TaskInv, LeaderInv, Waiting, JobsOf
<1>4. j \in counted
  BY <1>1, <1>2, <1>3, NoJobIsNone DEF IInv, PlaceInv
<1>5. QED
  BY <1>2, <1>3, <1>4, NoJobIsNone DEF statusBar

\* Every variable keeps its type.
THEOREM TypeCorrect == Spec => []TypeOK
<1>1. IInv => TypeOK
  BY DEF IInv
<1>2. QED
  BY <1>1, Invariance, PTL

\* A call that returns has settled every job: nothing is pending and the
\* counter is at the total.
THEOREM ReturnSettles == Spec => []ReturnSettlesAll
<1>1. IInv => ReturnSettlesAll
  <2> SUFFICES ASSUME IInv, main = "returned"
               PROVE  pendingJobs = {} /\ completedJobs = NumJobs
    BY DEF ReturnSettlesAll
  <2>1. \A j \in Job : j \in counted
    BY DoneCountsAll DEF IInv, MainInv
  <2>2. counted = Job
    BY <2>1 DEF IInv, TypeOK
  <2>3. pendingJobs = {}
    BY <2>1 DEF IInv, TypeOK, PlaceInv
  <2>4. QED
    BY <2>2, <2>3, JobCardinality DEF IInv, TallyInv
<1>2. QED
  BY <1>1, Invariance, PTL

\* The tally never lists more than it counted, at any threshold.
THEOREM TallyComplete == Spec => []TallyNeverTruncated
<1>1. IInv => TallyNeverTruncated
  BY DEF IInv, TallyInv, TallyNeverTruncated
<1>2. QED
  BY <1>1, Invariance, PTL

\* The jobs listed as running are those of the subgroups being tessellated.
THEOREM ActiveTold == Spec => []ActiveIsRunning
<1>1. IInv => ActiveIsRunning
  <2> SUFFICES ASSUME IInv, NEW j \in Job
               PROVE  j \in active <=>
                        \E s \in Shape : task[s] \in {"run", "erase"} /\ j \in Batch(s)
    BY DEF ActiveIsRunning
  <2>1. ShapeOf[j] \in Shape
    BY TessAssumption
  <2>2. ASSUME NEW s \in Shape, task[s] \in {"run", "erase"}, j \in Batch(s)
        PROVE  s = ShapeOf[j]
    BY <2>2, NoJobIsNone DEF IInv, TaskInv, LeaderInv, Batch
  <2>3. j \in active <=> task[ShapeOf[j]] \in {"run", "erase"} /\ j \in Batch(ShapeOf[j])
    BY DEF IInv, PlaceInv, Batch, OnBatch
  <2>4. QED
    BY <2>1, <2>2, <2>3
<1>2. QED
  BY <1>1, Invariance, PTL

\* A settled job points at geometry of its own shape and parameters.
THEOREM GeometryFits == Spec => []CountedJobFits
<1>1. IInv => CountedJobFits
  <2> SUFFICES ASSUME IInv, NEW j \in counted
               PROVE  LET r == routine[j] IN
                        IF j \in selected
                        THEN \/ result[r] \in {"ok", "refused"} /\ madeFrom[r] = <<ShapeOf[j], ParamsOf[j]>>
                             \/ result[leader[j]] = "threw" /\ r = j
                        ELSE result[r] = "none" /\ r = j
    BY DEF CountedJobFits
  <2>1. j \in Job /\ leader[j] \in Job
    BY DEF IInv, TypeOK, PlaceInv
  <2>2. CASE j \in selected
    BY <2>1, <2>2, NoJobIsNone DEF IInv, TypeOK, PlaceInv, RoutineInv, LeaderInv
  <2>3. CASE j \notin selected
    BY <2>1, <2>3, NoJobIsNone DEF IInv, TypeOK, RoutineInv, LeaderInv
  <2>4. QED
    BY <2>2, <2>3
<1>2. QED
  BY <1>1, Invariance, PTL

\* No routine is tessellated twice.
THEOREM WrittenOnce == Spec => RoutineWrittenOnce
<1>1. IInv /\ [Next]_vars =>
        [\A r \in Job : result[r] # "none" =>
           result'[r] = result[r] /\ madeFrom'[r] = madeFrom[r]]_vars
  <2> SUFFICES ASSUME IInv, [Next]_vars, NEW r \in Job, result[r] # "none"
               PROVE  result'[r] = result[r] /\ madeFrom'[r] = madeFrom[r]
    OBVIOUS
  <2>1. ASSUME NEW s \in Shape, Tessellate(s) \/ TessellateThrows(s)
        PROVE  result'[r] = result[r] /\ madeFrom'[r] = madeFrom[r]
    BY <2>1 DEF IInv, TypeOK, TaskInv, Tessellate, TessellateThrows
  <2>2. ASSUME ~ \E s \in Shape : Tessellate(s) \/ TessellateThrows(s)
        PROVE  result'[r] = result[r] /\ madeFrom'[r] = madeFrom[r]
    BY <2>2 DEF Next, vars, TaskStep, StartTask, GroupJob, SkipJob, BeginSubgroup,
       EraseSubgroup, CountJob, FinishTask, MonitorStep, MonitorWake, MonitorSnapshot,
       MonitorReport, MonitorExit, MainStep, StopMonitor, JoinMonitor
  <2>3. QED
    BY <2>1, <2>2
<1>2. QED
  BY <1>1, Invariance, PTL DEF Spec, RoutineWrittenOnce
---------------------------------------------------------------------------
\* A job the promise calls served holds geometry of its own shape and
\* parameters, the others hold nothing: geometryBar is a function of statusBar.
GeometryMatches ==
  geometryBar = [j \in Job |-> IF statusBar[j] = "served"
                               THEN <<ShapeOf[j], ParamsOf[j]>> ELSE Nothing]

LEMMA GeometryFollowsStatus == IInv => GeometryMatches
<1> SUFFICES ASSUME IInv, NEW j \in Job, statusBar[j] = "served"
             PROVE  madeFrom[routine[j]] = <<ShapeOf[j], ParamsOf[j]>>
  BY DEF geometryBar, GeometryMatches
<1>1. /\ leader[j] # NoJob
      /\ result[leader[j]] \in {"ok", "refused"}
  BY DEF statusBar, IInv, TypeOK
<1>2. routine[j] = leader[j] /\ leader[j] \in Job
  BY <1>1 DEF IInv, RoutineInv, TypeOK
<1>3. QED
  BY <1>1, <1>2 DEF IInv, RoutineInv, LeaderInv

\* The scheduler keeps its promise: whatever the interleaving of tasks and
\* monitor, every step is a step of TessPromise or changes nothing it speaks of.
THEOREM KeepsPromise == Spec => PromiseSpec
<1>1. Init => Promise!Init
  BY NoJobIsNone DEF Init, Promise!Init, statusBar, geometryBar, Nothing, Promise!Nothing
<1>2. IInv /\ IInv' /\ [Next]_vars => [Promise!Next]_Promise!vars
  <2> SUFFICES ASSUME IInv, IInv', [Next]_vars PROVE [Promise!Next]_Promise!vars
    OBVIOUS
  <2>1. GeometryMatches /\ GeometryMatches'
    BY GeometryFollowsStatus, PTL
  <2>2. ASSUME UNCHANGED selected, statusBar' = statusBar,
               (main = "returned") = (main' = "returned")
        PROVE  UNCHANGED Promise!vars
    BY <2>1, <2>2 DEF Promise!vars, GeometryMatches
  <2>3. ASSUME NEW s \in Shape,
               StartTask(s) \/ BeginSubgroup(s) \/ EraseSubgroup(s) \/ FinishTask(s)
        PROVE  UNCHANGED Promise!vars
    BY <2>2, <2>3 DEF StartTask, BeginSubgroup, EraseSubgroup, FinishTask, statusBar
  <2>4. ASSUME NEW s \in Shape, GroupJob(s) PROVE UNCHANGED Promise!vars
    <3>1. \A j \in Job : (leader[j] = NoJob \/ result[leader[j]] = "none")
                           = (leader'[j] = NoJob \/ result[leader'[j]] = "none")
      BY <2>4, NoJobIsNone DEF IInv, TypeOK, RoutineInv, GroupJob, Waiting, IsFirst, Unvisited, JobsOf
    <3>2. statusBar' = statusBar
      BY <3>1, <2>4 DEF statusBar, GroupJob, IInv, TypeOK, RoutineInv, LeaderInv
    <3>3. QED
      BY <3>2, <2>2, <2>4 DEF GroupJob
  <2>5. ASSUME NEW s \in Shape, SkipJob(s) PROVE UNCHANGED Promise!vars
    <3>1. \A j \in selected : leader'[j] = leader[j]
      BY <2>5 DEF SkipJob, IInv, TypeOK
    <3>2. QED
      BY <3>1, <2>2, <2>5 DEF SkipJob, statusBar
  <2>6. ASSUME NEW s \in Shape, Tessellate(s) PROVE Promise!Serve(Batch(s))
    <3>1. statusBar' = [j \in Job |-> IF j \in Batch(s) THEN "served" ELSE statusBar[j]]
      BY <2>6, NoJobIsNone DEF Tessellate, Batch, statusBar, IInv, TypeOK, TaskInv, LeaderInv
    <3>2. Promise!Batch(Batch(s))
      BY <2>6, NoJobIsNone DEF Tessellate, Batch, statusBar, IInv, TypeOK, TaskInv, LeaderInv,
         Promise!Batch, Promise!Need
    <3>3. geometryBar' = [j \in Job |-> IF j \in Batch(s) THEN Promise!Need(j) ELSE geometryBar[j]]
      BY <3>1, <2>1 DEF GeometryMatches, Promise!Need
    <3>4. QED
      BY <3>1, <3>2, <3>3, <2>6 DEF Promise!Serve, Tessellate
  <2>7. ASSUME NEW s \in Shape, TessellateThrows(s) PROVE Promise!Fail(Batch(s))
    <3>1. statusBar' = [j \in Job |-> IF j \in Batch(s) THEN "failed" ELSE statusBar[j]]
      BY <2>7, NoJobIsNone DEF TessellateThrows, Batch, statusBar, IInv, TypeOK, TaskInv, LeaderInv
    <3>2. Promise!Batch(Batch(s)) /\ \A j \in Batch(s) : statusBar[j] = "todo"
      BY <2>7, NoJobIsNone DEF TessellateThrows, Batch, statusBar, IInv, TypeOK, TaskInv, LeaderInv,
         Promise!Batch, Promise!Need
    <3>3. geometryBar' = geometryBar
      BY <3>1, <3>2, <2>1 DEF GeometryMatches
    <3>4. QED
      BY <3>1, <3>2, <3>3, <2>7 DEF Promise!Fail, TessellateThrows
  <2>8. ASSUME NEW s \in Shape, CountJob(s)
        PROVE  (\E j \in Job : Promise!Skip(j)) \/ UNCHANGED Promise!vars
    <3>1. PICK j \in Job : j \in Batch(s) \ counted /\ counted' = counted \cup {j}
      BY <2>8 DEF CountJob, IsFirst
    <3>2. CASE j \in selected
      <4>1. statusBar' = statusBar
        BY <3>1, <3>2, <2>8 DEF CountJob, statusBar
      <4>2. QED
        BY <4>1, <2>2, <2>8 DEF CountJob
    <3>3. CASE j \notin selected
      <4>1. statusBar' = [statusBar EXCEPT ![j] = "skipped"] /\ statusBar[j] = "todo"
        BY <3>1, <3>3, <2>8 DEF CountJob, statusBar
      <4>2. geometryBar' = geometryBar
        BY <4>1, <2>1 DEF GeometryMatches
      <4>3. QED
        BY <3>3, <4>1, <4>2, <2>8 DEF CountJob, Promise!Skip
    <3>4. QED
      BY <3>2, <3>3
  <2>9. ASSUME MonitorStep \/ StopMonitor PROVE UNCHANGED Promise!vars
    BY <2>2, <2>9 DEF MonitorStep, MonitorWake, MonitorSnapshot, MonitorReport, MonitorExit,
       StopMonitor, statusBar
  <2>10. ASSUME JoinMonitor PROVE Promise!Return
    <3>1. \A j \in Job : statusBar[j] # "todo"
      BY <2>10, DoneCountsAll DEF JoinMonitor, IInv, MainInv
    <3>2. statusBar' = statusBar /\ geometryBar' = geometryBar
      BY <2>10 DEF JoinMonitor, statusBar, geometryBar
    <3>3. QED
      BY <3>1, <3>2, <2>10 DEF JoinMonitor, Promise!Return
  <2>11. ASSUME UNCHANGED vars PROVE UNCHANGED Promise!vars
    BY <2>2, <2>11 DEF vars, statusBar
  <2>12. ASSUME NEW s \in Shape PROVE Batch(s) \in SUBSET Job
    BY DEF Batch
  <2>13. QED
    BY <2>3, <2>4, <2>5, <2>6, <2>7, <2>8, <2>9, <2>10, <2>11, <2>12
       DEF Next, TaskStep, MainStep, Promise!Next
<1>3. QED
  BY <1>1, <1>2, Invariance, PTL DEF Spec, PromiseSpec, Promise!Spec
=============================================================================
