--------------------------- MODULE TessScheduler ---------------------------
(***************************************************************************)
(* CadUsdPipeline::tessellateGeometry (lib/CadUSD/Tessellation.cpp): the   *)
(* parallel tessellation of a job list.                                    *)
(*                                                                         *)
(* Jobs are grouped by TShape; WorkParallelForEach runs one task per shape *)
(* and a monitor thread prints a tally of what is left when few jobs       *)
(* remain.  A task closes the jobs the filter leaves out, splits the rest  *)
(* into subgroups of equal parameters, tessellates the first job of each   *)
(* subgroup and hands its routine to the others.  Whether the call         *)
(* succeeds or throws, the subgroup leaves pendingJobs first and is        *)
(* counted in completedJobs afterwards, one job at a time.                 *)
(*                                                                         *)
(* Each critical section (pendingJobsMutex, the logger's mutex, an atomic  *)
(* increment) is one action.  monitorMutex is held from the moment the     *)
(* monitor wakes to the moment it waits again, i.e. exactly while monitor  *)
(* is "tally" or "report".                                                 *)
(***************************************************************************)
EXTENDS Naturals, FiniteSets

CONSTANTS NumJobs,           \* tessJobs.size()
          Shape,             \* the distinct TShapes
          Param,             \* the distinct values of TessParams
          ShapeOf,           \* TShape of the definition a job refers to
          ParamsOf,          \* TessParams of a job
          NearEndThreshold   \* kNearEndThreshold

Job == 1..NumJobs

ASSUME TessAssumption ==
  /\ NumJobs \in Nat
  /\ NearEndThreshold \in Nat
  /\ ShapeOf \in [Job -> Shape]
  /\ ParamsOf \in [Job -> Param]

NoJob == 0

VARIABLES
  selected,        \* jobs whose prototype isPrototypeActiveInFilter accepts
  task,            \* where the task of each shape stands
  current,         \* first job of the subgroup (or the skipped job) a task is on
  leader,          \* first job of the subgroup a job was put in, NoJob before
  result,          \* how tessellate() ended on the routine a job was created with
  madeFrom,        \* shape and parameters that routine was tessellated with
  routine,         \* the routine a job points to, named by the job that created it
  pendingJobs,     \* keys of the pendingJobs map
  active,          \* jobs whose PendingJobInfo is marked active
  counted,         \* jobs whose increment of completedJobs has happened
  completedJobs,   \* the atomic counter
  monitorRunning,  \* the atomic flag the monitor waits on
  monitor,         \* where the monitor thread stands
  remaining,       \* the monitor's local copy of totalJobs - completedJobs
  snapshot,        \* the monitor's copy of pendingJobs
  main             \* where the calling thread stands

taskVars    == <<task, current, leader>>
routineVars == <<result, madeFrom, routine>>
tallyVars   == <<pendingJobs, active, counted, completedJobs>>
monitorVars == <<monitorRunning, monitor, remaining, snapshot>>
vars == <<selected, taskVars, routineVars, tallyVars, monitorVars, main>>

Nothing == <<>>

---------------------------------------------------------------------------
\* jobsByShape: the jobs of a shape, in the order of the list.
JobsOf(s) == {j \in Job : ShapeOf[j] = s}

\* The jobs the filter loop has still to visit.
Unvisited(s) == {j \in JobsOf(s) : leader[j] = NoJob}

\* Mutated form: a subgroup may be tessellated again.
Waiting_AnyLeader(s) == {j \in JobsOf(s) \cap selected : leader[j] = j}

\* First jobs of the subgroups that have still to be tessellated.
Waiting(s) == {j \in JobsOf(s) \cap selected : leader[j] = j /\ result[j] = "none"}

\* The jobs the task of s is on: its subgroup, or the one job it skips.
Batch(s) == {j \in Job : leader[j] = current[s]}

IsFirst(j, S) == j \in S /\ \A k \in S : j <= k

\* A worker thread picks the shape up.
StartTask(s) ==
  /\ task[s] = "queued"
  /\ task' = [task EXCEPT ![s] = "scan"]
  /\ UNCHANGED <<selected, current, leader, routineVars, tallyVars, monitorVars, main>>

\* Mutated form: the parameters are not compared.
MayMerge_SameShape(j, p) == ShapeOf[j] = ShapeOf[p]

\* tessParamsEqual compares bytes, padding included: unequal parameters never
\* compare equal, equal ones may fail to.
MayMerge(j, p) == ParamsOf[j] = ParamsOf[p]

\* The filter loop on a selected job: into a subgroup whose parameters compare
\* equal, or the first of a new one.
GroupJob(s) ==
  /\ task[s] = "scan"
  /\ \E j \in Job :
       /\ IsFirst(j, Unvisited(s))
       /\ j \in selected
       /\ \E p \in Waiting(s) \cup {j} :
            /\ MayMerge(j, p)
            /\ leader' = [leader EXCEPT ![j] = p]
  /\ UNCHANGED <<selected, task, current, routineVars, tallyVars, monitorVars, main>>

\* The filter loop on a job that is not selected: it leaves pendingJobs, and
\* is counted next.
SkipJob(s) ==
  /\ task[s] = "scan"
  /\ \E j \in Job :
       /\ IsFirst(j, Unvisited(s))
       /\ j \notin selected
       /\ leader' = [leader EXCEPT ![j] = j]
       /\ current' = [current EXCEPT ![s] = j]
       /\ pendingJobs' = pendingJobs \ {j}
       /\ active' = active \ {j}
  /\ task' = [task EXCEPT ![s] = "count"]
  /\ UNCHANGED <<selected, routineVars, counted, completedJobs, monitorVars, main>>

\* Mutated form: only the first job of the subgroup is marked.
BeginSubgroup_FirstOnly(s) ==
  /\ task[s] = "scan"
  /\ Unvisited(s) = {}
  /\ \E p \in Job :
       /\ IsFirst(p, Waiting(s))
       /\ current' = [current EXCEPT ![s] = p]
       /\ active' = active \cup {p}
  /\ task' = [task EXCEPT ![s] = "run"]
  /\ UNCHANGED <<selected, leader, routineVars, pendingJobs, counted,
                 completedJobs, monitorVars, main>>

\* The next subgroup is marked active under pendingJobsMutex.
BeginSubgroup(s) ==
  /\ task[s] = "scan"
  /\ Unvisited(s) = {}
  /\ \E p \in Job :
       /\ IsFirst(p, Waiting(s))
       /\ current' = [current EXCEPT ![s] = p]
       /\ active' = active \cup ({j \in Job : leader[j] = p} \cap pendingJobs)
  /\ task' = [task EXCEPT ![s] = "run"]
  /\ UNCHANGED <<selected, leader, routineVars, pendingJobs, counted,
                 completedJobs, monitorVars, main>>

---------------------------------------------------------------------------
\* tessellate() returns; its result is ignored, and every other job of the
\* subgroup is pointed at the routine of the first.
Tessellate(s) ==
  /\ task[s] = "run"
  /\ \E r \in {"ok", "refused"} : result' = [result EXCEPT ![current[s]] = r]
  /\ madeFrom' = [madeFrom EXCEPT ![current[s]] = <<s, ParamsOf[current[s]]>>]
  /\ routine' = [j \in Job |-> IF j \in Batch(s) THEN routine[current[s]]
                                                 ELSE routine[j]]
  /\ task' = [task EXCEPT ![s] = "erase"]
  /\ UNCHANGED <<selected, current, leader, tallyVars,
                 monitorVars, main>>

\* Mutated form: a call that throws shares its routine like one that returns.
TessellateThrows_Shares(s) ==
  /\ task[s] = "run"
  /\ result' = [result EXCEPT ![current[s]] = "threw"]
  /\ madeFrom' = [madeFrom EXCEPT ![current[s]] = <<s, ParamsOf[current[s]]>>]
  /\ routine' = [j \in Job |-> IF j \in Batch(s) THEN routine[current[s]]
                                                 ELSE routine[j]]
  /\ task' = [task EXCEPT ![s] = "erase"]
  /\ UNCHANGED <<selected, current, leader, tallyVars, monitorVars, main>>

\* tessellate() throws (Standard_Failure, std::exception or anything else): the
\* first routine keeps what it had built, and no routine is shared.
TessellateThrows(s) ==
  /\ task[s] = "run"
  /\ result' = [result EXCEPT ![current[s]] = "threw"]
  /\ madeFrom' = [madeFrom EXCEPT ![current[s]] = <<s, ParamsOf[current[s]]>>]
  /\ task' = [task EXCEPT ![s] = "erase"]
  /\ UNCHANGED <<selected, current, leader, routine, tallyVars, monitorVars, main>>

\* Mutated form: only the first job of the subgroup leaves pendingJobs.
EraseSubgroup_FirstOnly(s) ==
  /\ task[s] = "erase"
  /\ pendingJobs' = pendingJobs \ {current[s]}
  /\ active' = active \ Batch(s)
  /\ task' = [task EXCEPT ![s] = "count"]
  /\ UNCHANGED <<selected, current, leader, routineVars, counted,
                 completedJobs, monitorVars, main>>

\* The whole subgroup leaves pendingJobs under pendingJobsMutex.
EraseSubgroup(s) ==
  /\ task[s] = "erase"
  /\ pendingJobs' = pendingJobs \ Batch(s)
  /\ active' = active \ Batch(s)
  /\ task' = [task EXCEPT ![s] = "count"]
  /\ UNCHANGED <<selected, current, leader, routineVars, counted,
                 completedJobs, monitorVars, main>>

\* Mutated form: one increment per subgroup instead of one per job.
CountJob_OncePerSubgroup(s) ==
  /\ task[s] = "count"
  /\ counted' = counted \cup Batch(s)
  /\ completedJobs' = completedJobs + 1
  /\ task' = [task EXCEPT ![s] = "scan"]
  /\ UNCHANGED <<selected, current, leader, routineVars, pendingJobs, active,
                 monitorVars, main>>

\* ++completedJobs for the next job of the batch; after the last one the task
\* goes on with the scan.
CountJob(s) ==
  /\ task[s] = "count"
  /\ \E j \in Job :
       /\ IsFirst(j, Batch(s) \ counted)
       /\ counted' = counted \cup {j}
  /\ completedJobs' = completedJobs + 1
  /\ task' = [task EXCEPT ![s] = IF Batch(s) \subseteq counted' THEN "scan" ELSE "count"]
  /\ UNCHANGED <<selected, current, leader, routineVars, pendingJobs, active,
                 monitorVars, main>>

FinishTask(s) ==
  /\ task[s] = "scan"
  /\ Unvisited(s) = {}
  /\ Waiting(s) = {}
  /\ task' = [task EXCEPT ![s] = "done"]
  /\ UNCHANGED <<selected, current, leader, routineVars, tallyVars, monitorVars, main>>

---------------------------------------------------------------------------
\* Mutated form: the tally is printed however many jobs are left.
MonitorWake_AnyCount ==
  /\ monitor = "waiting"
  /\ monitorRunning
  /\ remaining' = NumJobs - completedJobs
  /\ remaining' > 0
  /\ monitor' = "tally"
  /\ UNCHANGED <<selected, taskVars, routineVars, tallyVars, monitorRunning,
                 snapshot, main>>

\* wait_for times out with monitorRunning still set, and few enough jobs are
\* left to be worth a tally (otherwise the loop goes on waiting).
MonitorWake ==
  /\ monitor = "waiting"
  /\ monitorRunning
  /\ remaining' = NumJobs - completedJobs
  /\ remaining' \in 1..NearEndThreshold
  /\ monitor' = "tally"
  /\ UNCHANGED <<selected, taskVars, routineVars, tallyVars, monitorRunning,
                 snapshot, main>>

\* pendingJobs is copied under pendingJobsMutex.
MonitorSnapshot ==
  /\ monitor = "tally"
  /\ snapshot' = pendingJobs
  /\ monitor' = "report"
  /\ UNCHANGED <<selected, taskVars, routineVars, tallyVars, monitorRunning,
                 remaining, main>>

\* The tally is printed and the monitor waits again, releasing monitorMutex.
MonitorReport ==
  /\ monitor = "report"
  /\ monitor' = "waiting"
  /\ remaining' = 0
  /\ snapshot' = {}
  /\ UNCHANGED <<selected, taskVars, routineVars, tallyVars, monitorRunning,
                 main>>

\* The wait ends (notified or timed out) with the flag cleared.
MonitorExit ==
  /\ monitor = "waiting"
  /\ ~monitorRunning
  /\ monitor' = "exited"
  /\ UNCHANGED <<selected, taskVars, routineVars, tallyVars, monitorRunning,
                 remaining, snapshot, main>>

\* Mutated form: the flag is left set, so the monitor goes on waiting.
StopMonitor_FlagKept ==
  /\ main = "tessellating"
  /\ \A s \in Shape : task[s] = "done"
  /\ monitor \notin {"tally", "report"}
  /\ main' = "joining"
  /\ UNCHANGED <<selected, taskVars, routineVars, tallyVars, monitorVars>>

\* WorkParallelForEach is over; the flag is cleared under monitorMutex.
StopMonitor ==
  /\ main = "tessellating"
  /\ \A s \in Shape : task[s] = "done"
  /\ monitor \notin {"tally", "report"}
  /\ monitorRunning' = FALSE
  /\ main' = "joining"
  /\ UNCHANGED <<selected, taskVars, routineVars, tallyVars, monitor,
                 remaining, snapshot>>

\* monitorThread.join(); the call returns.
JoinMonitor ==
  /\ main = "joining"
  /\ monitor = "exited"
  /\ main' = "returned"
  /\ UNCHANGED <<selected, taskVars, routineVars, tallyVars, monitorVars>>

---------------------------------------------------------------------------
\* One task per TShape that some job has: the others never exist.
Init ==
  /\ selected \in SUBSET Job
  /\ task = [s \in Shape |-> IF JobsOf(s) = {} THEN "done" ELSE "queued"]
  /\ current = [s \in Shape |-> NoJob]
  /\ leader = [j \in Job |-> NoJob]
  /\ result = [j \in Job |-> "none"]
  /\ madeFrom = [j \in Job |-> Nothing]
  /\ routine = [j \in Job |-> j]
  /\ pendingJobs = Job
  /\ active = {}
  /\ counted = {}
  /\ completedJobs = 0
  /\ monitorRunning = TRUE
  /\ monitor = "waiting"
  /\ remaining = 0
  /\ snapshot = {}
  /\ main = "tessellating"

TaskStep(s) ==
  \/ StartTask(s)
  \/ GroupJob(s)
  \/ SkipJob(s)
  \/ BeginSubgroup(s)
  \/ Tessellate(s)
  \/ TessellateThrows(s)
  \/ EraseSubgroup(s)
  \/ CountJob(s)
  \/ FinishTask(s)

MonitorStep == MonitorWake \/ MonitorSnapshot \/ MonitorReport \/ MonitorExit

MainStep == StopMonitor \/ JoinMonitor

Next == (\E s \in Shape : TaskStep(s)) \/ MonitorStep \/ MainStep

Spec == Init /\ [][Next]_vars

\* Every thread keeps running: the pool runs every task of a parallel loop to
\* its end (tessellate() itself returns or throws), the monitor's wait has a
\* timeout, and the caller waits for both.
Fairness ==
  /\ \A s \in Shape : WF_vars(TaskStep(s))
  /\ WF_vars(MonitorStep)
  /\ WF_vars(MainStep)

FairSpec == Spec /\ Fairness
---------------------------------------------------------------------------
TypeOK ==
  /\ selected \subseteq Job
  /\ task \in [Shape -> {"queued", "scan", "run", "erase", "count", "done"}]
  /\ current \in [Shape -> Job \cup {NoJob}]
  /\ leader \in [Job -> Job \cup {NoJob}]
  /\ result \in [Job -> {"none", "ok", "refused", "threw"}]
  /\ madeFrom \in [Job -> (Shape \X Param) \cup {Nothing}]
  /\ routine \in [Job -> Job]
  /\ pendingJobs \subseteq Job
  /\ active \subseteq Job
  /\ counted \subseteq Job
  /\ completedJobs \in Nat
  /\ monitorRunning \in BOOLEAN
  /\ monitor \in {"waiting", "tally", "report", "exited"}
  /\ remaining \in 0..NearEndThreshold
  /\ snapshot \subseteq Job
  /\ main \in {"tessellating", "joining", "returned"}

\* When the call returns nothing is pending and the counter has counted every
\* job, whatever mix of skipped, tessellated and throwing subgroups ran.
ReturnSettlesAll ==
  main = "returned" => pendingJobs = {} /\ completedJobs = NumJobs

\* The tally the monitor prints never lists more jobs than the count it was
\* triggered by, so the cap of kNearEndThreshold lines cuts nothing off: a job
\* always leaves pendingJobs before it is counted.
TallyNeverTruncated ==
  monitor = "report" =>
    Cardinality(snapshot) <= remaining /\ remaining <= NearEndThreshold

\* The jobs listed as running are exactly those whose subgroup is in a call of
\* tessellate() or has just left one.
ActiveIsRunning ==
  \A j \in Job :
    j \in active <=> \E s \in Shape : task[s] \in {"run", "erase"} /\ j \in Batch(s)

\* A job that is counted points at geometry made from its own shape under its
\* own parameters, or the call for its subgroup threw and it kept its own
\* routine; a job outside the selection kept its own, never tessellated.
CountedJobFits ==
  \A j \in counted :
    LET r == routine[j] IN
      IF j \in selected
      THEN \/ result[r] \in {"ok", "refused"} /\ madeFrom[r] = <<ShapeOf[j], ParamsOf[j]>>
           \/ result[leader[j]] = "threw" /\ r = j
      ELSE result[r] = "none" /\ r = j

\* tessellate() is called once on a routine: what it built is never replaced,
\* whichever tasks and jobs share it by then.
RoutineWrittenOnce ==
  [][\A r \in Job : result[r] # "none" =>
       result'[r] = result[r] /\ madeFrom'[r] = madeFrom[r]]_vars

\* tessellateGeometry keeps its promise to its caller.
statusBar == [j \in Job |->
  IF j \notin selected THEN IF j \in counted THEN "skipped" ELSE "todo"
  ELSE IF leader[j] = NoJob \/ result[leader[j]] = "none" THEN "todo"
  ELSE IF result[leader[j]] = "threw" THEN "failed" ELSE "served"]

geometryBar == [j \in Job |->
  IF statusBar[j] = "served" THEN madeFrom[routine[j]] ELSE Nothing]

Promise == INSTANCE TessPromise
  WITH status <- statusBar, geometry <- geometryBar, returned <- (main = "returned")

PromiseSpec == Promise!Spec

\* Every call returns: no task is lost, and the monitor, which holds monitorMutex
\* while it takes pendingJobsMutex, never blocks the shutdown for good.
CallReturns == <>(main = "returned")
=============================================================================
