# TLA+ models of step-to-usd

`vroom`, the tool this repository builds, meshes CAD assemblies (STEP or the faster XBF,
read through OpenCascade) into USD files. A user writes a USD file with one or more
`CadContainer` prims; `vroom mesh` finds the CAD models they refer to, loads them,
tessellates every part ("prototype") on all cores and writes one prototypes file per
variant of each container. `-p` limits a run to some prims and variants, so the same
files are edited run after run.

This directory holds a formal model of the part of that program where order, sharing,
persistence and counting matter: TLA+ modules translated from the source, TLC
configurations that check them on small instances, and proofs checked by TLAPS for all
instances. Paths below are relative to `src/lib/CadUSD/` unless they start with `docs/`
or `src/`.

- [1. The system](#1-the-system)
- [2. Modules](#2-modules)
- [3. From code to model](#3-from-code-to-model)
- [4. Runs and bounds](#4-runs-and-bounds)
- [5. Fairness](#5-fairness)
- [6. Proofs](#6-proofs)
- [7. Where code and documentation disagree](#7-where-code-and-documentation-disagree)
- [8. Not modelled](#8-not-modelled)
- [9. Plan](#9-plan)

## 1. The system

### How a run goes

    vroom mesh -i in.usda [-p path]...
      CadUsdPipeline::create          scan the stage for models, load them in parallel
      for each CadContainer prim:     populateUsd
        validateVariants              every variant named by -p exists
        populatePrototypeContainers   open or rebuild one prototypes stage per variant, save
        buildPrototypeStages          author prototype prims and the assembly, in memory
        populateTessellationJobs      one job per prototype, or per variant of it
        tessellateGeometry            a thread pool and a monitor thread
        writePrototypeGeometries      geometry into each stage, in parallel slices
        Save                          each stage, one after the other

The results of the steps are mostly ignored: `populateUsd` looks only at that of
`validateVariants`, so a step that gives up halfway leaves the later ones to go on with
what there is.

### Components

| Component | State | Operations | What makes it correct |
|---|---|---|---|
| Command line (`src/src/vroom.cpp`, `mesh.cpp`) | argument records | token loop, parse, verify, one `populateUsd` per container | every documented flag reaches the run |
| Convert mode (`src/src/convert.cpp`) | argument records | STEP/BREP to XBF, XBF to BREP | an output is written from its own input, never twice |
| Model loading (`PopulateUsd.cpp` 715-820) | the stage's variant selections, `referencedAssetBundles`, `modelCache` | recursive scan over variant combinations, parallel load | all models found; the stage's selections as they were |
| Assembly tree (`OpenCascadeAssembly.cpp`) | `partNodes`, `nodePaths`, definition names | count and fill passes over the label tree, path and name generation | both passes agree; names unique; each node's parent precedes it |
| Selection filters (`PopulateUsd.cpp` 20-360) | none | eight functions that read `-p` paths | three notions of "selected" that agree |
| Pipeline run (`PopulateUsd.cpp`) | `prototypeContainers`, layers in memory, files | the steps above | files of other variants untouched; units never mixed; a full run repairs |
| Parameters and jobs (`TessellationParams.cpp`) | selections, job list | resolve parameters per prototype variant | a job's parameters are those composed for its variant |
| Tessellation scheduler (`Tessellation.cpp`) | `pendingJobs`, `completedJobs`, `monitorRunning`, the routines of the jobs | tasks per shape, monitor, shutdown | every job settled and counted once; sharing never mixes; the call returns |
| Tessellation routine (`Tessellation/TessellationRoutine.cpp`) | shape, triangulation, deadlines | repair, mesh, remesh passes | the call returns; what is passed on is the triangulation of one pass |
| Mesh routine (`Tessellation/MeshRoutine/`) | node aliases, vertex and index arrays, tangent sums, deferred curves | weld nodes of shared edges, triangles, UVs, wireframe, compaction | one vertex per shared node; indices in range; per-point data at its point |
| Curve chunks (`Tessellation/Utils/TessellationUtils.cpp`) | loop variables | cut long curves, pack pieces into prims | limit kept, no gap, nothing lost or reordered |
| Sketch routine (`Tessellation/SketchRoutine/`) | sketch prims | sample, `clearPrim`, `definePrim` | what an earlier run defined is cleared |
| InstantMeshes routine | Quadriflow's | quad remeshing | third-party algorithm |
| Prim writers (`WritePrims.cpp`) | stage content, per-thread anonymous layers | class prim, prototype prims, assembly, geometry slices | the merged stage does not depend on which slice ends first |
| USD utilities (`UsdUtils.cpp`) | none | open/clear a stage, list variants, make names | names are legal and stable |
| Logger (`src/include/CadUSD/Logger.h`) | one mutex | print a line | - |
| Quadriflow, generated schema, viewer, scripts | - | - | third-party or generated |

### How they interact

- **Files.** What outlives a run is in files. Those that matter here are the prototypes
  files. Saving such a stage also saves its sublayers where they have changed; the
  container's file is one of them, and the steps above author variant selections on the
  container's stage. A stage is cleared *and saved* when it is opened, long before its
  new geometry is saved, so a run that is killed in between leaves a file with neither.
- **The container stage.** The scan, the container loop and the job builder all set
  variant selections on the one stage in memory. The scan puts back what it found.
- **The job list.** The scheduler's tasks write the `routine` pointer of their own jobs;
  several jobs end up with one routine. The writers read it afterwards.
- **Locks.** `pendingJobsMutex`, `monitorMutex`, the logger's mutex and one atomic
  counter. The monitor holds `monitorMutex` while it takes the other two.
- **Paths.** Three filters read the same `-p` paths: which variants to visit
  (`isContainerVariantSelected`), which stages to clear (`getStageMakeFresh`), which
  jobs to run (`isPrototypeActiveInFilter`).

### What is hard here

The list with a line for each is `hazards` in `PROJECT.json`. In short: the two counters
of the scheduler, updated and read in opposite orders under different locks; a task that
throws; routines shared between jobs; stages cleared under one filter and refilled under
another; a unit edited between runs; a kill between two saves; a recursion that changes
what it traverses; off-by-one where curves are cut; node aliases that are resolved at
one time and used at another; passes that replace a good mesh by a partial one; prims of
an earlier run under those of a new one; slices of a job list that are merged in the
order in which threads end. The repository has no
automated tests, so none of these is exercised by one.

## 2. Modules

| Module | Models | Kind |
|---|---|---|
| `TessPromise` | what `tessellateGeometry` promises its caller, without threads, grouping or monitor | abstract specification |
| `TessScheduler` | `tessellateGeometry` (`Tessellation.cpp`), lock section by lock section | concurrent specification |
| `TessScheduler_proofs` | its theorems, and that it implements `TessPromise` | proofs |
| `SdfPaths` | the path operations the pipeline uses (OpenUSD, external) | operators |
| `SelectionFilter` | every function of `PopulateUsd.cpp` that reads `-p` paths | operators |
| `SelectiveRemesh` | `populateUsd` on one container, run after run, with kills | specification over files; uses `SelectionFilter`, takes the scheduler by its promise |
| `CurveChunks` | `splitCurvesIntoPieces`, `computeCurveChunks` | sequential specification |
| `CurveChunks_proofs` | its theorems | proofs |
| `SelectiveRemesh_proofs` | theorems of `SelectiveRemesh` | proofs |
| `MeshWeld` | `MeshTessellationRoutine::tessellate`: edge walk, aliases, welding, boundary data, wireframe, compaction | actions over the mesh; has no specification of its own |
| `TessRoutine` | `TessellationRoutine::tessellate`, which calls the mesh routine | sequential specification; EXTENDS `MeshWeld` and composes its steps |
| `TessRoutine_proofs` | theorems of `TessRoutine` | proofs |
| `NatSets` | least element, induction and recursion for naturals, and for sets on which a relation is grounded; what `FlattenSeq` builds | lemmas |
| `GeometryWrite` | `writePrototypeGeometries` (`WritePrims.cpp`) with each prim's `clearPrim` and `definePrim` | concurrent specification |
| `GeometryWrite_proofs` | its theorems | proofs |
| `ModelLoad` | `CadUsdPipeline::create` | sequential specification with an explicit stack |
| `ModelLoad_proofs` | its theorems | proofs |
| `AssemblyTree` | `buildInstanceTree`, `getNodePaths` (`OpenCascadeAssembly.cpp`) | sequential specification with an explicit stack |
| `AssemblyTree_proofs` | its theorems | proofs |

`MC<Module>.tla` gives a module's constants their values for TLC. `X_Y` next to a
definition `X` ("Mutated form") is the same definition with a plausible mistake in it;
no specification uses it. `PROJECT.json` pairs each with the property that notices it,
lists which source lines every definition stands for, and all runs.

How they fit: `TessScheduler` takes a call of `tessellate()` as one step that returns or
throws, and `TessRoutine` is that call, which always returns. `SelectiveRemesh` takes
the scheduler by its promise and the writing of a stage as one step, `WriteStage`, and
`GeometryWrite` is that step, slice by slice: what `SelectiveRemesh` lets it do to the
jobs of the run and to the others is what `SelectedWritten` and `UnselectedKept` say.
`CurveChunks` is the packing of the curves that `TessRoutine` leaves.

No module that is proved about has a `RECURSIVE` operator; sums and offsets are
recursive functions.

## 3. From code to model

### TessScheduler and TessPromise

| Code | Model |
|---|---|
| `tessJobs`, the TShape and `TessParams` of each | `Job`, `ShapeOf`, `ParamsOf` (constants) |
| `isPrototypeActiveInFilter` on each job | `selected`, any subset of the jobs |
| `jobsByShape`, the per-shape lambda of `WorkParallelForEach` | `JobsOf(s)`, `task[s]`; one task per shape, all interleaved |
| the filter loop; `subgroups` | `GroupJob`, `SkipJob`; `leader[j]` is the first job of j's subgroup |
| `tessParamsEqual` (`memcmp`) | `MayMerge`: unequal values never merge, equal ones may fail to, since padding bytes are compared too |
| marking active under `pendingJobsMutex` | `BeginSubgroup` |
| `tessellate()` returns (true or false) / throws | `Tessellate` / `TessellateThrows` |
| `job->routine = first->routine` for the rest | `routine`, named by the job that created it |
| erase under `pendingJobsMutex` / `++completedJobs` | `EraseSubgroup` / `CountJob`, two steps, one increment at a time |
| monitor: `wait_for`, count left, copy of the map, printing | `MonitorWake`, `MonitorSnapshot`, `MonitorReport`, `MonitorExit` |
| `monitorRunning = false` under `monitorMutex`, `join` | `StopMonitor`, `JoinMonitor` |

`monitorMutex` needs no variable: it is held exactly while `monitor` is `"tally"` or
`"report"`, and `StopMonitor` waits for that to end. What `tessellate()` makes is
abstracted to `madeFrom`, the shape and parameters it was made from: enough to tell a
right routine from a wrong one. The catch clauses differ in their log line only, so they
are one action. The report of slow jobs after the join reads what is left and changes
nothing. Log calls are taken not to throw.

`TessPromise` knows only which jobs are to be done and what has become of each. The
mapping is in `TessScheduler`: `statusBar` (todo, skipped, served, failed) from
`selected`, `counted`, `leader` and `result`; `geometryBar` from the routine a job
points to. So a job that were given another's geometry, or were served twice, or a call
that returned with a job unsettled would each be a step `TessPromise` does not have.

### SdfPaths, SelectionFilter and SelectiveRemesh

A path is a sequence of nodes, a prim node or a variant-selection node, as in
`SdfPath::GetPrefixes`. The filter functions are pure and become operators with the same
arguments. `SelectiveRemesh` has one action per step of `populateUsd` at which a file
may change or a decision is taken:

| Code | Model |
|---|---|
| a process starts with `-p` paths, perhaps after the user edited the unit | `Start` |
| `validateVariants` fails | `Refuse` |
| first loop of `populatePrototypeContainers` (reachable variants with an output; duplicate files) | `ResolveContainers` |
| second loop: `initUsdStage`, unit, `Save` | `OpenStage(v)`; `SkipStage`, `GiveUpStages` for `continue` and `return false` |
| `stageNeedsUnitReset`, `getStageMakeFresh` | `Rebuilt(v)` |
| `buildPrototypeStages` | `BuildStage`, `StagesBuilt` |
| jobs, tessellation | `Tessellate` |
| `writePrototypeGeometries` + `Save` per stage | `WriteStage` |
| the process dies | `Kill`, between any two steps |

A file holds, for each prototype, whether the prim is absent, complete, or "bare"
(defined without name, label and inherits, as a selective run leaves a new one), whether
the assembly is there, its unit, and for each job whether it has geometry, made in this
run or before, and in which unit.

`Start` and `Kill` make the model a loop: every sequence of runs up to any length is
explored, since the files are finite and only "now" and "before" are told apart.

**The model cache.** `modelCache` is the constant `SourceLoaded`. At this commit
`collectFromPrim` always returns before it records a model (finding 2), so the real
cache is always empty, and every run would give up at its first container. The checks of
`SelectiveRemesh` are about the code after that point, with a cache as the scan's
comment describes it, and hold for the program once the scan is repaired.

The container's file is not part of the model: its prims are constants, and which variant
is selected in it when the process starts does not matter to the steps after the scan,
each of which selects the variant it works on.

A step that gives up (`GiveUpStages`, `StagesBuilt`) leaves the stages opened or built so
far, and the run goes on with those. `StagesBuilt` does so at the first variant under
which the container has no `Prototypes` prim; `populateTessellationJobs` then asks that
invalid prim for its children. The model goes on without jobs for it, and if OpenUSD ends
the process there instead, that is a `Kill`: it has both.

Assumptions: one container; one variant set on it; at most one variant set per
prototype; tessellation of a job fails or not whatever container variant it is for (the
shape and the mesher are the same), and a failed job leaves an empty routine; the file
system fails only where the code looks (`create_directories`).

### TessRoutine and MeshWeld

| Code | Model |
|---|---|
| `TessellationRoutine::tessellate` up to the first mesh | `Mesh`: the shape is cleaned and meshed |
| `BRepMesh_IncrementalMesh` under a `DeadlineIndicator` | `MesherRuns`: any faces, up to a bound, are left without a triangulation |
| the loop over `maxRemeshPasses`: checker, finer parameters, clean, mesh | `FindOverlaps`, `Remesh`, `StopRemeshing` |
| the call of the mesh routine, the sketch routine, the result | `CallMeshRoutine`, `MeshRoutine` (a step of `MeshWeld`), `Return` |
| `buildEdgeWalk`, `facePolys`, `resolveAlias` | `EnterEdge`, `AliasNode`, `FinishEdge`, `SkipEdge`, `EdgesWalked`; `FacePolys`, `ResolveAlias` |
| `resolvedCanon`, once per node of the edge | `resolvedCanon`, set by `AliasNode` on the first face |
| a face without a polygon of the edge (`poly.IsNull()`) | an empty `poly`; `FacePolys` leaves it out |
| tangents and deferred curves of an edge | `tangentAccum`, `deferredCurves` in `FinishEdge` |
| `emitResampledWireframeCurve`, which may give up | `Resampled`, if the edge is `sampled` |
| `weldFaceNodes`, `emitFaceTriangles` | `WeldNode`, `EmitTriangle`, node by node and triangle by triangle |
| `finalizeBoundaryData` | `FinalizePoint`; the order of the unordered map is a choice |
| deferred wireframe curves | `EmitDeferredCurve`, `CurvesEmitted`; `PlaceUnder`, `Resolved` |
| `compactUnusedPoints` | `CompactUnusedPoints` |

A shape is a sequence of faces. A face has a triangulation, the *place* of each of its
nodes, triangles, and edges with their polygons in it. A place stands for a point of the
B-rep: two nodes are to be one vertex if they are at one place, and coordinates say no
more than that for the control. `MeshAssumption` states what the kernel promises: an
edge is discretised once for all its faces, so that its polygons run through the same
places in all faces it has one on, and faces with one triangulation differ in their
location only. Which nodes of an edge have a tangent, and whether it can be sampled, is a
property of the edge (`tangents`, `sampled`): the code takes both from its curve. A
seam edge occurs twice around its face; the code looks its polygon up by the orientation
in which it is visited, and so do the occurrences here. `Occurrences` follows
`TopExp_Explorer`, which visits an edge once per face.

A timeout is noticed where the kernel polls its indicator. What has been meshed by then
is up to the kernel, so any faces may be missing, and a pass that timed out ends the
loop. The repair pass before all this decides which shape is meshed; `shape` is what it
leaves. Normals, UVs, arc lengths and distances are floating-point data no control
depends on.

### GeometryWrite

| Code | Model |
|---|---|
| `WorkParallelForN` cuts the job list | `slices`, any partition of it into intervals |
| a task writes its anonymous layer and appends it to `threadResults` | `FinishSlice`, in any order |
| variants created before the merge | `PreCreateVariants` |
| merge of the layers, job by job | `MergeJob`, `PassMerge` |
| variants written again on the stage: activate, select, clear, define, write, restore | `RewriteVariant`, `PassRewrite` |
| `clearPrim` of the routines | `Cleared`, the kinds they remove |

A body is what a prototype or one of its variants holds: prims, each with who wrote it (a
job, or an earlier run). A prim is a child of the body or lies in one (`Child`): the
planes `Plane_k` lie in the scope `SketchPlanes`. The two passes treat what is there
differently. The merge copies children, and a copied child replaces the one of its name
with all that lies in it (`Copied`, `SdfCopySpec`). The second pass removes the children
that `clearPrim` names, with all that lies in them (`Cleared`), and defines prims over
what is left (`Over`), so that a plane that is not defined again stays. The active flags
are there, with the restoring of the flag into the variant that is still being edited. A
layer of a task starts empty, so what it holds is what its jobs define.

### CurveChunks

One loop iteration per action. Points have no coordinates: a curve is a run of indices
in the flat array, a piece is a run inside it. `SkipEmpty`, `TakeWhole`, `TakeFirst`,
`TakeNext`, `NextCurve` follow the nested loops of `splitCurvesIntoPieces`, with
`pointLimit = 0` ending them at once and `pointLimit = 1` taking the branch without
repeated points; `ChunkAlone`, `AddPiece`, `CloseChunk` those of `computeCurveChunks`.
Integers are unbounded; the code's `int` would need 2^31 points in one prim to differ.

### ModelLoad

`collectAllVariants` is a recursive lambda; its stack is the variable `stack`, with a
frame per variant set being tried. The stage's selections are `selection`, which the
recursion changes in place. `Collected` is what `collectFromPrim` adds to
`referencedAssetBundles`: nothing, since its second `if` has no braces and the `return`
below it is unconditional.

### AssemblyTree

The XCAF document is a constant: its free shapes, the kind of each definition, and the
components of each assembly, which refer to definitions, lead nowhere, or are no shape.
An instance label is a free shape or a place in an assembly. Pass 1 is one action
(`CountNodes`), pass 2 follows `fillNode`: `PassOver`, `FillLeaf`, `FillAssembly`,
`CloseAssembly` with a stack of frames; the cursor is the length of `partNodes`.
`getNodePaths` goes node by node (`RootPath`, `NodePath`). Its accesses outside the
vector are `RootPath` on a document without nodes and `StrayRead` on a further free
shape. Either may end the process. If it does not, the write is not noticed, and what is
read is taken for a path, which may be any (`StrayPaths`: none, one that a node has too,
one from elsewhere). Indices are one higher than in the code.

`Suffix` stands for the 32-bit hash of a label's entry, and may be any function of the
label: it may send labels of different assemblies to one value, and two components of
one assembly too. Names in front of it are taken as equal, so that the suffix decides.
`SiblingsApart` says of a tree that siblings have different suffixes, and is a hypothesis
of `PathsDistinct`. `TreeAssumption` says that no definition is a component of itself,
however deep: each non-empty set of definitions has one without components in the set.
The code says it nowhere; `countNodes` and `fillNode` recurse along the components and
would not return on another document.

## 4. Runs and bounds

| Run | Shows | Distinct states |
|---|---|---|
| `tess_scheduler` | all scheduler properties, `TessPromise`, termination | 522,587 |
| `selective_remesh` | what a selection touches, refills and repairs | 668,452 |
| `curve_chunks` | limit, coverage, order, packing, termination | 52,462 |
| `model_load` | every combination once, selections restored, termination | 1,080 |
| `assembly_tree` | both passes agree, one node per place, distinct paths | 219,080 |
| `tess_routine` | the weld across edges, corners, boundary data, curves, termination | 35,653 |
| `geometry_write` | what is selected is written, what is not is kept | 1,227,024 |
| `selective_remesh_lost`, `model_load_found`, `parent_resolved`, `mesh_tangents`, `stale_planes` | the findings of section 7, each a violation | |

**tess_scheduler.** Five jobs: three of one shape, two of them alike and one with other
parameters, and two alike of another shape; threshold 3. All 32 selections. This is the
smallest instance with a subgroup of two beside one of one in the same task, a second
task running against it, and a threshold below the number of jobs, so that the monitor
can sleep, wake, and copy the map between an erase and its count. More jobs of a kind
already there add increments, not new orders.

- `ReturnSettlesAll`: when the call returns nothing is pending and the counter equals
  the number of jobs, after any mix of skips, results and exceptions.
- `TallyNeverTruncated`: the copy the monitor prints is never longer than the count that
  made it print. It depends on the order *erase, then count* in every task: swap it, or
  forget one job of a subgroup, and the list is cut off at the threshold.
- `ActiveIsRunning`: the flag "active" in the map is exact at every moment.
- `CountedJobFits`: no job ends with geometry of another shape or of other parameters,
  or with a routine whose call threw, unless it is its own.
- `RoutineWrittenOnce`: a routine is never tessellated again once others may hold it.
- `PromiseSpec`: the refinement of section 3. `CallReturns`: every call returns.

**selective_remesh.** One container with four variants (two loaded, one whose model is
missing, one without output asset), a prototype with two variants and one without, two
units, 18 selections: none, each kind of path the filters tell apart (ancestor,
container, container variant, `Prototypes`, prototype, prototype variant, each with and
without the container's variant, an assembly prim, another container, an unknown
variant) and five pairs that disagree with each other. Every sequence of runs, every
subset of jobs failing, kills everywhere. Two loaded variants are enough for "this one,
not that one", two prototypes for "this job, not that job" in the same file. Two
variants with one output asset (the duplicate check) do not occur in this instance; the
proofs of section 6 cover them.

- `OtherVariantsUntouched`, `UnnamedGeometryKept`: what a run may not change, file by
  file, since variants that are not both selected may share one (`Sharing`). `Names`
  says independently of the filters what a path means, from `docs/USING.md`. The instance
  asserts that its paths are `Ordinary`, which the two theorems ask for.
- `NamedIsRemeshed`, `NamedVariantReached`: what a run must change. The two pairs
  together force the three filters to agree. The first is about the stages a run opened
  and built: of those that a run which gives up halfway never comes to, nothing is said,
  here or in `FullRunRepairs`.
- `GeometryInStageUnit`: geometry and the unit of its file always match, on disk, at
  every moment.
- `FullRunRepairs`: after a full run every stage it opened and built is complete,
  whatever was killed before.

**curve_chunks.** All arrays of up to three counts from -1 to 5, limits 0 to 4, combined
or not. Counts reach past two pieces of the limit 2 and 3, limits 0 and 1 are the
special cases, three curves let a chunk end inside, at and after a curve.
`PiecesShowCurves` says that each segment is shown exactly once; `ChunksArePieces` that
packing keeps all pieces in order; `Ends` that both loops end. That packing is greedy
(`ChunksPacked`) is not run but proved (`PackedTight`).

**model_load.** A prim with two sets (of two and three variants), one with one set, one
without; each set with any of its variants authored, or none. `SelectionsRestored` is
about every moment: a set that is not being tried has what the file says.

**assembly_tree.** 14,280 documents: an outer assembly of up to three components, an
inner one of up to two that it may hold several times, a part that both share, dangling
and non-shape components, an empty assembly, and none, one or two free shapes in either
order. Nesting of two and sharing across levels are enough for every way a cursor, a
parent index and a frame can get out of step; suffixes recur in every assembly. Within
one they differ: the property supposes it (`SiblingsApart`).

- `PassesAgree`: the assertion at the end of `buildInstanceTree`, and that no slot is
  written beyond the count on the way.
- `EveryOccurrenceOnce`: the nodes, each read as the chain of labels above it, are
  exactly the places of the unfolded document, which is defined from the document alone.
- `LinksMatch`: parents, depths, first children and child counts fit each other.
- `PathsDistinct`: as long as siblings have different suffixes, no two nodes of the first
  free shape are authored on one prim (`NodesApart`), however often suffixes recur in
  other assemblies. Of further free shapes nothing can be said: their paths begin with
  what is read from before the vector.

**tess_routine.** 12 shapes: vertices at which four faces meet, numbered in each of the
six orders around it; a vertex of six faces in the order 1 3 5 2 4 6, whose aliases form
the longest chain; a tube (one face with a seam) with its cap, in both orders; two faces
that meet on an edge, placed twice; a vertex of four faces with an edge that has no
polygon on one of its faces, one whose sampler fails, and one with a tangent at one end
only; a shape without faces. `AliasSteps` is 3 where the code has
31. A chain is about half as long as the vertex has faces, so six faces exercise the
limit of 3 exactly as about 62 would the real one: with one step fewer the property
fails. One remesh pass, at most one face left out by each call of the mesher, faces that
come with a triangulation or without, and three wireframes (none; cubic along the mesh;
linear, resampled).

- `AliasesFollowed`: `resolveAlias` ends at a key that has no alias itself, however the
  faces around a vertex are numbered. The other properties of the weld stand on it.
- `WeldedAcrossEdges`: the nodes that meshed faces share on an edge are one point,
  however the faces around a vertex are numbered; and what is welded is the mesh of the
  last pass only. It does not hold for chains beyond `AliasSteps`. The two sides of a
  seam are not welded: the walk looks both up by the orientation visited.
- `CornersHavePoints`: lookups by `operator[]` never insert a key, and indices are in
  range.
- `CornersInPlace`: each triangle has its corners where the shape has them (the second
  copy of a triangulation: where the first meshed one has them), and no point is left
  without a triangle. It supposes `CopiesAlike`: faces that meet on an edge collapse onto
  faces that meet on it too, as when a whole part is placed twice. Without that it is
  false: if the mesher leaves out one face of the first copy and not its counterpart in
  the second, that counterpart is welded along an edge of the second copy to a face that
  has collapsed onto the first, and a corner ends up at the place of another node.
- `BoundaryDataInPlace`: flags and tangents belong to the point they are stored for,
  after compaction too; a point has tangents if no edge there lacks one. A point
  that is only on edges which lack one there has none.
- `CurvesTraceEdges`: each curve runs along its edge from end to end, and an edge has one
  exactly if it lies between two meshed faces with a polygon of it, unless its sampler
  failed. It does not say how many it has: the walk comes by
  once for each face, where the comment on it says once (section 7).
- `RoutineReturns`: the call returns, whatever intersects or times out.

**geometry_write.** Four jobs, two of them variants of one prototype that may be
inactive, with neighbours between and after them; all selections, all eight cuts
of the list, all orders of finishing, with or without the remains of an earlier run in
every body. Two plain prototypes are enough for "the neighbour in the slice", two
variants for "the other variant of the same prim". The stage's prims are there or not.

- `SelectedWritten`: however slices are cut and ordered, each prim a selected job's
  routine made is in its body, by that job. What else is there is of an earlier run: in a
  plain prototype in children the job does not make, in a variant where `clearPrim` does
  not reach. That something may be left there is not hidden in it: `VariantsCleared` (run
  `stale_planes`) says that nothing is, and is violated.
- `UnselectedKept`: no step touches a body that no selected job has.

Runs that do not check deadlock are those of a call that returns and is over. In
`selective_remesh` a new run can always start, and deadlock is checked.

## 5. Fairness

- `TessScheduler`: weak fairness of each task, of the monitor and of the caller.
  `WorkParallelForEach` runs each task to its end; `tessellate()` returns or throws (it
  has deadlines of its own); the monitor's `wait_for` has a timeout, so a lost
  notification only delays it; the caller is one thread that waits for both. No strong
  fairness is needed: no step of a thread is ever disabled by another thread but
  `StopMonitor`, for the moment in which the monitor holds `monitorMutex`, and by then
  no task is left whose jobs could make the monitor wake again.
- `TessRoutine`: weak fairness of its one thread. The mesher and the checker poll a
  deadline; if one of them hung regardless, so would the program. `RoutineReturns` is
  what the scheduler's fairness takes for granted of `tessellate()`.
- `CurveChunks`, `ModelLoad`: weak fairness of the only thread.
- `SelectiveRemesh`, `GeometryWrite` and `AssemblyTree` state safety only: nothing
  obliges a user to start a run, and what the other two do is bounded by lists that do
  not grow.

## 6. Proofs

`TessScheduler_proofs` (for any job list, shapes, parameters and threshold; from
`TessAssumption`, which types the constants). The invariant `IInv` adds to the type
invariant:

- `LeaderInv`: a job and the first job of its subgroup have one shape, one set of
  parameters, and are both selected or both not;
- `RoutineInv`: what a routine was made from, and that a job holds another's exactly if
  that one's call returned;
- `PlaceInv`: for each job, whether it is pending, active and counted, as a function of
  where the task of its shape stands;
- `TaskInv`: what a task in each place knows of its batch;
- `TallyInv`: the counter is the number of counted jobs, and the monitor's count bounds
  its copy of the map;
- `MainInv`: the caller leaves the loop only when all tasks are done.

None of the properties is inductive alone. `TallyNeverTruncated`, for one, needs that a
job is out of `pendingJobs` whenever it is counted (`PlaceInv`) and that the counter is
the size of a set (`TallyInv`), so that *pending* and *counted* together never exceed
the job list. There is a lemma per action, then `Invariance: Spec => []IInv`, and from
it `TypeCorrect`, `ReturnSettles`, `TallyComplete`, `ActiveTold`, `GeometryFits`,
`WrittenOnce`, and `KeepsPromise: Spec => PromiseSpec`, the refinement: `Tessellate`
maps to `Serve`, `TessellateThrows` to `Fail` of the whole batch, the `CountJob` of a
skipped job to `Skip`, `JoinMonitor` to `Return`, all else to a stutter.

`CurveChunks_proofs` (for any counts and any limit; from `ChunkAssumption`). `SplitInv`
ties the last piece to the points consumed of the current curve; `ChunkInv` says that an
open chunk has a piece and stays in the limit; `ContinuationsRepeat` says that
consecutive pieces of one curve share their point. The three cutting actions are first
shown to be instances of one step (`Cuts`), and the invariant is proved for that. From
it `TypeCorrect`, `WithinLimit` and `NoGaps`. `PackedInv` says of the second loop that the
pieces taken so far are those in the chunks closed and in the open one, one after the
other (`ChunksArePieces`), that each chunk knows its points and that no closed chunk had
room for the piece that follows it (`PackInv`); from it
`NothingLost` (the chunks read in a row are the pieces) and `PackedTight`. `ShowInv` says
of the first loop that the segments of the curves passed, and those of the current curve
up to the points consumed, are each in exactly one piece (`Covers`), the pieces being in
the order of the segments; from it `NothingMissing`. Offsets are sums over the counts, a
recursive function: what is needed of them (they grow by the count of the next curve)
follows from the recursion lemma in `NatSets`.

`SelectiveRemesh_proofs` (for any container, variants, prototypes, selections and units,
and kills at any moment; from the assumptions that type the constants). `ProgressInv`
says how far a run has come in each phase; `UnitInv` that every layer opened in this run
is in the run's unit, and every layer and file holds geometry of its own unit;
`RepairInv` that a stage that was written is on disk what it is in memory, and that a
run without selections opens everything fresh, fills it with what it made itself, and
authors all prims of what it has built. Geometry and unit are not inductive alone, since
what is saved is a layer that depends on how the stage was opened: rebuilt for another
unit, or kept in its own. From it `TypeCorrect`, `UnitsMatch` and `FullRunCompletes`.

What a run must change needs two things more. About the run: `RunInv`, that the stages
it opens are those of different variants its selection reaches, with different files
(the duplicate check), and `OutcomeInv`, that nothing is made before tessellation, that
every active job then has an outcome, and that a stage written holds what its jobs came
to. About paths, which are sequences of nodes (sequences over `Name`, of one name for a
prim and of two for a variant): `Names` leaves out variants of the job's path by place,
the filters strip all of them and compare what is selected on each common prim. Both are
recursive functions over the path, brought down to single nodes with `NatRecursion`.
`NamedIsActive` says that a job a path names is active: whatever variants are left out,
the stripped paths are the same (`StripDrops`), so they stay related, and each variant
that the path in hand still has is one of the job's own. `NamedIsReached` says that its
container variant is then selected: what is left of the job's path begins with the
container under its variant, or goes on below the container without one, and then no
path related to it chooses another (`ElisionStarts`, `NotElsewhere`). From these
`NamedJobsRemeshed` and `NamedVariantsReached`.

What a run must leave alone needs the converse, that what the filters let through is
named. `ActiveIsNamed`: of an active job's path, leave out the variants on prims where
the `-p` path has none; what is left selects the same as the `-p` path on every prim the
two share, because nothing conflicts and because a valid path selects only where there
are variants, so that the job's path selects there as well (`JobSelectsToo`); then the
two run along each other node by node (`RunAlong`). `SelectedIsNamed` says it of
container variants. Both are false of some paths SdfPath can hold, such as two variants
in a row or a variant on a prim above the container, which the filters skip when they
compare and which no job's path has. Hence the hypothesis `OrdinarySelections` of
`OnlyNamedVariantsTouched` and `OnlyNamedJobsTouched`: the paths have the form the usage
shows. All selections of the TLC instance do (`MCSelectionsOrdinary`). About the run they
need `SavedInv`: only active jobs have an outcome, and the geometry in memory is that of
the file, so that a stage saved changes only the geometry that was written in this run.

`TessRoutine_proofs` (for any shapes, faces left unmeshed, passes and alias limit; from
`MeshAssumption` and `RoutineAssumption`). `PointInv`: indices are those of points, in
the map until compaction and in the corners always. `NodesInv`: of the face in hand, all
nodes before the next one have a point under the key they resolve to *now*. That needs
no fact about `resolveAlias` but one: aliases no longer change once nodes are welded.
For compaction it must be shown that numbering points by first use is one-to-one and
onto (`RankFacts`), so that a corner's new number gives back its point (`Renumbered`).
From it `CornersIndexed`. The rest of the module builds on that invariant, one part at a
time:

- `TypeCorrect`. `WalkInv` says where the walk is and that the polygons at the edge in
  hand are those of its meshed faces, all of one length; `KeysInv` that keys are of nodes
  and aliases lead to keys. The one fact needed of `resolveAlias` is `ResolveStays`:
  whatever the limit, it does not leave a set of keys that no alias leaves. With the set
  of all keys this types everything that is looked up.
- `CornersShown`. `PlaceInv`: a key is aliased to keys at its own place, and a point is
  at the place of every key that has it (`ResolveStays` again, with the set of keys at
  one place); a face that collapses onto an earlier one makes no points, since that face
  has been passed (`FacesInv`). `ShowInv`: the corners emitted are those of the faces and
  triangles passed, in order, each the point of its node's key. `CopiesAlike` is used in
  one place, when two nodes are aliased.
- `CurvesFollowEdges`. `MadeInv`: of the edges the walk has come by, exactly those that
  are traced (`Traced`: between two meshed faces, and not given up by the sampler) have a
  curve, made or deferred; deferred curves become curves one by one, none dropped, since
  every key of theirs has a point by then (`ResolvedAll`). `ContentInv`: what is made
  runs along the edge on a face. Nothing is said of how many curves an edge has: it has
  one for each time the walk comes by (section 7).

None of this depends on how far `resolveAlias` follows a chain. The rest does:

- `LimitSuffices`. `ChainInv`: keys can be ranked so that an alias leads to a lower rank,
  within one place, so that aliases make no cycle. It is kept because the walk aliases
  the root of one class to the root of another, and only if they differ. The keys passed
  from one that is followed are then all different and at one place, and if there are no
  more than `AliasSteps` + 1 keys there (32 in the code), the end is reached
  (`PlacesNarrow`). This is sufficient and not sharp: a vertex of six faces has six nodes
  in one place and is followed to the end with a limit of 3, because a chain there is half
  as long; TLC shows that case, the theorem does not.
- `FollowedIsWelded` and `FacesMeet`. `WeldedInv`: all nodes the walk has gone through at
  an edge have the roots of their counterparts on the edge's first face. An alias made
  later moves a whole class at once, if aliases are followed to their ends, so what is
  joined stays joined. `FollowedIsWelded` is about every behaviour in which
  `AliasesFollowed` holds, with no hypothesis on the shape; `FacesMeet` puts the
  hypotheses of `LimitSuffices` in its place.
- `FollowedHasData` and `DataPlaced`. `MetInv`: of every node on an edge walked, the
  root is a boundary key, and some key of its class has tangents if the edge has one
  there. `SumsInv`: boundary keys are only where edges pass, and tangents are those of
  edges that have one there. `FlagInv`: each point is
  that of a node and flagged as its key is. `DataInv`: so the points finalised have the
  data due at their place, which compaction moves along with them. One entry written
  over another at the same point (finding 4) loses the tangents of some edges but never
  all. Both theorems suppose `EdgesKeepOut`, that a node where an edge passes is on an
  edge of its own face. That is part of what a place means: the inside of a face and its
  border have no point in common. All shapes of the TLC instance have it, whatever is meshed (`MCEdgesKeepOut`);
  the vertices of four faces satisfy `PlacesNarrow` too. As in the property, no
  two faces have one triangulation, which also makes copies alike.

`NatSets` holds what the other modules lean on: that a set of naturals has a least
element, induction over a range, and definition by recursion, stated for sets and
functions instead of predicates, so that the provers here can use them. A recursive
function of a model equals, by `NatRecursion` and `SameSteps`, one that is known to have
its type; with that `FlattenSeq` (`FlatRange`, `FlatGrows`) and the loop that keeps some
of what it passes (`KeptFacts`) can be reasoned about. The same is done for a set on which
a relation is grounded (every non-empty subset has an element with nothing below it in
the subset): `GroundedInduction` and `GroundedRecursion`, for what a recursion over the
definitions of a document computes.

`GeometryWrite_proofs` (for any job list, bodies, cut into slices and order of
finishing; from `JobAssumption`). `CursorInv`: the loops stand at a job of a slice that
is there; `BodyInv`: a body holds what an earlier run left and what its own job makes, so
that no job can undo another's; `WrittenInv`: of a job that the loop has passed all prims
are there, and what its pass removes or replaces is not. `Written` says so of the end, and
that whatever else is there is of an earlier run. Passing is stated over the slices
in the order in which they finished, and since they partition the list each job is
passed once (`AdvanceStep`). From it `TypeCorrect`, `Written` and, as an action
property, `Kept`.

`ModelLoad_proofs` (for any prims and variant sets; from `LoadAssumption`). `StackInv`:
a frame remembers what the *file* has in its set, so that putting back what was found is
putting back what was there; `TriedInv`: which sets have a variant selected. From it
`TypeCorrect` and `Restored`. For the visits, `Passed` is what the frames on the stack
have gone through: the combinations that agree with the variants being tried below a
frame and have, in its set, a variant already done. `CoverInv` says that these, and no
others, have been visited, and each once; `ScanInv` that a prim that has been scanned is
covered. Pushing a frame adds nothing, popping one completes a variant of the frame
below. From it `AllVisitedOnce`.

`AssemblyTree_proofs` (for any document; from `TreeAssumption`).

- `PathsApart`. Two nodes of the first free shape with one path would have parents with
  one path, hence one parent, and siblings, which have different suffixes by hypothesis
  (`SiblingsApart`, about the tree at hand and not about the hash), stand for different
  components of it. The document may have further free shapes, whatever is read for
  their paths (`StrayPaths`): no path of the first tree depends on that. That siblings do is a fact
  about pass 2: the frame that fills a node is past every component that the node's
  children stand for (`ParentInv`), and no two frames fill one node (`FrameInv`).
- `PassesMatch`. An invariant on the number of nodes alone would not be inductive: what
  is still to come depends on every loop that is open. `Reach` tells, from what pass 1
  counted, where a loop will have taken the cursor when the call it made last returns.
  `SlotInv`: the cursor is where the innermost loop expects it, and a frame ends where
  the loop around it expects that; a step of pass 2 moves the innermost loop on by what
  was counted for the component it passes. `LoopInv` bounds the loops.
- `LinksRight`. `NodeInv`: a node is as its definition says; `OriginInv`: it is that of a
  component of its parent, one level above, or of a free shape passed (`RootsInv`: of one
  of its own); `PassedInv`: what a loop has passed, if it can be filled, has its node;
  `FirstInv`: the slot after a parent is its first child. `TypeCorrect` follows from
  these and `LoopInv`.
- `OneNodeEach`. A tree that is built has no open loop, so that `PassedInv` gives a node
  for each component of each assembly node. Chains of labels are then compared with
  `Occurrences`: below a definition by induction over the definitions, from the ones
  without components up, and for the whole tree from the roots down. Two nodes with one
  chain would be siblings with one label.

**Model-checked only.** Liveness (`CallReturns`, `Ends`, `ScanEnds`, `RoutineReturns`),
which the prover does not handle, and the weld where more nodes share a place than
`PlacesNarrow` allows but aliases are short all the same. Every invariant that a passing
run checks is a theorem, under the hypotheses named here.

## 7. Where code and documentation disagree

1. `selective_remesh_lost`: `-p` "narrows the scope to specific prims"
   (`docs/USING.md:102`). A path under the container but not under `Prototypes`, such as
   an assembly prim, counts as the whole stage for clearing and as nothing for
   tessellating: the prototypes file is emptied.
2. `model_load_found`: the scan is to find all models (`PopulateUsd.cpp:728`); an `if`
   without braces makes every call return before it records one.
3. `parent_resolved`: "every parentIdx has already been resolved"
   (`OpenCascadeAssembly.cpp:184`). The root of a second free shape has none: its index
   is -1, and `getNodePaths` reads before its vector.
4. `mesh_tangents`: "junction vertices accumulate contributions from every edge that
   shares them" (`Tessellation/MeshRoutine/MeshTessellationRoutine.cpp:502`). Tangents
   are added under the key a node has while an edge is walked; an edge walked later may
   alias that key, and at the end one sum overwrites the other.
5. `stale_planes`: "Clear any previously written geometry under this variant"
   (`WritePrims.cpp:567`). `clearPrim` removes `SketchPlane`, the planes lie in
   `SketchPlanes`: a variant that has fewer planes than before keeps the old ones.

Three more are plain to see in the source, and the models have what the code does, but no
run is spent on them:

- A variant without `cad:outputAsset` is to get a generated file name
  (`PopulateUsd.cpp:443`, `488`); the loop before has left it out (`440`), as `Inits` does.
- "instanceLabel entry is unique per slot in the XCAF tree, so two rods under the same
  parent get different suffixes" (`OpenCascadeAssembly.cpp:163`). The suffix is a 32-bit
  hash of that entry; two components of an assembly whose entries collide
  (0:1:1:4:81747 and 0:1:1:4:104600 do), and which are named alike, become one prim.
  `SiblingsApart`, the hypothesis of `PathsDistinct`, says that this is not so.
- "Walk every edge once" (`MeshTessellationRoutine.cpp:361`). The explorer comes by a
  shared edge once for each of its faces (`Occurrences`), and each time its wireframe
  curve is made again. `CurvesTraceEdges` does not count curves.

## 8. Not modelled

Most lines of the repository are not this program: of about 116,000 lines of code,
108,000 are the vendored Quadriflow with its copies of the LEMON graph library and of a
SAT solver, and the generated USD schema. They are other people's algorithms, taken here
by their outcome (the optional quad routine) or as external operations (`SdfPath`,
OpenCascade). Of the program itself:

- **Command line and convert mode.** Token loops that fill one record, and rules that
  are each a single condition on it; a model would repeat the conditions.
- **Parameters.** `getTessParams` reads no attribute at this commit, so every job has
  the default parameters. What the job builder makes of prototypes and variants is in
  `SelectiveRemesh` (`JobPaths`); what it leaves selected on the stage in memory is not.
- **Parallel loading.** The tasks that fill `modelCache` do not exist at this commit,
  since the scan never finds a model (finding 2); a model would describe no execution.
- **Names.** `AssemblyTree` takes names as equal, so that only the suffix tells siblings
  apart; sanitising a name is left out.
- **Normals of wireframe curves.** A deferred curve reads `pointNormals` when it is
  emitted; only how many values it takes is kept (`normals`), not what they are.
- **Numerics.** Sampling of curves and planes, normals, UVs and atlas, transforms,
  distances: no control depends on them.
- **The container's own layer.** It is a sublayer of every prototypes stage. That saving
  such a stage saves it too, and what a stage that was not rebuilt shows through it, are
  left out: `AuthoredPrim` and `WrittenGeometry` are about the stage's root layer.
- **Which tessellations fail** is one set for all variants of the container in a run.
- **Attributes.** `writePartClass` and `writeAssemblyXforms` set attributes prim by
  prim; of the assembly only whether it is there is kept.
- **Integers** are unbounded; the code's `int` would need 2^31 points in one prim to
  differ.
- **Logger and terminal output.** Nothing reads it. A log call is part of the step it
  follows and is taken not to throw.

The hazards in `PROJECT.json` that no property covers say why with each: no document or
comment says what should happen, the model does not have the data, or the disagreement
is one of the three at the end of section 7.

## 9. Plan

Done, in this order: `TessPromise`, `TessScheduler`, its proofs; `SelectionFilter`,
`SelectiveRemesh`; `CurveChunks`, its proofs; `ModelLoad`; `AssemblyTree`; `MeshWeld`,
`TessRoutine`; `GeometryWrite`; the proofs of the last five and of `SelectiveRemesh`;
what the chunks, the scan, the mesh and the tree show, with `NatSets` under them.
Modules for parameters and for the command line were planned and dropped, for the
reasons in section 8.

Left: a container with two variant sets, and one nested in another's variant, once it is
decided what a path through both should select; the loading of models in parallel, once
the scan finds any; the exact length of alias chains around a vertex, which depends on
the order of its faces.
