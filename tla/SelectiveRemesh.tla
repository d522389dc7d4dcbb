-------------------------- MODULE SelectiveRemesh --------------------------
(***************************************************************************)
(* CadUsdPipeline::populateUsd (lib/CadUSD/PopulateUsd.cpp) on one         *)
(* container, run after run: each run reads the -p paths, opens (or        *)
(* rebuilds) the prototypes stage of every container variant they reach    *)
(* and saves it, authors the prototype prims and the assembly in memory,   *)
(* tessellates, writes the geometry and saves each stage again.  Between   *)
(* runs the files stay; a run may be killed between any two of its steps.  *)
(*                                                                         *)
(* What a prototypes file holds is abstracted to its unit, which prototype *)
(* prims it defines and how, whether it has the assembly, and for every    *)
(* job (a prototype, or one variant of it) the geometry it has: none, or   *)
(* when and in which unit it was made.  tessellateGeometry is taken by its *)
(* promise (TessPromise): a selected job gets its geometry or fails.       *)
(*                                                                         *)
(* modelCache is a parameter (SourceLoaded).  At this commit the scan that *)
(* fills it returns too early and leaves it empty (see ModelLoad), so that *)
(* every run takes GiveUpStages at its first container; what is checked    *)
(* here is the code after it, on a cache such as the scan is meant to      *)
(* leave.                                                                  *)
(***************************************************************************)
EXTENDS SelectionFilter, FiniteSets

CONSTANTS Prototype,         \* prim names of the definitions of the model
          ProtoVariants,     \* variant nodes authored on each prototype prim
          ContainerVariants, \* variant nodes on the container prim (getVariantsOnPrim)
          OutputAsset,       \* cad:outputAsset under each variant, NoFile if none
          SourceLoaded,      \* variants whose cad:sourceAsset is in modelCache
          HasPrototypesPrim, \* variants under which the container has a Prototypes prim
          Unit,              \* metersPerUnit values the container may have
          Selections         \* the sets of -p paths of a run

NoFile == "no file"

\* One pass of the loops: a container variant, or the bare container.
Variant == ContainerVariants \cup {NoVariant}
File    == {OutputAsset[v] : v \in Variant} \ {NoFile}

ProtoPath(p) == Append(PrototypesPath, <<p>>)

\* populateTessellationJobs: one job per variant of a prototype, else one for it.
JobPaths ==
  UNION {IF ProtoVariants[p] = {} THEN {ProtoPath(p)}
         ELSE {Append(ProtoPath(p), v) : v \in ProtoVariants[p]} : p \in Prototype}

\* The variant selections validateVariants can look up.
VariantsOf ==
  [prim \in {ContainerPrimPath} \cup {ProtoPath(p) : p \in Prototype} |->
     IF prim = ContainerPrimPath THEN ContainerVariants
     ELSE ProtoVariants[Last(prim)[1]]]

ASSUME RemeshAssumption ==
  /\ ContainerPrimPath \in Path
  /\ \A i \in DOMAIN ContainerPrimPath : IsPrim(ContainerPrimPath[i])
  /\ "Prototypes" \in Name /\ Prototype \subseteq Name
  /\ ProtoVariants \in [Prototype -> SUBSET (Name \X Name)]
  /\ ContainerVariants \subseteq Name \X Name
  /\ NoVariant \in DOMAIN OutputAsset /\ ContainerVariants \subseteq DOMAIN OutputAsset
  /\ Selections \subseteq SUBSET Path

NoGeometry == << >>
NoStage    == << >>

\* SdfLayer::CreateNew, or Clear() on a layer that exists.
EmptyStage(u) ==
  [unit |-> u, prims |-> [p \in Prototype |-> "none"], assembly |-> FALSE,
   geometry |-> [j \in JobPaths |-> NoGeometry]]

VARIABLES
  phase,      \* where the run stands
  selected,   \* the -p paths of the run
  unit,       \* metersPerUnit of the container stage
  todo,       \* container variants the first loop has still to open
  prototypes, \* the PrototypeContainers, in order: variant, makeFreshStage
  built,      \* how many of them buildPrototypeStages has gone through
  outcome,    \* how tessellateGeometry left each job of each variant
  written,    \* how many of them have been written and saved
  layer,      \* the layers open in the process
  disk        \* the prototypes files

vars == <<phase, selected, unit, todo, prototypes, built, outcome, written, layer, disk>>

NoLayers == [f \in File |-> NoStage]
NoOutcome == [v \in Variant |-> [j \in JobPaths |-> "none"]]

\* Geometry made by an earlier run.
Aged(stage) ==
  IF stage = NoStage THEN NoStage
  ELSE [stage EXCEPT !.geometry =
          [j \in JobPaths |-> IF stage.geometry[j] = NoGeometry THEN NoGeometry
                              ELSE [stage.geometry[j] EXCEPT !.made = "before"]]]

FileOf(i) == OutputAsset[prototypes[i].variant]
---------------------------------------------------------------------------
\* vroom mesh is started: on new -p paths, and perhaps on an edited container.
Start ==
  /\ phase \in {"idle", "done"}
  /\ selected' \in Selections
  /\ unit' \in Unit
  /\ disk' = [f \in File |-> Aged(disk[f])]
  /\ phase' = "validate"
  /\ todo' = {} /\ prototypes' = << >> /\ built' = 0 /\ written' = 0
  /\ outcome' = NoOutcome
  /\ layer' = NoLayers

\* validateVariants fails and populateUsd returns.
Refuse ==
  /\ phase = "validate"
  /\ ~ValidSelection(selected, VariantsOf)
  /\ phase' = "done"
  /\ UNCHANGED <<selected, unit, todo, prototypes, built, outcome, written, layer, disk>>

\* The variants the selection reaches; one without an output asset is left out.
Inits ==
  IF ContainerVariants = {} THEN {NoVariant}
  ELSE {v \in ContainerVariants : VariantSelected(selected, v) /\ OutputAsset[v] # NoFile}

\* Two variants that would overwrite each other's file.
Duplicate == \E v, w \in Inits : v # w /\ OutputAsset[v] = OutputAsset[w]

\* The first loop of populatePrototypeContainers: on a duplicate it returns
\* false, which populateUsd ignores, with no container to go on with.
ResolveContainers ==
  /\ phase = "validate"
  /\ ValidSelection(selected, VariantsOf)
  /\ todo' = IF Duplicate THEN {} ELSE Inits
  /\ phase' = "containers"
  /\ UNCHANGED <<selected, unit, prototypes, built, outcome, written, layer, disk>>

\* Mutated form: the unit of the file is not compared.
Rebuilt_AnyUnit(v) == StageMakeFresh(selected, v)

\* makeFreshStage: as the selection asks, or because the file has another unit
\* (stageNeedsUnitReset).
Rebuilt(v) ==
  \/ StageMakeFresh(selected, v)
  \/ disk[OutputAsset[v]] # NoStage /\ disk[OutputAsset[v]].unit # unit

\* Mutated form: a layer that exists is never cleared.
Opened_NoClear(v) ==
  LET file == OutputAsset[v] IN
    IF disk[file] = NoStage THEN EmptyStage(unit) ELSE [disk[file] EXCEPT !.unit = unit]

\* Mutated form: the unit of a new stage is left unset.
Opened_UnitUnset(v) ==
  LET file == OutputAsset[v] IN
    IF disk[file] = NoStage \/ Rebuilt(v) THEN EmptyStage("unset") ELSE disk[file]

\* initUsdStage, with the unit set afterwards.
Opened(v) ==
  LET file == OutputAsset[v] IN
    IF disk[file] = NoStage \/ Rebuilt(v) THEN EmptyStage(unit)
    ELSE [disk[file] EXCEPT !.unit = unit]

\* One pass of the second loop: the stage is opened or rebuilt, and saved.
OpenStage(v) ==
  /\ phase = "containers"
  /\ v \in todo
  /\ v \in SourceLoaded
  /\ OutputAsset[v] # NoFile
  /\ todo' = todo \ {v}
  /\ layer' = [layer EXCEPT ![OutputAsset[v]] = Opened(v)]
  /\ disk' = [disk EXCEPT ![OutputAsset[v]] = Opened(v)]
  /\ prototypes' = Append(prototypes, [variant |-> v, fresh |-> Rebuilt(v)])
  /\ UNCHANGED <<phase, selected, unit, built, outcome, written>>

\* The directory of a variant's file cannot be created: the variant is left out.
SkipStage(v) ==
  /\ phase = "containers"
  /\ v \in todo
  /\ v \in SourceLoaded
  /\ v # NoVariant
  /\ todo' = todo \ {v}
  /\ UNCHANGED <<phase, selected, unit, prototypes, built, outcome, written, layer, disk>>

\* The model is missing, or the bare container has no directory to write to
\* (without an output asset the path is built below the container file itself):
\* the loop is given up, and populateUsd goes on with what it has.
GiveUpStages(v) ==
  /\ phase = "containers"
  /\ v \in todo
  /\ v \notin SourceLoaded \/ v = NoVariant
  /\ todo' = {}
  /\ UNCHANGED <<phase, selected, unit, prototypes, built, outcome, written, layer, disk>>

StagesOpened ==
  /\ phase = "containers"
  /\ todo = {}
  /\ phase' = "build"
  /\ UNCHANGED <<selected, unit, todo, prototypes, built, outcome, written, layer, disk>>

---------------------------------------------------------------------------
\* writePrototypeXforms on one prototype: a prim that an unfresh stage already
\* has is kept; a new one gets its name, label and inherits only on a fresh stage.
AuthoredPrim(prim, fresh) ==
  IF ~fresh /\ prim # "none" THEN prim ELSE IF fresh THEN "full" ELSE "bare"

\* One pass of buildPrototypeStages.
BuildStage ==
  /\ phase = "build"
  /\ built < Len(prototypes)
  /\ LET i == built + 1
         fresh == prototypes[i].fresh IN
       /\ prototypes[i].variant \in HasPrototypesPrim
       /\ layer' = [layer EXCEPT
            ![FileOf(i)].prims = [p \in Prototype |-> AuthoredPrim(@[p], fresh)],
            ![FileOf(i)].assembly = @ \/ fresh \/ AssemblyActive(selected, ContainerPrimPath)]
       /\ built' = i
  /\ UNCHANGED <<phase, selected, unit, todo, prototypes, outcome, written, disk>>

\* The container has no Prototypes prim under the variant: the loop is given up,
\* and the stages left have no prototype paths, hence no jobs.  Otherwise it
\* ends with the last one.
StagesBuilt ==
  /\ phase = "build"
  /\ built < Len(prototypes) => prototypes[built + 1].variant \notin HasPrototypesPrim
  /\ phase' = "tessellate"
  /\ UNCHANGED <<selected, unit, todo, prototypes, built, outcome, written, layer, disk>>

\* The jobs of populateTessellationJobs that the filter lets through.
ActiveJobs(v) ==
  IF \E i \in 1..built : prototypes[i].variant = v
  THEN {j \in JobPaths : PrototypeActive(selected, j, v)} ELSE {}

\* populateTessellationJobs and tessellateGeometry: each selected job is made or
\* fails, in a way that depends on the job only, whatever the variant.
Tessellate ==
  /\ phase = "tessellate"
  /\ \E failing \in SUBSET JobPaths :
       outcome' = [v \in Variant |-> [j \in JobPaths |->
         IF j \notin ActiveJobs(v) THEN "none" ELSE IF j \in failing THEN "failed" ELSE "made"]]
  /\ phase' = "write"
  /\ UNCHANGED <<selected, unit, todo, prototypes, built, written, layer, disk>>

\* What writePrototypeGeometries leaves of a job's geometry.  That of a variant
\* job is cleared first, so a routine with nothing in it leaves nothing; that of
\* a plain job is copied over the old, which stays where there is nothing to copy.
WrittenGeometry(v, j, old) ==
  IF outcome[v][j] = "made" THEN [made |-> "now", unit |-> unit]
  ELSE IF outcome[v][j] = "failed" /\ IsVariant(Last(j)) THEN NoGeometry
  ELSE old

\* writePrototypeGeometries on the next stage, and its Save().
WriteStage ==
  /\ phase = "write"
  /\ written < Len(prototypes)
  /\ LET i == written + 1
         v == prototypes[i].variant IN
       /\ layer' = [layer EXCEPT ![FileOf(i)].geometry =
                      [j \in JobPaths |-> WrittenGeometry(v, j, @[j])]]
       /\ disk' = [disk EXCEPT ![FileOf(i)] = layer'[FileOf(i)]]
       /\ written' = i
  /\ UNCHANGED <<phase, selected, unit, todo, prototypes, built, outcome>>

Return ==
  /\ phase = "write"
  /\ written = Len(prototypes)
  /\ phase' = "done"
  /\ UNCHANGED <<selected, unit, todo, prototypes, built, outcome, written, layer, disk>>

\* The process is killed: what it had in memory is lost.
Kill ==
  /\ phase \notin {"idle", "done"}
  /\ phase' = "idle"
  /\ selected' = {} /\ todo' = {} /\ prototypes' = << >> /\ built' = 0 /\ written' = 0
  /\ outcome' = NoOutcome
  /\ layer' = NoLayers
  /\ UNCHANGED <<unit, disk>>

Init ==
  /\ phase = "idle"
  /\ selected = {}
  /\ unit \in Unit
  /\ todo = {} /\ prototypes = << >> /\ built = 0 /\ written = 0
  /\ outcome = NoOutcome
  /\ layer = NoLayers
  /\ disk = NoLayers

RunStep ==
  \/ Refuse
  \/ ResolveContainers
  \/ \E v \in Variant : OpenStage(v) \/ SkipStage(v) \/ GiveUpStages(v)
  \/ StagesOpened
  \/ BuildStage
  \/ StagesBuilt
  \/ Tessellate
  \/ WriteStage
  \/ Return

Next == Start \/ RunStep \/ Kill

Spec == Init /\ [][Next]_vars
---------------------------------------------------------------------------
\* A path without the nodes at some places.
Without(path, places) ==
  LET kept[n \in 0..Len(path)] ==
        IF n = 0 THEN << >>
        ELSE IF n \in places THEN kept[n - 1] ELSE Append(kept[n - 1], path[n])
  IN kept[Len(path)]

VariantPlaces(path) == {n \in DOMAIN path : IsVariant(path[n])}

\* What a -p path means (docs/USING.md, Selective Remeshing), without a word of
\* the filter.  A path that leaves a variant out means all of them: it names a job
\* of a container variant if, once some variants are left out of the job's own
\* path, the job lies at or below it, or it goes on below the job's prim without
\* choosing another variant there.
Elisions(path) == {Without(path, S) : S \in SUBSET VariantPlaces(path)}

Names(v, path) ==
  \/ selected = {}
  \/ \E p \in Elisions(ReplacePrefix(path, ContainerPrimPath, ContainerUnder(v))), sel \in selected :
       \/ HasPrefix(p, sel)
       \/ HasPrefix(sel, p) /\ Len(sel) > Len(p) /\ IsPrim(sel[Len(p) + 1])

Stages == {v \in Variant : OutputAsset[v] # NoFile}

GeometryOn(v, j) ==
  LET stage == disk[OutputAsset[v]] IN IF stage = NoStage THEN NoGeometry ELSE stage.geometry[j]

StageRecord ==
  [unit : Unit,
   prims : [Prototype -> {"none", "bare", "full"}],
   assembly : BOOLEAN,
   geometry : [JobPaths -> {NoGeometry} \cup [made : {"before", "now"}, unit : Unit]]]

TypeOK ==
  /\ phase \in {"idle", "validate", "containers", "build", "tessellate", "write", "done"}
  /\ selected \in Selections \cup {{}}
  /\ unit \in Unit
  /\ todo \subseteq Variant
  /\ prototypes \in Seq([variant : Variant, fresh : BOOLEAN])
  /\ built \in 0..Len(prototypes)
  /\ written \in 0..Len(prototypes)
  /\ outcome \in [Variant -> [JobPaths -> {"none", "made", "failed"}]]
  /\ layer \in [File -> StageRecord \cup {NoStage}]
  /\ disk \in [File -> StageRecord \cup {NoStage}]

\* Paths of the form the usage shows: prims, and on them at most one variant each, which
\* is the container's or lies below its Prototypes.
Ordinary(path) ==
  \A n \in DOMAIN path :
    /\ IsPrim(path[n]) \/ IsVariant(path[n])
    /\ IsVariant(path[n]) =>
         LET prim == Strip(SubSeq(path, 1, n)) IN
           /\ n < Len(path) => IsPrim(path[n + 1])
           /\ prim = ContainerPrimPath \/ ~HasPrefix(PrototypesPath, prim)

OrdinarySelections == \A paths \in Selections : \A sel \in paths : Ordinary(sel)

\* The passes of the loops that write to the same file.
Sharing(v) == {w \in Variant : OutputAsset[w] = OutputAsset[v]}

\* A run touches the file of a container variant only if the selection names that
\* variant (or one that shares the file), whatever else it names and wherever the run
\* is killed.  A container without variants is opened whatever the selection.
OtherVariantsUntouched ==
  [][~Start /\ ContainerVariants # {} => \A v \in Stages :
       disk'[OutputAsset[v]] # disk[OutputAsset[v]] =>
         \E w \in Sharing(v) : Names(w, ContainerPrimPath)]_vars

\* The geometry of a job the selection does not name stays as it is, unless its
\* whole stage was rebuilt.
UnnamedGeometryKept ==
  [][~Start => \A v \in Stages, j \in JobPaths :
       GeometryOn(v, j)' # GeometryOn(v, j) => \E w \in Sharing(v) :
         \/ Names(w, j)
         \/ \E i \in DOMAIN prototypes' : prototypes'[i] = [variant |-> w, fresh |-> TRUE]]_vars

\* No geometry was made in another unit than the one its file declares, although
\* the container's unit may change between runs and a run be killed halfway.
GeometryInStageUnit ==
  \A v \in Stages, j \in JobPaths :
    GeometryOn(v, j) # NoGeometry => GeometryOn(v, j).unit = disk[OutputAsset[v]].unit

\* Every stage that a finished run did open and build has new geometry for the
\* jobs its selection names, but for those whose tessellation failed.
NamedIsRemeshed ==
  phase = "done" => \A i \in 1..built : \A j \in JobPaths :
    LET v == prototypes[i].variant IN
      Names(v, j) => IF outcome[v][j] = "failed" THEN GeometryOn(v, j) # [made |-> "now", unit |-> unit]
                     ELSE GeometryOn(v, j) = [made |-> "now", unit |-> unit]

\* Every container variant that a valid selection names, and that has a file and
\* a model, is either opened or given up for want of a directory or a neighbour's
\* model: the filter on variants lets through all that the filter on jobs needs.
NamedVariantReached ==
  phase \in {"validate", "containers"} /\ ValidSelection(selected, VariantsOf) =>
    \A v \in ContainerVariants, j \in JobPaths : Names(v, j) => VariantSelected(selected, v)

\* A finished run over everything repairs whatever killed or partial runs left:
\* every stage it opened is complete, with nothing in it from an earlier run.
FullRunRepairs ==
  phase = "done" /\ selected = {} => \A i \in 1..built :
    LET stage == disk[FileOf(i)] IN
      /\ \A p \in Prototype : stage.prims[p] = "full"
      /\ stage.assembly
      /\ \A j \in JobPaths : stage.geometry[j] = NoGeometry \/ stage.geometry[j].made = "now"

\* A run that names only some prims never costs another prim its geometry.
NothingUnnamedLost ==
  [][\A v \in Stages, j \in JobPaths :
       GeometryOn(v, j) # NoGeometry /\ GeometryOn(v, j)' = NoGeometry => Names(v, j)]_vars
=============================================================================
