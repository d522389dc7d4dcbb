------------------------ MODULE SelectiveRemesh_proofs ------------------------
(***************************************************************************)
(* Whatever the container, its variants, the selections and the moments at *)
(* which runs are killed: geometry has the unit its file declares, a full  *)
(* run leaves nothing of earlier runs in the stages it opens, and a run    *)
(* makes anew what its selection names and leaves the rest alone.          *)
(*                                                                         *)
(* None is inductive: what a file holds depends on the layer that was      *)
(* saved to it, and that on how it was opened and on what the run decided  *)
(* before.  What a selection does rests on how paths are compared, which   *)
(* is the middle part of the module.                                       *)
(***************************************************************************)
EXTENDS SelectiveRemesh, NatSets

Complete(stage) == (\A p \in Prototype : stage.prims[p] = "full") /\ stage.assembly

OfThisRun(stage) ==
  \A j \in JobPaths : stage.geometry[j] = NoGeometry \/ stage.geometry[j].made = "now"

OneUnit(stage) ==
  \A j \in JobPaths : stage.geometry[j] # NoGeometry => stage.geometry[j].unit = stage.unit

\* How far a run has come in each phase.
ProgressInv ==
  /\ phase \in {"idle", "validate"} => prototypes = << >>
  /\ phase = "containers" => built = 0
  /\ phase \in {"containers", "build", "tessellate"} => written = 0
  /\ phase = "done" => written = Len(prototypes)
  /\ \A i \in DOMAIN prototypes : OutputAsset[prototypes[i].variant] # NoFile

\* The layers of a run are in its unit, and the files each in theirs.
UnitInv ==
  /\ \A i \in DOMAIN prototypes :
       /\ layer[FileOf(i)] \in StageRecord
       /\ layer[FileOf(i)].unit = unit
       /\ OneUnit(layer[FileOf(i)])
  /\ \A f \in File : disk[f] # NoStage => OneUnit(disk[f])

\* A full run rebuilds all it opens, and what it has saved is what it has in memory.
RepairInv ==
  /\ \A i \in DOMAIN prototypes : i <= written => disk[FileOf(i)] = layer[FileOf(i)]
  /\ selected = {} => \A i \in DOMAIN prototypes :
       /\ prototypes[i].fresh
       /\ OfThisRun(layer[FileOf(i)])
       /\ i <= built => Complete(layer[FileOf(i)])

IInv == TypeOK /\ ProgressInv /\ UnitInv /\ RepairInv

\* The container variants a run opens are reached by its selection, each opened once,
\* and no two of them share a file.
RunInv ==
  /\ phase # "containers" => todo = {}
  /\ todo \subseteq Inits
  /\ \A i \in DOMAIN prototypes : prototypes[i].variant \in Inits \ todo
  /\ \A i, k \in DOMAIN prototypes : i # k => prototypes[i].variant # prototypes[k].variant
  /\ todo # {} \/ prototypes # << >> => ~Duplicate /\ ValidSelection(selected, VariantsOf)

Old(geometry) == geometry # NoGeometry => geometry.made = "before"

\* What a stage holds of this run: nothing before it is written, and then what the
\* jobs came to.
OutcomeInv ==
  /\ phase \in {"validate", "containers"} =>
       \A f \in File : disk[f] # NoStage => \A j \in JobPaths : Old(disk[f].geometry[j])
  /\ \A i \in DOMAIN prototypes, j \in JobPaths :
       LET v == prototypes[i].variant
           geometry == layer[FileOf(i)].geometry[j] IN
         /\ i > written \/ outcome[v][j] = "failed" => Old(geometry)
         /\ i <= written /\ outcome[v][j] = "made" => geometry = [made |-> "now", unit |-> unit]
         /\ phase \in {"write", "done"} /\ i <= built /\ PrototypeActive(selected, j, v) =>
              outcome[v][j] # "none"

RemeshInv == IInv /\ RunInv /\ OutcomeInv
---------------------------------------------------------------------------
\* The file of a container variant that has one is a file.
LEMMA FileOfVariant ==
  ASSUME NEW v \in Variant, OutputAsset[v] # NoFile
  PROVE  OutputAsset[v] \in File
  BY DEF File

LEMMA ElementOf ==
  ASSUME NEW S, NEW s \in Seq(S), NEW i \in DOMAIN s
  PROVE  s[i] \in S
  OBVIOUS

LEMMA FilesOfPrototypes ==
  ASSUME TypeOK, ProgressInv
  PROVE  \A i \in DOMAIN prototypes :
           prototypes[i] \in [variant : Variant, fresh : BOOLEAN] /\ FileOf(i) \in File
  <1> SUFFICES ASSUME NEW i \in DOMAIN prototypes
               PROVE  prototypes[i] \in [variant : Variant, fresh : BOOLEAN] /\ FileOf(i) \in File
    OBVIOUS
  <1>1. prototypes \in Seq([variant : Variant, fresh : BOOLEAN])
    BY DEF TypeOK
  <1>2. prototypes[i] \in [variant : Variant, fresh : BOOLEAN]
    BY <1>1, ElementOf
  <1>3. prototypes[i].variant \in Variant /\ OutputAsset[prototypes[i].variant] # NoFile
    BY <1>2 DEF ProgressInv
  <1> QED BY <1>2, <1>3, FileOfVariant DEF FileOf

LEMMA InitInv == Init => IInv
  BY DEF Init, IInv, TypeOK, ProgressInv, UnitInv, RepairInv, NoLayers, NoOutcome

\* A new stage has its unit and nothing else.
LEMMA NewStage ==
  ASSUME NEW u \in Unit
  PROVE  /\ EmptyStage(u) \in StageRecord /\ EmptyStage(u).unit = u
         /\ OneUnit(EmptyStage(u)) /\ OfThisRun(EmptyStage(u))
  BY DEF EmptyStage, StageRecord, OneUnit, OfThisRun

LEMMA AgedStage ==
  ASSUME NEW s \in StageRecord \cup {NoStage}
  PROVE  /\ Aged(s) \in StageRecord \cup {NoStage}
         /\ (s # NoStage => OneUnit(s)) => (Aged(s) # NoStage => OneUnit(Aged(s)))
  <1>1. CASE s = NoStage
    BY <1>1 DEF Aged
  <1>2. CASE s # NoStage
    <2>1. s \in StageRecord
      BY <1>2
    <2> DEFINE g == [j \in JobPaths |-> IF s.geometry[j] = NoGeometry THEN NoGeometry
                                        ELSE [s.geometry[j] EXCEPT !.made = "before"]]
    <2>2. Aged(s) = [s EXCEPT !.geometry = g]
      BY <1>2 DEF Aged
    <2>3. \A j \in JobPaths :
            /\ s.geometry[j] = NoGeometry => g[j] = NoGeometry
            /\ s.geometry[j] # NoGeometry =>
                 g[j] \in [made : {"before", "now"}, unit : Unit] /\ g[j].unit = s.geometry[j].unit
      BY <2>1 DEF StageRecord
    <2>4. g \in [JobPaths -> {NoGeometry} \cup [made : {"before", "now"}, unit : Unit]]
      BY <2>3
    <2>5. \A j \in JobPaths : g[j] # NoGeometry => s.geometry[j] # NoGeometry
      BY <2>3
    <2> HIDE DEF g
    <2>6. Aged(s) \in StageRecord /\ Aged(s).geometry = g /\ Aged(s).unit = s.unit
      BY <2>1, <2>2, <2>4 DEF StageRecord
    <2> QED BY <1>2, <2>3, <2>5, <2>6 DEF OneUnit
  <1> QED BY <1>1, <1>2

LEMMA StartInv ==
  ASSUME IInv, Start
  PROVE  IInv'
  <1> USE DEF IInv
  <1>1. /\ phase' = "validate" /\ selected' \in Selections /\ unit' \in Unit
        /\ todo' = {} /\ prototypes' = << >> /\ built' = 0 /\ written' = 0
        /\ outcome' = NoOutcome /\ layer' = NoLayers
        /\ disk' = [f \in File |-> Aged(disk[f])]
    BY DEF Start
  <1>2. \A f \in File : disk[f] \in StageRecord \cup {NoStage}
    BY DEF TypeOK
  <1>3. disk' \in [File -> StageRecord \cup {NoStage}]
    BY <1>1, <1>2, AgedStage
  <1>4. TypeOK'
    BY <1>1, <1>3 DEF TypeOK, NoOutcome, NoLayers
  <1>5. UnitInv'
    BY <1>1, <1>2, AgedStage DEF UnitInv
  <1> QED BY <1>1, <1>4, <1>5 DEF ProgressInv, RepairInv

LEMMA KillInv ==
  ASSUME IInv, Kill
  PROVE  IInv'
  BY DEF IInv, Kill, TypeOK, ProgressInv, UnitInv, RepairInv, NoOutcome, NoLayers

\* A step that opens, builds and writes nothing.
LEMMA QuietInv ==
  ASSUME IInv, UNCHANGED <<selected, unit, prototypes, built, written, layer, disk>>,
         TypeOK', ProgressInv'
  PROVE  IInv'
  BY DEF IInv, UnitInv, RepairInv, FileOf

\* How a variant's stage is opened: in the run's unit, and from nothing if all is.
LEMMA OpenedStage ==
  ASSUME IInv, NEW v \in Variant, OutputAsset[v] # NoFile
  PROVE  /\ Opened(v) \in StageRecord /\ Opened(v).unit = unit /\ OneUnit(Opened(v))
         /\ selected = {} => OfThisRun(Opened(v)) /\ Rebuilt(v)
  <1>1. OutputAsset[v] \in File /\ unit \in Unit
    BY FileOfVariant DEF IInv, TypeOK
  <1> DEFINE s == disk[OutputAsset[v]]
  <1>2. CASE s = NoStage \/ Rebuilt(v)
    <2>1. Opened(v) = EmptyStage(unit)
      BY <1>2 DEF Opened
    <2>2. selected = {} => Rebuilt(v)
      BY DEF Rebuilt, StageMakeFresh
    <2> QED BY <1>1, <2>1, <2>2, NewStage
  <1>3. CASE ~(s = NoStage \/ Rebuilt(v))
    <2>1. Opened(v) = [s EXCEPT !.unit = unit]
      BY <1>3 DEF Opened
    <2>2. s \in StageRecord /\ OneUnit(s)
      BY <1>1, <1>3 DEF IInv, TypeOK, UnitInv
    <2>3. s.unit = unit /\ selected # {}
      BY <1>3 DEF Rebuilt, StageMakeFresh
    <2>4. Opened(v) = s
      BY <2>1, <2>2, <2>3 DEF StageRecord
    <2> QED BY <2>2, <2>3, <2>4
  <1> QED BY <1>2, <1>3

LEMMA OpenStageInv ==
  ASSUME IInv, NEW v \in Variant, OpenStage(v)
  PROVE  IInv'
  <1> USE DEF IInv
  <1> DEFINE n == Len(prototypes) + 1
             new == [variant |-> v, fresh |-> Rebuilt(v)]
             file == OutputAsset[v]
  <1>1. /\ phase = "containers" /\ phase' = phase /\ file # NoFile
        /\ todo' = todo \ {v}
        /\ layer' = [layer EXCEPT ![file] = Opened(v)]
        /\ disk' = [disk EXCEPT ![file] = Opened(v)]
        /\ prototypes' = Append(prototypes, new)
        /\ UNCHANGED <<selected, unit, built, outcome, written>>
    BY DEF OpenStage
  <1>2. file \in File
    BY <1>1, FileOfVariant
  <1>3. /\ Opened(v) \in StageRecord /\ Opened(v).unit = unit /\ OneUnit(Opened(v))
        /\ selected = {} => OfThisRun(Opened(v)) /\ Rebuilt(v)
    BY <1>1, OpenedStage
  <1>4. new \in [variant : Variant, fresh : BOOLEAN] /\ new.variant = v /\ new.fresh = Rebuilt(v)
    BY DEF Rebuilt
  <1>5. prototypes \in Seq([variant : Variant, fresh : BOOLEAN]) /\ built = 0 /\ written = 0
    BY <1>1 DEF TypeOK, ProgressInv
  <1> HIDE DEF new
  <1>6. /\ prototypes' \in Seq([variant : Variant, fresh : BOOLEAN]) /\ Len(prototypes') = n
        /\ DOMAIN prototypes' = DOMAIN prototypes \cup {n}
        /\ \A i \in DOMAIN prototypes : prototypes'[i] = prototypes[i]
        /\ prototypes'[n] = new
    BY <1>1, <1>4, <1>5
  <1>7. /\ layer' \in [File -> StageRecord \cup {NoStage}] /\ disk' \in [File -> StageRecord \cup {NoStage}]
        /\ layer'[file] = Opened(v) /\ disk'[file] = Opened(v)
        /\ \A f \in File \ {file} : layer'[f] = layer[f] /\ disk'[f] = disk[f]
    BY <1>1, <1>2, <1>3 DEF TypeOK
  <1>8. TypeOK'
    BY <1>1, <1>5, <1>6, <1>7 DEF TypeOK
  <1>9. ProgressInv'
    BY <1>1, <1>4, <1>5, <1>6 DEF ProgressInv
  <1>10. \A i \in DOMAIN prototypes' :
           /\ \/ FileOf(i)' = file
              \/ i \in DOMAIN prototypes /\ FileOf(i)' = FileOf(i) /\ FileOf(i) \in File
           /\ i \notin DOMAIN prototypes => prototypes'[i].fresh = Rebuilt(v)
    BY <1>4, <1>6, FilesOfPrototypes DEF FileOf
  <1>11. UnitInv'
    <2>1. \A i \in DOMAIN prototypes' :
            /\ layer'[FileOf(i)'] \in StageRecord
            /\ layer'[FileOf(i)'].unit = unit
            /\ OneUnit(layer'[FileOf(i)'])
      BY <1>1, <1>3, <1>7, <1>10 DEF UnitInv
    <2>2. \A f \in File : disk'[f] # NoStage => OneUnit(disk'[f])
      BY <1>1, <1>3, <1>7 DEF UnitInv
    <2> QED BY <1>1, <2>1, <2>2 DEF UnitInv
  <1>12. RepairInv'
    <2>1. \A i \in DOMAIN prototypes' : ~(i <= written') /\ ~(i <= built')
      BY <1>1, <1>5, <1>6
    <2>2. ASSUME selected' = {}, NEW i \in DOMAIN prototypes'
          PROVE  prototypes'[i].fresh /\ OfThisRun(layer'[FileOf(i)'])
      <3>1. CASE FileOf(i)' = file
        <4>1. OfThisRun(Opened(v)) /\ Rebuilt(v)
          BY <1>1, <1>3, <2>2
        <4>2. prototypes'[i].fresh
          BY <1>1, <1>6, <1>10, <2>2, <4>1 DEF RepairInv
        <4> QED BY <1>7, <3>1, <4>1, <4>2
      <3>2. CASE FileOf(i)' # file
        <4>1. i \in DOMAIN prototypes /\ FileOf(i)' = FileOf(i) /\ FileOf(i) \in File \ {file}
          BY <1>10, <3>2
        <4>2. prototypes[i].fresh /\ OfThisRun(layer[FileOf(i)])
          BY <1>1, <2>2, <4>1 DEF RepairInv
        <4> QED BY <1>6, <1>7, <4>1, <4>2
      <3> QED BY <3>1, <3>2
    <2> QED BY <2>1, <2>2 DEF RepairInv
  <1> QED BY <1>8, <1>9, <1>11, <1>12

LEMMA BuildStageInv ==
  ASSUME IInv, BuildStage
  PROVE  IInv'
  <1> USE DEF IInv
  <1> DEFINE n == built + 1
             file == FileOf(n)
             fresh == prototypes[n].fresh
             s == layer[file]
             prims == [p \in Prototype |-> AuthoredPrim(s.prims[p], fresh)]
             assembly == s.assembly \/ fresh \/ AssemblyActive(selected, ContainerPrimPath)
             new == [s EXCEPT !.prims = prims, !.assembly = assembly]
  <1>1. /\ phase = "build" /\ phase' = phase /\ built < Len(prototypes) /\ built' = n
        /\ layer' = [layer EXCEPT ![file].prims = [p \in Prototype |-> AuthoredPrim(@[p], fresh)],
                                  ![file].assembly = @ \/ fresh \/ AssemblyActive(selected, ContainerPrimPath)]
        /\ UNCHANGED <<selected, unit, todo, prototypes, outcome, written, disk>>
    BY DEF BuildStage
  <1>2. /\ prototypes \in Seq([variant : Variant, fresh : BOOLEAN])
        /\ built \in 0..Len(prototypes) /\ written = 0
        /\ layer \in [File -> StageRecord \cup {NoStage}]
    BY <1>1 DEF TypeOK, ProgressInv
  <1>3. n \in DOMAIN prototypes /\ n \in 0..Len(prototypes)
    BY <1>1, <1>2
  <1>4. file \in File /\ fresh \in BOOLEAN /\ s \in StageRecord
    BY <1>3, FilesOfPrototypes DEF UnitInv
  <1>5. layer' = [layer EXCEPT ![file] = new]
    BY <1>1, <1>2, <1>4
  <1>6. prims \in [Prototype -> {"none", "bare", "full"}] /\ assembly \in BOOLEAN
    <2>1. \A p \in Prototype : s.prims[p] \in {"none", "bare", "full"}
      BY <1>4 DEF StageRecord
    <2> QED BY <2>1 DEF AuthoredPrim
  <1>7. fresh => assembly /\ \A p \in Prototype : prims[p] = "full"
    BY DEF AuthoredPrim
  <1> HIDE DEF prims, assembly
  <1>8. /\ new \in StageRecord /\ new.unit = s.unit /\ new.geometry = s.geometry
        /\ new.prims = prims /\ new.assembly = assembly
    BY <1>4, <1>6 DEF StageRecord
  <1> HIDE DEF new
  <1>9. TypeOK'
    BY <1>1, <1>2, <1>3, <1>4, <1>5, <1>8 DEF TypeOK
  <1>10. ProgressInv'
    BY <1>1, <1>2 DEF ProgressInv
  <1>11. \A i \in DOMAIN prototypes :
           /\ FileOf(i)' = FileOf(i)
           /\ \/ FileOf(i) = file /\ layer'[FileOf(i)] = new
              \/ FileOf(i) # file /\ layer'[FileOf(i)] = layer[FileOf(i)]
    BY <1>1, <1>2, <1>4, <1>5, FilesOfPrototypes DEF FileOf
  <1>12. OneUnit(new) /\ new.unit = unit
    BY <1>3, <1>8 DEF UnitInv, OneUnit
  <1>13. UnitInv'
    <2>1. \A i \in DOMAIN prototypes :
            /\ layer'[FileOf(i)] \in StageRecord
            /\ layer'[FileOf(i)].unit = unit
            /\ OneUnit(layer'[FileOf(i)])
      BY <1>8, <1>11, <1>12 DEF UnitInv
    <2>2. \A f \in File : disk'[f] # NoStage => OneUnit(disk'[f])
      BY <1>1 DEF UnitInv
    <2> QED BY <1>1, <1>11, <2>1, <2>2 DEF UnitInv
  <1>14. RepairInv'
    <2>1. \A i \in DOMAIN prototypes : ~(i <= written)
      BY <1>2
    <2>2. ASSUME selected = {}, NEW i \in DOMAIN prototypes
          PROVE  /\ prototypes[i].fresh
                 /\ OfThisRun(layer'[FileOf(i)])
                 /\ i <= built + 1 => Complete(layer'[FileOf(i)])
      <3>1. fresh /\ OfThisRun(new) /\ Complete(new)
        BY <1>3, <1>7, <1>8, <2>2 DEF RepairInv, OfThisRun, Complete
      <3>2. prototypes[i].fresh /\ OfThisRun(layer[FileOf(i)])
            /\ (i <= built => Complete(layer[FileOf(i)]))
        BY <2>2 DEF RepairInv
      <3>3. i <= built + 1 => i <= built \/ FileOf(i) = file
        BY <1>2
      <3> QED BY <1>11, <3>1, <3>2, <3>3
    <2> QED BY <1>1, <1>11, <2>1, <2>2 DEF RepairInv
  <1> QED BY <1>9, <1>10, <1>13, <1>14

\* What a job's geometry is after writing.
LEMMA GeometryWritten ==
  ASSUME TypeOK, NEW v \in Variant, NEW s \in StageRecord, s.unit = unit, OneUnit(s)
  PROVE  LET new == [s EXCEPT !.geometry = [j \in JobPaths |-> WrittenGeometry(v, j, s.geometry[j])]]
         IN /\ new \in StageRecord /\ new.unit = unit /\ OneUnit(new)
            /\ new.prims = s.prims /\ new.assembly = s.assembly
            /\ OfThisRun(s) => OfThisRun(new)
  <1> DEFINE g == [j \in JobPaths |-> WrittenGeometry(v, j, s.geometry[j])]
             new == [s EXCEPT !.geometry = g]
  <1>1. \A j \in JobPaths : g[j] \in {[made |-> "now", unit |-> unit], NoGeometry, s.geometry[j]}
    BY DEF WrittenGeometry
  <1>2. g \in [JobPaths -> {NoGeometry} \cup [made : {"before", "now"}, unit : Unit]]
    BY <1>1 DEF StageRecord, TypeOK
  <1>3. \A j \in JobPaths : g[j] # NoGeometry => g[j].unit = unit
    BY <1>1 DEF OneUnit
  <1>4. OfThisRun(s) => \A j \in JobPaths : g[j] = NoGeometry \/ g[j].made = "now"
    BY <1>1 DEF OfThisRun
  <1> HIDE DEF g
  <1>5. /\ new \in StageRecord /\ new.geometry = g /\ new.unit = unit
        /\ new.prims = s.prims /\ new.assembly = s.assembly
    BY <1>2 DEF StageRecord
  <1> HIDE DEF new
  <1>6. OneUnit(new) /\ (OfThisRun(s) => OfThisRun(new))
    BY <1>3, <1>4, <1>5 DEF OneUnit, OfThisRun
  <1> QED BY <1>5, <1>6 DEF new, g

LEMMA WriteStageInv ==
  ASSUME IInv, WriteStage
  PROVE  IInv'
  <1> USE DEF IInv
  <1> DEFINE n == written + 1
             file == FileOf(n)
             v == prototypes[n].variant
             s == layer[file]
             new == [s EXCEPT !.geometry = [j \in JobPaths |-> WrittenGeometry(v, j, s.geometry[j])]]
  <1>1. /\ phase = "write" /\ phase' = phase /\ written < Len(prototypes) /\ written' = n
        /\ layer' = [layer EXCEPT ![file].geometry =
                       [j \in JobPaths |-> WrittenGeometry(v, j, @[j])]]
        /\ disk' = [disk EXCEPT ![file] = layer'[file]]
        /\ UNCHANGED <<selected, unit, todo, prototypes, built, outcome>>
    BY DEF WriteStage
  <1>2. /\ prototypes \in Seq([variant : Variant, fresh : BOOLEAN])
        /\ built \in 0..Len(prototypes) /\ written \in 0..Len(prototypes)
        /\ layer \in [File -> StageRecord \cup {NoStage}]
        /\ disk \in [File -> StageRecord \cup {NoStage}]
    BY DEF TypeOK
  <1>3. n \in DOMAIN prototypes /\ n \in 0..Len(prototypes)
    BY <1>1, <1>2
  <1>4. /\ file \in File /\ v \in Variant /\ s \in StageRecord
        /\ s.unit = unit /\ OneUnit(s)
    BY <1>3, FilesOfPrototypes DEF UnitInv
  <1>5. layer' = [layer EXCEPT ![file] = new]
    BY <1>1, <1>2, <1>4
  <1>6. /\ new \in StageRecord /\ new.unit = unit /\ OneUnit(new)
        /\ new.prims = s.prims /\ new.assembly = s.assembly
        /\ OfThisRun(s) => OfThisRun(new)
    BY <1>4, GeometryWritten
  <1> HIDE DEF new
  <1>7. disk' = [disk EXCEPT ![file] = new]
    BY <1>1, <1>2, <1>4, <1>5
  <1>8. TypeOK'
    BY <1>1, <1>2, <1>3, <1>4, <1>5, <1>6, <1>7 DEF TypeOK
  <1>9. ProgressInv'
    BY <1>1 DEF ProgressInv
  <1>10. \A i \in DOMAIN prototypes :
           /\ FileOf(i)' = FileOf(i)
           /\ \/ FileOf(i) = file /\ layer'[FileOf(i)] = new /\ disk'[FileOf(i)] = new
              \/ FileOf(i) # file /\ layer'[FileOf(i)] = layer[FileOf(i)]
                                  /\ disk'[FileOf(i)] = disk[FileOf(i)]
    BY <1>1, <1>2, <1>4, <1>5, <1>7, FilesOfPrototypes DEF FileOf
  <1>11. UnitInv'
    <2>1. \A f \in File : disk'[f] = new \/ disk'[f] = disk[f]
      BY <1>2, <1>4, <1>7
    <2>2. \A f \in File : disk'[f] # NoStage => OneUnit(disk'[f])
      BY <1>6, <2>1 DEF UnitInv
    <2>3. \A i \in DOMAIN prototypes :
            /\ layer'[FileOf(i)] \in StageRecord
            /\ layer'[FileOf(i)].unit = unit
            /\ OneUnit(layer'[FileOf(i)])
      BY <1>6, <1>10 DEF UnitInv
    <2> QED BY <1>1, <1>10, <2>2, <2>3 DEF UnitInv
  <1>12. RepairInv'
    <2>1. \A i \in DOMAIN prototypes : i <= n => i <= written \/ FileOf(i) = file
      BY <1>2
    <2>2. selected = {} => \A i \in DOMAIN prototypes :
            /\ prototypes[i].fresh
            /\ OfThisRun(layer'[FileOf(i)])
            /\ i <= built => Complete(layer'[FileOf(i)])
      <3> SUFFICES ASSUME selected = {}, NEW i \in DOMAIN prototypes
                   PROVE  /\ prototypes[i].fresh
                          /\ OfThisRun(layer'[FileOf(i)])
                          /\ i <= built => Complete(layer'[FileOf(i)])
        OBVIOUS
      <3>1. /\ prototypes[i].fresh /\ OfThisRun(layer[FileOf(i)])
            /\ i <= built => Complete(layer[FileOf(i)])
        BY DEF RepairInv
      <3>2. Complete(s) => Complete(new)
        BY <1>6 DEF Complete
      <3> QED BY <1>6, <1>10, <3>1, <3>2
    <2>3. \A i \in DOMAIN prototypes : i <= n => disk'[FileOf(i)] = layer'[FileOf(i)]
      BY <1>10, <2>1 DEF RepairInv
    <2> HIDE DEF n, new, file, s, v
    <2> QED BY <1>1, <1>10, <2>2, <2>3 DEF RepairInv
  <1> QED BY <1>8, <1>9, <1>11, <1>12
---------------------------------------------------------------------------
LEMMA NextInv ==
  ASSUME IInv, [Next]_vars
  PROVE  IInv'
  <1> USE DEF IInv
  <1>1. CASE Start
    BY <1>1, StartInv
  <1>2. CASE Refuse
    BY <1>2, QuietInv DEF Refuse, TypeOK, ProgressInv
  <1>3. CASE ResolveContainers
    <2>1. Inits \subseteq Variant
      BY DEF Inits, Variant
    <2> QED BY <1>3, <2>1, QuietInv DEF ResolveContainers, TypeOK, ProgressInv
  <1>4. ASSUME NEW v \in Variant, OpenStage(v) PROVE IInv'
    BY <1>4, OpenStageInv
  <1>5. ASSUME NEW v \in Variant, SkipStage(v) \/ GiveUpStages(v) PROVE IInv'
    BY <1>5, QuietInv DEF SkipStage, GiveUpStages, TypeOK, ProgressInv
  <1>6. CASE StagesOpened \/ StagesBuilt \/ Return
    BY <1>6, QuietInv DEF StagesOpened, StagesBuilt, Return, TypeOK, ProgressInv
  <1>7. CASE BuildStage
    BY <1>7, BuildStageInv
  <1>8. CASE Tessellate
    BY <1>8, QuietInv DEF Tessellate, TypeOK, ProgressInv
  <1>9. CASE WriteStage
    BY <1>9, WriteStageInv
  <1>10. CASE Kill
    BY <1>10, KillInv
  <1>11. CASE UNCHANGED vars
    BY <1>11, QuietInv DEF vars, TypeOK, ProgressInv
  <1> QED
    BY <1>1, <1>2, <1>3, <1>4, <1>5, <1>6, <1>7, <1>8, <1>9, <1>10, <1>11 DEF Next, RunStep

LEMMA Invariance == Spec => []IInv
  BY InitInv, NextInv, PTL DEF Spec

\* Every variable of populateUsd's model keeps its type, run after run.
THEOREM TypeCorrect == Spec => []TypeOK
  <1>1. IInv => TypeOK
    BY DEF IInv
  <1> QED BY <1>1, Invariance, PTL

\* No file ever holds geometry made in another unit than its own, for any edits of
\* the unit, any selections and kills at any moment.
THEOREM UnitsMatch == Spec => []GeometryInStageUnit
  <1>1. IInv => GeometryInStageUnit
    <2> SUFFICES ASSUME IInv, NEW v \in Stages, NEW j \in JobPaths, GeometryOn(v, j) # NoGeometry
                 PROVE  GeometryOn(v, j).unit = disk[OutputAsset[v]].unit
      BY DEF GeometryInStageUnit
    <2>1. OutputAsset[v] \in File
      BY FileOfVariant DEF Stages
    <2> QED BY <2>1 DEF IInv, UnitInv, OneUnit, GeometryOn
  <1> QED BY <1>1, Invariance, PTL

\* A full run that ends leaves nothing of earlier runs, killed or not, in the stages it
\* opened and built.
THEOREM FullRunCompletes == Spec => []FullRunRepairs
  <1>1. IInv => FullRunRepairs
    <2> SUFFICES ASSUME IInv, phase = "done", selected = {}, NEW i \in 1..built
                 PROVE  LET stage == disk[FileOf(i)] IN Complete(stage) /\ OfThisRun(stage)
      BY DEF FullRunRepairs, Complete, OfThisRun
    <2>1. i \in DOMAIN prototypes /\ i <= written /\ i <= built
      BY DEF IInv, TypeOK, ProgressInv
    <2> QED BY <2>1 DEF IInv, RepairInv
  <1> QED BY <1>1, Invariance, PTL
---------------------------------------------------------------------------
\* The node at n of a path that is one longer is dropped or put on.
Extends(path, S, f) ==
  /\ f[0] = << >>
  /\ \A n \in 1..Len(path) :
       f[n] = IF n \in S THEN f[n - 1] ELSE Append(f[n - 1], path[n])

LEMMA LoopRuns ==
  ASSUME NEW A, NEW path \in Seq(A), NEW S
  PROVE  \E f \in [0..Len(path) -> Seq(A)] : Extends(path, S, f)
  <1> DEFINE G == [n \in 1..Len(path) |-> [x \in Seq(A) |-> IF n \in S THEN x ELSE Append(x, path[n])]]
  <1>1. PICK N \in Nat : N = Len(path)
    OBVIOUS
  <1>2. << >> \in Seq(A) /\ \A n \in 1..N : path[n] \in A
    BY <1>1
  <1>3. G \in [1..N -> [Seq(A) -> Seq(A)]]
    BY <1>1, <1>2
  <1> HIDE DEF G
  <1>4. PICK f \in [0..N -> Seq(A)] : Follows(f, N, << >>, G)
    BY <1>2, <1>3, NatRecursion
  <1>5. f[0] = << >> /\ \A n \in 1..N : f[n] = G[n][f[n - 1]]
    BY <1>4 DEF Follows
  <1>6. \A n \in 1..N : f[n - 1] \in Seq(A)
    OBVIOUS
  <1>7. \A n \in 1..N : f[n] = IF n \in S THEN f[n - 1] ELSE Append(f[n - 1], path[n])
    BY <1>1, <1>5, <1>6 DEF G
  <1> QED BY <1>1, <1>5, <1>7 DEF Extends

LEMMA WithoutDef ==
  ASSUME NEW A, NEW path \in Seq(A), NEW S
  PROVE  \E f \in [0..Len(path) -> Seq(A)] : Extends(path, S, f) /\ Without(path, S) = f[Len(path)]
  <1> DEFINE kept[n \in 0..Len(path)] ==
               IF n = 0 THEN << >>
               ELSE IF n \in S THEN kept[n - 1] ELSE Append(kept[n - 1], path[n])
  <1>1. PICK N \in Nat : N = Len(path)
    OBVIOUS
  <1>2. PICK f \in [0..N -> Seq(A)] : Extends(path, S, f)
    BY <1>1, LoopRuns
  <1>3. f[0] = << >> /\ \A n \in 1..N : f[n] = IF n \in S THEN f[n - 1] ELSE Append(f[n - 1], path[n])
    BY <1>1, <1>2 DEF Extends
  <1>4. f = [n \in 0..N |-> IF n = 0 THEN << >>
                            ELSE IF n \in S THEN f[n - 1] ELSE Append(f[n - 1], path[n])]
    <2> DEFINE h == [n \in 0..N |-> IF n = 0 THEN << >>
                       ELSE IF n \in S THEN f[n - 1] ELSE Append(f[n - 1], path[n])]
    <2>1. \A n \in 0..N : f[n] = h[n]
      <3>1. TAKE n \in 0..N
      <3>2. n = 0 \/ n \in 1..N
        OBVIOUS
      <3> QED BY <1>3, <3>2
    <2> QED BY <2>1
  <1> HIDE DEF kept
  <1>5. kept = [n \in 0..N |-> IF n = 0 THEN << >>
                  ELSE IF n \in S THEN kept[n - 1] ELSE Append(kept[n - 1], path[n])]
    BY <1>1, <1>4 DEF kept
  <1>6. kept[0] = f[0]
    BY <1>3, <1>5
  <1>7. ASSUME NEW n \in 1..N, kept[n - 1] = f[n - 1] PROVE kept[n] = f[n]
    <2>1. n \in 0..N /\ n # 0
      OBVIOUS
    <2>2. kept[n] = IF n = 0 THEN << >>
                    ELSE IF n \in S THEN kept[n - 1] ELSE Append(kept[n - 1], path[n])
      BY <1>5, <2>1
    <2> QED BY <1>3, <1>7, <2>1, <2>2
  <1>8. Alike(kept, f, N)
    BY <1>6, <1>7, SameSteps
  <1>9. kept[N] = f[N]
    BY <1>8 DEF Alike
  <1> QED BY <1>1, <1>2, <1>9 DEF Without, kept

LEMMA StripDef ==
  ASSUME NEW A, NEW path \in Seq(A)
  PROVE  \E f \in [0..Len(path) -> Seq(A)] :
           Extends(path, VariantPlaces(path), f) /\ Strip(path) = f[Len(path)]
  <1> DEFINE kept[n \in 0..Len(path)] ==
               IF n = 0 THEN << >>
               ELSE IF IsVariant(path[n]) THEN kept[n - 1] ELSE Append(kept[n - 1], path[n])
  <1>1. PICK N \in Nat : N = Len(path)
    OBVIOUS
  <1>2. PICK f \in [0..N -> Seq(A)] : Extends(path, VariantPlaces(path), f)
    BY <1>1, LoopRuns
  <1>3. f[0] = << >> /\ \A n \in 1..N : f[n] = IF IsVariant(path[n]) THEN f[n - 1] ELSE Append(f[n - 1], path[n])
    BY <1>1, <1>2 DEF Extends, VariantPlaces
  <1>4. f = [n \in 0..N |-> IF n = 0 THEN << >>
                            ELSE IF IsVariant(path[n]) THEN f[n - 1] ELSE Append(f[n - 1], path[n])]
    <2> DEFINE h == [n \in 0..N |-> IF n = 0 THEN << >>
                       ELSE IF IsVariant(path[n]) THEN f[n - 1] ELSE Append(f[n - 1], path[n])]
    <2>1. \A n \in 0..N : f[n] = h[n]
      <3>1. TAKE n \in 0..N
      <3>2. n = 0 \/ n \in 1..N
        OBVIOUS
      <3> QED BY <1>3, <3>2
    <2> QED BY <2>1
  <1> HIDE DEF kept
  <1>5. kept = [n \in 0..N |-> IF n = 0 THEN << >>
                  ELSE IF IsVariant(path[n]) THEN kept[n - 1] ELSE Append(kept[n - 1], path[n])]
    BY <1>1, <1>4 DEF kept
  <1>6. kept[0] = f[0]
    BY <1>3, <1>5
  <1>7. ASSUME NEW n \in 1..N, kept[n - 1] = f[n - 1] PROVE kept[n] = f[n]
    <2>1. n \in 0..N /\ n # 0
      OBVIOUS
    <2>2. kept[n] = IF n = 0 THEN << >>
                    ELSE IF IsVariant(path[n]) THEN kept[n - 1] ELSE Append(kept[n - 1], path[n])
      BY <1>5, <2>1
    <2> QED BY <1>3, <1>7, <2>1, <2>2
  <1>8. Alike(kept, f, N)
    BY <1>6, <1>7, SameSteps
  <1>9. kept[N] = f[N]
    BY <1>8 DEF Alike
  <1> QED BY <1>1, <1>2, <1>9 DEF Strip, kept

\* What is left of the prims is what is left without the variants.
LEMMA StripDrops ==
  ASSUME NEW A, NEW path \in Seq(A)
  PROVE  Strip(path) = Without(path, VariantPlaces(path))
  <1>1. PICK N \in Nat : N = Len(path)
    OBVIOUS
  <1>2. PICK V : V = VariantPlaces(path)
    OBVIOUS
  <1>3. PICK f \in [0..N -> Seq(A)] : Extends(path, V, f) /\ Strip(path) = f[N]
    BY <1>1, <1>2, StripDef
  <1>4. PICK g \in [0..N -> Seq(A)] : Extends(path, V, g) /\ Without(path, V) = g[N]
    BY <1>1, WithoutDef
  <1>5. g[0] = f[0] /\ \A n \in 1..N : g[n - 1] = f[n - 1] => g[n] = f[n]
    BY <1>1, <1>3, <1>4 DEF Extends
  <1>6. Alike(g, f, N)
    BY <1>5, SameSteps
  <1> QED BY <1>2, <1>3, <1>4, <1>6 DEF Alike

\* Dropping S or T from paths that agree on what to keep.
LEMMA WithoutSame ==
  ASSUME NEW A, NEW path \in Seq(A), NEW q \in Seq(A), NEW S, NEW T, Len(q) = Len(path),
         \A n \in 1..Len(path) : q[n] = path[n] /\ (n \in T <=> n \in S)
  PROVE  Without(q, T) = Without(path, S)
  <1>1. PICK N \in Nat : N = Len(path) /\ N = Len(q)
    OBVIOUS
  <1>2. PICK f \in [0..N -> Seq(A)] : Extends(path, S, f) /\ Without(path, S) = f[N]
    BY <1>1, WithoutDef
  <1>3. PICK g \in [0..N -> Seq(A)] : Extends(q, T, g) /\ Without(q, T) = g[N]
    BY <1>1, WithoutDef
  <1>4. g[0] = f[0] /\ \A n \in 1..N : g[n - 1] = f[n - 1] => g[n] = f[n]
    <2>1. g[0] = << >> /\ f[0] = << >>
      BY <1>2, <1>3 DEF Extends
    <2>2. ASSUME NEW n \in 1..N, g[n - 1] = f[n - 1] PROVE g[n] = f[n]
      <3>1. f[n] = IF n \in S THEN f[n - 1] ELSE Append(f[n - 1], path[n])
        BY <1>1, <1>2 DEF Extends
      <3>2. g[n] = IF n \in T THEN g[n - 1] ELSE Append(g[n - 1], q[n])
        BY <1>1, <1>3 DEF Extends
      <3>3. q[n] = path[n] /\ (n \in T <=> n \in S)
        BY <1>1
      <3> QED BY <2>2, <3>1, <3>2, <3>3
    <2> QED BY <2>1, <2>2
  <1>5. Alike(g, f, N)
    BY <1>4, SameSteps
  <1> QED BY <1>2, <1>3, <1>5 DEF Alike

\* The first n nodes of a path.
LEMMA FirstNodes ==
  ASSUME NEW A, NEW path \in Seq(A), NEW n \in 0..Len(path)
  PROVE  /\ SubSeq(path, 1, n) \in Seq(A) /\ Len(SubSeq(path, 1, n)) = n
         /\ \A k \in 1..n : SubSeq(path, 1, n)[k] = path[k]
         /\ SubSeq(path, 1, Len(path)) = path
         /\ \A k \in 0..n : SubSeq(SubSeq(path, 1, n), 1, k) = SubSeq(path, 1, k)
  <1>1. PICK N \in Nat : N = Len(path)
    OBVIOUS
  <1>2. /\ \A k \in 0..N : SubSeq(path, 1, k) = [i \in 1..k |-> path[i]]
        /\ \A i \in 1..N : path[i] \in A
        /\ path = [i \in 1..N |-> path[i]]
    BY <1>1
  <1>3. SubSeq(path, 1, n) \in Seq(A) /\ Len(SubSeq(path, 1, n)) = n
    BY <1>1, <1>2
  <1> DEFINE s == SubSeq(path, 1, n)
  <1>4. s = [i \in 1..n |-> path[i]]
    BY <1>1, <1>2
  <1> HIDE DEF s
  <1>5. ASSUME NEW k \in 0..n PROVE SubSeq(s, 1, k) = SubSeq(path, 1, k)
    <2>1. SubSeq(s, 1, k) = [i \in 1..k |-> s[i]]
      BY <1>1
    <2>2. \A i \in 1..k : s[i] = path[i]
      BY <1>4
    <2>3. SubSeq(path, 1, k) = [i \in 1..k |-> path[i]]
      BY <1>1, <1>2
    <2> QED BY <2>1, <2>2, <2>3
  <1> QED BY <1>1, <1>2, <1>3, <1>4, <1>5 DEF s

\* What is left of a path, node by node.
PartTo(path, S, n) == Without(SubSeq(path, 1, n), S)

DropSteps(path, S, A) ==
  /\ PartTo(path, S, 0) = << >>
  /\ Without(path, S) = PartTo(path, S, Len(path))
  /\ \A n \in 0..Len(path) : PartTo(path, S, n) \in Seq(A)
  /\ \A n \in 1..Len(path) :
       PartTo(path, S, n) = IF n \in S THEN PartTo(path, S, n - 1)
                            ELSE Append(PartTo(path, S, n - 1), path[n])

LEMMA WithoutSteps ==
  ASSUME NEW A, NEW path \in Seq(A), NEW S
  PROVE  DropSteps(path, S, A)
  <1>1. PICK N \in Nat : N = Len(path)
    OBVIOUS
  <1>2. PICK f \in [0..N -> Seq(A)] : Extends(path, S, f) /\ Without(path, S) = f[N]
    BY <1>1, WithoutDef
  <1>3. ASSUME NEW n \in 0..N PROVE PartTo(path, S, n) = f[n]
    <2> DEFINE s == SubSeq(path, 1, n)
    <2>1. s \in Seq(A) /\ Len(s) = n /\ \A k \in 1..n : s[k] = path[k]
      BY <1>1, FirstNodes
    <2> HIDE DEF s
    <2>2. PICK g \in [0..Len(s) -> Seq(A)] : Extends(s, S, g) /\ Without(s, S) = g[Len(s)]
      BY <2>1, WithoutDef
    <2>3. g[0] = f[0]
      BY <1>2, <2>2 DEF Extends
    <2>4. ASSUME NEW k \in 1..n, g[k - 1] = f[k - 1] PROVE g[k] = f[k]
      <3>1. k \in 1..Len(path) /\ k \in 1..Len(s) /\ s[k] = path[k]
        BY <1>1, <2>1
      <3>2. f[k] = IF k \in S THEN f[k - 1] ELSE Append(f[k - 1], path[k])
        BY <1>2, <3>1 DEF Extends
      <3>3. g[k] = IF k \in S THEN g[k - 1] ELSE Append(g[k - 1], s[k])
        BY <2>2, <3>1 DEF Extends
      <3> QED BY <2>4, <3>1, <3>2, <3>3
    <2>5. n \in Nat
      OBVIOUS
    <2>6. Alike(g, f, n)
      BY <2>3, <2>4, <2>5, SameSteps
    <2>7. g[n] = f[n]
      BY <2>5, <2>6 DEF Alike
    <2> QED BY <2>1, <2>2, <2>7 DEF PartTo, s
  <1> HIDE DEF PartTo
  <1>4. 0 \in 0..N /\ N \in 0..N /\ \A n \in 1..N : n \in 0..N /\ n - 1 \in 0..N
    OBVIOUS
  <1>5. ASSUME NEW n \in 1..N
        PROVE  PartTo(path, S, n) = IF n \in S THEN PartTo(path, S, n - 1)
                                    ELSE Append(PartTo(path, S, n - 1), path[n])
    <2>1. f[n] = IF n \in S THEN f[n - 1] ELSE Append(f[n - 1], path[n])
      BY <1>1, <1>2 DEF Extends
    <2> QED BY <1>3, <1>4, <2>1
  <1>6. f[0] = << >>
    BY <1>2 DEF Extends
  <1> QED BY <1>1, <1>2, <1>3, <1>4, <1>5, <1>6 DEF DropSteps

\* The prims of the first n nodes.
StripTo(path, n) == Strip(SubSeq(path, 1, n))

PrimSteps(path, A) ==
  /\ StripTo(path, 0) = << >>
  /\ Strip(path) = StripTo(path, Len(path))
  /\ \A n \in 0..Len(path) : StripTo(path, n) \in Seq(A)
  /\ \A n \in 1..Len(path) :
       StripTo(path, n) = IF IsVariant(path[n]) THEN StripTo(path, n - 1)
                          ELSE Append(StripTo(path, n - 1), path[n])

LEMMA StripSteps ==
  ASSUME NEW A, NEW path \in Seq(A)
  PROVE  PrimSteps(path, A)
  <1> DEFINE V == VariantPlaces(path)
  <1>1. PICK N \in Nat : N = Len(path)
    OBVIOUS
  <1>2. \A n \in 1..N : n \in V <=> IsVariant(path[n])
    BY <1>1 DEF VariantPlaces
  <1>3. ASSUME NEW n \in 0..N PROVE StripTo(path, n) = PartTo(path, V, n)
    <2> DEFINE s == SubSeq(path, 1, n)
               T == VariantPlaces(s)
    <2>1. s \in Seq(A) /\ Len(s) = n /\ \A k \in 1..n : s[k] = path[k]
      BY <1>1, FirstNodes
    <2> HIDE DEF s, V
    <2>2. \A k \in 1..n : k \in T <=> IsVariant(s[k])
      BY <2>1 DEF VariantPlaces
    <2>3. \A k \in 1..Len(s) : s[k] = s[k] /\ (k \in T <=> k \in V)
      BY <1>2, <2>1, <2>2
    <2> HIDE DEF T
    <2>4. Without(s, T) = Without(s, V)
      BY <2>1, <2>3, WithoutSame
    <2>5. Strip(s) = Without(s, T)
      BY <2>1, StripDrops DEF T
    <2> QED BY <2>4, <2>5 DEF StripTo, PartTo, s
  <1>4. Strip(path) = Without(path, V)
    BY StripDrops
  <1> HIDE DEF V, StripTo, PartTo
  <1>5. /\ PartTo(path, V, 0) = << >>
        /\ Without(path, V) = PartTo(path, V, N)
        /\ \A n \in 0..N : PartTo(path, V, n) \in Seq(A)
        /\ \A n \in 1..N : PartTo(path, V, n) = IF n \in V THEN PartTo(path, V, n - 1)
                                                 ELSE Append(PartTo(path, V, n - 1), path[n])
    <2>1. DropSteps(path, V, A)
      BY WithoutSteps
    <2> QED BY <1>1, <2>1 DEF DropSteps
  <1>6. \A n \in 1..N : n \in 0..N /\ n - 1 \in 0..N
    OBVIOUS
  <1>7. 0 \in 0..N /\ N \in 0..N
    OBVIOUS
  <1>8. \A n \in 1..N : StripTo(path, n) = IF IsVariant(path[n]) THEN StripTo(path, n - 1)
                                            ELSE Append(StripTo(path, n - 1), path[n])
    BY <1>2, <1>3, <1>5, <1>6
  <1> QED BY <1>1, <1>3, <1>4, <1>5, <1>7, <1>8 DEF PrimSteps

\* Path s begins with t, node by node.
Begins(s, t) == Len(t) <= Len(s) /\ \A k \in 1..Len(t) : s[k] = t[k]

LEMMA PrefixIs ==
  ASSUME NEW A, NEW s \in Seq(A), NEW t \in Seq(A)
  PROVE  HasPrefix(s, t) <=> Begins(s, t)
  <1>1. PICK m \in Nat, n \in Nat : m = Len(s) /\ n = Len(t)
    OBVIOUS
  <1>2. CASE n <= m
    <2>1. SubSeq(s, 1, n) = [k \in 1..n |-> s[k]] /\ SubSeq(t, 1, n) = [k \in 1..n |-> t[k]]
      BY <1>1, <1>2
    <2>2. SubSeq(t, 1, n) = SubSeq(s, 1, n) <=> \A k \in 1..n : s[k] = t[k]
      BY <2>1
    <2> QED BY <1>1, <1>2, <2>2 DEF HasPrefix, IsPrefix, Begins
  <1>3. CASE ~(n <= m)
    BY <1>1, <1>3 DEF HasPrefix, IsPrefix, Begins
  <1> QED BY <1>2, <1>3

LEMMA BeginsTwice ==
  ASSUME NEW A, NEW r \in Seq(A), NEW s \in Seq(A), NEW t \in Seq(A), Begins(r, s), Begins(s, t)
  PROVE  Begins(r, t)
  <1>1. PICK l \in Nat, m \in Nat, n \in Nat : l = Len(r) /\ m = Len(s) /\ n = Len(t)
    OBVIOUS
  <1> QED BY <1>1 DEF Begins

\* Of two beginnings of one path, one begins the other.
LEMMA BothBegin ==
  ASSUME NEW A, NEW r \in Seq(A), NEW s \in Seq(A), NEW t \in Seq(A), Begins(r, s), Begins(r, t)
  PROVE  Begins(s, t) \/ Begins(t, s)
  <1>1. PICK l \in Nat, m \in Nat, n \in Nat : l = Len(r) /\ m = Len(s) /\ n = Len(t)
    OBVIOUS
  <1> QED BY <1>1 DEF Begins

LEMMA SameSeq ==
  ASSUME NEW A, NEW s \in Seq(A), NEW t \in Seq(A), Begins(s, t), Len(s) = Len(t)
  PROVE  s = t
  <1>1. PICK m \in Nat : m = Len(s) /\ m = Len(t)
    OBVIOUS
  <1>2. s = [k \in 1..m |-> s[k]] /\ t = [k \in 1..m |-> t[k]]
    BY <1>1
  <1> QED BY <1>1, <1>2 DEF Begins

\* The beginnings of a path that t begins.
LEMMA FirstSame ==
  ASSUME NEW A, NEW s \in Seq(A), NEW t \in Seq(A), Begins(s, t), NEW n \in 0..Len(t)
  PROVE  SubSeq(s, 1, n) = SubSeq(t, 1, n) /\ StripTo(s, n) = StripTo(t, n) /\ n \in 0..Len(s)
  <1>1. PICK l \in Nat, m \in Nat : l = Len(s) /\ m = Len(t)
    OBVIOUS
  <1>2. SubSeq(s, 1, n) = [k \in 1..n |-> s[k]] /\ SubSeq(t, 1, n) = [k \in 1..n |-> t[k]]
    BY <1>1 DEF Begins
  <1>3. \A k \in 1..n : s[k] = t[k]
    BY <1>1 DEF Begins
  <1>4. SubSeq(s, 1, n) = SubSeq(t, 1, n)
    BY <1>2, <1>3
  <1>5. n \in 0..Len(s)
    BY <1>1 DEF Begins
  <1>6. StripTo(s, n) = StripTo(t, n)
    BY <1>4 DEF StripTo
  <1> QED BY <1>4, <1>5, <1>6

LEMMA StripIs ==
  ASSUME NEW A, NEW path \in Seq(A)
  PROVE  Strip(path) \in Seq(A) /\ Strip(path) = StripTo(path, Len(path))
  <1>1. PrimSteps(path, A)
    BY StripSteps
  <1> QED BY <1>1 DEF PrimSteps

\* A node more.
LEMMA StripAppend ==
  ASSUME NEW A, NEW q \in Seq(A), NEW x \in A
  PROVE  Strip(Append(q, x)) = IF IsVariant(x) THEN Strip(q) ELSE Append(Strip(q), x)
  <1>1. PICK N \in Nat : N = Len(q)
    OBVIOUS
  <1>2. PICK r \in Seq(A) : r = Append(q, x)
    BY AppendProperties
  <1>3. Len(r) = N + 1 /\ r[N + 1] = x /\ \A k \in 1..N : r[k] = q[k]
    BY <1>1, <1>2, AppendProperties
  <1>4. PrimSteps(r, A)
    BY StripSteps
  <1>5. Strip(r) = StripTo(r, N + 1) /\ N + 1 \in 1..Len(r) /\ (N + 1) - 1 = N
    <2>1. Strip(r) = StripTo(r, Len(r))
      BY <1>4 DEF PrimSteps
    <2>2. N + 1 \in 1..(N + 1) /\ (N + 1) - 1 = N
      OBVIOUS
    <2> QED BY <1>3, <2>1, <2>2
  <1>6. StripTo(r, N + 1) = IF IsVariant(x) THEN StripTo(r, N) ELSE Append(StripTo(r, N), x)
    <2>1. StripTo(r, N + 1) = IF IsVariant(r[N + 1]) THEN StripTo(r, (N + 1) - 1)
                              ELSE Append(StripTo(r, (N + 1) - 1), r[N + 1])
      BY <1>4, <1>5 DEF PrimSteps
    <2> QED BY <1>3, <1>5, <2>1
  <1>7. Begins(r, q) /\ N \in 0..Len(q)
    BY <1>1, <1>3 DEF Begins
  <1>8. StripTo(r, N) = StripTo(q, N)
    BY <1>7, FirstSame
  <1>9. StripTo(q, N) = Strip(q)
    BY <1>1, StripIs
  <1> QED BY <1>2, <1>5, <1>6, <1>8, <1>9

\* What is left of a path begins with what is left of its beginnings.
LEMMA StripGrows ==
  ASSUME NEW A, NEW path \in Seq(A), NEW n \in 0..Len(path), NEW m \in 0..n
  PROVE  StripTo(path, m) \in Seq(A) /\ StripTo(path, n) \in Seq(A)
         /\ Begins(StripTo(path, n), StripTo(path, m))
  <1>1. PICK N \in Nat : N = Len(path)
    OBVIOUS
  <1>2. PrimSteps(path, A)
    BY StripSteps
  <1>3. \A i \in 0..N : StripTo(path, i) \in Seq(A)
    BY <1>1, <1>2 DEF PrimSteps
  <1> DEFINE S == {i \in 0..N : m <= i => Begins(StripTo(path, i), StripTo(path, m))}
  <1>4. ASSUME NEW s \in Seq(A) PROVE Begins(s, s)
    BY DEF Begins
  <1>5. 0 \in S
    BY <1>3, <1>4
  <1>6. ASSUME NEW i \in 1..N, i - 1 \in S PROVE i \in S
    <2> SUFFICES ASSUME m <= i PROVE Begins(StripTo(path, i), StripTo(path, m))
      OBVIOUS
    <2>1. CASE m = i
      BY <1>3, <1>4, <2>1
    <2>2. CASE m # i
      <3>1. Begins(StripTo(path, i - 1), StripTo(path, m))
        BY <1>6, <2>2
      <3>2. PICK a \in Seq(A), b \in Seq(A), c \in Seq(A) :
              a = StripTo(path, i) /\ b = StripTo(path, i - 1) /\ c = StripTo(path, m)
        BY <1>1, <1>3
      <3>3. a = b \/ a = Append(b, path[i])
        BY <1>1, <1>2, <3>2 DEF PrimSteps
      <3>4. path[i] \in A
        BY <1>1
      <3>5. Begins(a, b)
        <4>1. CASE a = b
          BY <1>4, <4>1
        <4>2. CASE a = Append(b, path[i])
          BY <3>4, <4>2, AppendProperties DEF Begins
        <4> QED BY <3>3, <4>1, <4>2
      <3>6. Begins(a, c)
        BY <3>1, <3>2, <3>5, BeginsTwice
      <3> QED BY <3>2, <3>6
    <2> QED BY <2>1, <2>2
  <1> HIDE DEF S
  <1>7. 0..N \subseteq S
    BY <1>5, <1>6, RangeInduction
  <1>8. n \in 0..N /\ m \in 0..N /\ m <= n
    BY <1>1
  <1>9. n \in S
    BY <1>7, <1>8
  <1>10. Begins(StripTo(path, n), StripTo(path, m))
    BY <1>8, <1>9 DEF S
  <1> QED BY <1>3, <1>8, <1>10

LEMMA StripBegins ==
  ASSUME NEW A, NEW s \in Seq(A), NEW t \in Seq(A), Begins(s, t)
  PROVE  Begins(Strip(s), Strip(t))
  <1>1. PICK l \in Nat, m \in Nat : l = Len(s) /\ m = Len(t)
    OBVIOUS
  <1>2. StripTo(s, m) = StripTo(t, m) /\ m \in 0..l
    BY <1>1, FirstSame
  <1>3. Begins(StripTo(s, l), StripTo(s, m))
    <2>1. l \in 0..Len(s) /\ m \in 0..l
      BY <1>1, <1>2
    <2> QED BY <2>1, StripGrows
  <1> QED BY <1>1, <1>2, <1>3, StripIs

\* A path selects a variant on a prim.
SelectsOn(path, prim, node) ==
  \E n \in 1..Len(path) : IsVariant(path[n]) /\ path[n] = node /\ StripTo(path, n) = prim

\* Path p makes no selection that path does not.
NoMore(p, path) == \A prim, node : SelectsOn(p, prim, node) => SelectsOn(path, prim, node)

\* Between two variants there is a prim.
Spaced(path) ==
  \A n \in 1..Len(path) : IsVariant(path[n]) /\ n + 1 <= Len(path) => IsPrim(path[n + 1])

LEMMA LastOf ==
  ASSUME NEW N \in Nat, NEW T \in SUBSET (1..N), T # {}
  PROVE  Max(T) \in T /\ \A n \in T : n <= Max(T)
  <1> DEFINE U == {N - n : n \in T}
  <1>1. U \in SUBSET Nat /\ U # {}
    <2>1. \A n \in T : N - n \in Nat
      OBVIOUS
    <2> QED BY <2>1
  <1> HIDE DEF U
  <1>2. PICK x \in U : \A y \in U : x <= y
    BY <1>1, LeastNat
  <1>3. PICK n \in T : x = N - n
    BY <1>2 DEF U
  <1>4. \A m \in T : N - m \in U
    BY DEF U
  <1>5. ASSUME NEW m \in T PROVE n >= m
    <2>1. N - n <= N - m
      BY <1>2, <1>3, <1>4
    <2> QED BY <2>1
  <1>6. \A m \in T : m \in Nat
    OBVIOUS
  <1>7. Max(T) \in T /\ \A m \in T : Max(T) >= m
    BY <1>5 DEF Max
  <1> QED BY <1>6, <1>7

\* Append makes the selections of the path and, if its node is a variant, that.
LEMMA SelectsAppend ==
  ASSUME NEW A, NEW q \in Seq(A), NEW x \in A, NEW prim, NEW node
  PROVE  SelectsOn(Append(q, x), prim, node) <=>
           SelectsOn(q, prim, node) \/ (IsVariant(x) /\ node = x /\ prim = Strip(q))
  <1>1. PICK N \in Nat : N = Len(q)
    OBVIOUS
  <1>2. PICK r \in Seq(A) : r = Append(q, x)
    BY AppendProperties
  <1>3. Len(r) = N + 1 /\ r[N + 1] = x /\ \A k \in 1..N : r[k] = q[k]
    BY <1>1, <1>2, AppendProperties
  <1>4. Begins(r, q)
    BY <1>1, <1>3 DEF Begins
  <1>5. \A n \in 1..N : StripTo(r, n) = StripTo(q, n) /\ r[n] = q[n]
    <2>1. \A n \in 1..N : n \in 0..Len(q)
      BY <1>1
    <2> QED BY <1>3, <1>4, <2>1, FirstSame
  <1>6. StripTo(r, N + 1) = IF IsVariant(x) THEN Strip(q) ELSE Append(Strip(q), x)
    <2>1. StripTo(r, N + 1) = Strip(r)
      BY <1>3, StripIs
    <2> QED BY <1>2, <2>1, StripAppend
  <1>7. \A n \in 1..(N + 1) : n \in 1..N \/ n = N + 1
    OBVIOUS
  <1>8. ASSUME SelectsOn(r, prim, node)
        PROVE  SelectsOn(q, prim, node) \/ (IsVariant(x) /\ node = x /\ prim = Strip(q))
    <2>1. PICK n \in 1..(N + 1) : IsVariant(r[n]) /\ r[n] = node /\ StripTo(r, n) = prim
      BY <1>3, <1>8 DEF SelectsOn
    <2>2. CASE n \in 1..N
      BY <1>1, <1>5, <2>1, <2>2 DEF SelectsOn
    <2>3. CASE n = N + 1
      BY <1>3, <1>6, <2>1, <2>3
    <2> QED BY <1>7, <2>1, <2>2, <2>3
  <1>9. ASSUME SelectsOn(q, prim, node) PROVE SelectsOn(r, prim, node)
    <2>1. PICK n \in 1..N : IsVariant(q[n]) /\ q[n] = node /\ StripTo(q, n) = prim
      BY <1>1, <1>9 DEF SelectsOn
    <2>2. n \in 1..Len(r)
      BY <1>3
    <2> QED BY <1>5, <2>1, <2>2 DEF SelectsOn
  <1>10. ASSUME IsVariant(x), node = x, prim = Strip(q) PROVE SelectsOn(r, prim, node)
    <2>1. N + 1 \in 1..Len(r)
      BY <1>3
    <2> QED BY <1>3, <1>6, <1>10, <2>1 DEF SelectsOn
  <1> QED BY <1>2, <1>8, <1>9, <1>10

\* One of the first n nodes of a path selects a variant on a prim and is not dropped.
KeptAt(path, S, n, prim, node) ==
  \E m \in 1..n : m \notin S /\ IsVariant(path[m]) /\ path[m] = node /\ StripTo(path, m) = prim

ElisionSteps(path, S) ==
  \A n \in 0..Len(path) :
    /\ Strip(PartTo(path, S, n)) = StripTo(path, n)
    /\ \A prim, node : SelectsOn(PartTo(path, S, n), prim, node) <=> KeptAt(path, S, n, prim, node)

\* A path without some of its variants is about the same prim and selects the others.
LEMMA Elided ==
  ASSUME NEW A, NEW path \in Seq(A), NEW S \in SUBSET VariantPlaces(path)
  PROVE  ElisionSteps(path, S)
  <1>1. PICK N \in Nat : N = Len(path)
    OBVIOUS
  <1>2. PrimSteps(path, A) /\ DropSteps(path, S, A)
    BY StripSteps, WithoutSteps
  <1> DEFINE Same(n) == \A prim, node :
               SelectsOn(PartTo(path, S, n), prim, node) <=> KeptAt(path, S, n, prim, node)
             T == {n \in 0..N : Strip(PartTo(path, S, n)) = StripTo(path, n) /\ Same(n)}
  <1>3. /\ \A n \in 0..N : PartTo(path, S, n) \in Seq(A)
        /\ PartTo(path, S, 0) = << >> /\ StripTo(path, 0) = << >>
    BY <1>1, <1>2 DEF PrimSteps, DropSteps
  <1>4. 0 \in T
    <2>1. << >> \in Seq(A) /\ Len(<< >>) = 0
      OBVIOUS
    <2>2. Strip(<< >>) = StripTo(<< >>, 0)
      BY <2>1, StripIs
    <2>3. PrimSteps(<< >>, A)
      BY <2>1, StripSteps
    <2>4. Strip(<< >>) = << >>
      BY <2>2, <2>3 DEF PrimSteps
    <2>5. Same(0)
      BY <1>3 DEF SelectsOn, KeptAt
    <2> QED BY <1>3, <2>4, <2>5
  <1>5. ASSUME NEW n \in 1..N, n - 1 \in T PROVE n \in T
    <2>1. PICK p \in Seq(A), q \in Seq(A) : p = PartTo(path, S, n) /\ q = PartTo(path, S, n - 1)
      BY <1>3
    <2>2. Strip(q) = StripTo(path, n - 1)
          /\ \A prim, node : SelectsOn(q, prim, node) <=> KeptAt(path, S, n - 1, prim, node)
      BY <1>5, <2>1
    <2>3. p = IF n \in S THEN q ELSE Append(q, path[n])
      BY <1>1, <1>2, <2>1 DEF DropSteps
    <2>4. StripTo(path, n) = IF IsVariant(path[n]) THEN StripTo(path, n - 1)
                             ELSE Append(StripTo(path, n - 1), path[n])
      BY <1>1, <1>2 DEF PrimSteps
    <2>5. path[n] \in A /\ n \in 0..N
      BY <1>1
    <2>6. \A prim, node : KeptAt(path, S, n, prim, node) <=>
            \/ KeptAt(path, S, n - 1, prim, node)
            \/ n \notin S /\ IsVariant(path[n]) /\ path[n] = node /\ StripTo(path, n) = prim
      <3>1. \A m : m \in 1..n <=> m \in 1..(n - 1) \/ m = n
        OBVIOUS
      <3> QED BY <3>1 DEF KeptAt
    <2>7. CASE n \in S
      <3>1. IsVariant(path[n])
        BY <2>7 DEF VariantPlaces
      <3>2. p = q /\ StripTo(path, n) = StripTo(path, n - 1)
        BY <2>3, <2>4, <2>7, <3>1
      <3>3. \A prim, node : SelectsOn(p, prim, node) <=> KeptAt(path, S, n, prim, node)
        BY <2>2, <2>6, <2>7, <3>2
      <3> QED BY <2>1, <2>2, <2>5, <3>2, <3>3
    <2>8. CASE n \notin S
      <3>1. p = Append(q, path[n])
        BY <2>3, <2>8
      <3>2. Strip(p) = IF IsVariant(path[n]) THEN Strip(q) ELSE Append(Strip(q), path[n])
        BY <2>5, <3>1, StripAppend
      <3>3. \A prim, node : SelectsOn(p, prim, node) <=>
              SelectsOn(q, prim, node) \/ (IsVariant(path[n]) /\ node = path[n] /\ prim = Strip(q))
        BY <2>5, <3>1, SelectsAppend
      <3>4. \A prim, node : SelectsOn(p, prim, node) <=> KeptAt(path, S, n, prim, node)
        BY <2>2, <2>4, <2>6, <2>8, <3>3
      <3>5. Strip(p) = StripTo(path, n)
        BY <2>2, <2>4, <3>2
      <3> QED BY <2>1, <2>5, <3>4, <3>5
    <2> QED BY <2>7, <2>8
  <1> HIDE DEF T
  <1>6. 0..N \subseteq T
    BY <1>4, <1>5, RangeInduction
  <1> QED BY <1>1, <1>6 DEF T, ElisionSteps

LEMMA ElisionOf ==
  ASSUME NEW A, NEW path \in Seq(A), NEW S \in SUBSET VariantPlaces(path)
  PROVE  /\ Without(path, S) \in Seq(A)
         /\ Strip(Without(path, S)) = Strip(path)
         /\ \A prim, node : SelectsOn(Without(path, S), prim, node) <=>
                              KeptAt(path, S, Len(path), prim, node)
         /\ NoMore(Without(path, S), path)
  <1>1. Len(path) \in 0..Len(path)
    OBVIOUS
  <1>2. Without(path, S) = PartTo(path, S, Len(path)) /\ Without(path, S) \in Seq(A)
    BY <1>1, WithoutSteps DEF DropSteps
  <1>3. ElisionSteps(path, S) /\ Strip(path) = StripTo(path, Len(path))
    BY Elided, StripIs
  <1>4. Strip(Without(path, S)) = Strip(path)
        /\ \A prim, node : SelectsOn(Without(path, S), prim, node) <=>
                             KeptAt(path, S, Len(path), prim, node)
    BY <1>1, <1>2, <1>3 DEF ElisionSteps
  <1>5. NoMore(Without(path, S), path)
    BY <1>4 DEF NoMore, KeptAt, SelectsOn
  <1> QED BY <1>2, <1>4, <1>5

\* A path with a prim between any two variants selects at most one on a prim.
LEMMA OneEach ==
  ASSUME NEW A, NEW path \in Seq(A), Spaced(path),
         NEW prim, NEW a, NEW b, SelectsOn(path, prim, a), SelectsOn(path, prim, b)
  PROVE  a = b
  <1>1. PICK N \in Nat : N = Len(path)
    OBVIOUS
  <1>2. ASSUME NEW m \in 1..N, NEW n \in 1..N, m < n, IsVariant(path[m])
        PROVE  StripTo(path, m) # StripTo(path, n)
    <2>1. IsPrim(path[m + 1])
      BY <1>1, <1>2 DEF Spaced
    <2>2. ~IsVariant(path[m + 1])
      BY <2>1 DEF IsPrim, IsVariant
    <2>3. PrimSteps(path, A)
      BY StripSteps
    <2>4. m + 1 \in 1..N /\ (m + 1) - 1 = m
      BY <1>2
    <2>5. StripTo(path, m + 1) = Append(StripTo(path, m), path[m + 1])
      BY <1>1, <2>2, <2>3, <2>4 DEF PrimSteps
    <2>6. PICK s \in Seq(A), t \in Seq(A) : s = StripTo(path, m) /\ t = StripTo(path, n)
      BY <1>1, <2>3 DEF PrimSteps
    <2>7. n \in 0..Len(path) /\ m + 1 \in 0..n
      BY <1>1, <1>2
    <2>8. Begins(t, StripTo(path, m + 1))
      BY <2>6, <2>7, StripGrows
    <2>9. path[m + 1] \in A
      BY <1>1, <2>4
    <2>10. Len(Append(s, path[m + 1])) = Len(s) + 1
      BY <2>9, AppendProperties
    <2>11. Len(s) + 1 <= Len(t) /\ Len(s) \in Nat
      BY <2>5, <2>6, <2>8, <2>10 DEF Begins
    <2> QED BY <2>6, <2>11
  <1>3. PICK m \in 1..N : IsVariant(path[m]) /\ path[m] = a /\ StripTo(path, m) = prim
    BY <1>1 DEF SelectsOn
  <1>4. PICK n \in 1..N : IsVariant(path[n]) /\ path[n] = b /\ StripTo(path, n) = prim
    BY <1>1 DEF SelectsOn
  <1>5. ~(m < n) /\ ~(n < m)
    BY <1>2, <1>3, <1>4
  <1>6. m = n
    BY <1>5
  <1> QED BY <1>3, <1>4, <1>6

\* VariantOn is a selection that the path makes.
LEMMA VariantSelects ==
  ASSUME NEW A, NEW path \in Seq(A), NEW prim \in VariantPrims(path)
  PROVE  SelectsOn(path, prim, VariantOn(path, prim))
  <1> DEFINE at == {n \in DOMAIN path : IsVariant(path[n]) /\ Strip(SubSeq(path, 1, n)) = prim}
  <1>1. PICK N \in Nat : N = Len(path) /\ DOMAIN path = 1..N
    OBVIOUS
  <1>2. PICK p \in PrefixesOf(path) : IsVariant(Last(p)) /\ prim = Strip(p)
    BY DEF VariantPrims
  <1>3. PICK n \in 1..N : p = SubSeq(path, 1, n)
    BY <1>1, <1>2 DEF PrefixesOf
  <1>4. Last(p) = path[n]
    <2>1. n \in 0..Len(path)
      BY <1>1
    <2>2. Len(p) = n /\ \A k \in 1..n : p[k] = path[k]
      BY <1>3, <2>1, FirstNodes
    <2> QED BY <2>2 DEF Last
  <1>5. at \in SUBSET (1..N) /\ n \in at
    BY <1>1, <1>2, <1>3, <1>4
  <1>6. VariantOn(path, prim) = IF at = {} THEN NoNode ELSE path[Max(at)]
    BY DEF VariantOn
  <1>7. Max(at) \in at => /\ Max(at) \in 1..N /\ IsVariant(path[Max(at)])
                          /\ StripTo(path, Max(at)) = prim
    BY <1>1 DEF StripTo
  <1> HIDE DEF at
  <1>8. Max(at) \in at
    <2>1. at # {}
      BY <1>5
    <2> QED BY <1>5, <2>1, LastOf
  <1>9. VariantOn(path, prim) = path[Max(at)]
    BY <1>5, <1>6
  <1> QED BY <1>1, <1>7, <1>8, <1>9 DEF SelectsOn

\* A prim that carries a variant in a path is not below the path's.
LEMMA VariantWithin ==
  ASSUME NEW A, NEW path \in Seq(A), NEW prim, NEW node, SelectsOn(path, prim, node)
  PROVE  prim \in Seq(A) /\ Begins(Strip(path), prim)
  <1>1. PICK n \in 1..Len(path) : StripTo(path, n) = prim
    BY DEF SelectsOn
  <1>2. PICK N \in Nat : N = Len(path)
    OBVIOUS
  <1>3. N \in 0..Len(path) /\ n \in 0..N
    BY <1>2
  <1>4. StripTo(path, n) \in Seq(A) /\ Begins(StripTo(path, N), StripTo(path, n))
    BY <1>3, StripGrows
  <1> QED BY <1>1, <1>2, <1>4, StripIs

\* A selection of a path that goes on with a prim after p was made in p, if its prim is
\* not below that of p.
LEMMA MadeBefore ==
  ASSUME NEW A, NEW sel \in Seq(A), NEW p \in Seq(A), Begins(sel, p), Len(p) < Len(sel),
         IsPrim(sel[Len(p) + 1]), NEW prim, NEW node, SelectsOn(sel, prim, node), Begins(Strip(p), prim)
  PROVE  SelectsOn(p, prim, node)
  <1>1. PICK L \in Nat, N \in Nat : L = Len(sel) /\ N = Len(p)
    OBVIOUS
  <1>2. PICK n \in 1..L : IsVariant(sel[n]) /\ sel[n] = node /\ StripTo(sel, n) = prim
    BY <1>1 DEF SelectsOn
  <1>3. CASE n <= N
    <2>1. n \in 0..Len(p)
      BY <1>1, <1>3
    <2>2. StripTo(sel, n) = StripTo(p, n)
      BY <2>1, FirstSame
    <2>3. sel[n] = p[n] /\ n \in 1..Len(p)
      BY <1>1, <1>3 DEF Begins
    <2> QED BY <1>2, <2>2, <2>3 DEF SelectsOn
  <1>4. CASE n > N
    <2>1. PrimSteps(sel, A)
      BY StripSteps
    <2>2. N + 1 \in 1..L /\ (N + 1) - 1 = N /\ sel[N + 1] \in A /\ ~IsVariant(sel[N + 1])
      <3>1. N < L
        BY <1>1
      <3>2. IsPrim(sel[N + 1])
        BY <1>1
      <3>3. ~IsVariant(sel[N + 1])
        BY <3>2 DEF IsPrim, IsVariant
      <3>4. N + 1 \in 1..L
        BY <3>1
      <3> QED BY <1>1, <3>3, <3>4
    <2>3. StripTo(sel, N + 1) = Append(StripTo(sel, N), sel[N + 1])
      BY <1>1, <2>1, <2>2 DEF PrimSteps
    <2>4. N \in 0..Len(p)
      BY <1>1
    <2>5. StripTo(sel, N) = Strip(p) /\ Strip(p) \in Seq(A)
      BY <1>1, <2>4, FirstSame, StripIs
    <2>6. n \in 0..Len(sel) /\ N + 1 \in 0..n
      BY <1>1, <1>4
    <2>7. Begins(StripTo(sel, n), StripTo(sel, N + 1)) /\ StripTo(sel, n) \in Seq(A)
      BY <2>6, StripGrows
    <2>8. PICK s \in Seq(A), t \in Seq(A) : s = Strip(p) /\ t = StripTo(sel, n)
      BY <2>5, <2>7
    <2>9. Len(Append(s, sel[N + 1])) = Len(s) + 1
      BY <2>2, AppendProperties
    <2>10. Len(s) + 1 <= Len(t)
      BY <2>3, <2>5, <2>7, <2>8, <2>9 DEF Begins
    <2>11. Len(t) <= Len(s)
      BY <1>2, <2>8 DEF Begins
    <2>12. Len(s) \in Nat /\ Len(t) \in Nat
      OBVIOUS
    <2> QED BY <2>10, <2>11, <2>12
  <1> QED BY <1>2, <1>3, <1>4

\* A path at or above one that names the job's prim in fewer words, or that goes on
\* below it with a prim, does not conflict with the job's.
LEMMA NoConflict ==
  ASSUME NEW A, NEW path \in Seq(A), Spaced(path), NEW p \in Seq(A), NEW sel \in Seq(A),
         Strip(p) = Strip(path), NoMore(p, path),
         Begins(p, sel) \/ (Begins(sel, p) /\ Len(p) < Len(sel) /\ IsPrim(sel[Len(p) + 1]))
  PROVE  Related(Strip(sel), Strip(path)) /\ ~Conflicts(sel, path)
  <1>1. Strip(sel) \in Seq(A) /\ Strip(path) \in Seq(A) /\ Strip(p) \in Seq(A)
    BY StripIs
  <1>2. Related(Strip(sel), Strip(path))
    <2>1. Begins(Strip(p), Strip(sel)) \/ Begins(Strip(sel), Strip(p))
      BY StripBegins
    <2> QED BY <1>1, <2>1, PrefixIs DEF Related
  <1>3. ASSUME NEW prim \in VariantPrims(sel), prim \in VariantPrims(path)
        PROVE  VariantOn(sel, prim) = VariantOn(path, prim)
    <2>1. PICK a, b : a = VariantOn(sel, prim) /\ b = VariantOn(path, prim)
      OBVIOUS
    <2>2. SelectsOn(sel, prim, a)
      BY <2>1, VariantSelects
    <2>3. SelectsOn(path, prim, b)
      BY <1>3, <2>1, VariantSelects
    <2>4. SelectsOn(p, prim, a)
      <3>1. CASE Begins(p, sel)
        <4>1. PICK n \in 1..Len(sel) : IsVariant(sel[n]) /\ sel[n] = a /\ StripTo(sel, n) = prim
          BY <2>2 DEF SelectsOn
        <4>2. PICK L \in Nat, N \in Nat : L = Len(sel) /\ N = Len(p)
          OBVIOUS
        <4>3. n \in 0..Len(sel)
          BY <4>2
        <4>4. StripTo(p, n) = StripTo(sel, n)
          BY <3>1, <4>3, FirstSame
        <4>5. p[n] = sel[n] /\ n \in 1..Len(p)
          BY <3>1, <4>2 DEF Begins
        <4> QED BY <4>1, <4>4, <4>5 DEF SelectsOn
      <3>2. CASE Begins(sel, p) /\ Len(p) < Len(sel) /\ IsPrim(sel[Len(p) + 1])
        <4>1. Begins(Strip(p), prim)
          BY <2>3, VariantWithin
        <4> QED BY <2>2, <3>2, <4>1, MadeBefore
      <3> QED BY <3>1, <3>2
    <2>5. SelectsOn(path, prim, a)
      BY <2>4 DEF NoMore
    <2> QED BY <2>1, <2>3, <2>5, OneEach
  <1> QED BY <1>2, <1>3 DEF Conflicts

LEMMA PairSeq ==
  ASSUME NEW A, NEW v \in A \X A
  PROVE  v \in Seq(A) /\ Len(v) = 2
  <1>1. v = <<v[1], v[2]>> /\ v[1] \in A /\ v[2] \in A
    OBVIOUS
  <1>2. PICK a \in A, b \in A : v = <<a, b>>
    BY <1>1
  <1>3. <<a, b>> \in Seq(A) /\ Len(<<a, b>>) = 2
    OBVIOUS
  <1> QED BY <1>2, <1>3

\* A variant is a node, and a name alone is a prim.
LEMMA VariantNode ==
  ASSUME NEW v \in Name \X Name
  PROVE  v \in Node /\ IsVariant(v) /\ ~IsPrim(v)
  BY PairSeq DEF Node, IsVariant, IsPrim

LEMMA SingleSeq ==
  ASSUME NEW A, NEW a \in A
  PROVE  <<a>> \in Seq(A) /\ Len(<<a>>) = 1
  OBVIOUS

LEMMA PrimNode ==
  ASSUME NEW a \in Name
  PROVE  <<a>> \in Node /\ IsPrim(<<a>>) /\ ~IsVariant(<<a>>)
  BY SingleSeq DEF Node, IsVariant, IsPrim

LEMMA ContainerNodes ==
  /\ ContainerPrimPath \in Seq(Node)
  /\ \A i \in 1..Len(ContainerPrimPath) : IsPrim(ContainerPrimPath[i])
  <1>1. ContainerPrimPath \in Seq(Node) /\ \A i \in DOMAIN ContainerPrimPath : IsPrim(ContainerPrimPath[i])
    BY RemeshAssumption DEF Path
  <1> QED BY <1>1

\* The nodes of a job's path, above and below the container.
IsJobPath(j) ==
  LET c == Len(ContainerPrimPath) IN
    /\ j \in Path /\ Begins(j, ContainerPrimPath)
    /\ j[c + 1] = <<"Prototypes">>
    /\ Len(j) \in {c + 2, c + 3}
    /\ IsPrim(j[c + 2])
    /\ \E p \in Prototype :
         /\ j[c + 2] = <<p>>
         /\ \/ ProtoVariants[p] = {} /\ Len(j) = c + 2
            \/ Len(j) = c + 3 /\ j[c + 3] \in ProtoVariants[p]

LEMMA JobNodes ==
  ASSUME NEW j \in JobPaths
  PROVE  IsJobPath(j)
  <1> DEFINE c == Len(ContainerPrimPath)
             protos == Append(ContainerPrimPath, <<"Prototypes">>)
  <1>1. PICK p \in Prototype : j \in IF ProtoVariants[p] = {} THEN {ProtoPath(p)}
                                     ELSE {Append(ProtoPath(p), v) : v \in ProtoVariants[p]}
    BY DEF JobPaths
  <1>2. PICK N \in Nat : N = c
    BY ContainerNodes
  <1>3. ContainerPrimPath \in Seq(Node) /\ p \in Name /\ "Prototypes" \in Name
    BY ContainerNodes, RemeshAssumption
  <1>4. /\ <<p>> \in Node /\ IsPrim(<<p>>) /\ <<"Prototypes">> \in Node
    BY <1>3, PrimNode
  <1>5. /\ protos \in Seq(Node) /\ Len(protos) = N + 1
        /\ \A k \in 1..N : protos[k] = ContainerPrimPath[k]
        /\ protos[N + 1] = <<"Prototypes">>
    BY <1>2, <1>3, <1>4, AppendProperties
  <1>6. PICK prim \in Seq(Node) : prim = Append(protos, <<p>>)
    BY <1>4, <1>5, AppendProperties
  <1>7. /\ Len(prim) = N + 2 /\ prim[N + 2] = <<p>> /\ prim[N + 1] = <<"Prototypes">>
        /\ \A k \in 1..N : prim[k] = ContainerPrimPath[k]
    BY <1>4, <1>5, <1>6, AppendProperties
  <1>8. ProtoPath(p) = prim
    BY <1>6 DEF ProtoPath, PrototypesPath
  <1>9. CASE ProtoVariants[p] = {}
    <2>1. j = prim
      BY <1>1, <1>8, <1>9
    <2> QED BY <1>2, <1>4, <1>7, <1>9, <2>1 DEF IsJobPath, Begins, Path
  <1>10. CASE ProtoVariants[p] # {}
    <2>0. PICK w \in ProtoVariants[p] : j = Append(prim, w)
      BY <1>1, <1>8, <1>10
    <2>1. PICK v \in Name \X Name : j = Append(prim, v) /\ v \in ProtoVariants[p]
      BY <2>0, RemeshAssumption
    <2>2. v \in Node
      BY VariantNode
    <2>3. /\ j \in Seq(Node) /\ Len(j) = (N + 2) + 1 /\ \A k \in 1..(N + 2) : j[k] = prim[k]
          /\ j[(N + 2) + 1] = v
      BY <1>7, <2>1, <2>2, AppendProperties
    <2>4. /\ Len(j) = N + 3 /\ j[N + 1] = prim[N + 1] /\ j[N + 2] = prim[N + 2]
          /\ j[N + 3] = v /\ \A k \in 1..N : j[k] = prim[k]
      BY <2>3
    <2> QED BY <1>2, <1>4, <1>7, <2>1, <2>3, <2>4 DEF IsJobPath, Begins, Path
  <1> QED BY <1>9, <1>10

\* A job's path under a container variant.
FullPath(v, j) == ReplacePrefix(j, ContainerPrimPath, ContainerUnder(v))

\* The container under a variant, and how far the variant moves what is below it.
LEMMA UnderVariant ==
  ASSUME NEW v \in Variant
  PROVE  /\ ContainerUnder(v) \in Path /\ Begins(ContainerUnder(v), ContainerPrimPath)
         /\ \/ v = NoVariant /\ ContainerUnder(v) = ContainerPrimPath
            \/ /\ v \in ContainerVariants /\ IsVariant(v)
               /\ Len(ContainerUnder(v)) = Len(ContainerPrimPath) + 1
               /\ ContainerUnder(v)[Len(ContainerPrimPath) + 1] = v
  <1>1. ContainerPrimPath \in Seq(Node)
    BY ContainerNodes
  <1>2. CASE v = NoVariant
    BY <1>1, <1>2 DEF ContainerUnder, Begins, Path
  <1>3. CASE v # NoVariant
    <2>1. v \in ContainerVariants /\ v \in Name \X Name
      BY <1>3, RemeshAssumption DEF Variant
    <2>2. v \in Node /\ IsVariant(v)
      BY <2>1, VariantNode
    <2>3. ContainerUnder(v) = Append(ContainerPrimPath, v)
      BY <1>3 DEF ContainerUnder
    <2>4. PICK N \in Nat : N = Len(ContainerPrimPath)
      BY <1>1
    <2> QED BY <1>1, <2>1, <2>2, <2>3, <2>4, AppendProperties DEF Begins, Path
  <1> QED BY <1>2, <1>3

LEMMA FullNodes ==
  ASSUME NEW v \in Variant, NEW j \in JobPaths
  PROVE  LET u == Len(ContainerUnder(v)) IN
           /\ FullPath(v, j) \in Path /\ Begins(FullPath(v, j), ContainerUnder(v))
           /\ FullPath(v, j)[u + 1] = <<"Prototypes">>
           /\ Len(FullPath(v, j)) \in {u + 2, u + 3}
           /\ IsPrim(FullPath(v, j)[u + 2])
           /\ Len(FullPath(v, j)) = u + (Len(j) - Len(ContainerPrimPath))
           /\ \A k \in 1..(Len(j) - Len(ContainerPrimPath)) :
                FullPath(v, j)[u + k] = j[Len(ContainerPrimPath) + k]
  <1>1. IsJobPath(j)
    BY JobNodes
  <1>2. /\ ContainerPrimPath \in Seq(Node) /\ j \in Seq(Node)
        /\ ContainerUnder(v) \in Seq(Node)
    BY <1>1, UnderVariant, ContainerNodes DEF IsJobPath, Path
  <1>3. PICK c \in Nat, u \in Nat, l \in Nat :
          c = Len(ContainerPrimPath) /\ u = Len(ContainerUnder(v)) /\ l = Len(j)
    BY <1>2
  <1>4. HasPrefix(j, ContainerPrimPath)
    BY <1>1, <1>2, PrefixIs DEF IsJobPath
  <1> DEFINE rest == SubSeq(j, c + 1, l)
             under == ContainerUnder(v)
  <1>5. FullPath(v, j) = under \o rest
    BY <1>3, <1>4 DEF FullPath, ReplacePrefix
  <1>6. l \in {c + 2, c + 3}
    BY <1>1, <1>3 DEF IsJobPath
  <1>7. /\ rest \in Seq(Node) /\ Len(rest) = l - c
        /\ \A k \in 1..(l - c) : rest[k] = j[c + k]
    <2>1. \A k \in (c + 1)..l : j[k] \in Node
      BY <1>2, <1>3
    <2>2. \A k \in 1..(l - c) : (c + 1) + k - 1 = c + k
      OBVIOUS
    <2>3. l - (c + 1) + 1 = l - c /\ c + 1 <= l /\ c + 1 \in Int /\ l \in Int
      BY <1>6
    <2> QED BY <2>1, <2>2, <2>3, SubSeqProperties
  <1>8. rest[1] = <<"Prototypes">> /\ IsPrim(rest[2])
    <2>1. rest[1] = j[c + 1] /\ rest[2] = j[c + 2]
      BY <1>6, <1>7
    <2> QED BY <1>1, <1>3, <2>1 DEF IsJobPath
  <1> HIDE DEF rest, under
  <1>9. under \in Seq(Node) /\ Len(under) = u
    BY <1>2, <1>3 DEF under
  <1>10. PICK path \in Seq(Node) : path = under \o rest
    BY <1>7, <1>9, ConcatProperties
  <1>11. /\ Len(path) = u + (l - c)
         /\ \A k \in 1..u : path[k] = under[k]
         /\ \A k \in 1..(l - c) : path[u + k] = rest[k]
    <2>1. /\ Len(path) = u + (l - c)
          /\ \A k \in 1..(u + (l - c)) : path[k] = IF k <= u THEN under[k] ELSE rest[k - u]
      <3>1. /\ Len(under \o rest) = Len(under) + Len(rest)
            /\ \A k \in 1..(Len(under) + Len(rest)) :
                 (under \o rest)[k] = IF k <= Len(under) THEN under[k] ELSE rest[k - Len(under)]
        BY <1>7, <1>9, ConcatProperties
      <3>2. Len(under) = u /\ Len(rest) = l - c
        BY <1>7, <1>9
      <3> QED BY <1>10, <3>1, <3>2
    <2>2. l - c \in Nat
      BY <1>6
    <2>3. \A k \in 1..(l - c) : u + k \in 1..(u + (l - c)) /\ ~(u + k <= u) /\ (u + k) - u = k
      BY <2>2
    <2>4. \A k \in 1..u : k \in 1..(u + (l - c)) /\ k <= u
      BY <2>2
    <2> QED BY <2>1, <2>3, <2>4
  <1>12. path[u + 1] = rest[1] /\ path[u + 2] = rest[2] /\ Len(path) \in {u + 2, u + 3}
    BY <1>6, <1>11
  <1>13. Begins(path, under)
    BY <1>9, <1>11, <1>12 DEF Begins
  <1>14. \A k \in 1..(l - c) : path[u + k] = j[c + k]
    BY <1>7, <1>11
  <1> QED BY <1>3, <1>5, <1>8, <1>9, <1>10, <1>11, <1>12, <1>13, <1>14 DEF under, Path

LEMMA FullSpaced ==
  ASSUME NEW v \in Variant, NEW j \in JobPaths
  PROVE  Spaced(FullPath(v, j))
  <1>1. PICK c \in Nat, u \in Nat : c = Len(ContainerPrimPath) /\ u = Len(ContainerUnder(v))
    BY UnderVariant, ContainerNodes DEF Path
  <1>2. PICK path \in Path : path = FullPath(v, j)
    BY FullNodes
  <1>3. /\ Begins(path, ContainerUnder(v)) /\ path[u + 1] = <<"Prototypes">>
        /\ Len(path) \in {u + 2, u + 3} /\ IsPrim(path[u + 2])
    BY <1>1, <1>2, FullNodes
  <1>4. u \in {c, c + 1}
    BY <1>1, UnderVariant
  <1>5. IsPrim(path[u + 1])
    <2>1. IsPrim(<<"Prototypes">>)
      BY PrimNode, RemeshAssumption
    <2> QED BY <1>3, <2>1
  <1>6. \A n \in 1..c : IsPrim(path[n])
    <2>1. TAKE n \in 1..c
    <2>2. ContainerUnder(v)[n] = ContainerPrimPath[n]
      BY <1>1, UnderVariant DEF Begins
    <2>3. path[n] = ContainerUnder(v)[n]
      BY <1>1, <1>3, <1>4 DEF Begins
    <2>4. IsPrim(ContainerPrimPath[n])
      BY <1>1, ContainerNodes
    <2> QED BY <2>2, <2>3, <2>4
  <1>7. ASSUME NEW n \in 1..Len(path), IsVariant(path[n]), n + 1 <= Len(path) PROVE IsPrim(path[n + 1])
    <2>1. ~IsPrim(path[n])
      BY <1>7 DEF IsPrim, IsVariant
    <2>2. n \notin 1..c /\ n # u + 1 /\ n # u + 2
      BY <1>3, <1>5, <1>6, <2>1
    <2>3. n \in Nat /\ n > c /\ n < u + 3
      BY <1>3, <1>7, <2>2
    <2>4. n = c + 1 /\ u = c + 1
      BY <1>4, <2>2, <2>3
    <2>5. n + 1 = u + 1
      BY <2>4
    <2> QED BY <1>5, <2>5
  <1> QED BY <1>2, <1>7 DEF Spaced

\* An elision of a job's path is a path about the job's prim.
LEMMA ElisionFacts ==
  ASSUME NEW path \in Path, NEW p \in Elisions(path)
  PROVE  p \in Path /\ Strip(p) = Strip(path) /\ NoMore(p, path)
  <1>1. PICK S \in SUBSET VariantPlaces(path) : p = Without(path, S)
    BY DEF Elisions
  <1>2. path \in Seq(Node)
    BY DEF Path
  <1> QED BY <1>1, <1>2, ElisionOf DEF Path

\* Names, as far as the filter is concerned.
LEMMA NamesMeans ==
  ASSUME NEW v \in Variant, NEW j \in JobPaths, selected \in SUBSET Path, selected # {}, Names(v, j)
  PROVE  \E sel \in selected : \E p \in Elisions(FullPath(v, j)) :
           Begins(p, sel) \/ (Begins(sel, p) /\ Len(p) < Len(sel) /\ IsPrim(sel[Len(p) + 1]))
  <1>1. PICK p \in Elisions(FullPath(v, j)), sel \in selected :
          \/ HasPrefix(p, sel)
          \/ HasPrefix(sel, p) /\ Len(sel) > Len(p) /\ IsPrim(sel[Len(p) + 1])
    BY DEF Names, FullPath
  <1>2. p \in Elisions(FullPath(v, j)) /\ sel \in selected
    OBVIOUS
  <1>3. FullPath(v, j) \in Path
    BY FullNodes
  <1>4. p \in Path /\ sel \in Path
    BY <1>3, ElisionFacts
  <1>5. (HasPrefix(p, sel) <=> Begins(p, sel)) /\ (HasPrefix(sel, p) <=> Begins(sel, p))
    BY <1>4, PrefixIs DEF Path
  <1>6. Len(sel) > Len(p) <=> Len(p) < Len(sel)
    BY <1>4 DEF Path
  <1> QED BY <1>1, <1>2, <1>5, <1>6

\* The filter on jobs lets through what a path names.
LEMMA NamedIsActive ==
  ASSUME NEW v \in Variant, NEW j \in JobPaths, selected \in SUBSET Path, Names(v, j)
  PROVE  PrototypeActive(selected, j, v)
  <1>1. CASE selected = {}
    BY <1>1 DEF PrototypeActive
  <1>2. CASE selected # {}
    <2>1. PICK sel \in selected : \E p \in Elisions(FullPath(v, j)) :
            Begins(p, sel) \/ (Begins(sel, p) /\ Len(p) < Len(sel) /\ IsPrim(sel[Len(p) + 1]))
      BY <1>2, NamesMeans
    <2>2. PICK p \in Elisions(FullPath(v, j)) :
            Begins(p, sel) \/ (Begins(sel, p) /\ Len(p) < Len(sel) /\ IsPrim(sel[Len(p) + 1]))
      BY <2>1
    <2>3. PICK path \in Path : path = FullPath(v, j)
      BY FullNodes
    <2>4. Spaced(path)
      BY <2>3, FullSpaced
    <2>5. p \in Path /\ Strip(p) = Strip(path) /\ NoMore(p, path) /\ sel \in Path
      BY <2>2, <2>3, ElisionFacts
    <2>6. path \in Seq(Node) /\ p \in Seq(Node) /\ sel \in Seq(Node)
      BY <2>5 DEF Path
    <2>7. Related(Strip(sel), Strip(path)) /\ ~Conflicts(sel, path)
      BY <2>2, <2>4, <2>5, <2>6, NoConflict
    <2> QED BY <2>1, <2>3, <2>7 DEF PrototypeActive, FullPath
  <1> QED BY <1>1, <1>2

\* A path of prims only has nothing to strip.
LEMMA NothingDropped ==
  ASSUME NEW A, NEW path \in Seq(A), NEW S, \A n \in 1..Len(path) : n \notin S
  PROVE  Without(path, S) = path
  <1>1. PICK N \in Nat : N = Len(path)
    OBVIOUS
  <1>2. PICK f \in [0..N -> Seq(A)] : Extends(path, S, f) /\ Without(path, S) = f[N]
    BY <1>1, WithoutDef
  <1>3. f[0] = << >> /\ \A n \in 1..N : f[n] = Append(f[n - 1], path[n])
    BY <1>1, <1>2 DEF Extends
  <1> DEFINE T == {n \in 0..N : Len(f[n]) = n /\ Begins(path, f[n])}
  <1>4. 0 \in T
    BY <1>1, <1>3 DEF Begins
  <1>5. ASSUME NEW n \in 1..N, n - 1 \in T PROVE n \in T
    <2>1. PICK s \in Seq(A), t \in Seq(A) : s = f[n - 1] /\ t = f[n]
      OBVIOUS
    <2>2. t = Append(s, path[n]) /\ path[n] \in A
      BY <1>1, <1>3, <2>1
    <2>3. Len(s) = n - 1 /\ \A k \in 1..(n - 1) : path[k] = s[k]
      BY <1>5, <2>1 DEF Begins
    <2>4. Len(t) = n /\ (\A k \in 1..(n - 1) : t[k] = s[k]) /\ t[n] = path[n]
      <3>1. /\ Len(t) = Len(s) + 1 /\ \A k \in 1..Len(s) : t[k] = s[k]
            /\ t[Len(s) + 1] = path[n]
        BY <2>2, AppendProperties
      <3>2. Len(s) + 1 = n
        BY <2>3
      <3> QED BY <2>3, <3>1, <3>2
    <2>5. \A k \in 1..n : path[k] = t[k]
      <3>1. \A k \in 1..n : k \in 1..(n - 1) \/ k = n
        OBVIOUS
      <3> QED BY <2>3, <2>4, <3>1
    <2> QED BY <1>1, <2>1, <2>4, <2>5 DEF Begins
  <1> HIDE DEF T
  <1>6. N \in T
    <2>1. 0..N \subseteq T
      BY <1>4, <1>5, RangeInduction
    <2> QED BY <2>1
  <1>7. Len(f[N]) = N /\ Begins(path, f[N]) /\ f[N] \in Seq(A)
    BY <1>6 DEF T
  <1> QED BY <1>1, <1>2, <1>7, SameSeq

LEMMA StripPrims ==
  ASSUME NEW A, NEW path \in Seq(A), \A n \in 1..Len(path) : IsPrim(path[n])
  PROVE  Strip(path) = path
  <1>1. \A n \in 1..Len(path) : n \notin VariantPlaces(path)
    <2>1. TAKE n \in 1..Len(path)
    <2>2. IsPrim(path[n])
      OBVIOUS
    <2>3. ~IsVariant(path[n])
      BY <2>2 DEF IsPrim, IsVariant
    <2> QED BY <2>3 DEF VariantPlaces
  <1>2. Without(path, VariantPlaces(path)) = path
    BY <1>1, NothingDropped
  <1> QED BY <1>2, StripDrops

\* What is kept up to a node begins what is kept in all.
LEMMA KeptBegins ==
  ASSUME NEW A, NEW path \in Seq(A), NEW S, NEW m \in 0..Len(path)
  PROVE  PartTo(path, S, m) \in Seq(A) /\ Begins(Without(path, S), PartTo(path, S, m))
  <1>1. PICK N \in Nat : N = Len(path)
    OBVIOUS
  <1>2. DropSteps(path, S, A)
    BY WithoutSteps
  <1>3. \A i \in 0..N : PartTo(path, S, i) \in Seq(A)
    BY <1>1, <1>2 DEF DropSteps
  <1> DEFINE T == {i \in 0..N : m <= i => Begins(PartTo(path, S, i), PartTo(path, S, m))}
  <1>4. ASSUME NEW s \in Seq(A) PROVE Begins(s, s)
    BY DEF Begins
  <1>5. 0 \in T
    BY <1>3, <1>4
  <1>6. ASSUME NEW i \in 1..N, i - 1 \in T PROVE i \in T
    <2> SUFFICES ASSUME m <= i PROVE Begins(PartTo(path, S, i), PartTo(path, S, m))
      OBVIOUS
    <2>1. CASE m = i
      BY <1>3, <1>4, <2>1
    <2>2. CASE m # i
      <3>1. Begins(PartTo(path, S, i - 1), PartTo(path, S, m))
        BY <1>6, <2>2
      <3>2. PICK a \in Seq(A), b \in Seq(A), c \in Seq(A) :
              a = PartTo(path, S, i) /\ b = PartTo(path, S, i - 1) /\ c = PartTo(path, S, m)
        BY <1>1, <1>3
      <3>3. a = b \/ a = Append(b, path[i])
        BY <1>1, <1>2, <3>2 DEF DropSteps
      <3>4. path[i] \in A
        BY <1>1
      <3>5. Begins(a, b)
        <4>1. CASE a = b
          BY <1>4, <4>1
        <4>2. CASE a = Append(b, path[i])
          BY <3>4, <4>2, AppendProperties DEF Begins
        <4> QED BY <3>3, <4>1, <4>2
      <3>6. Begins(a, c)
        BY <3>1, <3>2, <3>5, BeginsTwice
      <3> QED BY <3>2, <3>6
    <2> QED BY <2>1, <2>2
  <1> HIDE DEF T
  <1>7. N \in T
    <2>1. 0..N \subseteq T
      BY <1>5, <1>6, RangeInduction
    <2> QED BY <2>1
  <1>8. Begins(PartTo(path, S, N), PartTo(path, S, m))
    BY <1>1, <1>7 DEF T
  <1> QED BY <1>1, <1>2, <1>3, <1>8 DEF DropSteps

\* An elision of a job's path under a variant keeps the variant, or goes on below the
\* container without it.
LEMMA ElisionStarts ==
  ASSUME NEW v \in ContainerVariants, NEW j \in JobPaths, NEW p \in Elisions(FullPath(v, j))
  PROVE  Begins(p, ContainerUnder(v)) \/ Begins(p, PrototypesPath)
  <1>1. PICK c \in Nat : c = Len(ContainerPrimPath)
    BY ContainerNodes
  <1>2. v \in Variant /\ v # NoVariant
    <2>1. v \in Name \X Name
      BY RemeshAssumption
    <2>2. Len(v) = 2
      BY <2>1, PairSeq
    <2>3. Len(NoVariant) = 0
      BY DEF NoVariant, NoNode
    <2>4. v # NoVariant
      BY <2>2, <2>3
    <2> QED BY <2>4 DEF Variant
  <1>3. PICK path \in Seq(Node) : path = FullPath(v, j)
    BY <1>2, FullNodes DEF Path
  <1>4. PICK u \in Seq(Node) : u = ContainerUnder(v)
    BY <1>2, UnderVariant DEF Path
  <1>5. Len(u) = c + 1 /\ u[c + 1] = v /\ Begins(u, ContainerPrimPath) /\ IsVariant(v)
    BY <1>1, <1>2, <1>4, UnderVariant DEF NoVariant, NoNode
  <1>6. Begins(path, u) /\ path[c + 2] = <<"Prototypes">> /\ Len(path) >= c + 2
    <2>1. /\ Begins(path, u) /\ path[Len(u) + 1] = <<"Prototypes">>
          /\ Len(path) \in {Len(u) + 2, Len(u) + 3}
      BY <1>2, <1>3, <1>4, FullNodes
    <2> QED BY <1>5, <2>1
  <1>7. PICK S \in SUBSET VariantPlaces(path) : p = Without(path, S)
    BY <1>3 DEF Elisions
  <1>8. DropSteps(path, S, Node)
    BY WithoutSteps
  <1>9. PartTo(path, S, c) = ContainerPrimPath
    <2> DEFINE q == SubSeq(path, 1, c)
    <2>1. Begins(path, ContainerPrimPath)
      BY <1>3, <1>4, <1>5, <1>6, ContainerNodes, BeginsTwice
    <2>2. c \in 0..Len(path)
      BY <1>6
    <2>3. q \in Seq(Node) /\ Len(q) = c /\ \A k \in 1..c : q[k] = path[k]
      BY <2>2, FirstNodes
    <2> HIDE DEF q
    <2>4. Begins(q, ContainerPrimPath) /\ \A k \in 1..c : path[k] = ContainerPrimPath[k]
      BY <1>1, <2>1, <2>3 DEF Begins
    <2>5. q = ContainerPrimPath
      BY <1>1, <2>3, <2>4, ContainerNodes, SameSeq
    <2>6. \A k \in 1..c : IsPrim(path[k])
      BY <1>1, <2>4, ContainerNodes
    <2>7. \A k \in 1..Len(q) : k \notin S
      <3>1. TAKE k \in 1..Len(q)
      <3>2. IsPrim(path[k])
        BY <2>3, <2>6
      <3>3. ~IsVariant(path[k])
        BY <3>2 DEF IsPrim, IsVariant
      <3> QED BY <1>7, <3>3 DEF VariantPlaces
    <2>8. Without(q, S) = q
      BY <2>3, <2>7, NothingDropped
    <2> QED BY <2>5, <2>8 DEF PartTo, q
  <1>10. c + 1 \in 1..Len(path) /\ (c + 1) - 1 = c /\ c + 2 \in 1..Len(path) /\ (c + 2) - 1 = c + 1
    <2>1. PICK l \in Nat : l = Len(path)
      OBVIOUS
    <2> QED BY <1>6, <2>1
  <1>11. PartTo(path, S, c + 1) = IF c + 1 \in S THEN ContainerPrimPath
                                  ELSE Append(ContainerPrimPath, path[c + 1])
    BY <1>8, <1>9, <1>10 DEF DropSteps
  <1>12. CASE c + 1 \notin S
    <2>1. path[c + 1] = v
      BY <1>5, <1>6 DEF Begins
    <2>2. PartTo(path, S, c + 1) = ContainerUnder(v)
      BY <1>2, <1>11, <1>12, <2>1 DEF ContainerUnder
    <2>3. c + 1 \in 0..Len(path)
      BY <1>10
    <2>4. Begins(Without(path, S), PartTo(path, S, c + 1))
      BY <2>3, KeptBegins
    <2> QED BY <1>7, <2>2, <2>4
  <1>13. CASE c + 1 \in S
    <2>1. c + 2 \notin S
      <3>1. IsPrim(path[c + 2])
        BY <1>6, PrimNode, RemeshAssumption
      <3>2. ~IsVariant(path[c + 2])
        BY <3>1 DEF IsPrim, IsVariant
      <3> QED BY <1>7, <3>2 DEF VariantPlaces
    <2>2. PartTo(path, S, c + 2) = Append(PartTo(path, S, c + 1), path[c + 2])
      BY <1>8, <1>10, <2>1 DEF DropSteps
    <2>3. PartTo(path, S, c + 2) = PrototypesPath
      BY <1>6, <1>11, <1>13, <2>2 DEF PrototypesPath
    <2>4. c + 2 \in 0..Len(path)
      BY <1>10
    <2>5. Begins(Without(path, S), PartTo(path, S, c + 2))
      BY <2>4, KeptBegins
    <2> QED BY <1>7, <2>3, <2>5
  <1> QED BY <1>12, <1>13

\* A path at, above or below what goes on below the container with a prim chooses no
\* variant of the container.
LEMMA NotElsewhere ==
  ASSUME NEW sel \in Path, Begins(sel, PrototypesPath) \/ Begins(PrototypesPath, sel),
         NEW q \in PrefixesOf(sel), Strip(q) = ContainerPrimPath
  PROVE  q = ContainerPrimPath
  <1>1. PICK c \in Nat : c = Len(ContainerPrimPath)
    BY ContainerNodes
  <1>2. PICK b \in Seq(Node) : b = PrototypesPath
    BY ContainerNodes, PrimNode, RemeshAssumption, AppendProperties DEF PrototypesPath
  <1>3. Len(b) = c + 1 /\ \A n \in 1..(c + 1) : IsPrim(b[n])
    <2>1. <<"Prototypes">> \in Node /\ IsPrim(<<"Prototypes">>)
      BY PrimNode, RemeshAssumption
    <2>2. /\ Len(b) = c + 1 /\ b[c + 1] = <<"Prototypes">>
          /\ \A n \in 1..c : b[n] = ContainerPrimPath[n]
      BY <1>1, <1>2, <2>1, ContainerNodes, AppendProperties DEF PrototypesPath
    <2>3. \A n \in 1..(c + 1) : n \in 1..c \/ n = c + 1
      OBVIOUS
    <2> QED BY <1>1, <2>1, <2>2, <2>3, ContainerNodes
  <1>4. sel \in Seq(Node)
    BY DEF Path
  <1>5. PICK n \in 1..Len(sel) : q = SubSeq(sel, 1, n)
    BY DEF PrefixesOf
  <1>6. q \in Seq(Node) /\ Begins(sel, q)
    <2>1. n \in 0..Len(sel) /\ n <= Len(sel)
      BY <1>4
    <2>2. q \in Seq(Node) /\ Len(q) = n /\ \A k \in 1..n : q[k] = sel[k]
      BY <1>4, <1>5, <2>1, FirstNodes
    <2> QED BY <2>1, <2>2 DEF Begins
  <1>7. Begins(q, b) \/ Begins(b, q)
    <2>1. CASE Begins(sel, b)
      BY <1>2, <1>4, <1>6, <2>1, BothBegin
    <2>2. CASE Begins(b, sel)
      BY <1>2, <1>4, <1>6, <2>2, BeginsTwice
    <2> QED BY <1>2, <2>1, <2>2
  <1>8. CASE Begins(q, b)
    <2>1. Begins(Strip(q), Strip(b))
      BY <1>2, <1>6, <1>8, StripBegins
    <2>2. Strip(b) = b
      BY <1>3, StripPrims
    <2>3. c + 1 <= c
      BY <1>1, <1>3, <2>1, <2>2 DEF Begins
    <2> QED BY <2>3
  <1>9. CASE Begins(b, q)
    <2>1. \A k \in 1..Len(q) : IsPrim(q[k])
      <3>1. PICK l \in Nat : l = Len(q)
        BY <1>6
      <3> QED BY <1>3, <1>9, <3>1 DEF Begins
    <2> QED BY <1>6, <2>1, StripPrims
  <1> QED BY <1>7, <1>8, <1>9

\* The filter on variants lets through what the filter on jobs needs.
LEMMA NamedIsReached ==
  ASSUME NEW v \in ContainerVariants, NEW j \in JobPaths, selected \in SUBSET Path, Names(v, j)
  PROVE  VariantSelected(selected, v)
  <1>1. CASE selected = {}
    BY <1>1 DEF VariantSelected
  <1>2. CASE selected # {}
    <2>1. v \in Variant
      BY DEF Variant
    <2>2. PICK sel \in selected : \E p \in Elisions(FullPath(v, j)) :
            Begins(p, sel) \/ (Begins(sel, p) /\ Len(p) < Len(sel) /\ IsPrim(sel[Len(p) + 1]))
      BY <1>2, <2>1, NamesMeans
    <2>3. PICK p \in Elisions(FullPath(v, j)) : Begins(p, sel) \/ Begins(sel, p)
      BY <2>2
    <2>4. p \in Seq(Node) /\ sel \in Seq(Node)
      <3>1. FullPath(v, j) \in Path
        BY <2>1, FullNodes
      <3> QED BY <3>1, ElisionFacts DEF Path
    <2>5. ContainerUnder(v) \in Seq(Node) /\ PrototypesPath \in Seq(Node) /\ ContainerPrimPath \in Seq(Node)
      BY <2>1, UnderVariant, ContainerNodes, PrimNode, RemeshAssumption, AppendProperties
         DEF Path, PrototypesPath
    <2>6. ASSUME NEW b \in Seq(Node), Begins(p, b) PROVE Begins(sel, b) \/ Begins(b, sel)
      <3>1. CASE Begins(p, sel)
        BY <2>4, <2>6, <3>1, BothBegin
      <3>2. CASE Begins(sel, p)
        BY <2>4, <2>6, <3>2, BeginsTwice
      <3> QED BY <2>3, <3>1, <3>2
    <2>7. CASE Begins(p, ContainerUnder(v))
      <3>1. Begins(sel, ContainerUnder(v)) \/ Begins(ContainerUnder(v), sel)
        BY <2>5, <2>6, <2>7
      <3>2. Related(sel, ContainerUnder(v))
        BY <2>4, <2>5, <3>1, PrefixIs DEF Related
      <3> QED BY <3>2 DEF VariantSelected
    <2>8. CASE Begins(p, PrototypesPath)
      <3>1. Begins(sel, PrototypesPath) \/ Begins(PrototypesPath, sel)
        BY <2>5, <2>6, <2>8
      <3>2. \A q \in PrefixesOf(sel) : Strip(q) = ContainerPrimPath => q = ContainerPrimPath
        BY <2>4, <3>1, NotElsewhere DEF Path
      <3>3. Begins(PrototypesPath, ContainerPrimPath)
        BY <2>5, PrimNode, RemeshAssumption, ContainerNodes, AppendProperties DEF PrototypesPath, Begins
      <3>4. Begins(sel, ContainerPrimPath) \/ Begins(ContainerPrimPath, sel)
        BY <2>4, <2>5, <3>1, <3>3, BothBegin, BeginsTwice
      <3>5. Related(sel, ContainerPrimPath)
        BY <2>4, <2>5, <3>4, PrefixIs DEF Related
      <3> QED BY <3>2, <3>5 DEF VariantSelected
    <2> QED BY <2>7, <2>8, ElisionStarts
  <1> QED BY <1>1, <1>2

\* A prim among its nodes takes a path further.
LEMMA Further ==
  ASSUME NEW A, NEW path \in Seq(A), NEW n \in 0..Len(path), NEW m \in 0..n, NEW k \in (m + 1)..n,
         ~IsVariant(path[k])
  PROVE  StripTo(path, m) # StripTo(path, n)
  <1>1. PICK N \in Nat : N = Len(path)
    OBVIOUS
  <1>2. PrimSteps(path, A)
    BY StripSteps
  <1>3. k \in 1..N /\ k - 1 \in 0..N /\ m \in 0..(k - 1) /\ k \in 0..n /\ n \in 0..N
    BY <1>1
  <1>4. StripTo(path, k) = Append(StripTo(path, k - 1), path[k]) /\ path[k] \in A
    BY <1>1, <1>2, <1>3 DEF PrimSteps
  <1>5. PICK r \in Seq(A), s \in Seq(A), t \in Seq(A) :
          r = StripTo(path, m) /\ s = StripTo(path, k - 1) /\ t = StripTo(path, n)
    BY <1>1, <1>2, <1>3 DEF PrimSteps
  <1>6. Begins(s, r) /\ Begins(t, Append(s, path[k]))
    BY <1>1, <1>3, <1>4, <1>5, StripGrows
  <1>7. Len(Append(s, path[k])) = Len(s) + 1
    BY <1>4, AppendProperties
  <1>8. Len(r) <= Len(s) /\ Len(s) + 1 <= Len(t) /\ Len(r) \in Nat /\ Len(s) \in Nat /\ Len(t) \in Nat
    BY <1>6, <1>7 DEF Begins
  <1>9. Len(r) # Len(t)
    BY <1>8
  <1> QED BY <1>5, <1>9

\* A selection on the prim that a path is at after n nodes is the last of these or the next.
LEMMA NextPlace ==
  ASSUME NEW A, NEW path \in Seq(A), Spaced(path), NEW n \in 0..Len(path), NEW node,
         SelectsOn(path, StripTo(path, n), node)
  PROVE  \/ n >= 1 /\ IsVariant(path[n]) /\ path[n] = node
         \/ n + 1 <= Len(path) /\ IsVariant(path[n + 1]) /\ path[n + 1] = node
  <1>1. PICK N \in Nat : N = Len(path)
    OBVIOUS
  <1>2. PICK m \in 1..N : IsVariant(path[m]) /\ path[m] = node /\ StripTo(path, m) = StripTo(path, n)
    BY <1>1 DEF SelectsOn
  <1>3. ASSUME NEW k \in Nat, IsPrim(path[k]) PROVE ~IsVariant(path[k])
    BY <1>3 DEF IsPrim, IsVariant
  <1>4. ~(m < n)
    <2> SUFFICES ASSUME m < n PROVE FALSE
      OBVIOUS
    <2>1. m + 1 <= N /\ m \in 0..n /\ m + 1 \in (m + 1)..n /\ m + 1 \in Nat
      BY <1>1
    <2>2. IsPrim(path[m + 1])
      BY <1>1, <1>2, <2>1 DEF Spaced
    <2>3. ~IsVariant(path[m + 1])
      BY <1>3, <2>1, <2>2
    <2> QED BY <1>2, <2>1, <2>3, Further
  <1>5. ~(n + 1 < m)
    <2> SUFFICES ASSUME n + 1 < m PROVE FALSE
      OBVIOUS
    <2>1. /\ n + 2 <= N /\ n \in 0..m /\ m \in 0..N /\ n + 1 \in (n + 1)..m /\ n + 2 \in (n + 1)..m
          /\ n + 1 \in 1..N /\ (n + 1) + 1 = n + 2 /\ n + 2 \in Nat
      BY <1>1
    <2>2. IsVariant(path[n + 1])
      BY <1>1, <1>2, <2>1, Further
    <2>3. IsPrim(path[n + 2])
      BY <1>1, <2>1, <2>2 DEF Spaced
    <2>4. ~IsVariant(path[n + 2])
      BY <1>3, <2>1, <2>3
    <2> QED BY <1>1, <1>2, <2>1, <2>4, Further
  <1>6. m = n \/ m = n + 1
    BY <1>1, <1>4, <1>5
  <1> QED BY <1>1, <1>2, <1>6

\* Dropping variants leaves a prim between any two.
LEMMA KeptSpaced ==
  ASSUME NEW A, NEW path \in Seq(A), Spaced(path), NEW S \in SUBSET VariantPlaces(path)
  PROVE  Spaced(Without(path, S))
  <1>1. PICK N \in Nat : N = Len(path)
    OBVIOUS
  <1>2. DropSteps(path, S, A)
    BY WithoutSteps
  <1>3. \A n \in 0..N : PartTo(path, S, n) \in Seq(A)
    BY <1>1, <1>2 DEF DropSteps
  <1> DEFINE Ends(q, n) == Len(q) > 0 /\ IsVariant(q[Len(q)]) => n >= 1 /\ IsVariant(path[n])
             T == {n \in 0..N : Spaced(PartTo(path, S, n)) /\ Ends(PartTo(path, S, n), n)}
  <1>4. 0 \in T
    <2>1. PartTo(path, S, 0) = << >>
      BY <1>2 DEF DropSteps
    <2>2. Spaced(<< >>) /\ ~(Len(<< >>) > 0)
      BY DEF Spaced
    <2> QED BY <2>1, <2>2
  <1>5. ASSUME NEW n \in 1..N, n - 1 \in T PROVE n \in T
    <2>1. PICK p \in Seq(A), q \in Seq(A) : p = PartTo(path, S, n) /\ q = PartTo(path, S, n - 1)
      BY <1>3
    <2>2. Spaced(q) /\ Ends(q, n - 1)
      BY <1>5, <2>1
    <2>3. p = IF n \in S THEN q ELSE Append(q, path[n])
      BY <1>1, <1>2, <2>1 DEF DropSteps
    <2>4. Len(q) > 0 /\ IsVariant(q[Len(q)]) => IsPrim(path[n])
      <3> SUFFICES ASSUME Len(q) > 0, IsVariant(q[Len(q)]) PROVE IsPrim(path[n])
        OBVIOUS
      <3>1. n - 1 >= 1 /\ IsVariant(path[n - 1])
        BY <2>2
      <3>2. n - 1 \in 1..Len(path) /\ (n - 1) + 1 = n /\ n <= Len(path)
        BY <1>1, <3>1
      <3> QED BY <3>1, <3>2 DEF Spaced
    <2>5. CASE n \in S
      <3>1. IsVariant(path[n])
        BY <2>5 DEF VariantPlaces
      <3>2. ~IsPrim(path[n])
        BY <3>1 DEF IsPrim, IsVariant
      <3>3. Ends(q, n)
        BY <2>4, <3>2
      <3>4. p = q /\ Spaced(p) /\ Ends(p, n) /\ n \in 0..N
        BY <2>2, <2>3, <2>5, <3>3
      <3> HIDE DEF Ends
      <3> QED BY <2>1, <3>4
    <2>6. CASE n \notin S
      <3>1. PICK l \in Nat : l = Len(q)
        OBVIOUS
      <3>2. path[n] \in A
        BY <1>1
      <3>3. Len(p) = l + 1 /\ p[l + 1] = path[n] /\ \A k \in 1..l : p[k] = q[k]
        BY <2>3, <2>6, <3>1, <3>2, AppendProperties
      <3>4. ASSUME NEW k \in 1..Len(p), IsVariant(p[k]), k + 1 <= Len(p) PROVE IsPrim(p[k + 1])
        <4>1. k \in 1..l
          BY <3>3, <3>4
        <4>2. CASE k = l
          <5>1. Len(q) > 0 /\ IsVariant(q[Len(q)])
            BY <3>1, <3>3, <3>4, <4>1, <4>2
          <5> QED BY <2>4, <3>3, <4>2, <5>1
        <4>3. CASE k # l
          <5>1. k + 1 \in 1..l /\ IsVariant(q[k])
            BY <3>3, <3>4, <4>1, <4>3
          <5> QED BY <2>2, <3>1, <3>3, <4>1, <5>1 DEF Spaced
        <4> QED BY <4>2, <4>3
      <3>5. Spaced(p)
        BY <3>4 DEF Spaced
      <3>6. Ends(p, n)
        BY <3>3
      <3> QED BY <2>1, <3>5, <3>6
    <2> QED BY <2>5, <2>6
  <1> HIDE DEF T
  <1>6. N \in T
    <2>1. 0..N \subseteq T
      BY <1>4, <1>5, RangeInduction
    <2> QED BY <2>1
  <1> QED BY <1>1, <1>2, <1>6 DEF DropSteps, T

\* Every node of a path is a prim or a variant, and no two variants follow each other.
Plain(path) == (\A n \in 1..Len(path) : IsPrim(path[n]) \/ IsVariant(path[n])) /\ Spaced(path)

\* Two paths that select the same on the prims they share run along each other.
LEMMA RunAlong ==
  ASSUME NEW A, NEW p \in Seq(A), NEW q \in Seq(A), Plain(p), Plain(q),
         Begins(Strip(p), Strip(q)) \/ Begins(Strip(q), Strip(p)),
         \A prim, node : SelectsOn(p, prim, node) => SelectsOn(q, prim, node),
         \A prim, node : SelectsOn(q, prim, node) /\ Begins(Strip(p), prim) => SelectsOn(p, prim, node)
  PROVE  Begins(p, q) \/ (Begins(q, p) /\ Len(p) < Len(q) /\ IsPrim(q[Len(p) + 1]))
  <1>1. PICK K \in Nat, L \in Nat : K = Len(p) /\ L = Len(q)
    OBVIOUS
  <1>2. PrimSteps(p, A) /\ PrimSteps(q, A)
    BY StripSteps
  <1>3. Spaced(p) /\ Spaced(q)
        /\ (\A n \in 1..K : IsPrim(p[n]) \/ IsVariant(p[n]))
        /\ (\A n \in 1..L : IsPrim(q[n]) \/ IsVariant(q[n]))
    BY <1>1 DEF Plain
  <1> DEFINE Prims(n) == StripTo(p, n)
             Along(n) == n <= K /\ n <= L =>
                           /\ \A k \in 1..n : p[k] = q[k]
                           /\ StripTo(p, n) = StripTo(q, n)
             T == {n \in 0..K : Along(n)}
  <1>4. ASSUME NEW x, IsPrim(x) PROVE ~IsVariant(x)
    BY <1>4 DEF IsPrim, IsVariant
  <1>5. 0 \in T
    BY <1>2 DEF PrimSteps
  <1>6. ASSUME NEW n \in 1..K, n - 1 \in T PROVE n \in T
    <2> SUFFICES ASSUME n <= L
                 PROVE  (\A k \in 1..n : p[k] = q[k]) /\ StripTo(p, n) = StripTo(q, n)
      OBVIOUS
    <2>1. n \in 1..K /\ n \in 1..L /\ n - 1 \in 0..K /\ n - 1 \in 0..L /\ (n - 1) + 1 = n
      BY <1>1
    <2>2. (\A k \in 1..(n - 1) : p[k] = q[k]) /\ StripTo(p, n - 1) = StripTo(q, n - 1)
      BY <1>6, <2>1
    <2>3. PICK r \in Seq(A) : r = StripTo(p, n - 1) /\ r = StripTo(q, n - 1)
      BY <1>1, <1>2, <2>1, <2>2 DEF PrimSteps
    <2>4. /\ StripTo(p, n) = IF IsVariant(p[n]) THEN r ELSE Append(r, p[n])
          /\ StripTo(q, n) = IF IsVariant(q[n]) THEN r ELSE Append(r, q[n])
          /\ p[n] \in A /\ q[n] \in A
      <3>1. StripTo(p, n) = IF IsVariant(p[n]) THEN r ELSE Append(r, p[n])
        BY <1>1, <1>2, <2>1, <2>3 DEF PrimSteps
      <3>2. StripTo(q, n) = IF IsVariant(q[n]) THEN r ELSE Append(r, q[n])
        BY <1>1, <1>2, <2>1, <2>3 DEF PrimSteps
      <3>3. p[n] \in A /\ q[n] \in A
        BY <1>1, <2>1
      <3> QED BY <3>1, <3>2, <3>3
    <2>5. Begins(Strip(p), r)
      <3>1. Begins(StripTo(p, K), StripTo(p, n - 1))
        <4>1. K \in 0..Len(p) /\ n - 1 \in 0..K
          BY <1>1, <2>1
        <4> QED BY <4>1, StripGrows
      <3> QED BY <1>1, <1>2, <2>3, <3>1 DEF PrimSteps
    <2>6. CASE IsVariant(p[n])
      <3>1. SelectsOn(p, r, p[n])
        BY <1>1, <2>1, <2>4, <2>6 DEF SelectsOn
      <3>2. SelectsOn(q, StripTo(q, n - 1), p[n])
        BY <2>3, <3>1
      <3>3. \/ n - 1 >= 1 /\ IsVariant(q[n - 1])
            \/ IsVariant(q[n]) /\ q[n] = p[n]
        BY <1>1, <1>3, <2>1, <3>2, NextPlace
      <3>4. CASE n - 1 >= 1 /\ IsVariant(q[n - 1])
        <4>1. n - 1 \in 1..K /\ IsVariant(p[n - 1])
          BY <2>1, <2>2, <3>4
        <4>2. IsPrim(p[n])
          BY <1>1, <1>3, <2>1, <4>1 DEF Spaced
        <4> QED BY <1>4, <2>6, <4>2
      <3>5. CASE IsVariant(q[n]) /\ q[n] = p[n]
        <4>1. \A k \in 1..n : k \in 1..(n - 1) \/ k = n
          OBVIOUS
        <4> QED BY <2>2, <2>4, <2>6, <3>5, <4>1
      <3> QED BY <3>3, <3>4, <3>5
    <2>7. CASE ~IsVariant(p[n]) /\ IsVariant(q[n])
      <3>1. SelectsOn(q, r, q[n])
        BY <1>1, <2>1, <2>4, <2>7 DEF SelectsOn
      <3>2. SelectsOn(p, StripTo(p, n - 1), q[n])
        BY <2>3, <2>5, <3>1
      <3>3. n - 1 >= 1 /\ IsVariant(p[n - 1])
        BY <1>1, <1>3, <2>1, <2>7, <3>2, NextPlace
      <3>4. n - 1 \in 1..L /\ IsVariant(q[n - 1])
        BY <2>1, <2>2, <3>3
      <3>5. IsPrim(q[n])
        BY <1>1, <1>3, <2>1, <3>4 DEF Spaced
      <3> QED BY <1>4, <2>7, <3>5
    <2>8. CASE ~IsVariant(p[n]) /\ ~IsVariant(q[n])
      <3>1. PICK s \in Seq(A), t \in Seq(A) : s = Append(r, p[n]) /\ t = Append(r, q[n])
        BY <2>4, AppendProperties
      <3>2. StripTo(p, n) = s /\ StripTo(q, n) = t
        BY <2>4, <2>8, <3>1
      <3>3. PICK l \in Nat : l = Len(r)
        OBVIOUS
      <3>4. /\ Len(s) = l + 1 /\ s[l + 1] = p[n]
            /\ Len(t) = l + 1 /\ t[l + 1] = q[n]
        BY <2>4, <3>1, <3>3, AppendProperties
      <3>5. PICK a \in Seq(A), b \in Seq(A) : a = Strip(p) /\ b = Strip(q)
        BY StripIs
      <3>6. Begins(a, s) /\ Begins(b, t)
        <4>1. K \in 0..Len(p) /\ n \in 0..K /\ L \in 0..Len(q) /\ n \in 0..L
          BY <1>1, <2>1
        <4>2. Begins(StripTo(p, K), StripTo(p, n)) /\ Begins(StripTo(q, L), StripTo(q, n))
          BY <4>1, StripGrows
        <4> QED BY <1>1, <3>2, <3>5, <4>2, StripIs
      <3>7. a[l + 1] = s[l + 1] /\ b[l + 1] = t[l + 1] /\ l + 1 <= Len(a) /\ l + 1 <= Len(b)
        BY <3>4, <3>6 DEF Begins
      <3>8. a[l + 1] = b[l + 1]
        BY <3>5, <3>7 DEF Begins
      <3>9. p[n] = q[n]
        BY <3>4, <3>7, <3>8
      <3>10. \A k \in 1..n : k \in 1..(n - 1) \/ k = n
        OBVIOUS
      <3> QED BY <2>2, <2>4, <2>8, <3>9, <3>10
    <2> QED BY <2>6, <2>7, <2>8
  <1> HIDE DEF T
  <1>7. 0..K \subseteq T
    BY <1>5, <1>6, RangeInduction
  <1>8. CASE L <= K
    <2>1. L \in T
      BY <1>7, <1>8
    <2>2. \A k \in 1..L : p[k] = q[k]
      BY <1>8, <2>1 DEF T
    <2> QED BY <1>1, <1>8, <2>2 DEF Begins
  <1>9. CASE K < L
    <2>1. K \in T
      BY <1>7
    <2>2. (\A k \in 1..K : p[k] = q[k]) /\ StripTo(p, K) = StripTo(q, K)
      BY <1>9, <2>1 DEF T
    <2>3. Begins(q, p)
      BY <1>1, <1>9, <2>2 DEF Begins
    <2>4. K + 1 \in 1..L /\ K \in 0..L /\ (K + 1) - 1 = K
      BY <1>9
    <2>5. IsPrim(q[K + 1])
      <3> SUFFICES ASSUME ~IsPrim(q[K + 1]) PROVE FALSE
        OBVIOUS
      <3>1. IsVariant(q[K + 1])
        BY <1>3, <2>4
      <3>2. Strip(p) = StripTo(p, K) /\ StripTo(q, K + 1) = StripTo(q, K)
        BY <1>1, <1>2, <2>4, <3>1 DEF PrimSteps
      <3>3. SelectsOn(q, Strip(p), q[K + 1])
        BY <1>1, <2>2, <2>4, <3>1, <3>2 DEF SelectsOn
      <3>4. Begins(Strip(p), Strip(p))
        BY StripIs DEF Begins
      <3>5. SelectsOn(p, StripTo(p, K), q[K + 1])
        BY <3>2, <3>3, <3>4
      <3>6. K >= 1 /\ IsVariant(p[K])
        <4>1. K \in 0..Len(p) /\ ~(K + 1 <= Len(p))
          BY <1>1
        <4> QED BY <1>3, <3>5, <4>1, NextPlace
      <3>7. K \in 1..L /\ IsVariant(q[K])
        BY <1>9, <2>2, <3>6
      <3> QED BY <1>1, <1>3, <2>4, <3>7 DEF Spaced
    <2> QED BY <1>1, <1>9, <2>3, <2>5
  <1> QED BY <1>1, <1>8, <1>9

LEMMA SameNodes ==
  ASSUME NEW A, NEW s \in Seq(A), NEW B, \A n \in 1..Len(s) : s[n] \in B
  PROVE  s \in Seq(B)
  OBVIOUS

\* A variant in a path makes its prim one that carries a variant.
LEMMA SelectsVariant ==
  ASSUME NEW A, NEW path \in Seq(A), NEW prim, NEW node, SelectsOn(path, prim, node)
  PROVE  prim \in VariantPrims(path)
  <1>1. PICK n \in 1..Len(path) : IsVariant(path[n]) /\ StripTo(path, n) = prim
    BY DEF SelectsOn
  <1>2. PICK q : q = SubSeq(path, 1, n)
    OBVIOUS
  <1>3. n \in 0..Len(path)
    OBVIOUS
  <1>4. Len(q) = n /\ \A k \in 1..n : q[k] = path[k]
    BY <1>2, <1>3, FirstNodes
  <1>5. Last(q) = path[n]
    BY <1>4 DEF Last
  <1>6. q \in PrefixesOf(path) /\ Strip(q) = prim
    BY <1>1, <1>2 DEF PrefixesOf, StripTo
  <1> QED BY <1>1, <1>5, <1>6 DEF VariantPrims

\* The prims of a job's path, and the variants on them.
JobSelects(path, v) ==
  /\ v # NoVariant => SelectsOn(path, ContainerPrimPath, v)
  /\ \E p \in Prototype :
       /\ Strip(path) = ProtoPath(p)
       /\ ProtoVariants[p] # {} => \E w : SelectsOn(path, ProtoPath(p), w)

LEMMA PrototypesNodes ==
  /\ PrototypesPath \in Seq(Node) /\ Begins(PrototypesPath, ContainerPrimPath)
  /\ Len(PrototypesPath) = Len(ContainerPrimPath) + 1
  /\ \A p \in Prototype :
       /\ ProtoPath(p) \in Seq(Node) /\ Begins(ProtoPath(p), PrototypesPath)
       /\ Len(ProtoPath(p)) = Len(ContainerPrimPath) + 2
       /\ ProtoPath(p) # ContainerPrimPath /\ Last(ProtoPath(p)) = <<p>>
  <1>1. PICK c \in Nat : c = Len(ContainerPrimPath)
    BY ContainerNodes
  <1>2. ContainerPrimPath \in Seq(Node) /\ <<"Prototypes">> \in Node
    BY ContainerNodes, PrimNode, RemeshAssumption
  <1>3. PICK b \in Seq(Node) : b = PrototypesPath
    BY <1>2, AppendProperties DEF PrototypesPath
  <1>4. Len(b) = c + 1 /\ \A k \in 1..c : b[k] = ContainerPrimPath[k]
    BY <1>1, <1>2, <1>3, AppendProperties DEF PrototypesPath
  <1>5. ASSUME NEW p \in Prototype
        PROVE  /\ ProtoPath(p) \in Seq(Node) /\ Begins(ProtoPath(p), b)
               /\ Len(ProtoPath(p)) = c + 2 /\ Last(ProtoPath(p)) = <<p>>
    <2>1. <<p>> \in Node
      BY PrimNode, RemeshAssumption
    <2>2. PICK d \in Seq(Node) : d = ProtoPath(p)
      BY <1>3, <2>1, AppendProperties DEF ProtoPath
    <2>3. Len(d) = c + 2 /\ d[c + 2] = <<p>> /\ \A k \in 1..(c + 1) : d[k] = b[k]
      <3>1. Len(d) = Len(b) + 1 /\ d[Len(b) + 1] = <<p>> /\ \A k \in 1..Len(b) : d[k] = b[k]
        BY <1>3, <2>1, <2>2, AppendProperties DEF ProtoPath
      <3>2. Len(b) + 1 = c + 2
        BY <1>4
      <3> QED BY <1>4, <3>1, <3>2
    <2>4. Last(d) = <<p>>
      BY <2>3 DEF Last
    <2>5. Begins(d, b)
      BY <1>4, <2>3 DEF Begins
    <2> QED BY <2>2, <2>3, <2>4, <2>5
  <1>6. Begins(b, ContainerPrimPath)
    BY <1>1, <1>4 DEF Begins
  <1>7. \A p \in Prototype : ProtoPath(p) # ContainerPrimPath
    BY <1>1, <1>5
  <1> QED BY <1>1, <1>3, <1>4, <1>5, <1>6, <1>7

LEMMA FullSelects ==
  ASSUME NEW v \in Variant, NEW j \in JobPaths
  PROVE  JobSelects(FullPath(v, j), v)
  <1>1. PICK c \in Nat, u \in Nat, l \in Nat :
          c = Len(ContainerPrimPath) /\ u = Len(ContainerUnder(v)) /\ l = Len(j)
    BY JobNodes, UnderVariant, ContainerNodes DEF IsJobPath, Path
  <1>2. PICK path \in Seq(Node) : path = FullPath(v, j)
    BY FullNodes DEF Path
  <1>3. PICK p \in Prototype :
          /\ j[c + 2] = <<p>>
          /\ \/ ProtoVariants[p] = {} /\ l = c + 2
             \/ l = c + 3 /\ j[c + 3] \in ProtoVariants[p]
    BY <1>1, JobNodes DEF IsJobPath
  <1>4. /\ Begins(path, ContainerUnder(v)) /\ path[u + 1] = <<"Prototypes">>
        /\ Len(path) = u + (l - c) /\ \A k \in 1..(l - c) : path[u + k] = j[c + k]
    BY <1>1, <1>2, FullNodes
  <1>5. path[u + 2] = <<p>> /\ (l = c + 3 => path[u + 3] = j[c + 3])
    <2>1. 2 \in 1..(l - c) /\ (l = c + 3 => 3 \in 1..(l - c))
      BY <1>3
    <2>2. path[u + 2] = j[c + 2]
      BY <1>4, <2>1
    <2>3. l = c + 3 => path[u + 3] = j[c + 3]
      BY <1>4, <2>1
    <2> QED BY <1>3, <2>2, <2>3
  <1>6. u \in {c, c + 1} /\ Len(path) \in {u + 2, u + 3} /\ (l = c + 3 <=> Len(path) = u + 3)
    <2>1. u = c \/ u = c + 1
      BY <1>1, UnderVariant
    <2>2. l = c + 2 \/ l = c + 3
      BY <1>3
    <2>3. Len(path) = u + (l - c)
      BY <1>4
    <2> QED BY <2>1, <2>2, <2>3
  <1>7. PrimSteps(path, Node)
    BY StripSteps
  <1>8. Begins(path, ContainerPrimPath)
    <2>1. ContainerUnder(v) \in Seq(Node) /\ ContainerPrimPath \in Seq(Node)
          /\ Begins(ContainerUnder(v), ContainerPrimPath)
      BY UnderVariant, ContainerNodes DEF Path
    <2> QED BY <1>4, <2>1, BeginsTwice
  <1>9. StripTo(path, c) = ContainerPrimPath
    <2>1. c \in 0..Len(ContainerPrimPath) /\ ContainerPrimPath \in Seq(Node)
      BY <1>1, ContainerNodes
    <2>2. StripTo(path, c) = StripTo(ContainerPrimPath, c)
      BY <1>8, <2>1, FirstSame
    <2>3. StripTo(ContainerPrimPath, c) = Strip(ContainerPrimPath)
      BY <1>1, <2>1, StripIs
    <2>4. Strip(ContainerPrimPath) = ContainerPrimPath
      BY ContainerNodes, StripPrims
    <2> QED BY <2>2, <2>3, <2>4
  <1>10. \A n \in 1..Len(path) : StripTo(path, n) = IF IsVariant(path[n]) THEN StripTo(path, n - 1)
                                                    ELSE Append(StripTo(path, n - 1), path[n])
    BY <1>7 DEF PrimSteps
  <1>11. StripTo(path, u) = ContainerPrimPath
         /\ (v # NoVariant => SelectsOn(path, ContainerPrimPath, v))
    <2>1. CASE v = NoVariant
      <3>1. u = c
        BY <1>1, <2>1, UnderVariant DEF ContainerUnder
      <3> QED BY <1>9, <2>1, <3>1
    <2>2. CASE v # NoVariant
      <3>1. IsVariant(v) /\ u = c + 1 /\ ContainerUnder(v)[c + 1] = v
        BY <1>1, <2>2, UnderVariant
      <3>2. path[u] = v /\ u \in 1..Len(path) /\ u - 1 = c
        BY <1>1, <1>4, <1>6, <3>1 DEF Begins
      <3>3. StripTo(path, u) = ContainerPrimPath
        BY <1>9, <1>10, <3>1, <3>2
      <3> QED BY <3>1, <3>2, <3>3 DEF SelectsOn
    <2> QED BY <2>1, <2>2
  <1>12. StripTo(path, u + 2) = ProtoPath(p)
    <2>1. u + 1 \in 1..Len(path) /\ u + 2 \in 1..Len(path) /\ (u + 1) - 1 = u /\ (u + 2) - 1 = u + 1
      BY <1>6
    <2>2. ~IsVariant(path[u + 1]) /\ ~IsVariant(path[u + 2])
      <3>1. ~IsVariant(<<"Prototypes">>) /\ ~IsVariant(<<p>>)
        BY PrimNode, RemeshAssumption
      <3> QED BY <1>4, <1>5, <3>1
    <2>3. StripTo(path, u + 1) = PrototypesPath
      BY <1>4, <1>10, <1>11, <2>1, <2>2 DEF PrototypesPath
    <2> QED BY <1>5, <1>10, <2>1, <2>2, <2>3 DEF ProtoPath
  <1>13. Strip(path) = StripTo(path, Len(path))
    BY <1>7 DEF PrimSteps
  <1>14. CASE l = c + 2
    <2>1. Len(path) = u + 2 /\ ProtoVariants[p] = {}
      BY <1>1, <1>3, <1>6, <1>14
    <2>2. Strip(path) = ProtoPath(p)
      BY <1>12, <1>13, <2>1
    <2> QED BY <1>2, <1>11, <2>1, <2>2 DEF JobSelects
  <1>15. CASE l = c + 3
    <2>1. Len(path) = u + 3 /\ path[u + 3] \in ProtoVariants[p]
      BY <1>1, <1>3, <1>5, <1>6, <1>15
    <2>2. u + 3 \in 1..Len(path) /\ (u + 3) - 1 = u + 2
      BY <2>1
    <2>3. IsVariant(path[u + 3])
      <3>1. path[u + 3] \in Name \X Name
        BY <2>1, RemeshAssumption
      <3> QED BY <3>1, VariantNode
    <2>4. StripTo(path, u + 3) = ProtoPath(p)
      BY <1>10, <1>12, <2>2, <2>3
    <2>5. Strip(path) = ProtoPath(p)
      BY <1>13, <2>1, <2>4
    <2>6. SelectsOn(path, ProtoPath(p), path[u + 3])
      BY <2>2, <2>3, <2>4 DEF SelectsOn
    <2> QED BY <1>2, <1>11, <2>5, <2>6 DEF JobSelects
  <1> QED BY <1>3, <1>14, <1>15

\* Prims and variants are the only nodes of a job's path.
LEMMA FullPlain ==
  ASSUME NEW v \in Variant, NEW j \in JobPaths
  PROVE  \A n \in 1..Len(FullPath(v, j)) : IsPrim(FullPath(v, j)[n]) \/ IsVariant(FullPath(v, j)[n])
  <1>1. PICK c \in Nat, u \in Nat, l \in Nat :
          c = Len(ContainerPrimPath) /\ u = Len(ContainerUnder(v)) /\ l = Len(j)
    BY JobNodes, UnderVariant, ContainerNodes DEF IsJobPath, Path
  <1>2. PICK path \in Seq(Node) : path = FullPath(v, j)
    BY FullNodes DEF Path
  <1>3. PICK p \in Prototype : l = c + 2 \/ (l = c + 3 /\ j[c + 3] \in ProtoVariants[p])
    BY <1>1, JobNodes DEF IsJobPath
  <1>4. /\ Begins(path, ContainerUnder(v)) /\ path[u + 1] = <<"Prototypes">> /\ IsPrim(path[u + 2])
        /\ Len(path) = u + (l - c) /\ \A k \in 1..(l - c) : path[u + k] = j[c + k]
    BY <1>1, <1>2, FullNodes
  <1>5. \A n \in 1..u : IsPrim(path[n]) \/ IsVariant(path[n])
    <2> SUFFICES ASSUME NEW n \in 1..u PROVE IsPrim(path[n]) \/ IsVariant(path[n])
      OBVIOUS
    <2>1. path[n] = ContainerUnder(v)[n]
      BY <1>1, <1>4 DEF Begins
    <2>2. CASE n \in 1..c
      <3>1. ContainerUnder(v)[n] = ContainerPrimPath[n]
        BY <1>1, <2>2, UnderVariant DEF Begins
      <3> QED BY <1>1, <2>1, <2>2, <3>1, ContainerNodes
    <2>3. CASE n \notin 1..c
      <3>1. u # c
        BY <2>3
      <3>2. u = c + 1 /\ IsVariant(v) /\ ContainerUnder(v)[c + 1] = v
        <4>1. CASE v = NoVariant /\ ContainerUnder(v) = ContainerPrimPath
          BY <1>1, <3>1, <4>1
        <4>2. CASE IsVariant(v) /\ Len(ContainerUnder(v)) = Len(ContainerPrimPath) + 1
                   /\ ContainerUnder(v)[Len(ContainerPrimPath) + 1] = v
          BY <1>1, <4>2
        <4> QED BY <4>1, <4>2, UnderVariant
      <3>3. n = c + 1
        BY <2>3, <3>2
      <3> QED BY <2>1, <3>2, <3>3
    <2> QED BY <2>2, <2>3
  <1>6. IsPrim(path[u + 1])
    <2>1. IsPrim(<<"Prototypes">>)
      BY PrimNode, RemeshAssumption
    <2> QED BY <1>4, <2>1
  <1>7. l = c + 3 => IsVariant(path[u + 3])
    <2> SUFFICES ASSUME l = c + 3 PROVE IsVariant(path[u + 3])
      OBVIOUS
    <2>1. path[u + 3] \in ProtoVariants[p]
      BY <1>3, <1>4
    <2>2. path[u + 3] \in Name \X Name
      BY <2>1, RemeshAssumption
    <2> QED BY <2>2, VariantNode
  <1>8. \A n \in 1..Len(path) : n \in 1..u \/ n = u + 1 \/ n = u + 2 \/ (n = u + 3 /\ l = c + 3)
    BY <1>3, <1>4
  <1> QED BY <1>2, <1>4, <1>5, <1>6, <1>7, <1>8

\* What can be said of a prim that carries a variant in a -p path: it is the container, or
\* it is not on the way to a prototype.
OwnVariants(sel) ==
  \A prim, node : SelectsOn(sel, prim, node) =>
    prim = ContainerPrimPath \/ ~Begins(PrototypesPath, prim)

\* A prim on the way to a job's on which a valid path selects a variant: the job's path
\* selects one there as well.
LEMMA JobSelectsToo ==
  ASSUME NEW v \in Variant, ContainerVariants # {} => v # NoVariant, NEW j \in JobPaths,
         NEW path, path = FullPath(v, j),
         NEW sel \in Path, OwnVariants(sel), ValidSelection({sel}, VariantsOf),
         NEW prim, NEW node, SelectsOn(sel, prim, node), Begins(Strip(path), prim)
  PROVE  \E w : SelectsOn(path, prim, w)
  <1>1. PICK p \in Prototype :
          /\ Strip(path) = ProtoPath(p)
          /\ ProtoVariants[p] # {} => \E w : SelectsOn(path, ProtoPath(p), w)
    BY FullSelects DEF JobSelects
  <1>2. sel \in Seq(Node)
    BY DEF Path
  <1>3. PICK n \in 1..Len(sel) : IsVariant(sel[n]) /\ StripTo(sel, n) = prim
    BY DEF SelectsOn
  <1>4. prim \in DOMAIN VariantsOf => VariantsOf[prim] # {}
    <2>1. n \in DOMAIN sel /\ prim = Strip(SubSeq(sel, 1, n))
      BY <1>2, <1>3 DEF StripTo
    <2> QED BY <1>3, <2>1 DEF ValidSelection
  <1>5. CASE prim = ContainerPrimPath
    <2>1. prim \in DOMAIN VariantsOf /\ VariantsOf[prim] = ContainerVariants
      BY <1>5 DEF VariantsOf
    <2> QED BY <1>4, <1>5, <2>1, FullSelects DEF JobSelects
  <1>6. CASE prim # ContainerPrimPath
    <2>1. PICK c \in Nat : c = Len(ContainerPrimPath)
      BY ContainerNodes
    <2>2. PICK q \in Seq(Node) : q = prim
      BY <1>2, VariantWithin
    <2>3. PICK b \in Seq(Node), d \in Seq(Node) : b = PrototypesPath /\ d = ProtoPath(p)
      BY PrototypesNodes
    <2>4. Begins(d, b) /\ Len(b) = c + 1 /\ Len(d) = c + 2 /\ Begins(d, q)
      BY <1>1, <2>1, <2>2, <2>3, PrototypesNodes
    <2>5. ~Begins(b, q)
      BY <1>6, <2>2, <2>3 DEF OwnVariants
    <2>6. Begins(q, b)
      BY <2>4, <2>5, BothBegin
    <2>7. Len(q) = c + 2
      <3>1. Len(q) # c + 1
        <4> SUFFICES ASSUME Len(q) = c + 1 PROVE FALSE
          OBVIOUS
        <4>1. Begins(b, q)
          BY <2>4, <2>6 DEF Begins
        <4> QED BY <2>5, <4>1
      <3>2. PICK k \in Nat : k = Len(q)
        OBVIOUS
      <3>3. c + 1 <= k /\ k <= c + 2
        BY <2>4, <2>6, <3>2 DEF Begins
      <3> QED BY <3>1, <3>2, <3>3
    <2>8. q = d
      BY <2>4, <2>7, SameSeq
    <2>9. prim \in DOMAIN VariantsOf /\ VariantsOf[prim] = ProtoVariants[p]
      <3>1. prim = ProtoPath(p) /\ Last(prim)[1] = p
        BY <2>2, <2>3, <2>8, PrototypesNodes
      <3> QED BY <1>6, <3>1 DEF VariantsOf
    <2> QED BY <1>1, <1>4, <2>2, <2>3, <2>8, <2>9
  <1> QED BY <1>5, <1>6

\* The filter on jobs lets through nothing but what a path names.
LEMMA ActiveIsNamed ==
  ASSUME NEW v \in Variant, ContainerVariants # {} => v # NoVariant, NEW j \in JobPaths,
         selected \in SUBSET Path, \A sel \in selected : Plain(sel) /\ OwnVariants(sel),
         ValidSelection(selected, VariantsOf), PrototypeActive(selected, j, v)
  PROVE  Names(v, j)
  <1>1. CASE selected = {}
    BY <1>1 DEF Names
  <1>2. CASE selected # {}
    <2> DEFINE N == {x \in Node : IsPrim(x) \/ IsVariant(x)}
    <2>1. PICK path \in Seq(N) : path = FullPath(v, j)
      <3>1. FullPath(v, j) \in Seq(Node)
        BY FullNodes DEF Path
      <3>2. \A n \in 1..Len(FullPath(v, j)) : FullPath(v, j)[n] \in N
        BY <3>1, FullPlain
      <3> HIDE DEF N
      <3>3. FullPath(v, j) \in Seq(N)
        BY <3>1, <3>2, SameNodes
      <3> QED BY <3>3
    <2>2. PICK sel \in selected : Related(Strip(sel), Strip(path)) /\ ~Conflicts(sel, path)
      BY <1>2, <2>1 DEF PrototypeActive, FullPath
    <2>3. sel \in Seq(N) /\ sel \in Path
      <3>1. sel \in Seq(Node) /\ \A n \in 1..Len(sel) : sel[n] \in N
        BY DEF Plain, Path
      <3> HIDE DEF N
      <3> QED BY <3>1, SameNodes DEF Path
    <2>4. Spaced(path) /\ Spaced(sel)
      BY <2>1, FullSpaced DEF Plain
    <2> DEFINE S == {n \in VariantPlaces(path) : StripTo(path, n) \notin VariantPrims(sel)}
               p == Without(path, S)
    <2>5. S \in SUBSET VariantPlaces(path)
      OBVIOUS
    <2>6. \A n \in 1..Len(path) : n \notin S /\ IsVariant(path[n]) => StripTo(path, n) \in VariantPrims(sel)
      BY <2>1 DEF VariantPlaces
    <2>7. \A n \in 1..Len(path) : StripTo(path, n) \in VariantPrims(sel) => n \notin S
      OBVIOUS
    <2> HIDE DEF S, N
    <2>8. /\ p \in Seq(N) /\ Strip(p) = Strip(path) /\ Spaced(p)
          /\ \A prim, node : SelectsOn(p, prim, node) <=> KeptAt(path, S, Len(path), prim, node)
      BY <2>1, <2>4, <2>5, ElisionOf, KeptSpaced
    <2> HIDE DEF p
    <2>9. ASSUME NEW prim, NEW a, NEW b, SelectsOn(sel, prim, a), SelectsOn(path, prim, b)
          PROVE  a = b
      <3>1. prim \in VariantPrims(sel) /\ prim \in VariantPrims(path)
        BY <2>1, <2>3, <2>9, SelectsVariant
      <3>2. PICK c, d : c = VariantOn(sel, prim) /\ d = VariantOn(path, prim)
        OBVIOUS
      <3>3. SelectsOn(sel, prim, c) /\ SelectsOn(path, prim, d)
        BY <2>1, <2>3, <3>1, <3>2, VariantSelects
      <3>4. c = d
        BY <2>2, <3>1, <3>2 DEF Conflicts
      <3>5. a = c
        BY <2>3, <2>4, <2>9, <3>3, OneEach
      <3>6. b = d
        BY <2>1, <2>4, <2>9, <3>3, OneEach
      <3> QED BY <3>4, <3>5, <3>6
    <2>10. ASSUME NEW prim, NEW node, SelectsOn(p, prim, node) PROVE SelectsOn(sel, prim, node)
      <3>1. PICK m \in 1..Len(path) :
              m \notin S /\ IsVariant(path[m]) /\ path[m] = node /\ StripTo(path, m) = prim
        BY <2>8, <2>10 DEF KeptAt
      <3>2. prim \in VariantPrims(sel) /\ SelectsOn(path, prim, node)
        BY <2>6, <3>1 DEF SelectsOn
      <3>3. SelectsOn(sel, prim, VariantOn(sel, prim))
        BY <2>3, <3>2, VariantSelects
      <3>4. VariantOn(sel, prim) = node
        BY <2>9, <3>2, <3>3
      <3> QED BY <3>3, <3>4
    <2>11. ASSUME NEW prim, NEW node, SelectsOn(sel, prim, node), Begins(Strip(p), prim)
           PROVE  SelectsOn(p, prim, node)
      <3>1. ValidSelection({sel}, VariantsOf)
        BY DEF ValidSelection
      <3>2. OwnVariants(sel)
        OBVIOUS
      <3>3. PICK w : SelectsOn(path, prim, w)
        BY <2>1, <2>3, <2>8, <2>11, <3>1, <3>2, JobSelectsToo
      <3>4. w = node
        BY <2>9, <2>11, <3>3
      <3>5. PICK m \in 1..Len(path) : IsVariant(path[m]) /\ path[m] = node /\ StripTo(path, m) = prim
        BY <3>3, <3>4 DEF SelectsOn
      <3>6. prim \in VariantPrims(sel)
        BY <2>3, <2>11, SelectsVariant
      <3>7. m \notin S
        BY <2>7, <3>5, <3>6
      <3> QED BY <2>8, <3>5, <3>7 DEF KeptAt
    <2>12. Plain(p) /\ Plain(sel)
      <3>1. ASSUME NEW q \in Seq(N) PROVE \A n \in 1..Len(q) : IsPrim(q[n]) \/ IsVariant(q[n])
        BY DEF N
      <3> QED BY <2>3, <2>4, <2>8, <3>1 DEF Plain
    <2>13. Begins(Strip(p), Strip(sel)) \/ Begins(Strip(sel), Strip(p))
      <3>1. Strip(sel) \in Seq(N) /\ Strip(path) \in Seq(N)
        BY <2>1, <2>3, StripIs
      <3> QED BY <2>2, <2>8, <3>1, PrefixIs DEF Related
    <2>14. Begins(p, sel) \/ (Begins(sel, p) /\ Len(p) < Len(sel) /\ IsPrim(sel[Len(p) + 1]))
      BY <2>3, <2>8, <2>10, <2>11, <2>12, <2>13, RunAlong
    <2>15. HasPrefix(p, sel) \/ (HasPrefix(sel, p) /\ Len(sel) > Len(p) /\ IsPrim(sel[Len(p) + 1]))
      <3>1. (HasPrefix(p, sel) <=> Begins(p, sel)) /\ (HasPrefix(sel, p) <=> Begins(sel, p))
        BY <2>3, <2>8, PrefixIs
      <3>2. Len(p) < Len(sel) => Len(sel) > Len(p)
        BY <2>3, <2>8
      <3> QED BY <2>14, <3>1, <3>2
    <2>16. p \in Elisions(FullPath(v, j))
      BY <2>1, <2>5 DEF Elisions, p
    <2> QED BY <2>15, <2>16 DEF Names, FullPath
  <1> QED BY <1>1, <1>2

\* Paths in the form the usage shows.
LEMMA OrdinaryIs ==
  ASSUME NEW sel \in Path, Ordinary(sel)
  PROVE  Plain(sel) /\ OwnVariants(sel)
  <1>1. sel \in Seq(Node)
    BY DEF Path
  <1>2. PICK N \in Nat : N = Len(sel)
    BY <1>1
  <1>3. \A n \in 1..N :
          /\ IsPrim(sel[n]) \/ IsVariant(sel[n])
          /\ IsVariant(sel[n]) /\ n + 1 <= N => IsPrim(sel[n + 1])
          /\ IsVariant(sel[n]) => \/ StripTo(sel, n) = ContainerPrimPath
                                  \/ ~HasPrefix(PrototypesPath, StripTo(sel, n))
    <2>1. TAKE n \in 1..N
    <2>2. n \in DOMAIN sel /\ (n + 1 <= N => n < Len(sel))
      BY <1>1, <1>2
    <2> QED BY <2>2 DEF Ordinary, StripTo
  <1>4. Plain(sel)
    BY <1>2, <1>3 DEF Plain, Spaced
  <1>5. ASSUME NEW prim, NEW node, SelectsOn(sel, prim, node)
        PROVE  prim = ContainerPrimPath \/ ~Begins(PrototypesPath, prim)
    <2>1. PICK n \in 1..N : IsVariant(sel[n]) /\ StripTo(sel, n) = prim
      BY <1>2, <1>5 DEF SelectsOn
    <2>2. prim \in Seq(Node) /\ PrototypesPath \in Seq(Node)
      <3>1. PrimSteps(sel, Node) /\ n \in 0..Len(sel)
        BY <1>1, <1>2, StripSteps
      <3> QED BY <2>1, <3>1, PrototypesNodes DEF PrimSteps
    <2>3. HasPrefix(PrototypesPath, prim) <=> Begins(PrototypesPath, prim)
      BY <2>2, PrefixIs
    <2> QED BY <1>3, <2>1, <2>3
  <1> QED BY <1>4, <1>5 DEF OwnVariants

\* The forms in which a path may write a container variant.
LEMMA ContainerElisions ==
  ASSUME NEW v \in Variant
  PROVE  /\ FullPath(v, ContainerPrimPath) = ContainerUnder(v)
         /\ ContainerUnder(v) \in Elisions(ContainerUnder(v))
         /\ ContainerPrimPath \in Elisions(ContainerUnder(v))
  <1>1. PICK path \in Seq(Node) : path = ContainerUnder(v)
    BY UnderVariant DEF Path
  <1>2. PICK b \in Seq(Node) : b = ContainerPrimPath
    BY ContainerNodes
  <1>3. FullPath(v, ContainerPrimPath) = path
    <2>1. Begins(b, b)
      BY DEF Begins
    <2>2. HasPrefix(b, b)
      BY <2>1, PrefixIs
    <2>3. PICK c \in Nat : c = Len(b)
      OBVIOUS
    <2>4. SubSeq(b, c + 1, c) = << >>
      BY <2>3
    <2>5. path \o << >> = path
      OBVIOUS
    <2> QED BY <1>1, <1>2, <2>2, <2>3, <2>4, <2>5 DEF FullPath, ReplacePrefix
  <1>4. path \in Elisions(path)
    <2>1. Without(path, {}) = path
      BY NothingDropped
    <2> QED BY <2>1 DEF Elisions
  <1>5. b \in Elisions(path)
    <2>1. Without(path, VariantPlaces(path)) = Strip(path)
      BY StripDrops
    <2>2. Strip(b) = b
      BY <1>2, ContainerNodes, StripPrims
    <2>3. Strip(path) = b
      <3>1. CASE v = NoVariant
        BY <1>1, <1>2, <2>2, <3>1 DEF ContainerUnder
      <3>2. CASE v # NoVariant
        <4>1. v \in Name \X Name
          BY <3>2, RemeshAssumption DEF Variant
        <4>2. v \in Node /\ IsVariant(v)
          BY <4>1, VariantNode
        <4>3. path = Append(b, v)
          BY <1>1, <1>2, <3>2 DEF ContainerUnder
        <4> QED BY <2>2, <4>2, <4>3, StripAppend
      <3> QED BY <3>1, <3>2
    <2> QED BY <2>1, <2>3 DEF Elisions
  <1> QED BY <1>1, <1>2, <1>3, <1>4, <1>5

\* The filter on variants lets through nothing but what a path names.
LEMMA SelectedIsNamed ==
  ASSUME NEW v \in ContainerVariants, selected \in SUBSET Path, \A sel \in selected : Plain(sel),
         VariantSelected(selected, v)
  PROVE  Names(v, ContainerPrimPath)
  <1>1. v \in Variant /\ v # NoVariant
    <2>1. v \in Name \X Name
      BY RemeshAssumption
    <2>2. Len(v) = 2
      BY <2>1, PairSeq
    <2>3. Len(NoVariant) = 0
      BY DEF NoVariant, NoNode
    <2> QED BY <2>2, <2>3 DEF Variant
  <1>2. CASE selected = {}
    BY <1>2 DEF Names
  <1>3. CASE selected # {}
    <2>1. PICK a \in Seq(Node), b \in Seq(Node), c \in Nat :
            a = ContainerUnder(v) /\ b = ContainerPrimPath /\ c = Len(b)
      BY <1>1, UnderVariant, ContainerNodes DEF Path
    <2>2. Begins(a, b) /\ Len(a) = c + 1 /\ IsVariant(a[c + 1])
      BY <1>1, <2>1, UnderVariant
    <2>3. PICK sel \in selected :
            \/ Related(sel, a)
            \/ /\ Related(sel, b)
               /\ \A p \in PrefixesOf(sel) : Strip(p) = b => p = b \/ p = a
      BY <1>3, <2>1 DEF VariantSelected
    <2>4. PICK q \in Seq(Node), N \in Nat : q = sel /\ N = Len(q)
      BY DEF Path
    <2>5. Plain(q)
      BY <2>4
    <2>6. /\ HasPrefix(q, a) <=> Begins(q, a)
          /\ HasPrefix(a, q) <=> Begins(a, q)
          /\ HasPrefix(q, b) <=> Begins(q, b)
          /\ HasPrefix(b, q) <=> Begins(b, q)
      BY PrefixIs
    <2>7. a \in Elisions(FullPath(v, b)) /\ b \in Elisions(FullPath(v, b))
      BY <1>1, <2>1, ContainerElisions
    <2>8. ASSUME \/ HasPrefix(a, q) \/ HasPrefix(b, q)
                 \/ HasPrefix(q, a) /\ Len(q) > Len(a) /\ IsPrim(q[Len(a) + 1])
                 \/ HasPrefix(q, b) /\ Len(q) > Len(b) /\ IsPrim(q[Len(b) + 1])
          PROVE  Names(v, ContainerPrimPath)
      BY <2>1, <2>4, <2>7, <2>8 DEF Names, FullPath
    <2>9. CASE Begins(a, q) \/ Begins(b, q)
      BY <2>6, <2>8, <2>9
    <2>10. CASE Begins(q, a)
      <3>1. CASE N = c + 1
        <4>1. Begins(a, q)
          BY <2>2, <2>4, <2>10, <3>1 DEF Begins
        <4> QED BY <2>9, <4>1
      <3>2. CASE N # c + 1
        <4>1. c + 1 \in 1..Len(q) /\ (c + 1) + 1 <= Len(q) /\ IsVariant(q[c + 1])
          BY <2>2, <2>4, <2>10, <3>2 DEF Begins
        <4>2. IsPrim(q[(c + 1) + 1])
          BY <2>5, <4>1 DEF Plain, Spaced
        <4>3. Len(q) > Len(a) /\ IsPrim(q[Len(a) + 1])
          BY <2>2, <2>4, <4>1, <4>2
        <4> QED BY <2>6, <2>8, <2>10, <4>3
      <3> QED BY <3>1, <3>2
    <2>11. CASE Begins(q, b) /\ ~Begins(b, q) /\ \A p \in PrefixesOf(q) : Strip(p) = b => p = b \/ p = a
      <3>1. N >= c + 1
        <4>1. N # c
          <5> SUFFICES ASSUME N = c PROVE Begins(b, q)
            BY <2>11
          <5> QED BY <2>1, <2>4, <2>11 DEF Begins
        <4>2. c <= N
          BY <2>1, <2>4, <2>11 DEF Begins
        <4> QED BY <4>1, <4>2
      <3>2. c + 1 \in 1..Len(q) /\ c + 1 \in 0..Len(q)
        BY <2>4, <3>1
      <3>3. IsPrim(q[c + 1]) \/ IsVariant(q[c + 1])
        BY <2>5, <3>2 DEF Plain
      <3>4. CASE IsPrim(q[c + 1])
        <4>1. Len(q) > Len(b) /\ IsPrim(q[Len(b) + 1])
          BY <2>1, <2>4, <3>1, <3>4
        <4> QED BY <2>6, <2>8, <2>11, <4>1
      <3>5. CASE IsVariant(q[c + 1])
        <4>1. PICK p \in Seq(Node) : p = SubSeq(q, 1, c + 1)
          BY <3>2, FirstNodes
        <4>2. Len(p) = c + 1 /\ \A k \in 1..(c + 1) : p[k] = q[k]
          BY <3>2, <4>1, FirstNodes
        <4>3. Strip(p) = b
          <5>1. StripTo(q, c + 1) = StripTo(q, (c + 1) - 1)
            <6>1. PrimSteps(q, Node)
              BY StripSteps
            <6> QED BY <3>2, <3>5, <6>1 DEF PrimSteps
          <5>2. c \in 0..Len(b)
            BY <2>1
          <5>3. StripTo(q, c) = StripTo(b, c)
            BY <2>11, <5>2, FirstSame
          <5>4. StripTo(b, c) = Strip(b)
            BY <2>1, StripIs
          <5>5. Strip(b) = b
            BY <2>1, ContainerNodes, StripPrims
          <5>6. (c + 1) - 1 = c
            OBVIOUS
          <5> QED BY <4>1, <5>1, <5>3, <5>4, <5>5, <5>6 DEF StripTo
        <4>4. p \in PrefixesOf(q)
          BY <3>2, <4>1 DEF PrefixesOf
        <4>5. p = a
          <5>1. p # b
            BY <2>1, <4>2
          <5> QED BY <2>11, <4>3, <4>4, <5>1
        <4>6. Begins(q, a)
          BY <2>4, <3>1, <4>2, <4>5 DEF Begins
        <4> QED BY <2>10, <4>6
      <3> QED BY <3>3, <3>4, <3>5
    <2>12. \/ Begins(a, q) \/ Begins(b, q) \/ Begins(q, a)
           \/ Begins(q, b) /\ ~Begins(b, q) /\ \A p \in PrefixesOf(q) : Strip(p) = b => p = b \/ p = a
      BY <2>3, <2>4, <2>6 DEF Related
    <2> QED BY <2>9, <2>10, <2>11, <2>12
  <1> QED BY <1>2, <1>3
---------------------------------------------------------------------------
\* What a run takes on depends on its selection only.
LEMMA SameRun ==
  ASSUME UNCHANGED selected
  PROVE  /\ Inits' = Inits /\ Duplicate' = Duplicate
         /\ ValidSelection(selected, VariantsOf)' = ValidSelection(selected, VariantsOf)
         /\ \A v \in Variant, j \in JobPaths :
              PrototypeActive(selected, j, v)' = PrototypeActive(selected, j, v)
  BY DEF Inits, Duplicate

LEMMA AgedGeometry ==
  ASSUME NEW s \in StageRecord \cup {NoStage}, NEW j \in JobPaths, Aged(s) # NoStage
  PROVE  Old(Aged(s).geometry[j])
  <1>1. s # NoStage
    BY DEF Aged
  <1>2. s \in StageRecord
    BY <1>1
  <1> DEFINE g == [k \in JobPaths |-> IF s.geometry[k] = NoGeometry THEN NoGeometry
                                      ELSE [s.geometry[k] EXCEPT !.made = "before"]]
  <1>3. Aged(s) = [s EXCEPT !.geometry = g]
    BY <1>1 DEF Aged
  <1>4. Aged(s).geometry = g
    <2>1. s = [unit |-> s.unit, prims |-> s.prims, assembly |-> s.assembly, geometry |-> s.geometry]
      BY <1>2 DEF StageRecord
    <2> HIDE DEF g
    <2> QED BY <1>3, <2>1
  <1>5. s.geometry[j] = NoGeometry \/ s.geometry[j] \in [made : {"before", "now"}, unit : Unit]
    BY <1>2 DEF StageRecord
  <1>6. g[j] = NoGeometry \/ g[j].made = "before"
    BY <1>5
  <1> QED BY <1>4, <1>6 DEF Old

LEMMA InitRemesh == Init => RemeshInv
  <1> SUFFICES ASSUME Init PROVE RemeshInv
    OBVIOUS
  <1>1. IInv
    BY InitInv
  <1>2. RunInv /\ OutcomeInv
    BY DEF Init, RunInv, OutcomeInv, NoLayers
  <1> QED BY <1>1, <1>2 DEF RemeshInv

LEMMA StartRemesh ==
  ASSUME IInv, Start
  PROVE  RunInv' /\ OutcomeInv'
  <1>1. /\ phase' = "validate" /\ todo' = {} /\ prototypes' = << >>
        /\ disk' = [f \in File |-> Aged(disk[f])]
    BY DEF Start
  <1>2. RunInv'
    BY <1>1 DEF RunInv
  <1>3. \A f \in File : disk[f] \in StageRecord \cup {NoStage}
    BY DEF IInv, TypeOK
  <1>4. \A f \in File : disk'[f] # NoStage => \A j \in JobPaths : Old(disk'[f].geometry[j])
    BY <1>1, <1>3, AgedGeometry
  <1>5. OutcomeInv'
    BY <1>1, <1>4 DEF OutcomeInv
  <1> QED BY <1>2, <1>5

LEMMA KillRemesh ==
  ASSUME Kill
  PROVE  RunInv' /\ OutcomeInv'
  BY DEF Kill, RunInv, OutcomeInv

\* No two of the stages a run opens have the same file.
LEMMA FilesApart ==
  ASSUME IInv, RunInv, NEW i \in DOMAIN prototypes, NEW k \in DOMAIN prototypes, i # k
  PROVE  FileOf(i) # FileOf(k)
  <1>1. prototypes[i].variant \in Inits /\ prototypes[k].variant \in Inits
        /\ prototypes[i].variant # prototypes[k].variant
    BY DEF RunInv
  <1>2. prototypes # << >>
    OBVIOUS
  <1>3. ~Duplicate
    BY <1>2 DEF RunInv
  <1> QED BY <1>1, <1>3 DEF Duplicate, FileOf

\* What is opened holds no geometry of this run.
LEMMA OpenedOld ==
  ASSUME IInv, OutcomeInv, phase = "containers", NEW v \in Variant, OutputAsset[v] # NoFile,
         NEW j \in JobPaths
  PROVE  Old(Opened(v).geometry[j])
  <1>1. OutputAsset[v] \in File
    BY FileOfVariant
  <1> DEFINE s == disk[OutputAsset[v]]
  <1>2. CASE s = NoStage \/ Rebuilt(v)
    BY <1>2 DEF Opened, EmptyStage, Old
  <1>3. CASE ~(s = NoStage \/ Rebuilt(v))
    <2>1. s \in StageRecord
      BY <1>1, <1>3 DEF IInv, TypeOK
    <2>2. Opened(v) = [s EXCEPT !.unit = unit]
      BY <1>3 DEF Opened
    <2>3. Opened(v).geometry = s.geometry
      BY <2>1, <2>2 DEF StageRecord
    <2> QED BY <1>1, <1>3, <2>3 DEF OutcomeInv
  <1> QED BY <1>2, <1>3

LEMMA OpenStageRemesh ==
  ASSUME RemeshInv, NEW v \in Variant, OpenStage(v)
  PROVE  RunInv' /\ OutcomeInv'
  <1> USE DEF RemeshInv
  <1> DEFINE n == Len(prototypes) + 1
             new == [variant |-> v, fresh |-> Rebuilt(v)]
             file == OutputAsset[v]
  <1>1. /\ phase = "containers" /\ phase' = phase /\ file # NoFile /\ v \in todo
        /\ todo' = todo \ {v}
        /\ layer' = [layer EXCEPT ![file] = Opened(v)]
        /\ disk' = [disk EXCEPT ![file] = Opened(v)]
        /\ prototypes' = Append(prototypes, new)
        /\ UNCHANGED <<selected, unit, built, outcome, written>>
    BY DEF OpenStage
  <1>2. file \in File
    BY <1>1, FileOfVariant
  <1>3. new.variant = v
    OBVIOUS
  <1>4. prototypes \in Seq([variant : Variant, fresh : BOOLEAN]) /\ built = 0 /\ written = 0
    BY <1>1 DEF IInv, TypeOK, ProgressInv
  <1> HIDE DEF new
  <1>5. /\ DOMAIN prototypes' = DOMAIN prototypes \cup {n} /\ n \notin DOMAIN prototypes
        /\ \A i \in DOMAIN prototypes : prototypes'[i] = prototypes[i]
        /\ prototypes'[n] = new /\ n > 0 /\ \A i \in DOMAIN prototypes : i > 0
    BY <1>1, <1>4
  <1>6. Inits' = Inits /\ Duplicate' = Duplicate
        /\ ValidSelection(selected, VariantsOf)' = ValidSelection(selected, VariantsOf)
    BY <1>1, SameRun
  <1>7. RunInv'
    <2>1. todo' \subseteq Inits /\ v \in Inits
      BY <1>1 DEF RunInv
    <2>2. \A i \in DOMAIN prototypes : prototypes[i].variant \in Inits \ todo
      BY DEF RunInv
    <2>3. \A i \in DOMAIN prototypes' : prototypes'[i].variant \in Inits \ todo'
      BY <1>1, <1>3, <1>5, <2>1, <2>2
    <2>4. \A i, k \in DOMAIN prototypes' : i # k => prototypes'[i].variant # prototypes'[k].variant
      BY <1>1, <1>3, <1>5, <2>2 DEF RunInv
    <2>5. ~Duplicate /\ ValidSelection(selected, VariantsOf)
      BY <1>1 DEF RunInv
    <2> QED BY <1>1, <1>6, <2>1, <2>3, <2>4, <2>5 DEF RunInv
  <1>8. /\ layer'[file] = Opened(v) /\ disk'[file] = Opened(v)
        /\ \A f \in File \ {file} : layer'[f] = layer[f] /\ disk'[f] = disk[f]
    BY <1>1, <1>2 DEF IInv, TypeOK
  <1>9. \A j \in JobPaths : Old(Opened(v).geometry[j])
    BY <1>1, OpenedOld
  <1>10. \A f \in File : disk'[f] # NoStage => \A j \in JobPaths : Old(disk'[f].geometry[j])
    BY <1>1, <1>8, <1>9 DEF OutcomeInv
  <1>11. ASSUME NEW i \in DOMAIN prototypes', NEW j \in JobPaths
         PROVE  Old(layer'[FileOf(i)'].geometry[j])
    <2>1. CASE FileOf(i)' = file
      BY <1>8, <1>9, <2>1
    <2>2. CASE FileOf(i)' # file
      <3>1. i \in DOMAIN prototypes /\ FileOf(i)' = FileOf(i)
        BY <1>3, <1>5, <2>2 DEF FileOf
      <3>2. FileOf(i) \in File \ {file}
        BY <2>2, <3>1, FilesOfPrototypes DEF IInv
      <3>3. Old(layer[FileOf(i)].geometry[j])
        BY <1>4, <1>5, <3>1 DEF OutcomeInv
      <3> QED BY <1>8, <3>1, <3>2, <3>3
    <2> QED BY <2>1, <2>2
  <1>12. \A i \in DOMAIN prototypes' : ~(i <= built') /\ ~(i <= written')
    BY <1>1, <1>4, <1>5
  <1>13. OutcomeInv'
    BY <1>1, <1>10, <1>11, <1>12 DEF OutcomeInv
  <1> QED BY <1>7, <1>13

LEMMA BuildStageRemesh ==
  ASSUME RemeshInv, BuildStage
  PROVE  RunInv' /\ OutcomeInv'
  <1> USE DEF RemeshInv
  <1> DEFINE n == built + 1
             file == FileOf(n)
             fresh == prototypes[n].fresh
             s == layer[file]
             prims == [p \in Prototype |-> AuthoredPrim(s.prims[p], fresh)]
             assembly == s.assembly \/ fresh \/ AssemblyActive(selected, ContainerPrimPath)
             new == [s EXCEPT !.prims = prims, !.assembly = assembly]
  <1>1. /\ phase = "build" /\ phase' = phase /\ built < Len(prototypes) /\ built' = n
        /\ layer' = [layer EXCEPT ![file].prims = [p \in Prototype |-> AuthoredPrim(@[p], fresh)],
                                  ![file].assembly = @ \/ fresh \/ AssemblyActive(selected, ContainerPrimPath)]
        /\ UNCHANGED <<selected, unit, todo, prototypes, outcome, written, disk>>
    BY DEF BuildStage
  <1>2. /\ built \in 0..Len(prototypes)
        /\ layer \in [File -> StageRecord \cup {NoStage}]
    BY DEF IInv, TypeOK
  <1>3. n \in DOMAIN prototypes
    BY <1>1, <1>2 DEF IInv, TypeOK
  <1>4. file \in File /\ s \in StageRecord
    BY <1>3, FilesOfPrototypes DEF IInv, UnitInv
  <1>5. layer' = [layer EXCEPT ![file] = new]
    BY <1>1, <1>2, <1>4
  <1> HIDE DEF prims, assembly
  <1>6. new.geometry = s.geometry
    BY <1>4 DEF StageRecord
  <1> HIDE DEF new
  <1>7. \A f \in File : layer'[f].geometry = layer[f].geometry
    BY <1>2, <1>4, <1>5, <1>6
  <1>8. Inits' = Inits /\ Duplicate' = Duplicate
        /\ ValidSelection(selected, VariantsOf)' = ValidSelection(selected, VariantsOf)
    BY <1>1, SameRun
  <1>9. RunInv'
    BY <1>1, <1>8 DEF RunInv
  <1>10. \A i \in DOMAIN prototypes : FileOf(i)' = FileOf(i) /\ FileOf(i) \in File
    BY <1>1, FilesOfPrototypes DEF IInv, FileOf
  <1>11. OutcomeInv'
    BY <1>1, <1>7, <1>10 DEF OutcomeInv
  <1> QED BY <1>9, <1>11

LEMMA TessellateRemesh ==
  ASSUME RemeshInv, Tessellate
  PROVE  RunInv' /\ OutcomeInv'
  <1> USE DEF RemeshInv
  <1>1. /\ phase = "tessellate" /\ phase' = "write"
        /\ UNCHANGED <<selected, unit, todo, prototypes, built, written, layer, disk>>
    BY DEF Tessellate
  <1>2. Inits' = Inits /\ Duplicate' = Duplicate
        /\ ValidSelection(selected, VariantsOf)' = ValidSelection(selected, VariantsOf)
        /\ \A v \in Variant, j \in JobPaths :
             PrototypeActive(selected, j, v)' = PrototypeActive(selected, j, v)
    BY <1>1, SameRun
  <1>3. RunInv'
    BY <1>1, <1>2 DEF RunInv
  <1>4. \A i \in DOMAIN prototypes : i > written /\ ~(i <= written)
    BY <1>1 DEF IInv, TypeOK, ProgressInv
  <1>5. PICK failing \in SUBSET JobPaths :
          outcome' = [v \in Variant |-> [j \in JobPaths |->
            IF j \notin ActiveJobs(v) THEN "none" ELSE IF j \in failing THEN "failed" ELSE "made"]]
    BY DEF Tessellate
  <1>6. ASSUME NEW i \in DOMAIN prototypes, i <= built, NEW j \in JobPaths,
               PrototypeActive(selected, j, prototypes[i].variant)
        PROVE  outcome'[prototypes[i].variant][j] # "none"
    <2>1. prototypes[i].variant \in Variant
      BY FilesOfPrototypes DEF IInv
    <2>2. i \in 1..built
      BY <1>6 DEF IInv, TypeOK
    <2>3. j \in ActiveJobs(prototypes[i].variant)
      BY <1>6, <2>2 DEF ActiveJobs
    <2> QED BY <1>5, <2>1, <2>3
  <1>7. \A i \in DOMAIN prototypes : prototypes[i].variant \in Variant /\ FileOf(i)' = FileOf(i)
    BY <1>1, FilesOfPrototypes DEF IInv, FileOf
  <1>8. ASSUME NEW i \in DOMAIN prototypes, NEW j \in JobPaths
        PROVE  Old(layer[FileOf(i)].geometry[j]) /\ ~(i <= written)
    BY <1>4 DEF OutcomeInv
  <1>9. OutcomeInv'
    BY <1>1, <1>2, <1>6, <1>7, <1>8 DEF OutcomeInv
  <1> QED BY <1>3, <1>9

LEMMA WriteStageRemesh ==
  ASSUME RemeshInv, WriteStage
  PROVE  RunInv' /\ OutcomeInv'
  <1> USE DEF RemeshInv
  <1> DEFINE n == written + 1
             file == FileOf(n)
             v == prototypes[n].variant
             s == layer[file]
             g == [j \in JobPaths |-> WrittenGeometry(v, j, s.geometry[j])]
             new == [s EXCEPT !.geometry = g]
  <1>1. /\ phase = "write" /\ phase' = phase /\ written < Len(prototypes) /\ written' = n
        /\ layer' = [layer EXCEPT ![file].geometry =
                       [j \in JobPaths |-> WrittenGeometry(v, j, @[j])]]
        /\ UNCHANGED <<selected, unit, todo, prototypes, built, outcome>>
    BY DEF WriteStage
  <1>2. /\ written \in 0..Len(prototypes)
        /\ layer \in [File -> StageRecord \cup {NoStage}]
    BY DEF IInv, TypeOK
  <1>3. n \in DOMAIN prototypes /\ \A i \in DOMAIN prototypes : i \in Nat
    BY <1>1, <1>2 DEF IInv, TypeOK
  <1>4. file \in File /\ v \in Variant /\ s \in StageRecord
    BY <1>3, FilesOfPrototypes DEF IInv, UnitInv
  <1>5. layer' = [layer EXCEPT ![file] = new]
    BY <1>1, <1>2, <1>4
  <1>6. ASSUME NEW j \in JobPaths
        PROVE  /\ outcome[v][j] = "made" => g[j] = [made |-> "now", unit |-> unit]
               /\ outcome[v][j] = "failed" => Old(g[j])
    <2>1. Old(s.geometry[j])
      BY <1>2, <1>3 DEF OutcomeInv
    <2> QED BY <2>1 DEF WrittenGeometry, Old
  <1> HIDE DEF g
  <1>7. new.geometry = g
    BY <1>4 DEF StageRecord
  <1> HIDE DEF new
  <1>8. layer'[file].geometry = g /\ \A f \in File \ {file} : layer'[f] = layer[f]
    BY <1>2, <1>4, <1>5, <1>7
  <1>9. Inits' = Inits /\ Duplicate' = Duplicate
        /\ ValidSelection(selected, VariantsOf)' = ValidSelection(selected, VariantsOf)
        /\ \A w \in Variant, j \in JobPaths :
             PrototypeActive(selected, j, w)' = PrototypeActive(selected, j, w)
    BY <1>1, SameRun
  <1>10. RunInv'
    BY <1>1, <1>9 DEF RunInv
  <1>11. \A i \in DOMAIN prototypes :
           /\ prototypes[i].variant \in Variant
           /\ FileOf(i)' = FileOf(i) /\ FileOf(i) \in File
           /\ i # n => FileOf(i) # file
    BY <1>1, <1>3, FilesOfPrototypes, FilesApart DEF IInv, FileOf
  <1>12. ASSUME NEW i \in DOMAIN prototypes, NEW j \in JobPaths
         PROVE  LET w == prototypes[i].variant
                    geometry == layer'[FileOf(i)].geometry[j] IN
                  /\ i > n \/ outcome[w][j] = "failed" => Old(geometry)
                  /\ i <= n /\ outcome[w][j] = "made" => geometry = [made |-> "now", unit |-> unit]
    <2>1. CASE i = n
      <3>1. ~(i > n)
        BY <1>2, <2>1
      <3> QED BY <1>6, <1>8, <2>1, <3>1
    <2>2. CASE i # n
      <3>1. layer'[FileOf(i)] = layer[FileOf(i)]
        BY <1>8, <1>11, <2>2
      <3>2. (i > n => i > written) /\ (i <= n => i <= written)
        BY <1>2, <1>3, <2>2
      <3> QED BY <3>1, <3>2 DEF OutcomeInv
    <2> QED BY <2>1, <2>2
  <1>13. \A i \in DOMAIN prototypes, j \in JobPaths :
           i <= built /\ PrototypeActive(selected, j, prototypes[i].variant) =>
             outcome[prototypes[i].variant][j] # "none"
    BY <1>1 DEF OutcomeInv
  <1>14. OutcomeInv'
    BY <1>1, <1>9, <1>11, <1>12, <1>13 DEF OutcomeInv
  <1> QED BY <1>10, <1>14

\* A step that changes no layer, no file and no outcome.
LEMMA QuietRemesh ==
  ASSUME RemeshInv,
         UNCHANGED <<selected, unit, prototypes, built, outcome, written, layer, disk>>,
         phase' \in {"validate", "containers"} => phase \in {"validate", "containers"},
         phase' \in {"write", "done"} => phase \in {"write", "done"} \/ prototypes = << >>,
         phase' # "containers" => todo' = {}, todo' \subseteq todo
  PROVE  RunInv' /\ OutcomeInv'
  <1> USE DEF RemeshInv
  <1>1. Inits' = Inits /\ Duplicate' = Duplicate
        /\ ValidSelection(selected, VariantsOf)' = ValidSelection(selected, VariantsOf)
        /\ \A v \in Variant, j \in JobPaths :
             PrototypeActive(selected, j, v)' = PrototypeActive(selected, j, v)
    BY SameRun
  <1>2. RunInv'
    BY <1>1 DEF RunInv
  <1>3. \A i \in DOMAIN prototypes : prototypes[i].variant \in Variant /\ FileOf(i)' = FileOf(i)
    BY FilesOfPrototypes DEF IInv, FileOf
  <1>4. OutcomeInv'
    BY <1>1, <1>3 DEF OutcomeInv
  <1> QED BY <1>2, <1>4

LEMMA NextRemesh ==
  ASSUME RemeshInv, [Next]_vars
  PROVE  RemeshInv'
  <1> USE DEF RemeshInv
  <1>1. IInv'
    BY NextInv
  <1>2. CASE Start
    BY <1>1, <1>2, StartRemesh
  <1>3. CASE Refuse
    BY <1>1, <1>3, QuietRemesh DEF Refuse, IInv, ProgressInv, RunInv
  <1>4. CASE ResolveContainers
    <2>1. /\ phase = "validate" /\ phase' = "containers" /\ ValidSelection(selected, VariantsOf)
          /\ todo' = IF Duplicate THEN {} ELSE Inits
          /\ UNCHANGED <<selected, unit, prototypes, built, outcome, written, layer, disk>>
      BY <1>4 DEF ResolveContainers
    <2>2. prototypes = << >>
      BY <2>1 DEF IInv, ProgressInv
    <2>3. Inits' = Inits /\ Duplicate' = Duplicate
          /\ ValidSelection(selected, VariantsOf)' = ValidSelection(selected, VariantsOf)
      BY <2>1, SameRun
    <2>4. RunInv'
      BY <2>1, <2>2, <2>3 DEF RunInv
    <2>5. OutcomeInv'
      BY <2>1, <2>2 DEF OutcomeInv
    <2> QED BY <1>1, <2>4, <2>5
  <1>5. ASSUME NEW v \in Variant, OpenStage(v) PROVE RemeshInv'
    BY <1>1, <1>5, OpenStageRemesh
  <1>6. ASSUME NEW v \in Variant, SkipStage(v) \/ GiveUpStages(v) PROVE RemeshInv'
    BY <1>1, <1>6, QuietRemesh DEF SkipStage, GiveUpStages
  <1>7. CASE StagesOpened \/ StagesBuilt \/ Return
    BY <1>1, <1>7, QuietRemesh DEF StagesOpened, StagesBuilt, Return, RunInv
  <1>8. CASE BuildStage
    BY <1>1, <1>8, BuildStageRemesh
  <1>9. CASE Tessellate
    BY <1>1, <1>9, TessellateRemesh
  <1>10. CASE WriteStage
    BY <1>1, <1>10, WriteStageRemesh
  <1>11. CASE Kill
    BY <1>1, <1>11, KillRemesh
  <1>12. CASE UNCHANGED vars
    BY <1>1, <1>12, QuietRemesh DEF vars, RunInv
  <1> QED
    BY <1>2, <1>3, <1>4, <1>5, <1>6, <1>7, <1>8, <1>9, <1>10, <1>11, <1>12 DEF Next, RunStep

LEMMA RemeshInvariance == Spec => []RemeshInv
  BY InitRemesh, NextRemesh, PTL DEF Spec

LEMMA RecordIsStage ==
  ASSUME NEW s \in StageRecord
  PROVE  s # NoStage
  <1>1. s = [unit |-> s.unit, prims |-> s.prims, assembly |-> s.assembly, geometry |-> s.geometry]
    BY DEF StageRecord
  <1>2. "unit" \in DOMAIN s
    BY <1>1
  <1>3. DOMAIN NoStage = {}
    BY DEF NoStage
  <1> QED BY <1>2, <1>3

LEMMA PathsSelected ==
  ASSUME TypeOK
  PROVE  selected \in SUBSET Path
  BY RemeshAssumption DEF TypeOK

\* Whatever the -p paths name, in whichever form, and whatever runs came before: every
\* stage that a finished run opened and built has new geometry for each job named,
\* unless its tessellation failed.
THEOREM NamedJobsRemeshed == Spec => []NamedIsRemeshed
  <1>1. RemeshInv => NamedIsRemeshed
    <2> SUFFICES ASSUME RemeshInv, phase = "done", NEW i \in 1..built, NEW j \in JobPaths,
                        Names(prototypes[i].variant, j)
                 PROVE  LET v == prototypes[i].variant IN
                          IF outcome[v][j] = "failed"
                          THEN GeometryOn(v, j) # [made |-> "now", unit |-> unit]
                          ELSE GeometryOn(v, j) = [made |-> "now", unit |-> unit]
      BY DEF NamedIsRemeshed
    <2> DEFINE v == prototypes[i].variant
               geometry == layer[FileOf(i)].geometry[j]
    <2>1. i \in DOMAIN prototypes /\ i <= written /\ i <= built
      BY DEF RemeshInv, IInv, TypeOK, ProgressInv
    <2>2. v \in Variant
      BY <2>1, FilesOfPrototypes DEF RemeshInv, IInv
    <2>3. PrototypeActive(selected, j, v)
      BY <2>2, PathsSelected, NamedIsActive DEF RemeshInv, IInv
    <2>4. outcome[v][j] \in {"failed", "made"}
      BY <2>1, <2>2, <2>3 DEF RemeshInv, IInv, TypeOK, OutcomeInv
    <2>5. GeometryOn(v, j) = geometry
      <3>1. disk[FileOf(i)] = layer[FileOf(i)] /\ layer[FileOf(i)] \in StageRecord
        BY <2>1 DEF RemeshInv, IInv, RepairInv, UnitInv
      <3>2. layer[FileOf(i)] # NoStage
        BY <3>1, RecordIsStage
      <3> QED BY <3>1, <3>2 DEF GeometryOn, FileOf
    <2>6. CASE outcome[v][j] = "made"
      BY <2>1, <2>5, <2>6 DEF RemeshInv, OutcomeInv
    <2>7. CASE outcome[v][j] = "failed"
      <3>1. Old(geometry)
        BY <2>1, <2>7 DEF RemeshInv, OutcomeInv
      <3>2. geometry = NoGeometry \/ geometry.made = "before"
        BY <3>1 DEF Old
      <3>3. [made |-> "now", unit |-> unit] # NoGeometry
        BY DEF NoGeometry
      <3>4. [made |-> "now", unit |-> unit].made = "now"
        OBVIOUS
      <3>5. geometry # [made |-> "now", unit |-> unit]
        BY <3>2, <3>3, <3>4
      <3> QED BY <2>5, <2>7, <3>5
    <2> QED BY <2>4, <2>6, <2>7
  <1> QED BY <1>1, RemeshInvariance, PTL

\* No selection that a run accepts names a job of a container variant that the run then
\* passes over.
THEOREM NamedVariantsReached == Spec => []NamedVariantReached
  <1>1. IInv => NamedVariantReached
    BY PathsSelected, NamedIsReached DEF IInv, NamedVariantReached
  <1> QED BY <1>1, Invariance, PTL

---------------------------------------------------------------------------
\* A run takes up the jobs its filter lets through and no others, and the geometry it has
\* in memory is that of its files.
SavedInv ==
  /\ \A v \in Variant, j \in JobPaths : outcome[v][j] # "none" => PrototypeActive(selected, j, v)
  /\ \A i \in DOMAIN prototypes :
       /\ disk[FileOf(i)] # NoStage
       /\ disk[FileOf(i)].geometry = layer[FileOf(i)].geometry

LEMMA NoneMade ==
  ASSUME outcome' = NoOutcome, prototypes' = << >>
  PROVE  SavedInv'
  BY DEF SavedInv, NoOutcome

LEMMA QuietSaved ==
  ASSUME IInv, SavedInv, UNCHANGED <<selected, prototypes, outcome, layer, disk>>
  PROVE  SavedInv'
  <1>1. \A v \in Variant, j \in JobPaths :
          PrototypeActive(selected, j, v)' = PrototypeActive(selected, j, v)
    BY SameRun
  <1>2. \A i \in DOMAIN prototypes : FileOf(i)' = FileOf(i)
    BY DEF FileOf
  <1> QED BY <1>1, <1>2 DEF SavedInv

\* What is opened is a stage.
LEMMA OpenedIsStage ==
  ASSUME IInv, NEW v \in Variant, OutputAsset[v] # NoFile
  PROVE  Opened(v) \in StageRecord
  <1>1. disk[OutputAsset[v]] \in StageRecord \cup {NoStage} /\ unit \in Unit
    BY FileOfVariant DEF IInv, TypeOK
  <1>2. CASE disk[OutputAsset[v]] = NoStage \/ Rebuilt(v)
    BY <1>1, <1>2, NewStage DEF Opened
  <1>3. CASE ~(disk[OutputAsset[v]] = NoStage \/ Rebuilt(v))
    BY <1>1, <1>3 DEF Opened, StageRecord
  <1> QED BY <1>2, <1>3

LEMMA OpenStageSaved ==
  ASSUME RemeshInv, SavedInv, NEW v \in Variant, OpenStage(v)
  PROVE  SavedInv'
  <1> DEFINE n == Len(prototypes) + 1
             new == [variant |-> v, fresh |-> Rebuilt(v)]
             file == OutputAsset[v]
  <1>1. /\ file # NoFile
        /\ layer' = [layer EXCEPT ![file] = Opened(v)]
        /\ disk' = [disk EXCEPT ![file] = Opened(v)]
        /\ prototypes' = Append(prototypes, new)
        /\ UNCHANGED <<selected, outcome>>
    BY DEF OpenStage
  <1>2. file \in File /\ Opened(v) # NoStage
    BY <1>1, FileOfVariant, OpenedIsStage, RecordIsStage DEF RemeshInv
  <1>3. new.variant = v
    OBVIOUS
  <1>4. prototypes \in Seq([variant : Variant, fresh : BOOLEAN])
    BY DEF RemeshInv, IInv, TypeOK
  <1> HIDE DEF new
  <1>5. /\ DOMAIN prototypes' = DOMAIN prototypes \cup {n}
        /\ \A i \in DOMAIN prototypes : prototypes'[i] = prototypes[i]
        /\ prototypes'[n] = new
    BY <1>1, <1>4
  <1>6. /\ layer'[file] = Opened(v) /\ disk'[file] = Opened(v)
        /\ \A f \in File \ {file} : layer'[f] = layer[f] /\ disk'[f] = disk[f]
    BY <1>1, <1>2 DEF RemeshInv, IInv, TypeOK
  <1>7. ASSUME NEW i \in DOMAIN prototypes'
        PROVE  /\ disk'[FileOf(i)'] # NoStage
               /\ disk'[FileOf(i)'].geometry = layer'[FileOf(i)'].geometry
    <2>1. CASE FileOf(i)' = file
      BY <1>2, <1>6, <2>1
    <2>2. CASE FileOf(i)' # file
      <3>1. i \in DOMAIN prototypes /\ FileOf(i)' = FileOf(i)
        BY <1>3, <1>5, <2>2 DEF FileOf
      <3>2. FileOf(i) \in File \ {file}
        BY <2>2, <3>1, FilesOfPrototypes DEF RemeshInv, IInv
      <3> QED BY <1>6, <3>1, <3>2 DEF SavedInv
    <2> QED BY <2>1, <2>2
  <1>8. \A w \in Variant, j \in JobPaths : outcome'[w][j] # "none" => PrototypeActive(selected, j, w)'
    BY <1>1, SameRun DEF SavedInv
  <1> QED BY <1>7, <1>8 DEF SavedInv

LEMMA BuildStageSaved ==
  ASSUME RemeshInv, SavedInv, BuildStage
  PROVE  SavedInv'
  <1> DEFINE n == built + 1
             file == FileOf(n)
             fresh == prototypes[n].fresh
             s == layer[file]
             prims == [p \in Prototype |-> AuthoredPrim(s.prims[p], fresh)]
             assembly == s.assembly \/ fresh \/ AssemblyActive(selected, ContainerPrimPath)
             new == [s EXCEPT !.prims = prims, !.assembly = assembly]
  <1>1. /\ built < Len(prototypes)
        /\ layer' = [layer EXCEPT ![file].prims = [p \in Prototype |-> AuthoredPrim(@[p], fresh)],
                                  ![file].assembly = @ \/ fresh \/ AssemblyActive(selected, ContainerPrimPath)]
        /\ UNCHANGED <<selected, prototypes, outcome, disk>>
    BY DEF BuildStage
  <1>2. built \in 0..Len(prototypes) /\ layer \in [File -> StageRecord \cup {NoStage}]
    BY DEF RemeshInv, IInv, TypeOK
  <1>3. n \in DOMAIN prototypes
    BY <1>1, <1>2 DEF RemeshInv, IInv, TypeOK
  <1>4. file \in File /\ s \in StageRecord
    BY <1>3, FilesOfPrototypes DEF RemeshInv, IInv, UnitInv
  <1>5. layer' = [layer EXCEPT ![file] = new]
    BY <1>1, <1>2, <1>4
  <1> HIDE DEF prims, assembly
  <1>6. new.geometry = s.geometry
    BY <1>4 DEF StageRecord
  <1> HIDE DEF new
  <1>7. \A f \in File : layer'[f].geometry = layer[f].geometry
    BY <1>2, <1>4, <1>5, <1>6
  <1>8. \A i \in DOMAIN prototypes : FileOf(i)' = FileOf(i) /\ FileOf(i) \in File
    BY <1>1, FilesOfPrototypes DEF RemeshInv, IInv, FileOf
  <1>9. \A v \in Variant, j \in JobPaths : outcome'[v][j] # "none" => PrototypeActive(selected, j, v)'
    BY <1>1, SameRun DEF SavedInv
  <1> QED BY <1>1, <1>7, <1>8, <1>9 DEF SavedInv

LEMMA TessellateSaved ==
  ASSUME RemeshInv, SavedInv, Tessellate
  PROVE  SavedInv'
  <1>1. UNCHANGED <<selected, prototypes, layer, disk>>
    BY DEF Tessellate
  <1>2. PICK failing \in SUBSET JobPaths :
          outcome' = [v \in Variant |-> [j \in JobPaths |->
            IF j \notin ActiveJobs(v) THEN "none" ELSE IF j \in failing THEN "failed" ELSE "made"]]
    BY DEF Tessellate
  <1>3. \A v \in Variant, j \in JobPaths : j \in ActiveJobs(v) => PrototypeActive(selected, j, v)
    BY DEF ActiveJobs
  <1>4. \A v \in Variant, j \in JobPaths : outcome'[v][j] # "none" => j \in ActiveJobs(v)
    BY <1>2
  <1>5. \A v \in Variant, j \in JobPaths : outcome'[v][j] # "none" => PrototypeActive(selected, j, v)'
    BY <1>1, <1>3, <1>4, SameRun
  <1>6. \A i \in DOMAIN prototypes : FileOf(i)' = FileOf(i)
    BY <1>1 DEF FileOf
  <1> QED BY <1>1, <1>5, <1>6 DEF SavedInv

\* The stage written next, and how its file changes.
LEMMA WriteStageFile ==
  ASSUME RemeshInv, SavedInv, WriteStage
  PROVE  LET i == written + 1
             v == prototypes[i].variant
             file == FileOf(i) IN
           /\ i \in DOMAIN prototypes /\ v \in Variant /\ file \in File
           /\ layer[file] \in StageRecord /\ disk'[file] = layer'[file] /\ disk'[file] # NoStage
           /\ disk'[file].geometry = [j \in JobPaths |-> WrittenGeometry(v, j, layer[file].geometry[j])]
           /\ \A f \in File \ {file} : layer'[f] = layer[f] /\ disk'[f] = disk[f]
           /\ UNCHANGED <<selected, prototypes, outcome>>
  <1> DEFINE n == written + 1
             file == FileOf(n)
             v == prototypes[n].variant
             s == layer[file]
             g == [j \in JobPaths |-> WrittenGeometry(v, j, s.geometry[j])]
             new == [s EXCEPT !.geometry = g]
  <1>1. /\ written < Len(prototypes)
        /\ layer' = [layer EXCEPT ![file].geometry =
                       [j \in JobPaths |-> WrittenGeometry(v, j, @[j])]]
        /\ disk' = [disk EXCEPT ![file] = layer'[file]]
        /\ UNCHANGED <<selected, prototypes, outcome>>
    BY DEF WriteStage
  <1>2. /\ written \in 0..Len(prototypes)
        /\ layer \in [File -> StageRecord \cup {NoStage}]
        /\ disk \in [File -> StageRecord \cup {NoStage}]
    BY DEF RemeshInv, IInv, TypeOK
  <1>3. n \in DOMAIN prototypes
    BY <1>1, <1>2 DEF RemeshInv, IInv, TypeOK
  <1>4. file \in File /\ v \in Variant /\ s \in StageRecord
    BY <1>3, FilesOfPrototypes DEF RemeshInv, IInv, UnitInv
  <1>5. layer' = [layer EXCEPT ![file] = new]
    BY <1>1, <1>2, <1>4
  <1>6. new.geometry = g /\ "geometry" \in DOMAIN new
    <2> HIDE DEF g
    <2> QED BY <1>4 DEF StageRecord
  <1>7. new # NoStage
    <2>1. DOMAIN NoStage = {}
      BY DEF NoStage
    <2> HIDE DEF new
    <2> QED BY <1>6, <2>1
  <1> HIDE DEF new
  <1>8. layer'[file] = new /\ disk'[file] = new
        /\ \A f \in File \ {file} : layer'[f] = layer[f] /\ disk'[f] = disk[f]
    BY <1>1, <1>2, <1>4, <1>5
  <1> QED BY <1>1, <1>3, <1>4, <1>6, <1>7, <1>8

LEMMA WriteStageSaved ==
  ASSUME RemeshInv, SavedInv, WriteStage
  PROVE  SavedInv'
  <1>1. PICK file \in File :
          /\ disk'[file] = layer'[file] /\ disk'[file] # NoStage
          /\ \A f \in File \ {file} : layer'[f] = layer[f] /\ disk'[f] = disk[f]
          /\ UNCHANGED <<selected, prototypes, outcome>>
    BY WriteStageFile
  <1>2. \A v \in Variant, j \in JobPaths : outcome'[v][j] # "none" => PrototypeActive(selected, j, v)'
    BY <1>1, SameRun DEF SavedInv
  <1>3. \A i \in DOMAIN prototypes : FileOf(i)' = FileOf(i) /\ FileOf(i) \in File
    BY <1>1, FilesOfPrototypes DEF RemeshInv, IInv, FileOf
  <1>4. ASSUME NEW i \in DOMAIN prototypes
        PROVE  /\ disk'[FileOf(i)] # NoStage
               /\ disk'[FileOf(i)].geometry = layer'[FileOf(i)].geometry
    BY <1>1, <1>3 DEF SavedInv
  <1> QED BY <1>1, <1>2, <1>3, <1>4 DEF SavedInv

LEMMA NextSaved ==
  ASSUME RemeshInv, SavedInv, [Next]_vars
  PROVE  SavedInv'
  <1>1. CASE Start \/ Kill
    BY <1>1, NoneMade DEF Start, Kill
  <1>2. CASE Refuse \/ ResolveContainers \/ StagesOpened \/ StagesBuilt \/ Return \/ UNCHANGED vars
    BY <1>2, QuietSaved DEF RemeshInv, Refuse, ResolveContainers, StagesOpened, StagesBuilt, Return, vars
  <1>3. ASSUME NEW v \in Variant, SkipStage(v) \/ GiveUpStages(v) PROVE SavedInv'
    BY <1>3, QuietSaved DEF RemeshInv, SkipStage, GiveUpStages
  <1>4. ASSUME NEW v \in Variant, OpenStage(v) PROVE SavedInv'
    BY <1>4, OpenStageSaved
  <1>5. CASE BuildStage
    BY <1>5, BuildStageSaved
  <1>6. CASE Tessellate
    BY <1>6, TessellateSaved
  <1>7. CASE WriteStage
    BY <1>7, WriteStageSaved
  <1> QED BY <1>1, <1>2, <1>3, <1>4, <1>5, <1>6, <1>7 DEF Next, RunStep

LEMMA SavedInvariance == Spec => [](RemeshInv /\ SavedInv)
  <1>1. Init => RemeshInv /\ SavedInv
    <2>1. Init => SavedInv
      BY DEF Init, SavedInv, NoOutcome
    <2> QED BY <2>1, InitRemesh
  <1>2. RemeshInv /\ SavedInv /\ [Next]_vars => (RemeshInv /\ SavedInv)'
    BY NextRemesh, NextSaved
  <1> QED BY <1>1, <1>2, PTL DEF Spec

\* The steps that change a file, but for the start of a run.
LEMMA FilesWritten ==
  ASSUME [Next]_vars, ~Start, disk' # disk
  PROVE  (\E v \in Variant : OpenStage(v)) \/ WriteStage
  <1>1. CASE Refuse \/ ResolveContainers \/ StagesOpened \/ StagesBuilt \/ Return \/ UNCHANGED vars
    BY <1>1 DEF Refuse, ResolveContainers, StagesOpened, StagesBuilt, Return, vars
  <1>2. CASE BuildStage \/ Tessellate \/ Kill
    BY <1>2 DEF BuildStage, Tessellate, Kill
  <1>3. ASSUME NEW v \in Variant, SkipStage(v) \/ GiveUpStages(v) PROVE FALSE
    BY <1>3 DEF SkipStage, GiveUpStages
  <1> QED BY <1>1, <1>2, <1>3 DEF Next, RunStep

\* The variants a run opens are the container's own, and its selection reaches them.
LEMMA OpenedSelected ==
  ASSUME RemeshInv, NEW v \in Inits
  PROVE  /\ v \in Variant
         /\ ContainerVariants # {} => v \in ContainerVariants /\ v # NoVariant /\ VariantSelected(selected, v)
  <1>1. ASSUME v \in ContainerVariants PROVE v # NoVariant
    <2>1. v \in Name \X Name
      BY <1>1, RemeshAssumption
    <2>2. Len(v) = 2
      BY <2>1, PairSeq
    <2>3. Len(NoVariant) = 0
      BY DEF NoVariant, NoNode
    <2> QED BY <2>2, <2>3
  <1> QED BY <1>1 DEF Inits, Variant

LEMMA SelectedPaths ==
  ASSUME OrdinarySelections, TypeOK
  PROVE  selected \in SUBSET Path /\ \A sel \in selected : Plain(sel) /\ OwnVariants(sel)
  <1>1. selected \in SUBSET Path
    BY PathsSelected
  <1>2. \A sel \in selected : Ordinary(sel)
    BY DEF OrdinarySelections, TypeOK
  <1> QED BY <1>1, <1>2, OrdinaryIs

\* Whatever the container and the -p paths, and wherever runs are killed: a run changes
\* the file of a container variant only if a path names that variant or one that shares
\* the file.
THEOREM OnlyNamedVariantsTouched ==
  ASSUME OrdinarySelections
  PROVE  Spec => OtherVariantsUntouched
  <1>1. ASSUME RemeshInv, SavedInv, [Next]_vars, ~Start, ContainerVariants # {}, NEW v \in Stages,
               disk'[OutputAsset[v]] # disk[OutputAsset[v]]
        PROVE  \E w \in Sharing(v) : Names(w, ContainerPrimPath)
    <2>1. disk \in [File -> StageRecord \cup {NoStage}] /\ OutputAsset[v] \in File
      <3>1. v \in Variant /\ OutputAsset[v] # NoFile
        BY DEF Stages
      <3>2. OutputAsset[v] \in File
        BY <3>1, FileOfVariant
      <3> QED BY <1>1, <3>2 DEF RemeshInv, IInv, TypeOK
    <2>2. ASSUME NEW w \in Inits, OutputAsset[w] = OutputAsset[v]
          PROVE  \E u \in Sharing(v) : Names(u, ContainerPrimPath)
      <3>1. w \in ContainerVariants /\ w \in Variant /\ VariantSelected(selected, w)
        BY <1>1, <2>2, OpenedSelected
      <3>2. Names(w, ContainerPrimPath)
        BY <1>1, <3>1, SelectedPaths, SelectedIsNamed DEF RemeshInv, IInv
      <3> QED BY <2>2, <3>1, <3>2 DEF Sharing
    <2>3. ASSUME NEW w \in Variant, OpenStage(w) PROVE w \in Inits /\ OutputAsset[w] = OutputAsset[v]
      <3>1. w \in todo /\ disk' = [disk EXCEPT ![OutputAsset[w]] = Opened(w)]
        BY <2>3 DEF OpenStage
      <3>2. w \in Inits
        BY <1>1, <3>1 DEF RemeshInv, RunInv
      <3> QED BY <1>1, <2>1, <3>1, <3>2
    <2>4. ASSUME WriteStage PROVE \E w \in Inits : OutputAsset[w] = OutputAsset[v]
      <3>1. /\ written + 1 \in DOMAIN prototypes
            /\ \A f \in File \ {FileOf(written + 1)} : disk'[f] = disk[f]
        BY <1>1, <2>4, WriteStageFile
      <3>2. prototypes[written + 1].variant \in Inits
        BY <1>1, <3>1 DEF RemeshInv, RunInv
      <3> QED BY <1>1, <2>1, <3>1, <3>2 DEF FileOf
    <2>5. disk' # disk
      BY <1>1
    <2> QED BY <1>1, <2>2, <2>3, <2>4, <2>5, FilesWritten
  <1>2. RemeshInv /\ SavedInv /\ [Next]_vars =>
          [~Start /\ ContainerVariants # {} => \A v \in Stages :
             disk'[OutputAsset[v]] # disk[OutputAsset[v]] =>
               \E w \in Sharing(v) : Names(w, ContainerPrimPath)]_vars
    BY <1>1
  <1> QED BY <1>2, SavedInvariance, PTL DEF Spec, OtherVariantsUntouched

\* Whatever the container and the -p paths, and wherever runs are killed: the geometry of
\* a job that no path names stays as it is, unless its whole stage was rebuilt.
THEOREM OnlyNamedJobsTouched ==
  ASSUME OrdinarySelections
  PROVE  Spec => UnnamedGeometryKept
  <1>1. ASSUME RemeshInv, SavedInv, [Next]_vars, ~Start, NEW v \in Stages, NEW j \in JobPaths,
               GeometryOn(v, j)' # GeometryOn(v, j)
        PROVE  \E w \in Sharing(v) :
                 \/ Names(w, j)
                 \/ \E i \in DOMAIN prototypes' : prototypes'[i] = [variant |-> w, fresh |-> TRUE]
    <2> DEFINE f == OutputAsset[v]
    <2>1. /\ disk \in [File -> StageRecord \cup {NoStage}] /\ f \in File
          /\ prototypes \in Seq([variant : Variant, fresh : BOOLEAN])
      <3>1. v \in Variant /\ OutputAsset[v] # NoFile
        BY DEF Stages
      <3>2. f \in File
        BY <3>1, FileOfVariant
      <3> QED BY <1>1, <3>2 DEF RemeshInv, IInv, TypeOK
    <2>2. disk'[f] # disk[f]
      BY <1>1 DEF GeometryOn
    <2>3. ASSUME NEW w \in Variant, OpenStage(w)
          PROVE  w \in Sharing(v) /\ \E i \in DOMAIN prototypes' : prototypes'[i] = [variant |-> w, fresh |-> TRUE]
      <3>1. /\ OutputAsset[w] # NoFile
            /\ disk' = [disk EXCEPT ![OutputAsset[w]] = Opened(w)]
            /\ prototypes' = Append(prototypes, [variant |-> w, fresh |-> Rebuilt(w)])
        BY <2>3 DEF OpenStage
      <3>2. OutputAsset[w] = f /\ disk'[f] = Opened(w)
        BY <2>1, <2>2, <3>1
      <3>3. Opened(w) # NoStage
        BY <1>1, <3>1, OpenedIsStage, RecordIsStage DEF RemeshInv
      <3>4. CASE Rebuilt(w)
        <4>1. [variant |-> w, fresh |-> Rebuilt(w)] = [variant |-> w, fresh |-> TRUE]
          BY <3>4
        <4>2. PICK new : new = [variant |-> w, fresh |-> TRUE]
          OBVIOUS
        <4>3. prototypes' = Append(prototypes, new)
          BY <3>1, <4>1, <4>2
        <4>4. Len(prototypes) + 1 \in DOMAIN prototypes' /\ prototypes'[Len(prototypes) + 1] = new
          BY <2>1, <4>3
        <4> QED BY <3>2, <4>2, <4>4 DEF Sharing
      <3>5. CASE ~Rebuilt(w) /\ disk[f] = NoStage
        <4>1. disk'[f].geometry[j] = NoGeometry
          BY <3>2, <3>5 DEF Opened, EmptyStage
        <4>2. GeometryOn(v, j)' = NoGeometry /\ GeometryOn(v, j) = NoGeometry
          BY <3>5, <4>1 DEF GeometryOn
        <4> QED BY <1>1, <4>2
      <3>6. CASE ~Rebuilt(w) /\ disk[f] # NoStage
        <4>1. disk[f] \in StageRecord /\ disk'[f] = [disk[f] EXCEPT !.unit = unit]
          BY <2>1, <3>2, <3>6 DEF Opened
        <4>2. disk'[f].geometry = disk[f].geometry
          BY <4>1 DEF StageRecord
        <4>3. GeometryOn(v, j)' = GeometryOn(v, j)
          BY <3>2, <3>3, <3>6, <4>2 DEF GeometryOn
        <4> QED BY <1>1, <4>3
      <3> QED BY <3>4, <3>5, <3>6
    <2>4. ASSUME WriteStage PROVE \E w \in Sharing(v) : Names(w, j)
      <3>1. PICK i, w, file : i = written + 1 /\ w = prototypes[i].variant /\ file = FileOf(i)
        OBVIOUS
      <3>2. /\ i \in DOMAIN prototypes /\ w \in Variant /\ file \in File
            /\ disk'[file] # NoStage
            /\ disk'[file].geometry = [k \in JobPaths |-> WrittenGeometry(w, k, layer[file].geometry[k])]
            /\ \A g \in File \ {file} : disk'[g] = disk[g]
        BY <1>1, <2>4, <3>1, WriteStageFile
      <3>3. file = f /\ w \in Sharing(v)
        BY <2>1, <2>2, <3>1, <3>2 DEF FileOf, Sharing
      <3>4. disk[f] # NoStage /\ disk[f].geometry = layer[f].geometry
        BY <1>1, <3>1, <3>2, <3>3 DEF SavedInv
      <3>5. WrittenGeometry(w, j, layer[f].geometry[j]) # layer[f].geometry[j]
        <4>1. GeometryOn(v, j)' = disk'[f].geometry[j] /\ GeometryOn(v, j) = layer[f].geometry[j]
          BY <3>2, <3>3, <3>4 DEF GeometryOn
        <4> QED BY <1>1, <3>2, <3>3, <4>1
      <3>6. outcome[w][j] # "none"
        BY <3>5 DEF WrittenGeometry
      <3>7. PrototypeActive(selected, j, w)
        BY <1>1, <3>2, <3>6 DEF SavedInv
      <3>8. w \in Inits /\ ValidSelection(selected, VariantsOf)
        <4>1. prototypes # << >>
          BY <3>2
        <4> QED BY <1>1, <3>1, <3>2, <4>1 DEF RemeshInv, RunInv
      <3>9. ContainerVariants # {} => w # NoVariant
        BY <1>1, <3>8, OpenedSelected
      <3>10. selected \in SUBSET Path /\ \A sel \in selected : Plain(sel) /\ OwnVariants(sel)
        BY <1>1, SelectedPaths DEF RemeshInv, IInv
      <3>11. Names(w, j)
        BY <3>2, <3>7, <3>8, <3>9, <3>10, ActiveIsNamed
      <3> QED BY <3>3, <3>11
    <2>5. disk' # disk
      BY <2>2
    <2> QED BY <1>1, <2>3, <2>4, <2>5, FilesWritten
  <1>2. RemeshInv /\ SavedInv /\ [Next]_vars =>
          [~Start => \A v \in Stages, j \in JobPaths :
             GeometryOn(v, j)' # GeometryOn(v, j) => \E w \in Sharing(v) :
               \/ Names(w, j)
               \/ \E i \in DOMAIN prototypes' : prototypes'[i] = [variant |-> w, fresh |-> TRUE]]_vars
    BY <1>1
  <1> QED BY <1>2, SavedInvariance, PTL DEF Spec, UnnamedGeometryKept
=============================================================================
