---------------------------- MODULE OpenPRProofs ----------------------------
(***************************************************************************)
(* Safety of the project flow, for every grid, every set of AREA_GROUPs    *)
(* and any number of processes, edits, failures and kills.                 *)
(***************************************************************************)
EXTENDS OpenPRInvariant, AntiCoreProofs

\* Where in its command each step comes.
LEMMA StepOrder ==
    ASSUME NEW c \in Command
    PROVE  /\ Len(Steps[c]) \in 1 .. 5
           /\ \A i \in 1 .. Len(Steps[c]) :
                /\ Steps[c][i] \in {"macros", "sites", "block", "bits"}
                     => i > 1 /\ Steps[c][i - 1] = "setup"
                /\ Steps[c][i] = "link" => i = 3 /\ Steps[c][2] = "macros"
                /\ Steps[c][i] \in {"lock", "macros"} => i <= 2
                /\ Steps[c][i] = "macros" =>
                     i = 2 /\ Len(Steps[c]) >= 3 /\ Steps[c][3] = "link"
                /\ Steps[c][i] = "sites" => i = Len(Steps[c])
                /\ Steps[c][i] = "mode" <=> c = "routeBlocker" /\ i = 1
                /\ Steps[c][i] = "block" => c = "routeBlocker"
                /\ Steps[c][i] = "bits" => c = "genPartialBitstream"
  <1>1. Command = {"genPTScripts", "placeMacros", "siteBlocker", "genPlaceConstraints",
                   "genLockConstraints", "mergeClockTree", "routeBlocker",
                   "genPartialBitstream"}
    BY DEF Command, Steps
  <1>2. CASE c = "genPTScripts"
    BY <1>2 DEF Steps
  <1>3. CASE c = "placeMacros"
    BY <1>3 DEF Steps
  <1>4. CASE c = "siteBlocker"
    BY <1>4 DEF Steps
  <1>5. CASE c = "genPlaceConstraints"
    BY <1>5 DEF Steps
  <1>6. CASE c = "genLockConstraints"
    BY <1>6 DEF Steps
  <1>7. CASE c = "mergeClockTree"
    BY <1>7 DEF Steps
  <1>8. CASE c = "routeBlocker"
    BY <1>8 DEF Steps
  <1>9. CASE c = "genPartialBitstream"
    BY <1>9 DEF Steps
  <1> QED BY <1>1, <1>2, <1>3, <1>4, <1>5, <1>6, <1>7, <1>8, <1>9

-----------------------------------------------------------------------------
\* Facts about a state of the flow.

\* The next step of a process is a step of its command.
LEMMA NextStep ==
    ASSUME TypeOK, ~Idle, ~AllDone
    PROVE  /\ command \in Command
           /\ at \in 1 .. Len(Steps[command])
           /\ Len(Steps[command]) \in 1 .. 5
           /\ at + 1 \in 1 .. 6
  <1>1. command \in Command
    BY DEF TypeOK, ProcessTypes, Idle
  <1>2. Len(Steps[command]) \in 1 .. 5
    BY <1>1, StepOrder
  <1>3. at \in 1 .. 6 /\ ~(at > Len(Steps[command]))
    BY DEF TypeOK, ProcessTypes, AllDone
  <1> DEFINE n == Len(Steps[command])
  <1> HIDE DEF n
  <1>4. n \in 1 .. 5 /\ at \in 1 .. 6 /\ ~(at > n) => at \in 1 .. n /\ at + 1 \in 1 .. 6
    OBVIOUS
  <1> QED BY <1>1, <1>2, <1>3, <1>4 DEF n

\* Macros are placed in the project's region, on the grid.
LEMMA MacrosOfRegion ==
    ASSUME region \in GridRegion
    PROVE  /\ RegionBuilt \in GridRegion
           /\ SiteMapBuilt \subseteq Tile \/ SiteMapBuilt = siteMap
           /\ TilesOf(MacroPlacement(RegionBuilt)) \subseteq Tile
           /\ NamesOf(MacroPlacement(RegionBuilt)) \subseteq MacroName
           /\ {[name |-> m.name, type |-> m.type] : m \in MacroPlacement(RegionBuilt)}
                \subseteq [name : MacroName, type : {"input", "output"} \X MacroTileTypes]
  <1>1. RegionBuilt \in GridRegion
    BY ReboundIsGridRegion DEF RegionBuilt
  <1>2. SiteMapBuilt \subseteq Tile \/ SiteMapBuilt = siteMap
    BY DEF SiteMapBuilt, SiteMapOf
  <1>3. \A m \in MacroPlacement(RegionBuilt) : m \in Placed(Tile)
    <2>1. \A m \in MacroPlacement(RegionBuilt) :
              m \in Placed({t \in Tile : InRegion(RegionBuilt, t)
                                         /\ t[1] \in {RegionBuilt.yMin, RegionBuilt.yMax}})
      BY <1>1, PlacementIsOnBoundary
    <2> QED BY <2>1 DEF Placed
  <1> QED BY <1>1, <1>2, <1>3 DEF Placed, TilesOf, NamesOf, MacroName


-----------------------------------------------------------------------------
\* Types.

LEMMA NewCoreIsTyped ==
    NewCore => /\ region' = NoRegion
               /\ mode' = "static"
               /\ mask' \in MaskType
               /\ siteMap' = {} /\ macroTiles' = {} /\ busMacroMap' = {}
  BY DEF NewCore, MaskType

LEMMA ProjectsAreTyped ==
    /\ TopProject \in Project
    /\ \A p \in Project \cup {NoProject} : p # NoProject => p \in Project
  BY DEF TopProject, Project

\* A process that ends leaves typed variables behind.
LEMMA EndIsTyped == EndProcess => CoreTypes' /\ ProcessTypes'
  <1> SUFFICES ASSUME EndProcess
               PROVE  CoreTypes' /\ ProcessTypes'
    OBVIOUS
  <1>1. CoreTypes'
    BY NewCoreIsTyped DEF EndProcess, CoreTypes, Modes
  <1>2. unread' \in Seq(Tile \X Tile) /\ project' \in Project
    BY ProjectsAreTyped DEF EndProcess
  <1>3. success' \in BOOLEAN /\ reading' \in BOOLEAN
    BY Zenon DEF EndProcess
  <1>4. ProcessTypes'
    BY <1>2, <1>3 DEF EndProcess, ProcessTypes
  <1> QED BY <1>1, <1>4

LEMMA InitIsTyped == Init => TypeOK
  <1> SUFFICES ASSUME Init
               PROVE  TypeOK
    OBVIOUS
  <1>1. mask \in MaskType
    BY DEF Init, InitCore, MaskType
  <1>2. CoreTypes
    BY <1>1 DEF Init, InitCore, CoreTypes, Modes
  <1>3. unread \in Seq(Tile \X Tile) /\ project \in Project
    BY ProjectsAreTyped DEF Init
  <1>7. success \in BOOLEAN /\ reading \in BOOLEAN
    BY Zenon DEF Init
  <1>4. ProcessTypes
    BY <1>3, <1>7 DEF Init, ProcessTypes
  <1>5. oprs \in [OprFile -> Project \cup {NoProject}]
    BY ProjectsAreTyped DEF Init
  <1>6. DirectoryTypes
    BY <1>5 DEF Init, DirectoryTypes
  <1> QED BY <1>2, <1>4, <1>6, OpenPRAssumption DEF Init, TypeOK


\* What each step does to the object: most leave it alone.
LEMMA CoreSteps ==
    Next => \/ UNCHANGED coreVars
            \/ EndProcess
            \/ SetupFromProject \/ ReadAreaGroup
            \/ PlaceMacros \/ StartColumns \/ BlockColumn
            \/ SetPartialMode
  BY DEF Next, EditAreaGroups, Map, Kill, Launch, Finish, OpenUcf, CloseUcf, LinkMacros,
         LinkFails, EndColumns, GenScripts, GenLockConstraints, MergeClockTree, BlockRoutes,
         CheckPartial, BuildPartial, Error

\* The region a step works on is on the grid.
LEMMA RegionAtStep ==
    ASSUME FlowInvariant
    PROVE  /\ AtStep("macros") => region \in GridRegion
           /\ AtStep("sites") /\ column = NoColumn => region \in GridRegion
           /\ project.regionDefined => project.vertices \in GridRegion
           /\ reading => region \in GridRegion \cup {NoRegion}
  BY DEF FlowInvariant, RegionIsSetUp, RegionsOnGrid, RegionWhileReading, AtStep, NextStepIn

\* One AREA_GROUP line of the UCF.
LEMMA ReadLine ==
    ASSUME FlowInvariant, ReadAreaGroup
    PROVE  /\ region' \in GridRegion
           /\ mask' = MaskOf(region', mode)
           /\ unread' \in Seq(Tile \X Tile)
  <1>1. unread \in Seq(Tile \X Tile) /\ unread # <<>>
    BY DEF FlowInvariant, TypeOK, ProcessTypes, ReadAreaGroup
  <1>2. /\ Head(unread) \in Tile \X Tile
        /\ Tail(unread) \in Seq(Tile \X Tile)
    BY <1>1
  <1> DEFINE a == Head(unread)[1]
             b == Head(unread)[2]
  <1>3. a \in Tile /\ b \in Tile
    BY <1>2
  <1>4. region \in GridRegion \cup {NoRegion}
    BY RegionAtStep DEF ReadAreaGroup
  <1>5. /\ region' = ExpandRegionToINT(IF RegionIsDefined THEN Hull(region, Span(a, b))
                                                          ELSE Span(a, b))
        /\ mask' = MaskOf(region', mode)
        /\ unread' = Tail(unread)
    BY DEF ReadAreaGroup, UpdateRegionExpand
  <1> HIDE DEF a, b
  <1>6. RegionIsDefined => region \in GridRegion
    BY <1>4, RegionHasColumns DEF RegionIsDefined
  <1>7. region' \in GridRegion
    BY <1>3, <1>5, <1>6, SpanIsGridRegion, HullIsGridRegion, ToINTIsGridRegion
  <1> QED BY <1>2, <1>5, <1>7

LEMMA CoreTypesKept ==
    ASSUME FlowInvariant, Next
    PROVE  CoreTypes'
  <1>1. CoreTypes
    BY DEF FlowInvariant, TypeOK
  <1>2. CASE UNCHANGED coreVars
    BY <1>1, <1>2 DEF CoreTypes, coreVars
  <1>3. CASE EndProcess
    BY <1>3, EndIsTyped
  <1>4. CASE SetupFromProject
    <2>1. region' \in Region /\ mask' \in MaskType
      BY <1>4, RegionAtStep, GridRegionIsRegion, MaskIsTyped
      DEF SetupFromProject, SetRegionVertices
    <2> QED BY <1>1, <1>4, <2>1 DEF CoreTypes, SetupFromProject, SetRegionVertices
  <1>5. CASE ReadAreaGroup
    <2>1. region' \in Region /\ mask' \in MaskType
      BY <1>5, ReadLine, GridRegionIsRegion, MaskIsTyped
    <2> QED BY <1>1, <1>5, <2>1 DEF CoreTypes, ReadAreaGroup, UpdateRegionExpand
  <1>6. CASE PlaceMacros
    <2>1. region \in GridRegion
      BY <1>6, RegionAtStep DEF PlaceMacros
    <2>2. region' \in Region
      BY <1>6, <2>1, MacrosOfRegion, GridRegionIsRegion DEF PlaceMacros, GenMacroPlacement
    <2>3. siteMap' \subseteq Tile
      BY <1>1, <1>6, <2>1, MacrosOfRegion DEF CoreTypes, PlaceMacros, GenMacroPlacement
    <2>4. macroTiles' \subseteq Tile
      BY <1>1, <1>6, <2>1, MacrosOfRegion DEF CoreTypes, PlaceMacros, GenMacroPlacement
    <2>5. busMacroMap' \subseteq [name : MacroName,
                                  type : {"input", "output"} \X MacroTileTypes]
      BY <1>1, <1>6, <2>1, MacrosOfRegion DEF CoreTypes, PlaceMacros, GenMacroPlacement
    <2>6. UNCHANGED <<mode, mask>>
      BY <1>6 DEF PlaceMacros, GenMacroPlacement
    <2> QED BY <1>1, <2>2, <2>3, <2>4, <2>5, <2>6 DEF CoreTypes
  <1>7. CASE StartColumns
    <2>1. region \in GridRegion
      BY <1>7, RegionAtStep DEF StartColumns
    <2>2. region' \in Region
      BY <1>7, <2>1, MacrosOfRegion, GridRegionIsRegion, ExpandIsRegion
      DEF StartColumns, EnterPlaceConstraints
    <2>3. siteMap' \subseteq Tile
      BY <1>1, <1>7, <2>1, MacrosOfRegion DEF CoreTypes, StartColumns, EnterPlaceConstraints
    <2> QED BY <1>1, <1>7, <2>2, <2>3 DEF CoreTypes, StartColumns, EnterPlaceConstraints
  <1>8. CASE BlockColumn
    <2>1. UNCHANGED <<region, mode, mask, siteMap, macroTiles, busMacroMap>>
      BY <1>8 DEF BlockColumn, PlaceConstraintsIn
    <2> QED BY <1>1, <2>1 DEF CoreTypes
  <1>9. CASE SetPartialMode
    <2>1. /\ mode' \in {mode, "partial"}
          /\ UNCHANGED <<region, mask, siteMap, macroTiles, busMacroMap>>
      BY <1>9 DEF SetPartialMode, SetMode, coreVars
    <2> QED BY <1>1, <2>1 DEF CoreTypes, Modes
  <1> QED BY <1>2, <1>3, <1>4, <1>5, <1>6, <1>7, <1>8, <1>9, CoreSteps


\* Steps that only move on, and what the others change of the process.
LEMMA ProcessSteps ==
    Next => \/ UNCHANGED procVars
            \/ EndProcess
            \/ \E c \in Commands, f \in OprFile : Launch(c, f)
            \/ OpenUcf \/ ReadAreaGroup \/ CloseUcf
            \/ /\ \E s \in Step : AtStep(s)
               /\ Done
               /\ UNCHANGED <<project, success>>
            \/ PlaceMacros \/ LinkMacros \/ LinkFails \/ BlockRoutes
            \/ StartColumns \/ BlockColumn \/ EndColumns
  BY DEF Next, EditAreaGroups, Map, Kill, Finish, SetupFromProject, GenScripts,
         GenLockConstraints, MergeClockTree, SetPartialMode, CheckPartial, BuildPartial,
         Error, Step

LEMMA DoneIsTyped ==
    ASSUME TypeOK, Done, NEW s, AtStep(s)
    PROVE  /\ command' \in Command \cup {"none"}
           /\ at' \in 1 .. 6
           /\ reading' \in BOOLEAN
           /\ unread' \in Seq(Tile \X Tile)
           /\ column' \in {NoColumn} \cup 0 .. ColCount + 1
  <1>1. at + 1 \in 1 .. 6
    BY NextStep DEF AtStep
  <1>2. at' = at + 1 /\ UNCHANGED <<command, reading, unread, column>>
    BY DEF Done
  <1> QED BY <1>1, <1>2 DEF TypeOK, ProcessTypes

\* What PlaceMacros, LinkMacros, LinkFails and BlockRoutes make of the project.
LEMMA ProjectIsTyped ==
    ASSUME FlowInvariant, PlaceMacros \/ LinkMacros \/ LinkFails \/ BlockRoutes
    PROVE  project' \in Project
  <1>1. /\ project \in Project
        /\ busMacroMap \subseteq [name : MacroName,
                                  type : {"input", "output"} \X MacroTileTypes]
    BY DEF FlowInvariant, TypeOK, ProcessTypes, CoreTypes
  <1>2. CASE PlaceMacros
    <2>1. NamesOf(MacroPlacement(RegionBuilt)) \subseteq MacroName
      BY <1>2, RegionAtStep, MacrosOfRegion DEF PlaceMacros
    <2>2. project' = [project EXCEPT !.placed = @ \cup NamesOf(MacroPlacement(RegionBuilt))]
      BY <1>2 DEF PlaceMacros
    <2> QED BY <1>1, <2>1, <2>2 DEF Project
  <1>3. \A linked \in SUBSET busMacroMap : Listed(linked) \subseteq MacroName
    BY <1>1 DEF Listed, NamesOf
  <1>4. CASE LinkMacros \/ LinkFails
    <2>1. PICK linked \in SUBSET busMacroMap :
              project' = [project EXCEPT !.busMacroNames = @ \cup Listed(linked)]
      BY <1>4 DEF LinkMacros, LinkFails
    <2> QED BY <1>1, <1>3, <2>1 DEF Project
  <1>5. CASE BlockRoutes
    BY <1>1, <1>5 DEF BlockRoutes, BuildBlockingNet, Project
  <1> QED BY <1>2, <1>4, <1>5

LEMMA ProcessTypesKept ==
    ASSUME FlowInvariant, Next
    PROVE  ProcessTypes'
  <1>1. TypeOK /\ ProcessTypes /\ CoreTypes /\ DirectoryTypes
    BY DEF FlowInvariant, TypeOK
  <1>2. CASE UNCHANGED procVars
    BY <1>1, <1>2 DEF ProcessTypes, procVars
  <1>3. CASE EndProcess
    BY <1>3, EndIsTyped
  <1>4. ASSUME NEW c \in Commands, NEW f \in OprFile, Launch(c, f)
        PROVE  ProcessTypes'
    <2>1. /\ command' = c /\ c \in Command
          /\ project' = oprs[f]
          /\ oprs[f] # NoProject
          /\ UNCHANGED <<at, success, reading, unread, column>>
      BY <1>4, OpenPRAssumption DEF Launch
    <2>2. project' \in Project
      BY <1>1, <2>1, ProjectsAreTyped DEF DirectoryTypes
    <2> QED BY <1>1, <2>1, <2>2 DEF ProcessTypes
  <1>5. CASE OpenUcf
    <2>1. unread' \in Seq(Tile \X Tile)
      BY <1>1, <1>5, OpenPRAssumption DEF OpenUcf, DirectoryTypes
    <2>2. reading' \in BOOLEAN
      BY <1>5, Zenon DEF OpenUcf
    <2>3. UNCHANGED <<command, at, project, success, column>>
      BY <1>5 DEF OpenUcf
    <2> QED BY <1>1, <2>1, <2>2, <2>3 DEF ProcessTypes
  <1>6. CASE ReadAreaGroup
    <2>1. UNCHANGED <<command, at, project, success, reading, column>>
      BY <1>6 DEF ReadAreaGroup
    <2> QED BY <1>1, <1>6, <2>1, ReadLine DEF ProcessTypes
  <1>7. CASE CloseUcf
    <2>1. project' \in Project
      <3>1. project \in Project /\ region \in Region \cup {NoRegion}
        BY <1>1 DEF ProcessTypes, CoreTypes
      <3>2. project' = [project EXCEPT !.regionDefined = TRUE, !.vertices = region]
        BY <1>7 DEF CloseUcf
      <3> QED BY <3>1, <3>2 DEF Project
    <2>2. reading' \in BOOLEAN
      BY <1>7, Zenon DEF CloseUcf
    <2>3. at' \in 1 .. 6
      <3>1. ~Idle /\ ~AllDone
        BY <1>7 DEF FlowInvariant, RegionWhileReading, CloseUcf
      <3>2. at' = at + 1
        BY <1>7 DEF CloseUcf
      <3> QED BY <1>1, <3>1, <3>2, NextStep
    <2>4. UNCHANGED <<command, success, unread, column>>
      BY <1>7 DEF CloseUcf
    <2> QED BY <1>1, <2>1, <2>2, <2>3, <2>4 DEF ProcessTypes
  <1>8. ASSUME NEW s \in Step, AtStep(s), Done, UNCHANGED <<project, success>>
        PROVE  ProcessTypes'
    BY <1>1, <1>8, DoneIsTyped DEF ProcessTypes
  <1>9. CASE PlaceMacros \/ LinkMacros \/ LinkFails \/ BlockRoutes
    <2>1. project' \in Project
      BY <1>9, ProjectIsTyped
    <2>2. \E s : AtStep(s)
      BY <1>9 DEF PlaceMacros, LinkMacros, LinkFails, BlockRoutes
    <2>3. Done
      BY <1>9 DEF PlaceMacros, LinkMacros, LinkFails, BlockRoutes
    <2>4. success' = success \/ success' = FALSE
      BY <1>9 DEF PlaceMacros, LinkMacros, LinkFails, BlockRoutes
    <2>5. success' \in BOOLEAN
      BY <1>1, <2>4, Zenon DEF ProcessTypes
    <2> QED BY <1>1, <2>1, <2>2, <2>3, <2>5, DoneIsTyped DEF ProcessTypes
  <1>10. CASE StartColumns
    <2>1. region' \in Region
      BY <1>10, RegionAtStep, MacrosOfRegion, GridRegionIsRegion, ExpandIsRegion
      DEF StartColumns, EnterPlaceConstraints
    <2>2. column' \in 0 .. ColCount
      BY <1>10, <2>1 DEF StartColumns, Region
    <2>3. UNCHANGED <<command, at, project, success, reading, unread>>
      BY <1>10 DEF StartColumns
    <2> QED BY <1>1, <2>2, <2>3, FabricAssumption DEF ProcessTypes
  <1>11. CASE BlockColumn
    <2>1. /\ column # NoColumn /\ column <= region.xMax /\ column' = column + 1
          /\ UNCHANGED <<command, at, project, success, reading, unread>>
      BY <1>11 DEF BlockColumn
    <2>2. region.xMax \in Int /\ region.xMax <= ColCount
      BY <1>1, FabricAssumption DEF CoreTypes, Region, NoRegion
    <2>3. column' \in 0 .. ColCount + 1
      BY <1>1, <2>1, <2>2, FabricAssumption DEF ProcessTypes
    <2> QED BY <1>1, <2>1, <2>3 DEF ProcessTypes
  <1>12. CASE EndColumns
    <2>1. at' = at + 1 /\ column' = NoColumn
          /\ UNCHANGED <<command, project, success, reading, unread>>
      BY <1>12 DEF EndColumns
    <2>2. at + 1 \in 1 .. 6
      BY <1>1, <1>12, NextStep DEF EndColumns, AtStep
    <2> QED BY <1>1, <2>1, <2>2 DEF ProcessTypes
  <1> QED BY <1>2, <1>3, <1>4, <1>5, <1>6, <1>7, <1>8, <1>9, <1>10, <1>11, <1>12, ProcessSteps


\* What each step does to the files whose types matter.
LEMMA DirectorySteps ==
    Next => \/ UNCHANGED <<isPartial, area, pcf, oprs, outputs>>
            \/ \E lines \in AreaGroups : EditAreaGroups(lines)
            \/ Map \/ Finish
            \/ GenLockConstraints \/ MergeClockTree \/ BlockRoutes \/ BuildPartial
  BY DEF Next, Kill, Launch, SetupFromProject, OpenUcf, ReadAreaGroup, CloseUcf, PlaceMacros,
         LinkMacros, LinkFails, StartColumns, BlockColumn, EndColumns, GenScripts,
         SetPartialMode, CheckPartial, Error, dirVars, ucfVars

LEMMA DirectoryTypesKept ==
    ASSUME FlowInvariant, Next
    PROVE  DirectoryTypes'
  <1>1. ProcessTypes /\ DirectoryTypes
    BY DEF FlowInvariant, TypeOK
  <1>2. CASE UNCHANGED <<isPartial, area, pcf, oprs, outputs>>
    BY <1>1, <1>2 DEF DirectoryTypes
  <1>3. ASSUME NEW lines \in AreaGroups, EditAreaGroups(lines)
        PROVE  DirectoryTypes'
    BY <1>1, <1>3 DEF DirectoryTypes, EditAreaGroups
  <1>4. CASE Map
    BY <1>1, <1>4 DEF DirectoryTypes, Map, ucfVars
  <1>5. CASE Finish
    <2>1. command \in OprFile
      BY <1>1, <1>5 DEF Finish, Idle, ProcessTypes, OprFile
    <2>2. oprs' \in [OprFile -> Project \cup {NoProject}]
      BY <1>1, <1>5, <2>1 DEF Finish, ProcessTypes, DirectoryTypes
    <2>3. UNCHANGED <<isPartial, area, pcf, outputs>>
      BY <1>5 DEF Finish, ucfVars
    <2> QED BY <1>1, <2>2, <2>3 DEF DirectoryTypes
  <1>6. CASE GenLockConstraints
    <2>1. pcf' \in [exists : BOOLEAN, locked : SUBSET MacroName]
      BY <1>1, <1>6 DEF GenLockConstraints, ProcessTypes, DirectoryTypes, Project
    <2>2. UNCHANGED <<isPartial, area, oprs, outputs>>
      BY <1>6 DEF GenLockConstraints, ucfVars
    <2> QED BY <1>1, <2>1, <2>2 DEF DirectoryTypes
  <1>7. CASE MergeClockTree \/ BlockRoutes \/ BuildPartial
    <2>1. outputs' \subseteq {"blocked", "merged", "partialBit"}
      BY <1>1, <1>7 DEF MergeClockTree, BlockRoutes, BuildPartial, DirectoryTypes
    <2>2. UNCHANGED <<isPartial, area, pcf, oprs>>
      BY <1>7 DEF MergeClockTree, BlockRoutes, BuildPartial, ucfVars
    <2> QED BY <1>1, <2>1, <2>2 DEF DirectoryTypes
  <1> QED BY <1>2, <1>3, <1>4, <1>5, <1>6, <1>7, DirectorySteps

LEMMA BoundsKept ==
    ASSUME TypeOK, Next
    PROVE  runs' \in 0 .. MaxRuns /\ edits' \in 0 .. MaxEdits
  <1>1. runs \in 0 .. MaxRuns /\ edits \in 0 .. MaxEdits
    BY DEF TypeOK
  <1>2. \/ UNCHANGED <<runs, edits>>
        \/ runs < MaxRuns /\ runs' = runs + 1 /\ edits' = edits
        \/ edits < MaxEdits /\ edits' = edits + 1 /\ runs' = runs
    BY DEF Next, EditAreaGroups, Map, Kill, Launch, Finish, SetupFromProject, OpenUcf,
           ReadAreaGroup, CloseUcf, PlaceMacros, LinkMacros, LinkFails, StartColumns,
           BlockColumn, EndColumns, GenScripts, GenLockConstraints, MergeClockTree,
           SetPartialMode, BlockRoutes, CheckPartial, BuildPartial, Error, bounds
  <1> QED BY <1>1, <1>2, OpenPRAssumption

LEMMA TypesKept == FlowInvariant /\ Next => TypeOK'
  <1> SUFFICES ASSUME FlowInvariant, Next
               PROVE  TypeOK'
    OBVIOUS
  <1>1. TypeOK
    BY DEF FlowInvariant
  <1> QED BY <1>1, CoreTypesKept, ProcessTypesKept, DirectoryTypesKept, BoundsKept DEF TypeOK

-----------------------------------------------------------------------------
\* The mode, the region and the mask.

LEMMA FreshWhenIdleKept ==
    ASSUME FlowInvariant, Next
    PROVE  FreshWhenIdle'
  <1>1. ProcessTypes /\ FreshWhenIdle
    BY DEF FlowInvariant, TypeOK
  <1>2. CASE EndProcess
    BY <1>2 DEF EndProcess, NewCore, FreshWhenIdle
  <1>3. CASE UNCHANGED <<coreVars, command, at, success, reading>>
    BY <1>1, <1>3 DEF FreshWhenIdle, Idle, coreVars
  <1>4. ASSUME NEW c \in Commands, NEW f \in OprFile, Launch(c, f)
        PROVE  FreshWhenIdle'
    <2>1. command' # "none"
      <3>1. "none" \notin Command
        BY DEF Command, Steps
      <3> QED BY <1>4, <3>1, OpenPRAssumption DEF Launch
    <2> QED BY <2>1 DEF FreshWhenIdle, Idle
  <1>5. CASE ~Idle /\ command' = command
    BY <1>5 DEF FreshWhenIdle, Idle
  <1>6. \/ EndProcess
        \/ UNCHANGED <<coreVars, command, at, success, reading>>
        \/ \E c \in Commands, f \in OprFile : Launch(c, f)
        \/ ~Idle /\ command' = command
    <2>1. reading => ~Idle
      BY DEF FlowInvariant, RegionWhileReading
    <2>2. CASE EditAreaGroups(area') \/ Map \/ Kill \/ Finish \/ Error
      BY <2>2 DEF EditAreaGroups, Map, Kill, Finish, Error, procVars
    <2>3. CASE ReadAreaGroup \/ CloseUcf
      BY <2>1, <2>3 DEF ReadAreaGroup, CloseUcf
    <2>4. CASE ~(ReadAreaGroup \/ CloseUcf \/ EditAreaGroups(area') \/ Map \/ Kill \/ Finish
                 \/ Error)
      BY <2>4 DEF Next, EditAreaGroups, SetupFromProject, OpenUcf, PlaceMacros, LinkMacros, LinkFails,
                  StartColumns, BlockColumn, EndColumns, GenScripts, GenLockConstraints,
                  MergeClockTree, SetPartialMode, BlockRoutes, CheckPartial, BuildPartial,
                  AtStep, Done
    <2> QED BY <2>2, <2>3, <2>4
  <1> QED BY <1>2, <1>3, <1>4, <1>5, <1>6


\* The steps of the flow by what they do to the object and the project.
PlainStep == /\ \E s \in {"scripts", "lock", "merge", "check", "bits"} : AtStep(s)
             /\ Done
             /\ UNCHANGED <<coreVars, project, success, isPartial, oprs>>

LEMMA StepKinds ==
    Next => \/ Idle /\ UNCHANGED <<coreVars, procVars, isPartial, oprs>>
            \/ EndProcess /\ UNCHANGED <<isPartial, oprs>>
            \/ Finish
            \/ \E c \in Commands, f \in OprFile : Launch(c, f)
            \/ SetupFromProject \/ OpenUcf \/ ReadAreaGroup \/ CloseUcf
            \/ PlaceMacros \/ LinkMacros \/ LinkFails
            \/ StartColumns \/ BlockColumn \/ EndColumns
            \/ SetPartialMode \/ BlockRoutes
            \/ PlainStep
  BY DEF Next, EditAreaGroups, Map, Kill, GenScripts, GenLockConstraints, MergeClockTree,
         CheckPartial, BuildPartial, Error, dirVars, PlainStep

\* After a step other than the set-up no step comes that relies on one.
LEMMA NoSetUpNext ==
    ASSUME TypeOK, ~Idle, ~AllDone, Steps[command][at] # "setup",
           command' = command, at' = at + 1
    PROVE  ~NextStepIn({"macros", "block", "bits"})' /\ ~AtStep("sites")'
  <1> SUFFICES ASSUME ~AllDone'
               PROVE  Steps[command'][at'] \notin {"macros", "sites", "block", "bits"}
    BY DEF NextStepIn, AtStep
  <1>1. command \in Command /\ at \in 1 .. Len(Steps[command])
    BY NextStep
  <1>2. Len(Steps[command]) \in 1 .. 5
    BY <1>1, StepOrder
  <1>3. at + 1 \in 1 .. Len(Steps[command])
    BY <1>1, <1>2 DEF AllDone
  <1>4. Steps[command][at + 1] \in {"macros", "sites", "block", "bits"}
            => Steps[command][at + 1 - 1] = "setup"
    BY <1>1, <1>3, StepOrder
  <1>5. at + 1 - 1 = at
    BY <1>1, <1>2
  <1> QED BY <1>4, <1>5

LEMMA RegionWhileReadingKept ==
    ASSUME FlowInvariant, Next
    PROVE  RegionWhileReading'
  <1>1. /\ RegionWhileReading /\ FreshWhenIdle /\ NothingBeforeRegion
    BY DEF FlowInvariant
  <1>2. CASE OpenUcf
    <2>1. region = NoRegion
      BY <1>1, <1>2 DEF OpenUcf, AtStep, NothingBeforeRegion
    <2> QED BY <1>2, <2>1 DEF OpenUcf, AtStep, RegionWhileReading, coreVars, Idle, AllDone
  <1>3. CASE ReadAreaGroup
    <2>1. region' \in GridRegion /\ mask' = MaskOf(region', mode)
      BY <1>3, ReadLine
    <2>2. mode' = mode /\ UNCHANGED <<command, at, project>>
      BY <1>3 DEF ReadAreaGroup, UpdateRegionExpand
    <2>3. reading
      BY <1>3 DEF ReadAreaGroup
    <2> QED BY <1>1, <2>1, <2>2, <2>3 DEF RegionWhileReading, Idle, AllDone
  <1>4. CASE Idle /\ UNCHANGED <<coreVars, procVars, isPartial, oprs>>
    BY <1>1, <1>4 DEF RegionWhileReading, procVars
  <1>5. CASE ~reading'
    BY <1>5 DEF RegionWhileReading
  <1>6. \/ OpenUcf \/ ReadAreaGroup
        \/ Idle /\ UNCHANGED <<coreVars, procVars, isPartial, oprs>>
        \/ ~reading'
    <2>1. EndProcess \/ Finish \/ CloseUcf => ~reading'
      BY DEF EndProcess, Finish, CloseUcf
    <2>2. (\E c \in Commands, f \in OprFile : Launch(c, f)) => ~reading'
      BY <1>1 DEF Launch, FreshWhenIdle
    <2>3. StartColumns \/ BlockColumn \/ EndColumns => ~reading'
      BY DEF StartColumns, BlockColumn, EndColumns, AtStep
    <2>4. \/ SetupFromProject \/ PlaceMacros \/ LinkMacros \/ LinkFails
          \/ SetPartialMode \/ BlockRoutes \/ PlainStep
          => ~reading'
      BY DEF SetupFromProject, PlaceMacros, LinkMacros, LinkFails, SetPartialMode, BlockRoutes,
             PlainStep, AtStep, Done
    <2> QED BY <2>1, <2>2, <2>3, <2>4, StepKinds
  <1> QED BY <1>2, <1>3, <1>4, <1>5, <1>6

LEMMA NothingBeforeRegionKept ==
    ASSUME FlowInvariant, Next
    PROVE  NothingBeforeRegion'
  <1>1. /\ NothingBeforeRegion /\ RegionIsSetUp /\ RegionWhileReading /\ FreshWhenIdle
        /\ project \in Project
    BY DEF FlowInvariant, TypeOK, ProcessTypes
  <1>2. CASE Idle /\ UNCHANGED <<coreVars, procVars, isPartial, oprs>>
    BY <1>1, <1>2 DEF NothingBeforeRegion, coreVars, procVars
  <1>3. CASE EndProcess \/ Finish
    BY <1>3 DEF Finish, EndProcess, NewCore, NothingBeforeRegion
  <1>4. ASSUME NEW c \in Commands, NEW f \in OprFile, Launch(c, f)
        PROVE  NothingBeforeRegion'
    BY <1>1, <1>4 DEF Launch, FreshWhenIdle, NothingBeforeRegion, coreVars
  <1>5. CASE SetupFromProject
    BY <1>5 DEF SetupFromProject, NothingBeforeRegion
  <1>6. CASE OpenUcf
    BY <1>1, <1>6 DEF OpenUcf, NothingBeforeRegion, coreVars
  <1>7. CASE ReadAreaGroup
    BY <1>1, <1>7 DEF ReadAreaGroup, UpdateRegionExpand, NothingBeforeRegion
  <1>8. CASE CloseUcf
    <2>1. project'.regionDefined
      BY <1>1, <1>8 DEF CloseUcf, Project
    <2> QED BY <2>1 DEF NothingBeforeRegion
  <1>9. CASE PlaceMacros
    <2>1. project.regionDefined
      BY <1>1, <1>9 DEF PlaceMacros, AtStep, RegionIsSetUp, NextStepIn
    <2>2. project'.regionDefined
      BY <1>1, <1>9, <2>1 DEF PlaceMacros, Project
    <2> QED BY <2>2 DEF NothingBeforeRegion
  <1>10. CASE LinkMacros \/ LinkFails \/ BlockRoutes
    <2>1. project'.regionDefined = project.regionDefined
      BY <1>1, <1>10 DEF LinkMacros, LinkFails, BlockRoutes, Project
    <2>2. UNCHANGED coreVars /\ reading' = reading
      BY <1>10 DEF LinkMacros, LinkFails, BlockRoutes, Done
    <2> QED BY <1>1, <2>1, <2>2 DEF NothingBeforeRegion, coreVars
  <1>11. CASE StartColumns
    BY <1>1, <1>11 DEF StartColumns, RegionIsSetUp, NothingBeforeRegion
  <1>12. CASE BlockColumn \/ EndColumns
    BY <1>1, <1>12 DEF BlockColumn, EndColumns, PlaceConstraintsIn, NothingBeforeRegion, coreVars
  <1>13. CASE SetPartialMode \/ PlainStep
    BY <1>1, <1>13 DEF SetPartialMode, SetMode, PlainStep, Done, NothingBeforeRegion, coreVars
  <1> QED BY <1>2, <1>3, <1>4, <1>5, <1>6, <1>7, <1>8, <1>9, <1>10, <1>11, <1>12, <1>13,
             StepKinds


LEMMA RegionIsSetUpKept ==
    ASSUME FlowInvariant, Next
    PROVE  RegionIsSetUp'
  <1>1. /\ TypeOK /\ FreshWhenIdle /\ RegionWhileReading
        /\ project \in Project
        /\ column \in {NoColumn} \cup 0 .. ColCount + 1
    BY DEF FlowInvariant, TypeOK, ProcessTypes
  <1> DEFINE relied == NextStepIn({"macros", "block", "bits"}) \/ AtStep("sites")
  <1>2. ~relied' => RegionIsSetUp'
    BY DEF RegionIsSetUp
  <1>3. CASE Idle /\ UNCHANGED <<coreVars, procVars, isPartial, oprs>>
    BY <1>2, <1>3 DEF NextStepIn, AtStep, Idle, procVars
  <1>4. CASE EndProcess \/ Finish
    BY <1>2, <1>4 DEF Finish, EndProcess, NextStepIn, AtStep, Idle
  <1>5. ASSUME NEW c \in Commands, NEW f \in OprFile, Launch(c, f)
        PROVE  RegionIsSetUp'
    <2>1. c \in Command /\ command' = c /\ at' = 1
      BY <1>1, <1>5, OpenPRAssumption DEF Launch, FreshWhenIdle
    <2>2. Steps[c][1] \notin {"macros", "sites", "block", "bits"}
      <3>1. 1 \in 1 .. Len(Steps[c])
        <4>1. Len(Steps[c]) \in 1 .. 5
          BY <2>1, StepOrder
        <4> DEFINE n == Len(Steps[c])
        <4> HIDE DEF n
        <4>2. n \in 1 .. 5 => 1 \in 1 .. n
          OBVIOUS
        <4> QED BY <4>1, <4>2 DEF n
      <3>2. Steps[c][1] \in {"macros", "sites", "block", "bits"} => 1 > 1
        BY <2>1, <3>1, StepOrder
      <3> QED BY <3>2
    <2> QED BY <1>2, <2>1, <2>2 DEF NextStepIn, AtStep
  <1>6. CASE SetupFromProject
    BY <1>6 DEF SetupFromProject, SetRegionVertices, RegionIsSetUp
  <1>7. CASE OpenUcf \/ ReadAreaGroup
    BY <1>2, <1>7 DEF OpenUcf, ReadAreaGroup, NextStepIn, AtStep
  <1>8. CASE CloseUcf
    <2>1. region # NoRegion
      BY <1>8, NoRegionIsInvalid DEF CloseUcf
    <2>2. mask = MaskOf(region, mode)
      BY <1>1, <1>8, <2>1 DEF CloseUcf, RegionWhileReading
    <2>3. project'.regionDefined /\ project'.vertices = region
      BY <1>1, <1>8 DEF CloseUcf, Project
    <2> QED BY <1>8, <2>2, <2>3 DEF CloseUcf, RegionIsSetUp, coreVars
  <1>9. CASE \/ PlaceMacros \/ LinkMacros \/ LinkFails \/ BlockRoutes \/ SetPartialMode
             \/ PlainStep \/ EndColumns
    <2>1. /\ ~Idle /\ ~AllDone /\ Steps[command][at] # "setup"
          /\ command' = command /\ at' = at + 1
      BY <1>9 DEF PlaceMacros, LinkMacros, LinkFails, BlockRoutes, SetPartialMode, PlainStep,
                  EndColumns, AtStep, Done
    <2> QED BY <1>1, <1>2, <2>1, NoSetUpNext
  <1>10. CASE StartColumns \/ BlockColumn
    <2>1. Steps[command'][at'] = "sites"
      BY <1>10 DEF StartColumns, BlockColumn, AtStep
    <2>2. column' # NoColumn
      <3>1. CASE BlockColumn
        BY <1>1, <3>1, FabricAssumption DEF BlockColumn, NoColumn
      <3>2. CASE StartColumns
        <4>1. region' \in Region
          BY <3>2, RegionAtStep, MacrosOfRegion, GridRegionIsRegion, ExpandIsRegion
          DEF StartColumns, EnterPlaceConstraints
        <4> QED BY <3>2, <4>1, RegionHasColumns DEF StartColumns, NoColumn
      <3> QED BY <1>10, <3>1, <3>2
    <2> QED BY <2>1, <2>2 DEF RegionIsSetUp, NextStepIn, AtStep
  <1> QED BY <1>3, <1>4, <1>5, <1>6, <1>7, <1>8, <1>9, <1>10, StepKinds

LEMMA ModeOfCommandKept ==
    ASSUME FlowInvariant, Next
    PROVE  ModeOfCommand'
  <1>1. /\ TypeOK /\ ModeOfCommand /\ FreshWhenIdle /\ RegionWhileReading
        /\ at \in 1 .. 6
    BY DEF FlowInvariant, TypeOK, ProcessTypes
  <1>2. CASE Idle /\ UNCHANGED <<coreVars, procVars, isPartial, oprs>>
    BY <1>1, <1>2 DEF ModeOfCommand, coreVars, procVars
  <1>3. CASE EndProcess \/ Finish
    BY <1>3 DEF Finish, EndProcess, NewCore, ModeOfCommand
  <1>4. ASSUME NEW c \in Commands, NEW f \in OprFile, Launch(c, f)
        PROVE  ModeOfCommand'
    BY <1>1, <1>4 DEF Launch, FreshWhenIdle, ModeOfCommand, coreVars, dirVars
  <1>5. CASE SetPartialMode
    <2>1. command \in Command /\ at \in 1 .. Len(Steps[command]) /\ Steps[command][at] = "mode"
      BY <1>1, <1>5, NextStep DEF SetPartialMode, AtStep
    <2>2. command = "routeBlocker" /\ at = 1
      BY <2>1, StepOrder
    <2>3. mode = "static"
      BY <1>1, <2>2 DEF ModeOfCommand
    <2>4. command' = command /\ at' = 2 /\ isPartial' = isPartial
      BY <1>5, <2>2 DEF SetPartialMode, Done, dirVars
    <2>5. mode' = IF isPartial THEN "partial" ELSE "static"
      BY <1>5, <2>3 DEF SetPartialMode, SetMode, coreVars
    <2> QED BY <2>2, <2>4, <2>5 DEF ModeOfCommand
  <1>6. CASE \/ SetupFromProject \/ OpenUcf \/ ReadAreaGroup \/ CloseUcf \/ PlaceMacros
             \/ LinkMacros \/ LinkFails \/ StartColumns \/ BlockColumn \/ EndColumns
             \/ BlockRoutes \/ PlainStep
    <2>1. ~Idle /\ ~AllDone /\ Steps[command][at] # "mode"
      <3>1. CASE ReadAreaGroup \/ CloseUcf
        BY <1>1, <3>1 DEF ReadAreaGroup, CloseUcf, RegionWhileReading
      <3> QED BY <1>6, <3>1 DEF SetupFromProject, OpenUcf, PlaceMacros, LinkMacros, LinkFails,
                 StartColumns, BlockColumn, EndColumns, BlockRoutes, PlainStep, AtStep
    <2>2. UNCHANGED <<command, mode, isPartial>>
      BY <1>6 DEF SetupFromProject, SetRegionVertices, OpenUcf, ReadAreaGroup,
            UpdateRegionExpand, CloseUcf, PlaceMacros, GenMacroPlacement, LinkMacros, LinkFails,
            StartColumns, EnterPlaceConstraints, BlockColumn, PlaceConstraintsIn, EndColumns,
            BlockRoutes, PlainStep, Done, coreVars, dirVars
    <2>3. at' = at \/ at' = at + 1
      BY <1>6 DEF SetupFromProject, OpenUcf, ReadAreaGroup, CloseUcf, PlaceMacros, LinkMacros,
            LinkFails, StartColumns, BlockColumn, EndColumns, BlockRoutes, PlainStep, Done
    <2>4. ~(command = "routeBlocker" /\ at = 1)
      <3>1. command \in Command /\ at \in 1 .. Len(Steps[command])
        BY <1>1, <2>1, NextStep
      <3> QED BY <2>1, <3>1, StepOrder
    <2>5. command = "routeBlocker" => at > 1 /\ at' > 1
      BY <1>1, <2>3, <2>4
    <2> QED BY <1>1, <2>2, <2>5 DEF ModeOfCommand
  <1> QED BY <1>2, <1>3, <1>4, <1>5, <1>6, StepKinds


LEMMA RegionsOnGridKept ==
    ASSUME FlowInvariant, Next
    PROVE  RegionsOnGrid'
  <1> DEFINE onGrid(p) == p.regionDefined => p.vertices \in GridRegion /\ ValidateRegion(p.vertices)
  <1>1. /\ RegionsOnGrid /\ RegionWhileReading
        /\ project \in Project
        /\ command \in Command \cup {"none"}
        /\ oprs \in [OprFile -> Project \cup {NoProject}]
    BY DEF FlowInvariant, TypeOK, ProcessTypes, DirectoryTypes
  <1>2. onGrid(project) /\ \A f \in OprFile : onGrid(oprs[f])
    BY <1>1 DEF RegionsOnGrid, SavedProjects
  <1>3. onGrid(project') /\ (\A f \in OprFile : onGrid(oprs'[f])) => RegionsOnGrid'
    BY DEF RegionsOnGrid, SavedProjects
  <1>4. onGrid(TopProject)
    BY DEF TopProject
  <1>5. \A f \in OprFile : onGrid(oprs'[f])
    <2>1. CASE oprs' = oprs
      BY <1>2, <2>1
    <2>2. CASE Finish
      <3>1. command \in OprFile
        BY <1>1, <2>2 DEF Finish, Idle, OprFile
      <3>2. \A f \in OprFile : oprs'[f] = oprs[f] \/ oprs'[f] = project
        BY <1>1, <2>2, <3>1 DEF Finish
      <3> QED BY <1>2, <3>2
    <2>3. oprs' = oprs \/ Finish
      BY StepKinds DEF Launch, SetupFromProject, OpenUcf, ReadAreaGroup, CloseUcf, PlaceMacros,
         LinkMacros, LinkFails, StartColumns, BlockColumn, EndColumns, SetPartialMode, BlockRoutes,
         PlainStep, dirVars
    <2> QED BY <2>1, <2>2, <2>3
  <1>6. onGrid(project')
    <2>1. CASE project' = project
      BY <1>2, <2>1
    <2>2. CASE EndProcess \/ Finish
      BY <1>4, <2>2 DEF Finish, EndProcess
    <2>3. ASSUME NEW c \in Commands, NEW f \in OprFile, Launch(c, f)
          PROVE  onGrid(project')
      BY <1>2, <2>3 DEF Launch
    <2>4. CASE CloseUcf
      <3>1. region \in GridRegion /\ ValidateRegion(region)
        BY <1>1, <2>4, NoRegionIsInvalid DEF CloseUcf, RegionWhileReading
      <3>2. project'.vertices = region
        BY <1>1, <2>4 DEF CloseUcf, Project
      <3> QED BY <3>1, <3>2
    <2>5. CASE PlaceMacros \/ LinkMacros \/ LinkFails \/ BlockRoutes
      <3>1. project'.regionDefined = project.regionDefined /\ project'.vertices = project.vertices
        BY <1>1, <2>5 DEF PlaceMacros, LinkMacros, LinkFails, BlockRoutes, Project
      <3> QED BY <1>2, <3>1
    <2>6. \/ project' = project \/ EndProcess \/ Finish \/ CloseUcf
          \/ \E c \in Commands, f \in OprFile : Launch(c, f)
          \/ PlaceMacros \/ LinkMacros \/ LinkFails \/ BlockRoutes
      BY StepKinds DEF SetupFromProject, OpenUcf, ReadAreaGroup, StartColumns, BlockColumn,
         EndColumns, SetPartialMode, PlainStep, procVars
    <2> QED BY <2>1, <2>2, <2>3, <2>4, <2>5, <2>6
  <1> QED BY <1>3, <1>5, <1>6

-----------------------------------------------------------------------------
\* The site map and the macros.

LEMMA SiteMapOfProjectKept ==
    ASSUME FlowInvariant, Next
    PROVE  SiteMapOfProject'
  <1>1. /\ SiteMapOfProject /\ RegionIsSetUp /\ RegionWhileReading /\ NothingBeforeRegion
        /\ FreshWhenIdle /\ project \in Project
    BY DEF FlowInvariant, TypeOK, ProcessTypes
  <1>2. CASE siteMap' = siteMap /\ project'.vertices = project.vertices
    BY <1>1, <1>2 DEF SiteMapOfProject
  <1>3. CASE siteMap' = {}
    BY <1>3 DEF SiteMapOfProject
  <1>4. CASE PlaceMacros \/ StartColumns
    <2>1. region = project.vertices
      BY <1>1, <1>4 DEF PlaceMacros, StartColumns, RegionIsSetUp, NextStepIn, AtStep
    <2>2. siteMap' = SiteMapBuilt
      BY <1>4 DEF PlaceMacros, StartColumns, GenMacroPlacement, EnterPlaceConstraints
    <2>3. project'.vertices = project.vertices
      BY <1>1, <1>4 DEF PlaceMacros, StartColumns, Project
    <2> QED BY <1>1, <2>1, <2>2, <2>3 DEF SiteMapOfProject, SiteMapBuilt
  <1>5. \/ siteMap' = siteMap /\ project'.vertices = project.vertices
        \/ siteMap' = {}
        \/ PlaceMacros \/ StartColumns
    <2>1. EndProcess \/ Finish => siteMap' = {}
      BY DEF Finish, EndProcess, NewCore
    <2>2. (\E c \in Commands, f \in OprFile : Launch(c, f)) => siteMap' = {}
      BY <1>1 DEF Launch, FreshWhenIdle, coreVars
    <2>3. CloseUcf => siteMap' = {}
      BY <1>1 DEF CloseUcf, RegionWhileReading, NothingBeforeRegion, coreVars
    <2>4. \/ Idle /\ UNCHANGED <<coreVars, procVars, isPartial, oprs>>
          \/ SetupFromProject \/ OpenUcf \/ ReadAreaGroup \/ BlockColumn \/ EndColumns
          \/ SetPartialMode \/ PlainStep
          => siteMap' = siteMap /\ project' = project
      BY DEF SetupFromProject, SetRegionVertices, OpenUcf, ReadAreaGroup, UpdateRegionExpand,
             BlockColumn, PlaceConstraintsIn, EndColumns, SetPartialMode, SetMode, PlainStep,
             coreVars, procVars
    <2>5. LinkMacros \/ LinkFails \/ BlockRoutes
          => siteMap' = siteMap /\ project'.vertices = project.vertices
      BY <1>1 DEF LinkMacros, LinkFails, BlockRoutes, Project, coreVars
    <2> QED BY <2>1, <2>2, <2>3, <2>4, <2>5, StepKinds
  <1> QED BY <1>2, <1>3, <1>4, <1>5

LEMMA MacrosOnBoundaryKept ==
    ASSUME FlowInvariant, Next
    PROVE  MacrosOnBoundary'
  <1>1. /\ MacrosOnBoundary /\ RegionIsSetUp /\ RegionWhileReading /\ NothingBeforeRegion
        /\ FreshWhenIdle /\ project \in Project
    BY DEF FlowInvariant, TypeOK, ProcessTypes
  <1>2. CASE macroTiles' = macroTiles /\ project'.vertices = project.vertices
    BY <1>1, <1>2 DEF MacrosOnBoundary
  <1>3. CASE macroTiles' = {}
    BY <1>3 DEF MacrosOnBoundary
  <1>4. CASE PlaceMacros
    <2>1. region = project.vertices /\ region \in GridRegion
      BY <1>1, <1>4, RegionAtStep DEF PlaceMacros, RegionIsSetUp, NextStepIn, AtStep
    <2>2. project'.vertices = project.vertices
      BY <1>1, <1>4 DEF PlaceMacros, Project
    <2> SUFFICES ASSUME Interior(project.vertices), NEW t \in macroTiles'
                 PROVE  /\ InRegion(project.vertices, t)
                        /\ t[1] \in {project.vertices.yMin, project.vertices.yMax}
      BY <2>2 DEF MacrosOnBoundary
    <2>3. RegionBuilt = project.vertices
      BY <2>1, InteriorRebounds DEF RegionBuilt, Interior
    <2>4. macroTiles' = macroTiles \cup TilesOf(MacroPlacement(RegionBuilt))
      BY <1>4 DEF PlaceMacros, GenMacroPlacement
    <2>5. CASE t \in macroTiles
      BY <1>1, <2>5 DEF MacrosOnBoundary
    <2>6. CASE t \in TilesOf(MacroPlacement(RegionBuilt))
      <3>1. PICK m \in MacroPlacement(project.vertices) : t = m.tile
        BY <2>3, <2>6 DEF TilesOf
      <3>2. m \in Placed({u \in Tile : InRegion(project.vertices, u)
                             /\ u[1] \in {project.vertices.yMin, project.vertices.yMax}})
        BY <2>1, PlacementIsOnBoundary
      <3> QED BY <3>1, <3>2 DEF Placed
    <2> QED BY <2>4, <2>5, <2>6
  <1>5. \/ macroTiles' = macroTiles /\ project'.vertices = project.vertices
        \/ macroTiles' = {}
        \/ PlaceMacros
    <2>1. EndProcess \/ Finish => macroTiles' = {}
      BY DEF Finish, EndProcess, NewCore
    <2>2. (\E c \in Commands, f \in OprFile : Launch(c, f)) => macroTiles' = {}
      BY <1>1 DEF Launch, FreshWhenIdle, coreVars
    <2>3. CloseUcf => macroTiles' = {}
      BY <1>1 DEF CloseUcf, RegionWhileReading, NothingBeforeRegion, coreVars
    <2>4. \/ Idle /\ UNCHANGED <<coreVars, procVars, isPartial, oprs>>
          \/ SetupFromProject \/ OpenUcf \/ ReadAreaGroup \/ StartColumns \/ BlockColumn
          \/ EndColumns \/ SetPartialMode \/ PlainStep
          => macroTiles' = macroTiles /\ project' = project
      BY DEF SetupFromProject, SetRegionVertices, OpenUcf, ReadAreaGroup, UpdateRegionExpand,
             StartColumns, EnterPlaceConstraints, BlockColumn, PlaceConstraintsIn, EndColumns,
             SetPartialMode, SetMode, PlainStep, coreVars, procVars
    <2>5. LinkMacros \/ LinkFails \/ BlockRoutes
          => macroTiles' = macroTiles /\ project'.vertices = project.vertices
      BY <1>1 DEF LinkMacros, LinkFails, BlockRoutes, Project, coreVars
    <2> QED BY <2>1, <2>2, <2>3, <2>4, <2>5, StepKinds
  <1> QED BY <1>2, <1>3, <1>4, <1>5


LEMMA MacrosAreListedKept ==
    ASSUME FlowInvariant, Next
    PROVE  MacrosAreListed'
  <1> SUFFICES ASSUME Family = "Virtex5"
               PROVE  /\ \A p \in SavedProjects' : p.placed \subseteq p.busMacroNames
                      /\ \A m \in busMacroMap' : m.name.index # NoIndex
                      /\ ~success' => at' > 3
                      /\ success' => project'.placed \subseteq
                             project'.busMacroNames \cup
                             (IF AtStep("link")' THEN NamesOf(busMacroMap') ELSE {})
    BY DEF MacrosAreListed
  <1> DEFINE listed(p) == p.placed \subseteq p.busMacroNames
  <1>1. /\ TypeOK /\ RegionWhileReading /\ FreshWhenIdle
        /\ project \in Project
        /\ command \in Command \cup {"none"}
        /\ at \in 1 .. 6
        /\ oprs \in [OprFile -> Project \cup {NoProject}]
    BY DEF FlowInvariant, TypeOK, ProcessTypes, DirectoryTypes
  <1>2. /\ \A f \in OprFile : listed(oprs[f])
        /\ \A m \in busMacroMap : m.name.index # NoIndex
        /\ ~success => at > 3
        /\ success => project.placed \subseteq
                        project.busMacroNames \cup
                        (IF AtStep("link") THEN NamesOf(busMacroMap) ELSE {})
    BY DEF FlowInvariant, MacrosAreListed, SavedProjects
  <1>3. success /\ ~AtStep("link") => listed(project)
    BY <1>2
  <1>4. \A p \in SavedProjects' : listed(p)
    <2>1. CASE oprs' = oprs
      BY <1>2, <2>1 DEF SavedProjects
    <2>2. CASE Finish
      <3>1. command \in OprFile
        BY <1>1, <2>2 DEF Finish, Idle, OprFile
      <3>2. ~AtStep("link")
        BY <2>2 DEF Finish, AtStep
      <3>3. CASE success
        <4>1. \A f \in OprFile : oprs'[f] = oprs[f] \/ oprs'[f] = project
          BY <1>1, <2>2, <3>1, <3>3 DEF Finish
        <4> QED BY <1>2, <1>3, <3>2, <3>3, <4>1 DEF SavedProjects
      <3>4. CASE ~success
        BY <1>2, <2>2, <3>4 DEF Finish, SavedProjects
      <3> QED BY <3>3, <3>4
    <2>3. oprs' = oprs \/ Finish
      BY StepKinds DEF Launch, SetupFromProject, OpenUcf, ReadAreaGroup, CloseUcf, PlaceMacros,
         LinkMacros, LinkFails, StartColumns, BlockColumn, EndColumns, SetPartialMode, BlockRoutes,
         PlainStep, dirVars
    <2> QED BY <2>1, <2>2, <2>3
  <1>5. \A m \in busMacroMap' : m.name.index # NoIndex
    <2>1. CASE busMacroMap' = busMacroMap \/ busMacroMap' = {}
      BY <1>2, <2>1
    <2>2. CASE PlaceMacros
      <3>1. RegionBuilt \in GridRegion
        BY <2>2, RegionAtStep, MacrosOfRegion DEF PlaceMacros
      <3>2. \A m \in MacroPlacement(RegionBuilt) : m.name.index # NoIndex
        BY <3>1, PlacementIsOnBoundary DEF HasItsIndex
      <3> QED BY <1>2, <2>2, <3>2 DEF PlaceMacros, GenMacroPlacement
    <2>3. busMacroMap' = busMacroMap \/ busMacroMap' = {} \/ PlaceMacros
      BY StepKinds DEF Finish, EndProcess, NewCore, Launch, SetupFromProject, SetRegionVertices,
         OpenUcf, ReadAreaGroup, UpdateRegionExpand, CloseUcf, LinkMacros, LinkFails,
         StartColumns, EnterPlaceConstraints, BlockColumn, PlaceConstraintsIn, EndColumns,
         SetPartialMode, SetMode, BlockRoutes, PlainStep, coreVars
    <2> QED BY <2>1, <2>2, <2>3
  <1>6. CASE EndProcess \/ Finish
    <2>1. success' /\ project' = TopProject
      BY <1>6 DEF Finish, EndProcess
    <2>2. project'.placed = {}
      BY <2>1 DEF TopProject
    <2> QED BY <1>4, <1>5, <2>1, <2>2
  <1>7. ASSUME NEW c \in Commands, NEW f \in OprFile, Launch(c, f)
        PROVE  (~success' => at' > 3) /\ listed(project')
    BY <1>2, <1>7 DEF Launch
  <1>8. CASE PlaceMacros
    <2>1. command \in Command /\ at \in 1 .. Len(Steps[command]) /\ Steps[command][at] = "macros"
      BY <1>1, <1>8, NextStep DEF PlaceMacros, AtStep
    <2>2. at = 2 /\ Len(Steps[command]) >= 3 /\ Steps[command][3] = "link"
      BY <2>1, StepOrder
    <2>3. success
      BY <1>2, <2>2
    <2>4. at' = 3 /\ UNCHANGED <<command, reading, success>>
      BY <1>8, <2>2 DEF PlaceMacros, Done
    <2>5. Len(Steps[command]) \in 1 .. 5
      BY <2>1, StepOrder
    <2>6. AtStep("link")'
      BY <1>8, <2>2, <2>4, <2>5 DEF PlaceMacros, AtStep, Idle, AllDone
    <2>7. listed(project)
      BY <1>3, <2>1, <2>3 DEF AtStep
    <2>8. /\ project'.placed = project.placed \cup NamesOf(MacroPlacement(RegionBuilt))
          /\ project'.busMacroNames = project.busMacroNames
      BY <1>1, <1>8 DEF PlaceMacros, Project
    <2>9. NamesOf(MacroPlacement(RegionBuilt)) \subseteq NamesOf(busMacroMap')
      <3>1. \A m \in MacroPlacement(RegionBuilt) :
                [name |-> m.name, type |-> m.type] \in busMacroMap'
        BY <1>8 DEF PlaceMacros, GenMacroPlacement
      <3>2. \A m \in MacroPlacement(RegionBuilt) : m.name \in NamesOf(busMacroMap')
        <4> SUFFICES ASSUME NEW m \in MacroPlacement(RegionBuilt)
                     PROVE  m.name \in NamesOf(busMacroMap')
          OBVIOUS
        <4> DEFINE b == [name |-> m.name, type |-> m.type]
        <4>1. b \in busMacroMap' /\ b.name = m.name
          BY <3>1
        <4> HIDE DEF b
        <4> QED BY <4>1 DEF NamesOf
      <3> QED BY <3>2 DEF NamesOf
    <2> QED BY <1>4, <1>5, <2>3, <2>4, <2>6, <2>7, <2>8, <2>9
  <1>9. CASE LinkMacros
    <2>1. NamesOf(busMacroMap) \subseteq Listed(busMacroMap)
      BY <1>2 DEF Listed, NamesOf
    <2>2. /\ project'.placed = project.placed
          /\ project'.busMacroNames = project.busMacroNames \cup Listed(busMacroMap)
      BY <1>1, <1>9 DEF LinkMacros, Project
    <2>3. success' = success /\ at' = at + 1
      BY <1>9 DEF LinkMacros, Done
    <2>4. success => listed(project')
      BY <1>2, <2>1, <2>2
    <2> QED BY <1>1, <1>2, <1>4, <1>5, <2>3, <2>4
  <1>10. CASE LinkFails
    <2>1. command \in Command /\ at \in 1 .. Len(Steps[command]) /\ Steps[command][at] = "link"
      BY <1>1, <1>10, NextStep DEF LinkFails, AtStep
    <2>2. at = 3
      BY <2>1, StepOrder
    <2>3. ~success' /\ at' = 4
      BY <1>10, <2>2 DEF LinkFails, Done
    <2> QED BY <1>4, <1>5, <2>3
  <1>11. CASE /\ ~AtStep("link") /\ success' = success /\ at' \in {at, at + 1}
              /\ project'.placed = project.placed
              /\ project'.busMacroNames = project.busMacroNames
    BY <1>1, <1>2, <1>3, <1>4, <1>5, <1>11
  <1>12. CASE \/ Idle /\ UNCHANGED <<coreVars, procVars, isPartial, oprs>>
              \/ SetupFromProject \/ OpenUcf \/ ReadAreaGroup \/ CloseUcf \/ StartColumns
              \/ BlockColumn \/ EndColumns \/ SetPartialMode \/ BlockRoutes \/ PlainStep
    <2>1. ~AtStep("link")
      BY <1>12 DEF SetupFromProject, OpenUcf, ReadAreaGroup, CloseUcf, StartColumns,
            BlockColumn, EndColumns, SetPartialMode, BlockRoutes, PlainStep, AtStep
    <2>2. success' = success /\ at' \in {at, at + 1}
      BY <1>12 DEF SetupFromProject, OpenUcf, ReadAreaGroup, CloseUcf, StartColumns,
            BlockColumn, EndColumns, SetPartialMode, BlockRoutes, PlainStep, Done, procVars
    <2>3. \/ project' = project
          \/ project' = [project EXCEPT !.regionDefined = TRUE, !.vertices = region]
          \/ project' = [project EXCEPT !.netWraps = @ + 1]
      BY <1>12 DEF SetupFromProject, OpenUcf, ReadAreaGroup, CloseUcf, StartColumns,
            BlockColumn, EndColumns, SetPartialMode, BlockRoutes, BuildBlockingNet, PlainStep, procVars
    <2>4. project'.placed = project.placed /\ project'.busMacroNames = project.busMacroNames
      BY <1>1, <2>3 DEF Project
    <2> QED BY <2>1, <2>2, <2>4, <1>11
  <1> QED BY <1>4, <1>5, <1>6, <1>7, <1>8, <1>9, <1>10, <1>12, StepKinds

-----------------------------------------------------------------------------
\* The theorems.

LEMMA InitHolds == Init => FlowInvariant
  <1> SUFFICES ASSUME Init
               PROVE  FlowInvariant
    OBVIOUS
  <1>1. TypeOK
    BY InitIsTyped
  <1>2. /\ FreshWhenIdle /\ RegionWhileReading /\ NothingBeforeRegion /\ ModeOfCommand
        /\ SiteMapOfProject /\ MacrosOnBoundary
    BY DEF Init, InitCore, FreshWhenIdle, RegionWhileReading, NothingBeforeRegion, ModeOfCommand,
           SiteMapOfProject, MacrosOnBoundary
  <1>3. RegionIsSetUp
    BY DEF Init, RegionIsSetUp, NextStepIn, AtStep, Idle
  <1>4. \A p \in {project} \cup SavedProjects : p = TopProject \/ p = NoProject
    BY DEF Init, SavedProjects
  <1>5. \A p \in {TopProject, NoProject} : ~p.regionDefined /\ p.placed = {}
    BY DEF TopProject, NoProject
  <1>6. RegionsOnGrid
    BY <1>4, <1>5 DEF RegionsOnGrid
  <1>7. MacrosAreListed
    <2>1. success /\ busMacroMap = {}
      BY DEF Init, InitCore
    <2>2. /\ \A p \in SavedProjects : p.placed = {}
          /\ project.placed = {}
      BY <1>4, <1>5
    <2> QED BY <2>1, <2>2 DEF MacrosAreListed
  <1> QED BY <1>1, <1>2, <1>3, <1>6, <1>7 DEF FlowInvariant

LEMMA StuttersHold ==
    ASSUME FlowInvariant, UNCHANGED vars
    PROVE  FlowInvariant'
  <1>1. UNCHANGED <<coreVars, procVars, dirVars, bounds>>
    BY DEF vars
  <1>2. TypeOK'
    BY <1>1 DEF FlowInvariant, TypeOK, CoreTypes, ProcessTypes, DirectoryTypes, coreVars, procVars,
                dirVars, ucfVars, bounds
  <1>3. /\ FreshWhenIdle' /\ RegionWhileReading' /\ NothingBeforeRegion' /\ ModeOfCommand'
        /\ SiteMapOfProject' /\ MacrosOnBoundary'
    BY <1>1 DEF FlowInvariant, FreshWhenIdle, RegionWhileReading, NothingBeforeRegion,
                ModeOfCommand, SiteMapOfProject, MacrosOnBoundary, Idle, AllDone, coreVars,
                procVars, dirVars
  <1>4. RegionIsSetUp' /\ RegionsOnGrid'
    BY <1>1 DEF FlowInvariant, RegionIsSetUp, RegionsOnGrid, SavedProjects, NextStepIn, AtStep,
                Idle, AllDone, coreVars, procVars, dirVars
  <1>5. MacrosAreListed'
    BY <1>1 DEF FlowInvariant, MacrosAreListed, SavedProjects, AtStep, Idle, AllDone, coreVars,
                procVars, dirVars
  <1> QED BY <1>2, <1>3, <1>4, <1>5 DEF FlowInvariant

\* What a process knows at each step holds in every reachable state.
THEOREM FlowInvariantHolds == Spec => []FlowInvariant
  <1>1. FlowInvariant /\ [Next]_vars => FlowInvariant'
    <2> SUFFICES ASSUME FlowInvariant, [Next]_vars
                 PROVE  FlowInvariant'
      OBVIOUS
    <2>1. CASE Next
      BY <2>1, TypesKept, FreshWhenIdleKept, RegionWhileReadingKept, NothingBeforeRegionKept,
         RegionIsSetUpKept, ModeOfCommandKept, RegionsOnGridKept, SiteMapOfProjectKept,
         MacrosOnBoundaryKept, MacrosAreListedKept DEF FlowInvariant
    <2>2. CASE UNCHANGED vars
      BY <2>2, StuttersHold
    <2> QED BY <2>1, <2>2
  <1> QED BY <1>1, InitHolds, PTL DEF Spec

\* Every variable keeps its type, whatever fails or is killed.
THEOREM TypeCorrect == Spec => []TypeOK
  <1>1. FlowInvariant => TypeOK
    BY DEF FlowInvariant
  <1> QED BY <1>1, FlowInvariantHolds, PTL

\* No project file ever says that an invalid region is defined.
THEOREM ProjectsHoldValidRegionsAlways == Spec => []ProjectsHoldValidRegions
  <1>1. FlowInvariant => ProjectsHoldValidRegions
    BY DEF FlowInvariant, RegionsOnGrid, SavedProjects, ProjectsHoldValidRegions
  <1> QED BY <1>1, FlowInvariantHolds, PTL

\* The blocker and the bitstream builder find the mask their command needs.
THEOREM MaskServesCommandAlways == Spec => []MaskServesCommand
  <1>1. FlowInvariant => MaskServesCommand
    <2> SUFFICES ASSUME FlowInvariant
                 PROVE  MaskServesCommand
      OBVIOUS
    <2>1. TypeOK /\ RegionIsSetUp /\ ModeOfCommand
      BY DEF FlowInvariant
    <2>2. ASSUME AtStep("block")
          PROVE  mask = MaskOf(project.vertices, IF isPartial THEN "partial" ELSE "static")
      <3>1. mask = MaskOf(project.vertices, mode)
        BY <2>1, <2>2 DEF RegionIsSetUp, NextStepIn, AtStep
      <3>2. command \in Command /\ at \in 1 .. Len(Steps[command]) /\ Steps[command][at] = "block"
        BY <2>1, <2>2, NextStep DEF AtStep
      <3>3. command = "routeBlocker" /\ at > 1
        BY <3>2, StepOrder
      <3> QED BY <2>1, <3>1, <3>3 DEF ModeOfCommand
    <2>3. ASSUME AtStep("bits")
          PROVE  GetRegionTiles = {t \in Tile : InRegion(project.vertices, t)}
      <3>1. mask = MaskOf(project.vertices, mode)
        BY <2>1, <2>3 DEF RegionIsSetUp, NextStepIn, AtStep
      <3>2. command \in Command /\ at \in 1 .. Len(Steps[command]) /\ Steps[command][at] = "bits"
        BY <2>1, <2>3, NextStep DEF AtStep
      <3>3. command = "genPartialBitstream"
        BY <3>2, StepOrder
      <3>4. mode = "static"
        BY <2>1, <3>3 DEF ModeOfCommand
      <3> QED BY <3>1, <3>4, StaticMask DEF GetRegionTiles
    <2> QED BY <2>2, <2>3 DEF MaskServesCommand
  <1> QED BY <1>1, FlowInvariantHolds, PTL

\* The site map is never stale when it is read.
THEOREM SiteMapIsFreshAlways == Spec => []SiteMapIsFresh
  <1>1. FlowInvariant => SiteMapIsFresh
    <2> SUFFICES ASSUME FlowInvariant, AtStep("macros") \/ (AtStep("sites") /\ column = NoColumn)
                 PROVE  SiteMapBuilt = SiteMapOf(project.vertices)
      BY DEF SiteMapIsFresh
    <2>1. region = project.vertices
      BY DEF FlowInvariant, RegionIsSetUp, NextStepIn, AtStep
    <2>2. siteMap \in {{}, SiteMapOf(project.vertices)}
      BY DEF FlowInvariant, SiteMapOfProject
    <2> QED BY <2>1, <2>2 DEF SiteMapBuilt
  <1> QED BY <1>1, FlowInvariantHolds, PTL

\* In the interior of any device, macros land on the edge of the project's region.
THEOREM MacrosOnBoundaryAlways == Spec => []MacrosOnBoundary
  <1>1. FlowInvariant => MacrosOnBoundary
    BY DEF FlowInvariant
  <1> QED BY <1>1, FlowInvariantHolds, PTL

\* On a Virtex-5, constraints lock every macro placed, after any history of failures.
THEOREM LocksCoverMacrosOnV5 ==
    ASSUME Family = "Virtex5"
    PROVE  Spec => LocksCoverMacros
  <1>1. FlowInvariant /\ [Next]_vars
            => [GenLockConstraints => project.placed \subseteq pcf'.locked]_vars
    <2> SUFFICES ASSUME FlowInvariant, GenLockConstraints
                 PROVE  project.placed \subseteq pcf'.locked
      OBVIOUS
    <2>1. TypeOK /\ MacrosAreListed
      BY DEF FlowInvariant
    <2>2. command \in Command /\ at \in 1 .. Len(Steps[command]) /\ Steps[command][at] = "lock"
      BY <2>1, NextStep DEF GenLockConstraints, AtStep
    <2>3. at <= 2
      BY <2>2, StepOrder
    <2>4. success
      BY <2>1, <2>2, <2>3 DEF MacrosAreListed
    <2>5. ~AtStep("link")
      BY <2>2 DEF AtStep
    <2>6. project.placed \subseteq project.busMacroNames
      BY <2>1, <2>4, <2>5 DEF MacrosAreListed
    <2>7. pcf'.locked = pcf.locked \cup project.busMacroNames
      BY <2>1 DEF GenLockConstraints, TypeOK, DirectoryTypes
    <2> QED BY <2>6, <2>7
  <1> QED BY <1>1, FlowInvariantHolds, PTL DEF Spec, LocksCoverMacros


-----------------------------------------------------------------------------
\* Prohibited sites.

\* What siteBlocker knows while it visits the columns.
VisitingColumns ==
    /\ AtStep("sites")
    /\ project.regionDefined
    /\ siteMap = SiteMapOf(project.vertices)
    /\ \E b \in {project.vertices, Rebound(project.vertices)} : region = ExpandRegion(b, Margin)
    /\ column \in region.xMin .. region.xMax + 1
    /\ IF column = region.xMin THEN prohibitedSites = NoRanges ELSE HeldOf(column - 1)
    /\ ColumnsHaveCorners(0) /\ RowsOnGrid =>
          \A s \in SitesToProhibit(region.xMin .. column - 1) :
              \E range \in prohibits \cup Held : Covers(range, s)
    /\ ColumnsHaveCorners(0) /\ RowsOnGrid =>
          \A s \in SitesToProhibit(region.xMin .. column - 2) :
              \E range \in prohibits : Covers(range, s)

\* The inductive invariant, next to FlowInvariant.
SitesInvariant ==
    /\ column # NoColumn => VisitingColumns
    /\ column = NoColumn /\ (Idle \/ ~AllDone) => prohibitedSites = NoRanges
    /\ MacroTilesHaveSlices => \A t \in macroTiles : t \in siteMap /\ SlicesAt(t) # {}

LEMMA WindowVisited ==
    ASSUME FlowInvariant, VisitingColumns
    PROVE  /\ project.vertices \in GridRegion
           /\ region \in Region
           /\ region.yMin \in Nat /\ region.yMax \in Int /\ region.yMin <= region.yMax
           /\ region.xMin \in Nat /\ region.xMax \in Int /\ column \in Nat
           /\ siteMap \subseteq Tile
           /\ region.yMin <= ExpandRegion(project.vertices, Margin).yMin
           /\ ExpandRegion(project.vertices, Margin).yMax <= region.yMax
  <1>1. project.vertices \in GridRegion
    BY RegionAtStep DEF VisitingColumns
  <1>2. PICK b \in {project.vertices, Rebound(project.vertices)} :
            region = ExpandRegion(b, Margin)
    BY DEF VisitingColumns
  <1>3. /\ region \in Region /\ region.yMin <= region.yMax
        /\ region.yMin <= ExpandRegion(project.vertices, Margin).yMin
        /\ ExpandRegion(project.vertices, Margin).yMax <= region.yMax
    BY <1>1, <1>2, WindowOfRegion
  <1>4. /\ region.yMin \in Nat /\ region.yMax \in Int
        /\ region.xMin \in Nat /\ region.xMax \in Int
    BY <1>3, FabricAssumption DEF Region
  <1>5. column \in Nat
    BY <1>4 DEF VisitingColumns
  <1>6. siteMap \subseteq Tile
    BY DEF VisitingColumns, SiteMapOf
  <1> QED BY <1>1, <1>3, <1>4, <1>5, <1>6

\* Only some tiles of one column come with the next one.
LEMMA NextColumnSites ==
    ASSUME NEW lo \in Int, NEW col \in Int, NEW s \in SitesToProhibit(lo .. col)
    PROVE  \/ s \in SitesToProhibit(lo .. col - 1)
           \/ \E t \in siteMap \ macroTiles : t[2] = col /\ s \in ToSet(SitesOf[t])
  <1>1. PICK t \in siteMap \ macroTiles :
            t[2] \in lo .. col /\ s \in ToSet(SitesOf[t]) /\ s.type # "BUFGCTRL"
    BY DEF SitesToProhibit, SitesAt
  <1>2. t[2] \in lo .. col - 1 \/ t[2] = col
    BY <1>1
  <1> QED BY <1>1, <1>2 DEF SitesToProhibit, SitesAt

\* Entering a column writes what is held of the one before it.
LEMMA BlockColumnWrites ==
    ASSUME FlowInvariant, VisitingColumns, column <= region.xMax,
           ColumnsHaveCorners(0), RowsOnGrid,
           NEW stray \in StrayTiles \cup {NoTile}, NEW acc, acc = VisitColumn(column, stray),
           NEW s \in SitesToProhibit(region.xMin .. column - 1)
    PROVE  \E range \in prohibits \cup acc.lines : Covers(range, s)
  <1>1. SegmentRow /\ region.yMin <= region.yMax
    BY WindowVisited DEF SegmentRow
  <1>2. s.type # "BUFGCTRL"
    BY DEF SitesToProhibit
  <1>3. PICK range \in prohibits \cup Held : Covers(range, s)
    BY DEF VisitingColumns
  <1>4. range.min.type # "BUFGCTRL"
    BY <1>3, <1>2 DEF Covers
  <1>5. range \in prohibits \cup Written(prohibitedSites)
    <2>1. Held = {} \/ HeldOf(column - 1)
      BY DEF VisitingColumns, Held, NoRanges
    <2> QED BY <1>3, <1>4, <2>1, HeldIsWritten
  <1>6. Written(prohibitedSites) \subseteq acc.lines
    BY <1>1, ColumnVisited
  <1> QED BY <1>3, <1>5, <1>6

LEMMA BlockColumnCovers ==
    ASSUME FlowInvariant, VisitingColumns, column <= region.xMax,
           ColumnsHaveCorners(0), RowsOnGrid,
           NEW stray \in StrayTiles \cup {NoTile}, NEW acc, acc = VisitColumn(column, stray),
           NEW s \in SitesToProhibit(region.xMin .. column)
    PROVE  \/ \E range \in prohibits \cup acc.lines : Covers(range, s)
           \/ s.type \in DOMAIN acc.ranges /\ Covers(acc.ranges[s.type], s)
  <1>1. SegmentRow /\ region.yMin <= region.yMax
    BY WindowVisited DEF SegmentRow
  <1>2. s.type # "BUFGCTRL"
    BY DEF SitesToProhibit
  <1>3. CASE s \in SitesToProhibit(region.xMin .. column - 1)
    BY <1>3, BlockColumnWrites
  <1>4. CASE s \notin SitesToProhibit(region.xMin .. column - 1)
    <2>1. PICK t \in siteMap \ macroTiles : t[2] = column /\ s \in ToSet(SitesOf[t])
      BY <1>4, NextColumnSites, WindowVisited
    <2>2. column \in Col
      BY <2>1, WindowVisited DEF Tile
    <2>3. SegmentsHaveCorners(column, stray)
      <3>1. OnGrid(column, stray, region.yMin, region.yMax)
        BY <2>2, LookUpsOnGrid, WindowVisited
      <3> QED BY <3>1, <1>1, LayoutHasCorners, WindowVisited DEF VisitingColumns, SegmentRow
    <2>4. s \in FreeSites(column, stray, region.yMin, region.yMax)
      <3>1. ToSet(SitesOf[t]) \subseteq FreeSites(t[2], stray, region.yMin, region.yMax)
        BY <1>1, ColumnPassesSites, WindowVisited DEF VisitingColumns, SegmentRow
      <3> QED BY <2>1, <3>1
    <2>5. \A u \in FreeSites(column, stray, region.yMin, region.yMax) :
              u.type # "BUFGCTRL" =>
                 \/ \E range \in acc.lines : Covers(range, u)
                 \/ u.type \in DOMAIN acc.ranges /\ Covers(acc.ranges[u.type], u)
      BY <1>1, <2>3, ColumnVisited
    <2> QED BY <1>2, <2>4, <2>5
  <1> QED BY <1>3, <1>4

LEMMA StartColumnsVisits ==
    ASSUME FlowInvariant, SitesInvariant, StartColumns
    PROVE  SitesInvariant'
  <1>1. /\ project.regionDefined /\ project.vertices \in GridRegion
        /\ region = project.vertices
        /\ siteMap \in {{}, SiteMapOf(project.vertices)}
    BY RegionAtStep DEF StartColumns, FlowInvariant, RegionIsSetUp, SiteMapOfProject
  <1>2. prohibitedSites = NoRanges
    BY DEF StartColumns, AtStep, SitesInvariant
  <1>3. /\ siteMap' = SiteMapOf(project.vertices)
        /\ region' = ExpandRegion(RegionBuilt, Margin)
        /\ RegionBuilt \in {project.vertices, Rebound(project.vertices)}
        /\ UNCHANGED <<macroTiles, prohibitedSites, project, command, at, reading>>
        /\ column' = region'.xMin
    BY <1>1 DEF StartColumns, EnterPlaceConstraints, SiteMapBuilt, RegionBuilt
  <1>4. region' \in Region /\ region'.xMin <= region'.xMax
    BY <1>1, <1>3, WindowOfRegion
  <1>5. /\ region'.xMin \in Int /\ region'.xMax \in Int
        /\ region'.xMin # NoColumn
    BY <1>4, FabricAssumption DEF Region, NoColumn
  <1>6. VisitingColumns'
    <2>1. AtStep("sites")'
      BY <1>3 DEF StartColumns, AtStep, Idle, AllDone
    <2>2. column' \in region'.xMin .. region'.xMax + 1
      BY <1>3, <1>4, <1>5
    <2>3. (SitesToProhibit(region.xMin .. column - 1))' = {}
      <3>1. (region.xMin .. column - 1)' = {}
        BY <1>3, <1>5
      <3> QED BY <3>1 DEF SitesToProhibit, SitesAt
    <2>4. \E b \in {project'.vertices, Rebound(project'.vertices)} :
              region' = ExpandRegion(b, Margin)
      BY <1>3
    <2>5. (SitesToProhibit(region.xMin .. column - 2))' = {}
      <3>1. (region.xMin .. column - 2)' = {}
        BY <1>3, <1>5
      <3> QED BY <3>1 DEF SitesToProhibit, SitesAt
    <2> QED BY <1>1, <1>2, <1>3, <2>1, <2>2, <2>3, <2>4, <2>5 DEF VisitingColumns
  <1>7. MacroTilesHaveSlices => \A t \in macroTiles' : t \in siteMap' /\ SlicesAt(t) # {}
    BY <1>1, <1>3 DEF SitesInvariant
  <1> QED BY <1>3, <1>5, <1>6, <1>7 DEF SitesInvariant

LEMMA BlockColumnVisits ==
    ASSUME FlowInvariant, SitesInvariant, BlockColumn
    PROVE  SitesInvariant'
  <1>1. VisitingColumns /\ column <= region.xMax
    BY DEF BlockColumn, SitesInvariant
  <1>2. PICK stray \in StrayTiles \cup {NoTile} :
            /\ PlaceConstraintsIn(column, stray)
            /\ prohibits' = prohibits \cup ColumnLines(column, stray)
    BY DEF BlockColumn
  <1> DEFINE acc == VisitColumn(column, stray)
  <1>3. /\ prohibitedSites' = acc.ranges
        /\ prohibits' = prohibits \cup acc.lines
        /\ UNCHANGED <<region, siteMap, macroTiles>>
        /\ UNCHANGED <<project, command, at, reading>>
        /\ column' = column + 1
    BY <1>2 DEF BlockColumn, PlaceConstraintsIn, ColumnLines
  <1>4. /\ region.xMin \in Nat /\ region.xMax \in Int /\ column \in Nat
        /\ SegmentRow /\ region.yMin <= region.yMax
    BY <1>1, WindowVisited DEF SegmentRow
  <1>5. region.xMin <= column
    BY <1>1, <1>4 DEF VisitingColumns
  <1>6. column' \in region.xMin .. region.xMax + 1 /\ column' # region.xMin /\ column' - 1 = column
    BY <1>1, <1>3, <1>4, <1>5
  <1>7. HeldOf(column - 1)'
    <2>1. \A k \in DOMAIN acc.ranges : IsRangeOf(acc.ranges[k], k, column, stray)
      BY <1>4, ColumnVisited
    <2> HIDE DEF acc
    <2>2. \A k \in DOMAIN prohibitedSites' :
              IsRangeOf(prohibitedSites'[k], k, column' - 1, stray)
      BY <1>3, <1>6, <2>1
    <2>3. \A k \in DOMAIN prohibitedSites' :
              IsRangeOf(prohibitedSites[k], k, column - 1, stray)'
      <3> TAKE k \in DOMAIN prohibitedSites'
      <3>1. PICK lo \in region.yMin .. region.yMax, hi \in region.yMin .. region.yMax :
                /\ Uncut(column, stray, lo, hi)
                /\ {prohibitedSites'[k].min, prohibitedSites'[k].max}
                      \subseteq OfType(k, FreeSites(column, stray, lo, hi))
        BY <2>2, <1>6 DEF IsRangeOf
      <3>2. Free(column - 1, stray, lo, hi)' = Free(column, stray, lo, hi)
        BY <1>3, <1>6 DEF Free
      <3>3. Uncut(column - 1, stray, lo, hi)'
        BY <1>3, <1>6, <3>1 DEF Uncut, IsCut
      <3> QED BY <1>3, <3>1, <3>2, <3>3 DEF IsRangeOf, FreeSites, OfType
    <2> QED BY <2>3 DEF HeldOf
  <1>8. ASSUME ColumnsHaveCorners(0), RowsOnGrid',
               NEW s \in SitesToProhibit(region.xMin .. column)
        PROVE  \E range \in prohibits' \cup Held' : Covers(range, s)
    <2>1. RowsOnGrid
      BY <1>3, <1>8 DEF RowsOnGrid
    <2>2. \/ \E range \in prohibits \cup acc.lines : Covers(range, s)
          \/ s.type \in DOMAIN acc.ranges /\ Covers(acc.ranges[s.type], s)
      BY <1>1, <1>8, <2>1, BlockColumnCovers
    <2>3. Held' = {acc.ranges[k] : k \in DOMAIN acc.ranges}
      BY <1>3 DEF Held
    <2> HIDE DEF acc
    <2> QED BY <1>3, <2>2, <2>3
  <1>12. ASSUME ColumnsHaveCorners(0), RowsOnGrid',
                NEW s \in SitesToProhibit(region.xMin .. column - 1)
         PROVE  \E range \in prohibits' : Covers(range, s)
    <2>1. RowsOnGrid
      BY <1>3, <1>12 DEF RowsOnGrid
    <2>2. \E range \in prohibits \cup acc.lines : Covers(range, s)
      BY <1>1, <1>12, <2>1, BlockColumnWrites
    <2> HIDE DEF acc
    <2> QED BY <1>3, <2>2
  <1> HIDE DEF acc
  <1>9. (SitesToProhibit(region.xMin .. column - 1))' = SitesToProhibit(region.xMin .. column)
    BY <1>3, <1>6 DEF SitesToProhibit
  <1>13. (SitesToProhibit(region.xMin .. column - 2))' = SitesToProhibit(region.xMin .. column - 1)
    <2>1. column' - 2 = column - 1
      BY <1>3, <1>4
    <2> QED BY <1>3, <2>1 DEF SitesToProhibit
  <1>10. VisitingColumns'
    <2>1. AtStep("sites")'
      BY <1>3 DEF BlockColumn, AtStep, Idle, AllDone
    <2>2. /\ project'.regionDefined
          /\ siteMap' = SiteMapOf(project'.vertices)
          /\ \E b \in {project'.vertices, Rebound(project'.vertices)} :
                region' = ExpandRegion(b, Margin)
          /\ column' \in region'.xMin .. region'.xMax + 1
      BY <1>1, <1>3, <1>6 DEF VisitingColumns
    <2>3. IF column' = region'.xMin THEN prohibitedSites' = NoRanges ELSE HeldOf(column - 1)'
      BY <1>3, <1>6, <1>7
    <2>4. ColumnsHaveCorners(0) /\ RowsOnGrid' =>
              \A s \in (SitesToProhibit(region.xMin .. column - 1))' :
                  \E range \in prohibits' \cup Held' : Covers(range, s)
      BY <1>8, <1>9
    <2>5. ColumnsHaveCorners(0) /\ RowsOnGrid' =>
              \A s \in (SitesToProhibit(region.xMin .. column - 2))' :
                  \E range \in prohibits' : Covers(range, s)
      BY <1>12, <1>13
    <2> QED BY <2>1, <2>2, <2>3, <2>4, <2>5 DEF VisitingColumns
  <1>11. column' # NoColumn
    BY <1>3, <1>4 DEF NoColumn
  <1> QED BY <1>3, <1>10, <1>11 DEF SitesInvariant

\* A step of a process that is at none of its columns.
QuietStep == /\ column = NoColumn /\ column' = NoColumn
             /\ Idle \/ ~AllDone
             /\ UNCHANGED <<prohibitedSites, siteMap, macroTiles>>

\* Macros are in tiles of the region, of the types that can hold one.
LEMMA PlacementIsOfType ==
    ASSUME NEW r \in GridRegion, NEW t \in TilesOf(MacroPlacement(r))
    PROVE  t \in Tile /\ InRegion(r, t) /\ TileType[t] \in MacroTileTypes
  <1>1. PICK y \in {r.yMin, r.yMax} : t \in CandidateTiles(r, y)
    <2>1. PICK m \in MacroPlacement(r) : t = m.tile
      BY DEF TilesOf
    <2>2. PICK dir, S : /\ m \in MacrosOn(dir, S)
                        /\ S \subseteq CandidateTiles(r, r.yMin)
                              \/ S \subseteq CandidateTiles(r, r.yMax)
      <3>1. CASE m \in MacrosOn("input", CandidateTiles(r, r.yMin))
        BY <3>1
      <3>2. CASE m \in MacrosOn("output", CandidateTiles(r, r.yMax))
        BY <3>2
      <3>3. CASE m \in MacrosOn("output", CandidateTiles(r, r.yMax) \
                                   TilesOf(MacrosOn("input", CandidateTiles(r, r.yMin))))
        BY <3>3
      <3> QED BY <3>1, <3>2, <3>3 DEF MacroPlacement, MacroPlacementV5, MacroPlacementV4
    <2>3. m.tile \in S
      BY <2>2 DEF MacrosOn, Leftmost
    <2> QED BY <2>1, <2>2, <2>3
  <1> QED BY <1>1, CandidatesAreTiles

LEMMA PlaceMacrosIsMapped ==
    ASSUME FlowInvariant, SitesInvariant, PlaceMacros
    PROVE  SitesInvariant'
  <1>1. /\ project.vertices \in GridRegion
        /\ region = project.vertices
        /\ siteMap \in {{}, SiteMapOf(project.vertices)}
    BY RegionAtStep DEF PlaceMacros, FlowInvariant, RegionIsSetUp, SiteMapOfProject, AtStep,
                        NextStepIn
  <1>2. column = NoColumn /\ prohibitedSites = NoRanges
    BY DEF PlaceMacros, AtStep, SitesInvariant, VisitingColumns
  <1>3. /\ siteMap' = SiteMapOf(project.vertices)
        /\ RegionBuilt \in {project.vertices, Rebound(project.vertices)}
        /\ macroTiles' = macroTiles \cup TilesOf(MacroPlacement(RegionBuilt))
        /\ UNCHANGED <<prohibitedSites, column>>
    BY <1>1 DEF PlaceMacros, GenMacroPlacement, SiteMapBuilt, RegionBuilt, Done
  <1>4. ASSUME MacroTilesHaveSlices, NEW t \in macroTiles'
        PROVE  t \in siteMap' /\ SlicesAt(t) # {}
    <2>1. CASE t \in macroTiles
      BY <1>1, <1>3, <1>4, <2>1 DEF SitesInvariant
    <2>2. CASE t \in TilesOf(MacroPlacement(RegionBuilt))
      <3>1. RegionBuilt \in GridRegion
        BY <1>1, <1>3, ReboundIsGridRegion
      <3>2. /\ t \in Tile /\ InRegion(RegionBuilt, t)
            /\ TileType[t] \in MacroTileTypes
        BY <2>2, <3>1, PlacementIsOfType
      <3>3. InRegion(ExpandRegion(project.vertices, Margin), t)
        BY <1>1, <1>3, <3>2, WindowOfRegion
      <3>4. SlicesAt(t) # {}
        BY <1>4, <3>2 DEF MacroTilesHaveSlices
      <3>5. SitesOf[t] # <<>>
        BY <3>4 DEF SlicesAt, ToSet
      <3> QED BY <1>3, <3>2, <3>3, <3>4, <3>5 DEF SiteMapOf
    <2> QED BY <1>3, <2>1, <2>2
  <1> QED BY <1>2, <1>3, <1>4 DEF SitesInvariant

LEMMA SitesKept ==
    ASSUME FlowInvariant, SitesInvariant, Next
    PROVE  SitesInvariant'
  <1>1. TypeOK /\ RegionWhileReading
    BY DEF FlowInvariant
  <1>2. ~AtStep("sites") => column = NoColumn
    BY DEF SitesInvariant, VisitingColumns
  <1>3. CASE EndProcess \/ Finish
    BY <1>3 DEF Finish, EndProcess, NewCore, SitesInvariant
  <1>4. CASE StartColumns \/ BlockColumn \/ PlaceMacros
    BY <1>4, StartColumnsVisits, BlockColumnVisits, PlaceMacrosIsMapped
  <1>5. CASE QuietStep
    BY <1>5 DEF QuietStep, SitesInvariant
  <1>6. CASE EndColumns
    <2>1. command \in Command /\ at \in 1 .. Len(Steps[command]) /\ Steps[command][at] = "sites"
      BY <1>1, <1>6, NextStep DEF EndColumns, AtStep
    <2>2. at = Len(Steps[command])
      BY <2>1, StepOrder
    <2>3. command' = command /\ at' = at + 1 /\ column' = NoColumn
          /\ UNCHANGED coreVars /\ ~Idle
      BY <1>6 DEF EndColumns, AtStep
    <2>4. AllDone'
      <3>1. Len(Steps[command]) \in 1 .. 5
        BY <2>1, StepOrder
      <3> QED BY <2>2, <2>3, <3>1 DEF AllDone
    <2> QED BY <2>3, <2>4 DEF SitesInvariant, Idle, coreVars
  <1>7. \/ EndProcess \/ Finish
        \/ StartColumns \/ BlockColumn \/ EndColumns \/ PlaceMacros
        \/ QuietStep
    <2>1. CASE Idle /\ UNCHANGED <<coreVars, procVars, isPartial, oprs>>
      BY <1>2, <2>1 DEF AtStep, QuietStep, coreVars, procVars
    <2>2. CASE \E c \in Commands, f \in OprFile : Launch(c, f)
      BY <1>2, <2>2 DEF Launch, AtStep, QuietStep, coreVars
    <2>3. CASE ReadAreaGroup \/ CloseUcf
      BY <1>1, <1>2, <2>3 DEF ReadAreaGroup, UpdateRegionExpand, CloseUcf, RegionWhileReading,
                              AtStep, QuietStep, coreVars
    <2>4. CASE \/ SetupFromProject \/ OpenUcf \/ LinkMacros \/ LinkFails \/ SetPartialMode
               \/ BlockRoutes \/ PlainStep
      BY <1>2, <2>4 DEF SetupFromProject, SetRegionVertices, OpenUcf, LinkMacros, LinkFails,
                        SetPartialMode, SetMode, BlockRoutes, PlainStep, AtStep, Done,
                        QuietStep, coreVars
    <2> QED BY <2>1, <2>2, <2>3, <2>4, StepKinds
  <1> QED BY <1>3, <1>4, <1>5, <1>6, <1>7

\* The ranges held and written are those of the columns visited so far.
THEOREM SitesInvariantHolds == Spec => []SitesInvariant
  <1>1. Init => SitesInvariant
    BY DEF Init, InitCore, SitesInvariant
  <1>2. FlowInvariant /\ SitesInvariant /\ [Next]_vars => SitesInvariant'
    <2> SUFFICES ASSUME FlowInvariant, SitesInvariant, [Next]_vars
                 PROVE  SitesInvariant'
      OBVIOUS
    <2>1. CASE Next
      BY <2>1, SitesKept
    <2>2. CASE UNCHANGED vars
      <3>1. VisitingColumns' <=> VisitingColumns
        BY <2>2 DEF VisitingColumns, HeldOf, Held, IsRangeOf, Uncut, IsCut, OfType, FreeSites, Free,
                    SitesToProhibit, RowsOnGrid, AtStep, Idle, AllDone, vars, coreVars, procVars,
                    dirVars, ucfVars
      <3> QED BY <2>2, <3>1 DEF SitesInvariant, Idle, AllDone, vars, coreVars, procVars
    <2> QED BY <2>1, <2>2
  <1> QED BY <1>1, <1>2, FlowInvariantHolds, PTL DEF Spec

\* On any regular layout, however its tiles order their sites and wherever macros cut the
\* columns, no site of the columns visited is left out.
THEOREM SitesAreProhibitedOnGrid ==
    ASSUME ColumnsHaveCorners(0)
    PROVE  Spec => [](RowsOnGrid => SitesAreProhibited)
  <1>1. SitesInvariant => (RowsOnGrid => SitesAreProhibited)
    <2> SUFFICES ASSUME SitesInvariant, RowsOnGrid, column # NoColumn,
                        NEW s \in SitesToProhibit(region.xMin .. column - 1)
                 PROVE  \E range \in prohibits \cup Held : Covers(range, s)
      BY DEF SitesAreProhibited, Held
    <2>1. VisitingColumns
      BY DEF SitesInvariant
    <2> QED BY <2>1 DEF VisitingColumns
  <1> QED BY <1>1, SitesInvariantHolds, PTL

\* The columns of the promised margin are those before the last one visited, or reach the
\* edge of the grid, which the window passes by one.
LEMMA PromisedColumns ==
    ASSUME NEW r \in GridRegion, NEW b \in {r, Rebound(r)},
           NEW t \in Tile, InRegion(ExpandRegion(r, PromisedMargin), t)
    PROVE  /\ InRegion(ExpandRegion(r, Margin), t)
           /\ t[2] \in ExpandRegion(b, Margin).xMin .. ExpandRegion(b, Margin).xMax - 1
  <1> DEFINE around == ExpandRegion(r, Margin)
             promised == ExpandRegion(r, PromisedMargin)
             window == ExpandRegion(b, Margin)
  <1>1. /\ r.xMin \in Nat /\ r.xMax \in Nat /\ r.xMax < ColCount
        /\ r.yMin \in Nat /\ r.yMax \in Nat /\ r.yMax < RowCount
        /\ RowCount \in Nat /\ ColCount \in Nat
        /\ t[1] \in Int /\ t[2] \in 0 .. ColCount - 1
    BY FabricAssumption DEF GridRegion, Row, Col, Tile
  <1>2. /\ around.xMin = Greater(0, r.xMin - 3) /\ around.xMax = Lesser(ColCount, r.xMax + 3)
        /\ around.yMin = Greater(0, r.yMin - 3) /\ around.yMax = Lesser(RowCount, r.yMax + 3)
    BY DEF ExpandRegion, Margin
  <1>3. /\ promised.xMin = Greater(0, r.xMin - 2) /\ promised.xMax = Lesser(ColCount, r.xMax + 2)
        /\ promised.yMin = Greater(0, r.yMin - 2) /\ promised.yMax = Lesser(RowCount, r.yMax + 2)
    BY DEF ExpandRegion, PromisedMargin
  <1>4. /\ window \in Region
        /\ window.xMin <= around.xMin /\ around.xMax <= window.xMax
    BY WindowOfRegion
  <1>5. window.xMin \in Int /\ window.xMax \in Int
    BY <1>4, FabricAssumption DEF Region
  <1>6. /\ t[1] \in promised.yMin .. promised.yMax
        /\ t[2] \in promised.xMin .. promised.xMax
    BY DEF InRegion
  <1> HIDE DEF around, promised, window
  <1>7. t[1] \in around.yMin .. around.yMax
    BY <1>1, <1>2, <1>3, <1>6 DEF Lesser, Greater
  <1>8. t[2] \in around.xMin .. around.xMax - 1
    BY <1>1, <1>2, <1>3, <1>6 DEF Lesser, Greater
  <1>9. around.xMin \in Int /\ around.xMax \in Int
    BY <1>1, <1>2 DEF Lesser, Greater
  <1>10. /\ t[2] \in around.xMin .. around.xMax
         /\ t[2] \in window.xMin .. window.xMax - 1
    BY <1>4, <1>5, <1>8, <1>9
  <1> QED BY <1>7, <1>10 DEF InRegion, around, window

\* On any regular layout, when placement constraints are written, the two tiles around the
\* region that the code promises to keep free are in the UCF, although what is gathered
\* of the last column never gets there.
THEOREM MarginIsWrittenOnGrid ==
    ASSUME ColumnsHaveCorners(0)
    PROVE  Spec => [](RowsOnGrid => MarginIsWritten)
  <1>1. FlowInvariant /\ SitesInvariant => (RowsOnGrid => MarginIsWritten)
    <2> SUFFICES ASSUME FlowInvariant, SitesInvariant, RowsOnGrid,
                        AtStep("sites"), column > region.xMax,
                        NEW t \in Tile \ macroTiles,
                        InRegion(ExpandRegion(project.vertices, PromisedMargin), t),
                        NEW s \in ToSet(SitesOf[t]), s.type # "BUFGCTRL"
                 PROVE  \E range \in prohibits : Covers(range, s)
      BY DEF MarginIsWritten, SitesAt
    <2>1. VisitingColumns
      <3>1. region \in Region \cup {NoRegion}
        BY DEF FlowInvariant, TypeOK, CoreTypes
      <3>2. region.xMax \in Int /\ region.xMax >= -1
        BY <3>1, FabricAssumption DEF Region, NoRegion
      <3>3. column # NoColumn
        BY <3>2 DEF NoColumn
      <3> QED BY <3>3 DEF SitesInvariant
    <2>2. /\ project.vertices \in GridRegion
          /\ region.xMin \in Nat /\ region.xMax \in Int /\ column \in Nat
      BY <2>1, WindowVisited
    <2>3. PICK b \in {project.vertices, Rebound(project.vertices)} :
              region = ExpandRegion(b, Margin)
      BY <2>1 DEF VisitingColumns
    <2>4. /\ InRegion(ExpandRegion(project.vertices, Margin), t)
          /\ t[2] \in region.xMin .. region.xMax - 1
      BY <2>2, <2>3, PromisedColumns
    <2>5. t \in siteMap
      <3>1. SitesOf[t] # <<>>
        BY DEF ToSet
      <3> QED BY <2>1, <2>4, <3>1 DEF VisitingColumns, SiteMapOf
    <2>6. column = region.xMax + 1
      BY <2>1, <2>2 DEF VisitingColumns
    <2>7. t[2] \in region.xMin .. column - 2
      BY <2>2, <2>4, <2>6
    <2>8. s \in SitesToProhibit(region.xMin .. column - 2)
      BY <2>5, <2>7 DEF SitesToProhibit, SitesAt
    <2> QED BY <2>1, <2>8 DEF VisitingColumns
  <1> QED BY <1>1, FlowInvariantHolds, SitesInvariantHolds, PTL

\* On any layout that numbers slices as the grid does, whatever the macros' columns, no range
\* that siteBlocker writes takes in the slice of a macro of the process.
THEOREM MacroSitesStayFreeAlways ==
    ASSUME SlicesFollowGrid, MacroTilesHaveSlices
    PROVE  Spec => MacroSitesStayFree
  <1>1. FlowInvariant /\ SitesInvariant /\ [Next]_vars =>
            [BlockColumn /\ region.xMax < ColCount /\ region.yMax < RowCount
               => \A range \in prohibits' \ prohibits, t \in macroTiles :
                      ~Covers(range, PlaceMacro(t, siteMap))]_vars
    <2> SUFFICES ASSUME FlowInvariant, SitesInvariant, BlockColumn,
                        region.xMax < ColCount, region.yMax < RowCount,
                        NEW range \in prohibits' \ prohibits, NEW t \in macroTiles
                 PROVE  ~Covers(range, PlaceMacro(t, siteMap))
      OBVIOUS
    <2>1. VisitingColumns /\ column <= region.xMax
      BY DEF BlockColumn, SitesInvariant
    <2>2. PICK stray \in StrayTiles \cup {NoTile} : range \in VisitColumn(column, stray).lines
      BY DEF BlockColumn, ColumnLines
    <2>3. /\ region.xMin \in Nat /\ region.xMax \in Int /\ column \in Nat
          /\ region.yMin \in Nat /\ region.yMax \in Int /\ region.yMin <= region.yMax
          /\ siteMap \subseteq Tile /\ SegmentRow
      BY <2>1, WindowVisited DEF SegmentRow
    <2>4. t \in siteMap \cap macroTiles /\ SlicesAt(t) # {}
      BY DEF SitesInvariant
    <2>5. PlaceMacro(t, siteMap) \in SlicesAt(t)
      BY <2>3, <2>4, PlaceMacroIsSlice
    <2>6. ASSUME NEW col \in Col, NEW look \in StrayTiles \cup {NoTile},
                 \E k : IsRangeOf(range, k, col, look)
          PROVE  ~Covers(range, PlaceMacro(t, siteMap))
      <3>1. OnGrid(col, look, region.yMin, region.yMax)
        BY <2>3, LookUpsOnGrid DEF RowsOnGrid
      <3>2. col \in Int
        BY FabricAssumption DEF Col
      <3> QED BY <2>3, <2>4, <2>5, <2>6, <3>1, <3>2, RangeLeavesMacros
    <2>7. column \in Col /\ (column # region.xMin => column - 1 \in Col)
      <3>1. region.xMin <= column
        BY <2>1, <2>3 DEF VisitingColumns
      <3> QED BY <2>1, <2>3, <3>1, FabricAssumption DEF Col
    <2>8. CASE range \in Written(prohibitedSites)
      <3>1. PICK k \in DOMAIN prohibitedSites : range = prohibitedSites[k]
        BY <2>8 DEF Written
      <3>2. column # region.xMin /\ HeldOf(column - 1)
        BY <2>1, <3>1 DEF VisitingColumns, NoRanges
      <3>3. PICK look \in StrayTiles \cup {NoTile} :
                \A i \in DOMAIN prohibitedSites :
                    IsRangeOf(prohibitedSites[i], i, column - 1, look)
        BY <3>2 DEF HeldOf
      <3>4. \E i : IsRangeOf(range, i, column - 1, look)
        BY <3>1, <3>3
      <3> QED BY <2>6, <2>7, <3>2, <3>4
    <2>9. CASE range \notin Written(prohibitedSites)
      <3>1. \E k : IsRangeOf(range, k, column, stray)
        BY <2>2, <2>3, <2>9, ColumnVisited
      <3> QED BY <2>6, <2>7, <3>1
    <2> QED BY <2>8, <2>9
  <1> QED BY <1>1, FlowInvariantHolds, SitesInvariantHolds, PTL DEF Spec, MacroSitesStayFree

-----------------------------------------------------------------------------
\* Runs that agree.

\* The region of the first lines of a UCF, for every number of lines.
WithLine(r, line) ==
    ExpandRegionToINT(IF r.xMin # -1 THEN Hull(r, Span(line[1], line[2]))
                                     ELSE Span(line[1], line[2]))

RegionsRead(lines) ==
    LET read[k \in 0 .. Len(lines)] ==
            IF k = 0 THEN NoRegion ELSE WithLine(read[k - 1], lines[k])
    IN  read

RegionOf(lines) == RegionsRead(lines)[Len(lines)]

\* What a run writes for a region: the site map it builds moves the region to and fro.
LinesOfRegion(v) ==
    {[name |-> m.name, loc |-> PlaceMacro(m.tile, SiteMapOf(v))]
        : m \in MacroPlacement(Rebound(v))}

\* While the AREA_GROUPs are left alone: the lines still to read and the region of the others, ...
ReadingAgrees == reading => \E k \in 0 .. Len(area) :
    /\ Len(unread) = Len(area) - k
    /\ \A i \in 1 .. Len(unread) : unread[i] = area[k + i]
    /\ region = RegionsRead(area)[k]

\* ... the regions of all projects, and the lines written.
RegionsAgree ==
    /\ ReadingAgrees
    /\ \A p \in {project} \cup SavedProjects : p.regionDefined => p.vertices = RegionOf(area)
    /\ insts \subseteq LinesOfRegion(RegionOf(area))
    /\ insts # {} => RegionOf(area) \in GridRegion

\* The inductive invariant, next to FlowInvariant.
RerunInvariant ==
    /\ siteMap # {} => at > 2 \/ AtStep("sites")
    /\ edits = 0 => RegionsAgree

\* There are such functions.
LEMMA ReadIsDefined ==
    ASSUME NEW lines, Len(lines) \in Nat
    PROVE  /\ RegionsRead(lines)[0] = NoRegion
           /\ \A k \in 1 .. Len(lines) :
                 RegionsRead(lines)[k] = WithLine(RegionsRead(lines)[k - 1], lines[k])
  <1> DEFINE IsRead(f, n) ==
                 f = [k \in 0 .. n |-> IF k = 0 THEN NoRegion ELSE WithLine(f[k - 1], lines[k])]
             S == {n \in Nat : \E f : IsRead(f, n)}
  <1>1. 0 \in S
    <2> DEFINE f == [k \in 0 .. 0 |-> NoRegion]
    <2>1. \A k \in 0 .. 0 : k = 0
      OBVIOUS
    <2>2. IsRead(f, 0)
      BY <2>1
    <2> QED BY <2>2
  <1>2. ASSUME NEW n \in Nat, n \in S
        PROVE  n + 1 \in S
    <2>1. PICK f : IsRead(f, n)
      BY <1>2
    <2> DEFINE g == [k \in 0 .. n + 1 |-> IF k \in 0 .. n THEN f[k]
                                          ELSE WithLine(f[n], lines[n + 1])]
    <2>2. ASSUME NEW k \in 0 .. n + 1
          PROVE  g[k] = IF k = 0 THEN NoRegion ELSE WithLine(g[k - 1], lines[k])
      <3>1. CASE k = 0
        BY <2>1, <3>1
      <3>2. CASE k \in 1 .. n
        <4>1. f[k] = WithLine(f[k - 1], lines[k])
          BY <2>1, <3>2
        <4>2. g[k] = f[k] /\ g[k - 1] = f[k - 1] /\ k # 0
          BY <3>2
        <4> HIDE DEF g
        <4> QED BY <4>1, <4>2
      <3>3. CASE k = n + 1
        <4>1. g[k] = WithLine(f[n], lines[n + 1]) /\ g[k - 1] = f[n] /\ k # 0
          BY <3>3
        <4> HIDE DEF g
        <4> QED BY <4>1, <3>3
      <3> QED BY <3>1, <3>2, <3>3
    <2>3. IsRead(g, n + 1)
      <3> DEFINE h == [k \in 0 .. n + 1 |-> IF k = 0 THEN NoRegion ELSE WithLine(g[k - 1], lines[k])]
      <3>1. DOMAIN g = 0 .. n + 1 /\ DOMAIN h = 0 .. n + 1
        OBVIOUS
      <3>2. \A k \in 0 .. n + 1 : g[k] = h[k]
        BY <2>2
      <3>3. g = h
        BY <3>1, <3>2
      <3> QED BY <3>3
    <2> HIDE DEF g
    <2> QED BY <2>3
  <1> HIDE DEF S
  <1>3. \A n \in Nat : n \in S
    BY <1>1, <1>2, SetInduction
  <1>4. PICK f : IsRead(f, Len(lines))
    BY <1>3 DEF S
  <1>5. IsRead(RegionsRead(lines), Len(lines))
    BY <1>4 DEF RegionsRead
  <1> HIDE DEF S
  <1> DEFINE g == RegionsRead(lines)
  <1> HIDE DEF g
  <1>6. g = [k \in 0 .. Len(lines) |-> IF k = 0 THEN NoRegion ELSE WithLine(g[k - 1], lines[k])]
    BY <1>5 DEF g
  <1>7. g[0] = NoRegion /\ \A k \in 1 .. Len(lines) : g[k] = WithLine(g[k - 1], lines[k])
    BY <1>6
  <1> QED BY <1>7 DEF g

\* On a Virtex-5 the lines of a region tell every macro one place.
LEMMA LinesOfRegionAgree ==
    ASSUME Family = "Virtex5", NEW v \in GridRegion,
           NEW l \in LinesOfRegion(v), NEW m \in LinesOfRegion(v), l.name = m.name
    PROVE  l.loc = m.loc
  <1>1. PICK a \in MacroPlacement(Rebound(v)) :
            l = [name |-> a.name, loc |-> PlaceMacro(a.tile, SiteMapOf(v))]
    BY DEF LinesOfRegion
  <1>2. PICK b \in MacroPlacement(Rebound(v)) :
            m = [name |-> b.name, loc |-> PlaceMacro(b.tile, SiteMapOf(v))]
    BY DEF LinesOfRegion
  <1>3. Rebound(v) \in GridRegion /\ a.name = b.name
    BY <1>1, <1>2, ReboundIsGridRegion
  <1>4. a.tile = b.tile
    BY <1>3, PlacementNamesAreUnique
  <1> QED BY <1>1, <1>2, <1>4

\* The site map is built in the second step or later.
LEMMA MapIsLate ==
    ASSUME FlowInvariant, siteMap # {} => at > 2 \/ AtStep("sites"), Next
    PROVE  (siteMap # {} => at > 2 \/ AtStep("sites"))'
  <1>1. TypeOK /\ at \in 1 .. 6
    BY DEF FlowInvariant, TypeOK, ProcessTypes
  <1>2. CASE EndProcess \/ Finish
    BY <1>2 DEF EndProcess, Finish, NewCore
  <1>3. CASE UNCHANGED <<siteMap, at>> /\ ~AtStep("sites")
    BY <1>3
  <1>4. CASE siteMap' = siteMap /\ at' = at + 1 /\ ~AtStep("sites")
    BY <1>1, <1>4
  <1>5. CASE PlaceMacros
    <2>1. /\ command \in Command /\ at \in 1 .. Len(Steps[command])
          /\ Steps[command][at] = "macros"
      BY <1>1, <1>5, NextStep DEF PlaceMacros, AtStep
    <2>2. at = 2
      BY <2>1, StepOrder
    <2> QED BY <1>5, <2>2 DEF PlaceMacros, Done
  <1>6. CASE StartColumns \/ BlockColumn
    BY <1>6 DEF StartColumns, BlockColumn, AtStep, Idle, AllDone
  <1>7. CASE EndColumns
    <2>1. /\ command \in Command /\ at \in 1 .. Len(Steps[command])
          /\ Steps[command][at] = "sites"
      BY <1>1, <1>7, NextStep DEF EndColumns, AtStep
    <2>2. at > 1
      BY <2>1, StepOrder
    <2> QED BY <1>1, <1>7, <2>2 DEF EndColumns
  <1>8. \/ EndProcess \/ Finish
        \/ UNCHANGED <<siteMap, at>> /\ ~AtStep("sites")
        \/ siteMap' = siteMap /\ at' = at + 1 /\ ~AtStep("sites")
        \/ PlaceMacros \/ StartColumns \/ BlockColumn \/ EndColumns
    <2>1. CASE Idle /\ UNCHANGED <<coreVars, procVars, isPartial, oprs>>
      BY <2>1 DEF AtStep, coreVars, procVars
    <2>2. CASE \E c \in Commands, f \in OprFile : Launch(c, f)
      BY <2>2 DEF Launch, AtStep, coreVars
    <2>3. CASE ReadAreaGroup \/ CloseUcf
      BY <2>3 DEF ReadAreaGroup, UpdateRegionExpand, CloseUcf, AtStep, coreVars
    <2>4. CASE OpenUcf
      BY <2>4 DEF OpenUcf, AtStep, coreVars
    <2>5. CASE \/ SetupFromProject \/ LinkMacros \/ LinkFails \/ SetPartialMode
               \/ BlockRoutes \/ PlainStep
      BY <2>5 DEF SetupFromProject, SetRegionVertices, LinkMacros, LinkFails,
                  SetPartialMode, SetMode, BlockRoutes, PlainStep, AtStep, Done, coreVars
    <2> QED BY <2>1, <2>2, <2>3, <2>4, <2>5, StepKinds
  <1> QED BY <1>2, <1>3, <1>4, <1>5, <1>6, <1>7, <1>8

LEMMA LinesRead ==
    ASSUME FlowInvariant, RegionsAgree, Next, area' = area
    PROVE  ReadingAgrees'
  <1>1. /\ Len(area) \in Nat /\ unread \in Seq(Tile \X Tile)
        /\ ReadingAgrees /\ FreshWhenIdle /\ NothingBeforeRegion
    BY OpenPRAssumption DEF FlowInvariant, TypeOK, DirectoryTypes, ProcessTypes, RegionsAgree,
                            ReadingAgrees
  <1>2. CASE OpenUcf
    <2>1. /\ region' = NoRegion /\ unread' = area'
      BY <1>1, <1>2 DEF OpenUcf, AtStep, NothingBeforeRegion, coreVars
    <2>2. RegionsRead(area)[0] = NoRegion
      BY <1>1, ReadIsDefined
    <2>3. /\ 0 \in 0 .. Len(area) /\ Len(area) - 0 = Len(area)
          /\ \A i \in 1 .. Len(area) : 0 + i = i
      BY <1>1
    <2> QED BY <2>1, <2>2, <2>3 DEF ReadingAgrees
  <1>3. CASE ReadAreaGroup
    <2>1. reading /\ unread # <<>>
      BY <1>3 DEF ReadAreaGroup
    <2>2. PICK k \in 0 .. Len(area) : /\ Len(unread) = Len(area) - k
                                      /\ \A i \in 1 .. Len(unread) : unread[i] = area[k + i]
                                      /\ region = RegionsRead(area)[k]
      BY <1>1, <2>1 DEF ReadingAgrees
    <2>3. /\ Len(unread) \in Nat /\ Len(unread) >= 1
          /\ unread' = Tail(unread) /\ Head(unread) = unread[1]
          /\ Len(Tail(unread)) = Len(unread) - 1
          /\ \A i \in 1 .. Len(unread) - 1 : Tail(unread)[i] = unread[i + 1]
      BY <1>1, <1>3, <2>1 DEF ReadAreaGroup
    <2>4. k + 1 \in 1 .. Len(area) /\ k + 1 \in 0 .. Len(area) /\ k + 1 - 1 = k
      BY <1>1, <2>2, <2>3
    <2>5. Head(unread) = area[k + 1]
      BY <2>2, <2>3
    <2>6. region' = WithLine(region, area[k + 1])
      BY <1>3, <2>5 DEF ReadAreaGroup, UpdateRegionExpand, WithLine, RegionIsDefined
    <2>7. RegionsRead(area)[k + 1] = WithLine(RegionsRead(area)[k], area[k + 1])
      <3>1. RegionsRead(area)[k + 1] = WithLine(RegionsRead(area)[k + 1 - 1], area[k + 1])
        BY <1>1, <2>4, ReadIsDefined
      <3> QED BY <2>4, <3>1
    <2>8. Len(unread') = Len(area) - (k + 1)
      BY <1>1, <2>2, <2>3
    <2>9. \A i \in 1 .. Len(unread') : unread'[i] = area[k + 1 + i]
      <3> TAKE i \in 1 .. Len(unread')
      <3>1. i \in 1 .. Len(unread) - 1 /\ i + 1 \in 1 .. Len(unread)
            /\ k + (i + 1) = k + 1 + i
        BY <1>1, <2>2, <2>3
      <3>2. unread'[i] = unread[i + 1] /\ unread[i + 1] = area[k + (i + 1)]
        BY <2>2, <2>3, <3>1
      <3> QED BY <3>1, <3>2
    <2>10. region' = RegionsRead(area)[k + 1]
      BY <2>2, <2>6, <2>7
    <2> QED BY <2>4, <2>8, <2>9, <2>10 DEF ReadingAgrees
  <1>4. CASE ~reading'
    BY <1>4 DEF ReadingAgrees
  <1>5. OpenUcf \/ ReadAreaGroup \/ ~reading'
    <2>1. EndProcess \/ Finish \/ CloseUcf => ~reading'
      BY DEF EndProcess, Finish, CloseUcf
    <2>2. \/ \E c \in Commands, f \in OprFile : Launch(c, f)
          \/ Idle /\ UNCHANGED <<coreVars, procVars, isPartial, oprs>>
          => ~reading'
      BY <1>1 DEF Launch, FreshWhenIdle, procVars
    <2>3. \/ SetupFromProject \/ PlaceMacros \/ LinkMacros \/ LinkFails
          \/ SetPartialMode \/ BlockRoutes \/ PlainStep
          \/ StartColumns \/ BlockColumn \/ EndColumns
          => ~reading'
      BY DEF SetupFromProject, PlaceMacros, LinkMacros, LinkFails, SetPartialMode, BlockRoutes,
             PlainStep, StartColumns, BlockColumn, EndColumns, AtStep, Done
    <2> QED BY <2>1, <2>2, <2>3, StepKinds
  <1> QED BY <1>2, <1>3, <1>4, <1>5

LEMMA ProjectsAgree ==
    ASSUME FlowInvariant, RegionsAgree, Next, area' = area
    PROVE  \A p \in ({project} \cup SavedProjects)' : p.regionDefined => p.vertices = RegionOf(area)
  <1> DEFINE agrees(p) == p.regionDefined => p.vertices = RegionOf(area)
  <1>1. /\ agrees(project) /\ \A f \in OprFile : agrees(oprs[f])
        /\ project \in Project /\ command \in Command \cup {"none"}
        /\ oprs \in [OprFile -> Project \cup {NoProject}]
        /\ Len(area) \in Nat
    BY OpenPRAssumption DEF RegionsAgree, SavedProjects, FlowInvariant, TypeOK, ProcessTypes,
                            DirectoryTypes
  <1>2. agrees(TopProject)
    BY DEF TopProject
  <1>3. \A f \in OprFile : agrees(oprs'[f])
    <2>1. CASE oprs' = oprs
      BY <1>1, <2>1
    <2>2. CASE Finish
      <3>1. command \in OprFile
        BY <1>1, <2>2 DEF Finish, Idle, OprFile
      <3>2. \A f \in OprFile : oprs'[f] = oprs[f] \/ oprs'[f] = project
        BY <1>1, <2>2, <3>1 DEF Finish
      <3> QED BY <1>1, <3>2
    <2>3. oprs' = oprs \/ Finish
      BY StepKinds DEF Launch, SetupFromProject, OpenUcf, ReadAreaGroup, CloseUcf, PlaceMacros,
         LinkMacros, LinkFails, StartColumns, BlockColumn, EndColumns, SetPartialMode, BlockRoutes,
         PlainStep, dirVars
    <2> QED BY <2>1, <2>2, <2>3
  <1>4. agrees(project')
    <2>1. CASE project' = project
      BY <1>1, <2>1
    <2>2. CASE EndProcess \/ Finish
      BY <1>2, <2>2 DEF Finish, EndProcess
    <2>3. ASSUME NEW c \in Commands, NEW f \in OprFile, Launch(c, f)
          PROVE  agrees(project')
      BY <1>1, <2>3 DEF Launch
    <2>4. CASE CloseUcf
      <3>1. reading /\ Len(unread) = 0
        BY <2>4 DEF CloseUcf
      <3>2. PICK k \in 0 .. Len(area) : /\ Len(unread) = Len(area) - k
                                        /\ region = RegionsRead(area)[k]
        BY <3>1 DEF RegionsAgree, ReadingAgrees
      <3>3. region = RegionOf(area)
        <4>1. k = Len(area)
          BY <1>1, <3>1, <3>2
        <4> QED BY <3>2, <4>1 DEF RegionOf
      <3>4. project'.vertices = region
        BY <1>1, <2>4 DEF CloseUcf, Project
      <3> QED BY <3>3, <3>4
    <2>5. CASE PlaceMacros \/ LinkMacros \/ LinkFails \/ BlockRoutes
      <3>1. project'.regionDefined = project.regionDefined /\ project'.vertices = project.vertices
        BY <1>1, <2>5 DEF PlaceMacros, LinkMacros, LinkFails, BlockRoutes, Project
      <3> QED BY <1>1, <3>1
    <2>6. \/ project' = project \/ EndProcess \/ Finish \/ CloseUcf
          \/ \E c \in Commands, f \in OprFile : Launch(c, f)
          \/ PlaceMacros \/ LinkMacros \/ LinkFails \/ BlockRoutes
      BY StepKinds DEF SetupFromProject, OpenUcf, ReadAreaGroup, StartColumns, BlockColumn,
         EndColumns, SetPartialMode, PlainStep, procVars
    <2> QED BY <2>1, <2>2, <2>3, <2>4, <2>5, <2>6
  <1> QED BY <1>3, <1>4 DEF SavedProjects

\* Of all steps only one writes INST lines, and it writes those of the project's region.
LEMMA LinesKept ==
    ASSUME FlowInvariant, RerunInvariant, RegionsAgree, Next
    PROVE  \/ insts' = insts
           \/ /\ insts' \subseteq insts \cup LinesOfRegion(RegionOf(area))
              /\ RegionOf(area) \in GridRegion
  <1>1. CASE PlaceMacros
    <2>1. AtStep("macros") /\ insts' = insts \cup MacroLines
      BY <1>1 DEF PlaceMacros
    <2>2. /\ project.regionDefined /\ region = project.vertices
          /\ region \in GridRegion
      BY <2>1, RegionAtStep DEF FlowInvariant, RegionIsSetUp, AtStep, NextStepIn
    <2>3. siteMap = {}
      <3>1. /\ command \in Command /\ at \in 1 .. Len(Steps[command])
            /\ Steps[command][at] = "macros"
        BY <2>1, NextStep DEF AtStep, FlowInvariant
      <3>2. at = 2
        BY <3>1, StepOrder
      <3>3. ~AtStep("sites")
        BY <3>1 DEF AtStep
      <3> QED BY <3>2, <3>3 DEF RerunInvariant
    <2>4. region = RegionOf(area)
      BY <2>2 DEF RegionsAgree
    <2>5. MacroLines = LinesOfRegion(RegionOf(area))
      BY <2>3, <2>4 DEF MacroLines, LinesOfRegion, SiteMapBuilt, RegionBuilt
    <2> QED BY <1>1, <2>1, <2>2, <2>4, <2>5
  <1>2. CASE ~PlaceMacros
    BY <1>2 DEF Next, EditAreaGroups, Map, Kill, Launch, Finish, SetupFromProject, OpenUcf,
       ReadAreaGroup, CloseUcf, LinkMacros, LinkFails, StartColumns, BlockColumn, EndColumns,
       GenScripts, GenLockConstraints, MergeClockTree, SetPartialMode, BlockRoutes, CheckPartial,
       BuildPartial, Error, dirVars, ucfVars
  <1> QED BY <1>1, <1>2

LEMMA RerunStep ==
    ASSUME FlowInvariant, RerunInvariant, Next
    PROVE  RerunInvariant'
  <1>1. (siteMap # {} => at > 2 \/ AtStep("sites"))'
    BY MapIsLate DEF RerunInvariant
  <1>2. ASSUME edits' = 0
        PROVE  RegionsAgree'
    <2>1. edits = 0 /\ area' = area
      <3>1. edits \in Nat
        BY OpenPRAssumption DEF FlowInvariant, TypeOK
      <3>2. edits' = edits + 1 \/ UNCHANGED <<edits, area>>
        BY DEF Next, EditAreaGroups, Map, Kill, Launch, Finish, SetupFromProject, OpenUcf,
           ReadAreaGroup, CloseUcf, PlaceMacros, LinkMacros, LinkFails, StartColumns, BlockColumn,
           EndColumns, GenScripts, GenLockConstraints, MergeClockTree, SetPartialMode, BlockRoutes,
           CheckPartial, BuildPartial, Error, dirVars, ucfVars, bounds
      <3> QED BY <1>2, <3>1, <3>2
    <2>2. RegionsAgree
      BY <2>1 DEF RerunInvariant
    <2>3. ReadingAgrees'
      BY <2>1, <2>2, LinesRead
    <2>4. \A p \in ({project} \cup SavedProjects)' :
              p.regionDefined => p.vertices = RegionOf(area)
      BY <2>1, <2>2, ProjectsAgree
    <2>5. /\ insts' \subseteq LinesOfRegion(RegionOf(area))
          /\ insts' # {} => RegionOf(area) \in GridRegion
      BY <2>2, LinesKept DEF RegionsAgree
    <2> QED BY <2>1, <2>3, <2>4, <2>5 DEF RegionsAgree, ReadingAgrees
  <1> QED BY <1>1, <1>2 DEF RerunInvariant

\* As long as the AREA_GROUPs are left alone, every project's region is the one they define.
THEOREM RerunInvariantHolds == Spec => []RerunInvariant
  <1>1. Init => RerunInvariant
    <2> SUFFICES ASSUME Init
                 PROVE  RerunInvariant
      OBVIOUS
    <2>1. \A p \in {project} \cup SavedProjects : ~p.regionDefined
      BY DEF Init, SavedProjects, TopProject, NoProject
    <2> QED BY <2>1 DEF Init, InitCore, RerunInvariant, RegionsAgree, ReadingAgrees
  <1>2. FlowInvariant /\ RerunInvariant /\ [Next]_vars => RerunInvariant'
    <2> SUFFICES ASSUME FlowInvariant, RerunInvariant, [Next]_vars
                 PROVE  RerunInvariant'
      OBVIOUS
    <2>1. CASE Next
      BY <2>1, RerunStep
    <2>2. CASE UNCHANGED vars
      BY <2>2 DEF RerunInvariant, RegionsAgree, ReadingAgrees, SavedProjects, AtStep, Idle, AllDone, vars,
                  coreVars, procVars, dirVars, ucfVars, bounds
    <2> QED BY <2>1, <2>2
  <1> QED BY <1>1, <1>2, FlowInvariantHolds, PTL DEF Spec

\* On a Virtex-5, whatever was killed, failed or run again, no macro is told two places.
THEOREM RerunsAgreeOnV5 ==
    ASSUME Family = "Virtex5"
    PROVE  Spec => []RerunsAgree
  <1>1. RerunInvariant => RerunsAgree
    <2> SUFFICES ASSUME RegionsAgree, NEW l \in insts, NEW m \in insts, l.name = m.name
                 PROVE  l.loc = m.loc
      BY DEF RerunInvariant, RerunsAgree
    <2>1. RegionOf(area) \in GridRegion
      BY DEF RegionsAgree
    <2>2. l \in LinesOfRegion(RegionOf(area)) /\ m \in LinesOfRegion(RegionOf(area))
      BY DEF RegionsAgree
    <2> QED BY <2>1, <2>2, LinesOfRegionAgree
  <1> QED BY <1>1, RerunInvariantHolds, PTL
=============================================================================
