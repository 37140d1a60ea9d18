------------------------------- MODULE OpenPR -------------------------------
(***************************************************************************)
(* The project flow: a build directory of one design, static or partial,   *)
(* and the anticore processes run in it.  A process loads a project file,  *)
(* runs one command on a fresh AntiCore object, appends to the design's    *)
(* constraint files on the way and, if the command succeeded, saves the    *)
(* project under the command's own .opr name.  Nothing else survives it.   *)
(* Any command may be run on any project file, again, after an edit of the *)
(* AREA_GROUPs, or after a process that failed or was killed half-way.     *)
(***************************************************************************)
EXTENDS AntiCore

CONSTANTS AreaGroups,   \* the AREA_GROUP lines a user may write: sequences of tile pairs
          Commands,     \* bound on the commands a user gives
          MaxRuns,      \* bound on the processes launched
          MaxEdits      \* bound on the edits of the AREA_GROUP lines

\* The methods of openPR a command is made of, in order.
Steps == [genPTScripts        |-> <<"scripts">>,
          placeMacros         |-> <<"setup", "macros", "link">>,
          siteBlocker         |-> <<"setup", "sites">>,
          genPlaceConstraints |-> <<"setup", "macros", "link", "setup", "sites">>,
          genLockConstraints  |-> <<"lock">>,
          mergeClockTree      |-> <<"merge">>,
          routeBlocker        |-> <<"mode", "setup", "block">>,
          genPartialBitstream |-> <<"check", "setup", "bits">>]

Command == DOMAIN Steps
OprFile == Command \cup {"top"}   \* top.proj, and one .opr per command
Step    == {"scripts", "setup", "macros", "link", "sites", "lock", "merge", "mode",
            "block", "check", "bits"}

MacroName == [dir : {"input", "output"}, index : Nat \cup {NoIndex}]

\* What openPR::serialize keeps, as far as it changes.  netWraps counts how often
\* buildBlockingNet's result replaced passThroughNetName; placed is history: the
\* macros whose INST lines the runs behind this project wrote.
Project == [regionDefined : BOOLEAN,
            vertices      : Region \cup {NoRegion},
            busMacroNames : SUBSET MacroName,
            netWraps      : Nat,
            placed        : SUBSET MacroName]

TopProject == [regionDefined |-> FALSE, vertices |-> NoRegion,
               busMacroNames |-> {}, netWraps |-> 0, placed |-> {}]

NoProject == [TopProject EXCEPT !.netWraps = -1]   \* the file does not exist

ASSUME OpenPRAssumption ==
    /\ AreaGroups \subseteq Seq(Tile \X Tile)
    /\ Commands \subseteq Command
    /\ MaxRuns \in Nat
    /\ MaxEdits \in Nat

VARIABLES
    \* the process
    command,     \* what it runs, or "none" between two processes
    at,          \* the index of its next step
    project,     \* the openPR object's members
    success,     \* main's flag
    reading,     \* TRUE while setupDynamicRegion reads the UCF
    unread,      \* the AREA_GROUP lines it has not read
    column,      \* the next column genPlaceConstraints visits, or NoColumn
    \* the build directory
    isPartial,   \* which kind of design this is
    area,        \* the AREA_GROUP lines of the UCF
    insts,       \* the INST lines appended to it
    prohibits,   \* the PROHIBIT ranges appended to it
    pcf,         \* the PCF: [exists, locked], locked being the macros it locks
    oprs,        \* the project files
    outputs,     \* design files written: "blocked", "merged", "partialBit"
    \* bounds
    runs, edits

procVars == <<command, at, project, success, reading, unread, column>>
ucfVars  == <<area, insts, prohibits>>
dirVars  == <<isPartial, ucfVars, pcf, oprs, outputs>>
bounds   == <<runs, edits>>
vars     == <<coreVars, procVars, dirVars, bounds>>

NoColumn == -1

Idle == command = "none"

AllDone == at > Len(Steps[command])

AtStep(s) == ~Idle /\ ~reading /\ ~AllDone /\ Steps[command][at] = s

-----------------------------------------------------------------------------
Init ==
    /\ InitCore
    /\ command = "none" /\ at = 1 /\ project = TopProject
    /\ success = TRUE /\ reading = FALSE /\ unread = <<>> /\ column = NoColumn
    /\ isPartial \in BOOLEAN
    /\ area \in AreaGroups
    /\ insts = {} /\ prohibits = {}
    /\ pcf = [exists |-> FALSE, locked |-> {}]
    /\ oprs = [f \in OprFile |-> IF f = "top" THEN TopProject ELSE NoProject]
    /\ outputs = {}
    /\ runs = 0 /\ edits = 0

\* The process is over, its objects with it.
EndProcess ==
    /\ NewCore
    /\ command' = "none" /\ at' = 1 /\ project' = TopProject
    /\ success' = TRUE /\ reading' = FALSE /\ unread' = <<>> /\ column' = NoColumn

\* The step is done.
Done == at' = at + 1 /\ UNCHANGED <<command, reading, unread, column>>

-----------------------------------------------------------------------------
\* Outside the program.

EditAreaGroups(lines) ==
    /\ Idle /\ edits < MaxEdits /\ lines # area
    /\ area' = lines
    /\ edits' = edits + 1
    /\ UNCHANGED <<coreVars, procVars, isPartial, insts, prohibits, pcf, oprs, outputs, runs>>

\* The vendor's map tool writes the PCF from the UCF, anew every time.
Map ==
    /\ Idle /\ insts # {} /\ pcf # [exists |-> TRUE, locked |-> {}]
    /\ pcf' = [exists |-> TRUE, locked |-> {}]
    /\ UNCHANGED <<coreVars, procVars, isPartial, ucfVars, oprs, outputs, bounds>>

Kill ==
    /\ ~Idle
    /\ EndProcess
    /\ UNCHANGED <<dirVars, bounds>>

-----------------------------------------------------------------------------
\* main.

Launch(c, f) ==
    /\ Idle /\ runs < MaxRuns /\ oprs[f] # NoProject
    /\ command' = c
    /\ project' = oprs[f]
    /\ runs' = runs + 1
    /\ UNCHANGED <<coreVars, at, success, reading, unread, column, dirVars, edits>>

\* After the last step: save the project, unless the command returned false.
Finish ==
    /\ ~Idle /\ ~reading /\ AllDone
    /\ oprs' = IF success THEN [oprs EXCEPT ![command] = project] ELSE oprs
    /\ EndProcess
    /\ UNCHANGED <<isPartial, ucfVars, pcf, outputs, bounds>>

-----------------------------------------------------------------------------
\* The region: setupDynamicRegion, or the vertices the project brought along.

SetupFromProject ==
    /\ AtStep("setup") /\ project.regionDefined
    /\ SetRegionVertices(project.vertices)
    /\ Done
    /\ UNCHANGED <<project, success, dirVars, bounds>>

OpenUcf ==
    /\ AtStep("setup") /\ ~project.regionDefined
    /\ reading' = TRUE
    /\ unread' = area
    /\ UNCHANGED <<coreVars, command, at, project, success, column, dirVars, bounds>>

ReadAreaGroup ==
    /\ reading /\ unread # <<>>
    /\ UpdateRegionExpand(Head(unread)[1], Head(unread)[2])
    /\ unread' = Tail(unread)
    /\ UNCHANGED <<command, at, project, success, reading, column, dirVars, bounds>>

\* Slip: the region is taken as it was read.
CloseUcfUnchecked ==
    /\ reading /\ unread = <<>>
    /\ project' = [project EXCEPT !.regionDefined = TRUE, !.vertices = region]
    /\ reading' = FALSE
    /\ at' = at + 1
    /\ UNCHANGED <<coreVars, command, success, unread, column, dirVars, bounds>>

CloseUcf ==
    /\ reading /\ unread = <<>> /\ ValidateRegion(region)
    /\ project' = [project EXCEPT !.regionDefined = TRUE, !.vertices = region]
    /\ reading' = FALSE
    /\ at' = at + 1
    /\ UNCHANGED <<coreVars, command, success, unread, column, dirVars, bounds>>

-----------------------------------------------------------------------------
\* placeMacros and siteBlocker.

\* Slip: the project takes over the vertices the site map covers.
PlaceMacrosSaving ==
    /\ AtStep("macros")
    /\ GenMacroPlacement
    /\ insts' = insts \cup MacroLines
    /\ project' = [project EXCEPT !.placed = @ \cup NamesOf(MacroPlacement(RegionBuilt)),
                                  !.vertices = ExpandRegion(RegionBuilt, Margin)]
    /\ Done
    /\ UNCHANGED <<success, isPartial, area, prohibits, pcf, oprs, outputs, bounds>>

PlaceMacros ==
    /\ AtStep("macros")
    /\ GenMacroPlacement
    /\ insts' = insts \cup MacroLines
    /\ project' = [project EXCEPT !.placed = @ \cup NamesOf(MacroPlacement(RegionBuilt))]
    /\ Done
    /\ UNCHANGED <<success, isPartial, area, prohibits, pcf, oprs, outputs, bounds>>

\* A name ends in _<digits>, and goes on the list of nets to lock, iff it has an index.
Listed(macros) == {n \in NamesOf(macros) : n.index # NoIndex}

\* Every macro of the map linked: its name goes on the list.
LinkMacros ==
    /\ AtStep("link")
    /\ project' = [project EXCEPT !.busMacroNames = @ \cup Listed(busMacroMap)]
    /\ Done
    /\ UNCHANGED <<coreVars, success, dirVars, bounds>>

\* Slip: placeMacros returns true all the same.
LinkFailsSilently ==
    /\ AtStep("link")
    /\ \E linked \in SUBSET busMacroMap :
          /\ linked # busMacroMap
          /\ project' = [project EXCEPT !.busMacroNames = @ \cup Listed(linked)]
    /\ Done
    /\ UNCHANGED <<coreVars, success, dirVars, bounds>>

\* A link that could not be created: placeMacros returns false with some of the
\* names listed, and genPlaceConstraints goes on to siteBlocker.
LinkFails ==
    /\ AtStep("link")
    /\ \E linked \in SUBSET busMacroMap :
          /\ linked # busMacroMap
          /\ project' = [project EXCEPT !.busMacroNames = @ \cup Listed(linked)]
    /\ success' = FALSE
    /\ Done
    /\ UNCHANGED <<coreVars, dirVars, bounds>>

\* siteBlocker, a column at a time: a process killed on the way leaves a UCF with
\* the ranges of some columns only.
StartColumns ==
    /\ AtStep("sites") /\ column = NoColumn
    /\ EnterPlaceConstraints
    /\ column' = region'.xMin
    /\ UNCHANGED <<command, at, project, success, reading, unread, dirVars, bounds>>

BlockColumn ==
    /\ AtStep("sites") /\ column # NoColumn /\ column <= region.xMax
    /\ \E stray \in StrayTiles \cup {NoTile} :
          /\ PlaceConstraintsIn(column, stray)
          /\ prohibits' = prohibits \cup ColumnLines(column, stray)
    /\ column' = column + 1
    /\ UNCHANGED <<command, at, project, success, reading, unread, isPartial, area,
                   insts, pcf, oprs, outputs, bounds>>

\* Slip: the project takes over the expanded region.
EndColumnsSaving ==
    /\ AtStep("sites") /\ column > region.xMax
    /\ column' = NoColumn
    /\ at' = at + 1
    /\ project' = [project EXCEPT !.vertices = region]
    /\ UNCHANGED <<coreVars, command, success, reading, unread, dirVars, bounds>>

EndColumns ==
    /\ AtStep("sites") /\ column > region.xMax
    /\ column' = NoColumn
    /\ at' = at + 1
    /\ UNCHANGED <<coreVars, command, project, success, reading, unread, dirVars, bounds>>

-----------------------------------------------------------------------------
\* The other commands.

GenScripts ==
    /\ AtStep("scripts")
    /\ Done
    /\ UNCHANGED <<coreVars, project, success, dirVars, bounds>>

\* buildBlockingNet only reads passThroughNetName here.
GenLockConstraints ==
    /\ AtStep("lock") /\ pcf.exists
    /\ pcf' = [pcf EXCEPT !.locked = @ \cup project.busMacroNames]
    /\ Done
    /\ UNCHANGED <<coreVars, project, success, isPartial, ucfVars, oprs, outputs, bounds>>

MergeClockTree ==
    /\ AtStep("merge")
    /\ outputs' = outputs \cup {"merged"}
    /\ Done
    /\ UNCHANGED <<coreVars, project, success, isPartial, ucfVars, pcf, oprs, bounds>>

SetPartialMode ==
    /\ AtStep("mode")
    /\ IF isPartial THEN SetMode("partial") ELSE UNCHANGED coreVars
    /\ Done
    /\ UNCHANGED <<project, success, dirVars, bounds>>

\* The name it makes of passThroughNetName, with quotes and an index added.
BuildBlockingNet(p) == p.netWraps + 1

\* passThroughNetName becomes the full name of the blocking net; the netlist has
\* that net if the name was built from the prefix the user wrote.  Without the net
\* blockRoutes returns and writes nothing, and routeBlocker is none the wiser.
BlockRoutes ==
    /\ AtStep("block")
    /\ project' = [project EXCEPT !.netWraps = BuildBlockingNet(project)]
    /\ outputs' = IF project'.netWraps = 1 THEN outputs \cup {"blocked"} ELSE outputs
    /\ Done
    /\ UNCHANGED <<coreVars, success, isPartial, ucfVars, pcf, oprs, bounds>>

CheckPartial ==
    /\ AtStep("check") /\ isPartial
    /\ Done
    /\ UNCHANGED <<coreVars, project, success, dirVars, bounds>>

BuildPartial ==
    /\ AtStep("bits")
    /\ outputs' = outputs \cup {"partialBit"}
    /\ Done
    /\ UNCHANGED <<coreVars, project, success, isPartial, ucfVars, pcf, oprs, bounds>>

\* What ends a process without a save: an exception that becomes exit(-1), or a
\* method that returns false.
Fails ==
    \/ reading /\ unread = <<>> /\ ~ValidateRegion(region)
    \/ (AtStep("macros") \/ AtStep("sites")) /\ (~RegionIsDefined \/ SiteMapBuilt = {})
    \/ AtStep("link")     \* the file of a macro's type is missing
    \/ AtStep("merge")    \* a netlist is missing, or has no such clock net
    \/ AtStep("lock") /\ ~pcf.exists
    \/ AtStep("check") /\ ~isPartial
    \/ AtStep("bits")     \* the full bitstream is missing

Error ==
    /\ Fails
    /\ EndProcess
    /\ UNCHANGED <<dirVars, bounds>>

Next ==
    \/ \E lines \in AreaGroups : EditAreaGroups(lines)
    \/ Map
    \/ Kill
    \/ \E c \in Commands, f \in OprFile : Launch(c, f)
    \/ Finish
    \/ SetupFromProject \/ OpenUcf \/ ReadAreaGroup \/ CloseUcf
    \/ PlaceMacros \/ LinkMacros \/ LinkFails
    \/ StartColumns \/ BlockColumn \/ EndColumns
    \/ GenScripts \/ GenLockConstraints \/ MergeClockTree
    \/ SetPartialMode \/ BlockRoutes
    \/ CheckPartial \/ BuildPartial
    \/ Error

Spec == Init /\ [][Next]_vars

-----------------------------------------------------------------------------
\* Properties.

\* Types.  The fold that computes prohibit ranges and the site rectangles it
\* writes are typed by the properties about them.
CoreTypes ==
    /\ region \in Region \cup {NoRegion}
    /\ mode \in Modes
    /\ mask \in MaskType
    /\ siteMap \subseteq Tile
    /\ macroTiles \subseteq Tile
    /\ busMacroMap \subseteq [name : MacroName, type : {"input", "output"} \X MacroTileTypes]

ProcessTypes ==
    /\ command \in Command \cup {"none"}
    /\ at \in 1 .. 6
    /\ project \in Project
    /\ success \in BOOLEAN /\ reading \in BOOLEAN
    /\ unread \in Seq(Tile \X Tile)
    /\ column \in {NoColumn} \cup 0 .. ColCount + 1

DirectoryTypes ==
    /\ isPartial \in BOOLEAN
    /\ area \in AreaGroups
    /\ pcf \in [exists : BOOLEAN, locked : SUBSET MacroName]
    /\ oprs \in [OprFile -> Project \cup {NoProject}]
    /\ outputs \subseteq {"blocked", "merged", "partialBit"}

TypeOK ==
    /\ CoreTypes
    /\ ProcessTypes
    /\ DirectoryTypes
    /\ runs \in 0 .. MaxRuns /\ edits \in 0 .. MaxEdits

\* setRegionVertices drops validateRegion's verdict, so a bad region in a project
\* file would go unnoticed.  None gets there: whatever fails, is killed, or is
\* edited in between, a project that says its region is defined holds vertices on
\* the boundaries of clock regions.
ProjectsHoldValidRegions ==
    \A p \in {project} \cup {oprs[f] : f \in OprFile} :
        p.regionDefined => ValidateRegion(p.vertices)

\* The steps that read the mask find the mask of the project's region in the mode
\* their command needs: the blocker 0 on the side it must keep signals off, the
\* bitstream builder 0 exactly inside the region, also in a partial design.
MaskServesCommand ==
    /\ AtStep("block") =>
         mask = MaskOf(project.vertices, IF isPartial THEN "partial" ELSE "static")
    /\ AtStep("bits") =>
         GetRegionTiles = {t \in Tile : InRegion(project.vertices, t)}

\* The site map is built once per process and never refreshed.  It is never stale:
\* a step that reads it finds the sites of the project's region and its margin.
SiteMapIsFresh ==
    AtStep("macros") \/ (AtStep("sites") /\ column = NoColumn)
        => SiteMapBuilt = SiteMapOf(project.vertices)

\* A region at least Margin tiles away from every edge of the grid.
Interior(r) == /\ r.xMin >= Margin /\ r.xMax + Margin < ColCount
               /\ r.yMin >= Margin /\ r.yMax + Margin < RowCount

\* Signals cross the region's edge through bus macros in its first and last row.
\* Building the site map moves the region's vertices to and fro just before the
\* macros are placed; in the interior of the device they still land on that edge.
MacrosOnBoundary ==
    Interior(project.vertices)
        => \A t \in macroTiles : /\ InRegion(project.vertices, t)
                                 /\ t[1] \in {project.vertices.yMin, project.vertices.yMax}

\* The ranges siteBlocker writes leave the sites of this process's own macros free,
\* as long as its loops stay on the grid.
MacroSitesStayFree ==
    [][BlockColumn /\ region.xMax < ColCount /\ region.yMax < RowCount
        => \A range \in prohibits' \ prohibits, t \in macroTiles :
               ~Covers(range, PlaceMacro(t, siteMap))]_vars

\* Sites the ranges are to keep other logic off: all of the region and its margin but
\* clock buffers and macro tiles.
SitesToProhibit(columns) ==
    {s \in SitesAt({t \in siteMap \ macroTiles : t[2] \in columns}) : s.type # "BUFGCTRL"}

\* However the sites are ordered in their tiles and wherever macros cut the columns,
\* the ranges written and the ones still held cover every such site of the columns
\* visited.
SitesAreProhibited ==
    AtStep("sites") /\ column # NoColumn =>
        \A s \in SitesToProhibit(region.xMin .. column - 1) :
            \E range \in prohibits \cup {prohibitedSites[k] : k \in DOMAIN prohibitedSites} :
                Covers(range, s)

\* genPlaceConstraints: "Expand region by two tiles in each direction, this ensures that
\* ISE won't place things in unrouteable positions."  It expands the region by three,
\* and never writes what it holds of the last column.  When its loop is through, every
\* site of the two tiles around the project's region, as of the region itself, is in a
\* range of the UCF, but for clock buffers and macro tiles.
MarginIsWritten ==
    AtStep("sites") /\ column > region.xMax =>
        \A s \in SitesAt({t \in Tile \ macroTiles :
                            InRegion(ExpandRegion(project.vertices, PromisedMargin), t)}) :
            s.type # "BUFGCTRL" => \E range \in prohibits : Covers(range, s)

\* The lines of every run pile up in one UCF.  As long as the user leaves the
\* AREA_GROUPs alone they agree, whichever project files the runs started from and
\* wherever they were cut short: no macro is told to be in two places.
RerunsAgree ==
    edits = 0 => \A l, m \in insts : l.name = m.name => l.loc = m.loc

\* genLockConstraints locks every macro that the runs behind its project placed, even
\* if a failed run listed only some of them.
LocksCoverMacros ==
    [][GenLockConstraints => project.placed \subseteq pcf'.locked]_vars

-----------------------------------------------------------------------------
\* What comments say of the program and the program does not do.

\* buildSiteMap: "Undo expansion to make our prohibiting easier."  Placing macros
\* leaves the region as it was.
ExpansionIsUndone == [][PlaceMacros => region' = region]_vars

\* buildBlockingNet makes "the full net name that can be blocked" out of the prefix:
\* routeBlocker looks for a net whose name was made from the prefix the user wrote.
NetCanBeBlocked == [][BlockRoutes => project'.netWraps = 1]_vars

=============================================================================
