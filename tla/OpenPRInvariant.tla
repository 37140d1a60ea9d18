-------------------------- MODULE OpenPRInvariant ---------------------------
(***************************************************************************)
(* The inductive invariant behind the safety properties of the flow: what  *)
(* a process knows at each step about the region, the mask, the site map   *)
(* and the macro names it works with.                                      *)
(***************************************************************************)
EXTENDS OpenPR

NextStepIn(S) == ~Idle /\ ~reading /\ ~AllDone /\ Steps[command][at] \in S

\* Nothing is left over between two processes.
FreshWhenIdle ==
    Idle => /\ mode = "static" /\ region = NoRegion
            /\ siteMap = {} /\ macroTiles = {} /\ busMacroMap = {}
            /\ at = 1 /\ success /\ ~reading

\* A UCF is read before there is a region, and what was read of it is on the grid.
RegionWhileReading ==
    reading => /\ ~Idle /\ ~AllDone /\ Steps[command][at] = "setup"
               /\ ~project.regionDefined
               /\ region \in GridRegion \cup {NoRegion}
               /\ region # NoRegion => mask = MaskOf(region, mode)

NothingBeforeRegion ==
    ~project.regionDefined => /\ siteMap = {} /\ macroTiles = {}
                              /\ ~reading => region = NoRegion

\* Every step that relies on the region comes right after the one that sets it up.
RegionIsSetUp ==
    NextStepIn({"macros", "block", "bits"}) \/ (AtStep("sites") /\ column = NoColumn)
        => /\ project.regionDefined
           /\ region = project.vertices
           /\ mask = MaskOf(region, mode)

ModeOfCommand ==
    mode = IF command = "routeBlocker" /\ at > 1 /\ isPartial THEN "partial" ELSE "static"

SavedProjects == {oprs[f] : f \in OprFile}

RegionsOnGrid ==
    \A p \in {project} \cup SavedProjects :
        p.regionDefined => p.vertices \in GridRegion /\ ValidateRegion(p.vertices)

SiteMapOfProject == siteMap \in {{}, SiteMapOf(project.vertices)}

\* On V5: a macro placed is a macro listed, but between placing it and listing it, and
\* in the rest of a process that could not list it and will not be saved.
MacrosAreListed ==
    Family = "Virtex5" =>
        /\ \A p \in SavedProjects : p.placed \subseteq p.busMacroNames
        /\ \A m \in busMacroMap : m.name.index # NoIndex
        /\ ~success => at > 3
        /\ success => project.placed \subseteq
                        project.busMacroNames \cup
                        (IF AtStep("link") THEN NamesOf(busMacroMap) ELSE {})

FlowInvariant ==
    /\ TypeOK
    /\ FreshWhenIdle
    /\ RegionWhileReading
    /\ NothingBeforeRegion
    /\ RegionIsSetUp
    /\ ModeOfCommand
    /\ RegionsOnGrid
    /\ SiteMapOfProject
    /\ MacrosOnBoundary
    /\ MacrosAreListed
=============================================================================
