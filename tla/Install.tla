------------------------------ MODULE Install -------------------------------
(***************************************************************************)
(* What the client's commands do to a project directory: package.json, the *)
(* lockfile, the persisted placement plan and node_modules, which the      *)
(* linker builds in a stage beside it and exchanges by two renames, with   *)
(* the old tree as a backup in between (oath-cli/src/main.rs,              *)
(* oath-store/src/linker.rs).  One command runs at a time; it may stop at  *)
(* any step, by an error or a crash, and the next command finds what it    *)
(* left.                                                                   *)
(*                                                                         *)
(* A location holds a version or nothing.  Packages are downloaded into    *)
(* the store before linking, and a failed download ends the command, so    *)
(* the store always has what is linked.                                    *)
(***************************************************************************)
EXTENDS Integers, Sequences, FiniteSets

CONSTANTS
    Packages,       \* install locations, one for each direct dependency
    Versions,       \* versions of a package the registry may offer
    Commands,       \* the commands a user runs
    MaxInterrupts,  \* bound: errors and crashes in one behaviour
    Windows,        \* directory links are junctions, which hold absolute paths
    None,           \* nothing at a location, no link manifest
    Absent,         \* a file or directory that does not exist
    Torn            \* a file whose writing was cut off

Planned == {"install", "frozen", "add", "update", "remove"}
AllCommands == Planned \cup {"ci", "legacy", "clear"}

Layouts == [Packages -> Versions \cup {None}]
Bare == [p \in Packages |-> None]
Present(layout) == {p \in Packages : layout[p] # None}
LayoutsFor(deps) == {layout \in Layouts : Present(layout) = deps}

\* A dependency graph.  The legacy resolver's nodes are keyed by name and
\* version, a placement plan's by location; an empty graph has no keys.
Graphs == [layout : Layouts, keys : {"name", "location"}]
GraphOf(layout, keys) ==
    [layout |-> layout, keys |-> IF layout = Bare THEN "location" ELSE keys]

\* A node_modules tree: what its locations hold, whether they are symbolic
\* links (into .oath, as link_all makes them) or directories, and the graph in
\* .oath/.link-manifest.
Trees == [at : Layouts, links : BOOLEAN, manifest : Graphs \cup {None}]
Locks == [deps : SUBSET Packages, graph : Graphs]

ASSUME InstallAssumption ==
    /\ Commands \subseteq AllCommands
    /\ MaxInterrupts \in Nat
    /\ Windows \in BOOLEAN
    /\ None \notin Versions
    /\ None \notin Graphs
    /\ Absent \notin Trees
    /\ Absent # Torn
    /\ Absent \notin Locks /\ Absent \notin Layouts
    /\ Torn \notin Locks /\ Torn \notin Layouts
    /\ \A deps \in SUBSET Packages : Torn # deps

VARIABLES
    manifest,   \* the dependencies in package.json
    lock,       \* oath-lock.json
    planfile,   \* .oath/placement-plan.json, the layout it lists
    live,       \* node_modules
    stage,      \* .oath-node_modules-stage
    backup,     \* .oath-node_modules-backup
    op,         \* the running command
    last,       \* history: the tree promoted last, unless cleared since
    stranded,   \* history: a promotion stopped before its junctions were right,
                \* and left its tree in place
    interrupts  \* errors and crashes so far

files == <<manifest, lock, planfile>>
trees == <<live, stage, backup>>
past == <<last, stranded>>
vars == <<files, trees, op, past, interrupts>>

Idle == [pc |-> "idle"]

\* Where a running command is, and what it holds in memory.
Labels == {"recover", "start", "build", "retire", "promote", "rebase", "undo",
           "cleanup", "clear", "write", "done"}

Operations ==
    [pc : Labels,
     cmd : AllCommands, deps : SUBSET Packages, graph : Graphs,
     reuse : SUBSET Packages, removed : SUBSET Packages,
     todo : SUBSET Packages,
     writes : Seq({"plan", "lock", "manifest", "unplan"})]

Goto(label) == op' = [op EXCEPT !.pc = label]

Interrupted == interrupts < MaxInterrupts /\ interrupts' = interrupts + 1

-----------------------------------------------------------------------------
\* The files each command writes once node_modules is in place, in order.
Writes(cmd) ==
    CASE cmd \in {"install", "update"} -> <<"plan", "lock">>
      [] cmd \in {"frozen", "ci"}      -> <<"plan">>
      [] cmd = "add"                   -> <<"plan", "lock", "manifest">>
      [] cmd = "remove"                -> <<"plan", "manifest", "lock">>
      [] cmd = "clear"                 -> <<"manifest", "lock", "unplan">>
      [] cmd = "legacy"                -> <<"lock">>

\* The dependencies a planned command asks Arborist for.
Requested(cmd) ==
    CASE cmd \in {"install", "frozen", "update"} -> {manifest}
      [] cmd = "add" -> {manifest \cup {p} : p \in Packages}
      [] cmd = "remove" -> SUBSET manifest \ {{}, manifest}

\* Arborist compares its ideal tree with node_modules as it is now: locations
\* it may call unchanged, and locations it says to remove.
Unchanged(layout) ==
    IF live = Absent THEN {}
    ELSE {p \in Present(layout) : live.at[p] = layout[p]}
Extraneous(layout) ==
    IF live = Absent THEN {} ELSE Present(live.at) \ Present(layout)

Begin(cmd, pc, deps, graph, reuse, removed) ==
    /\ cmd \in Commands
    /\ op = Idle
    /\ op' = [pc |-> pc, cmd |-> cmd, deps |-> deps, graph |-> graph,
              reuse |-> reuse, removed |-> removed, todo |-> {},
              writes |-> Writes(cmd)]
    /\ UNCHANGED <<files, trees, past, interrupts>>

\* Faulty: the emptied directory itself is not removed.
\* (As in Registry, nothing uses a variant marked "Faulty:".)
Emptied(tree) ==
    IF tree.at = Bare THEN {[tree EXCEPT !.manifest = None]}
    ELSE {[tree EXCEPT !.at[p] = None] : p \in Present(tree.at)}

\* remove_dir_all deletes one entry at a time, in the order of the directory;
\* the directory itself goes last.
Shrunk(tree) ==
    IF tree.at = Bare /\ tree.manifest = None THEN {Absent}
    ELSE {[tree EXCEPT !.at[p] = None] : p \in Present(tree.at)}
         \cup (IF tree.manifest = None THEN {}
               ELSE {[tree EXCEPT !.manifest = None]})

Empty(links) == [at |-> Bare, links |-> links, manifest |-> None]

\* Faulty: the locations Arborist removed are not removed from the stage.
SeededAll ==
    IF live = Absent THEN Empty(FALSE)
    ELSE [live EXCEPT !.links = FALSE, !.at = IF live.links THEN Bare ELSE @]

\* hardlink_dir copies directories and files of the live tree, not its links;
\* then the plan's removed locations go.
Seeded ==
    IF live = Absent THEN Empty(FALSE)
    ELSE [live EXCEPT
            !.links = FALSE,
            !.at = [p \in Packages |-> IF live.links \/ p \in op.removed
                                       THEN None ELSE live.at[p]]]

-----------------------------------------------------------------------------
\* install, add, update and remove, with Arborist: the plan is computed from
\* the project as it stands, before the linker recovers it.  --frozen-lockfile
\* refuses a plan that differs from the lockfile.
BeginPlanned(cmd) ==
    /\ manifest # Torn
    /\ \E deps \in Requested(cmd) : \E layout \in LayoutsFor(deps) :
           LET graph == GraphOf(layout, "location") IN
           /\ cmd = "frozen" => lock = [deps |-> deps, graph |-> graph]
           /\ \E reuse \in SUBSET Unchanged(layout) :
                  Begin(cmd, "recover", deps, graph, reuse, Extraneous(layout))

\* cmd_ci: the lockfile is that of package.json and of the placement plan.
CiAccepts(graph) ==
    /\ lock.deps = manifest
    /\ lock.graph = graph

\* ci uses the persisted plan when there is one.
BeginCi ==
    /\ manifest # Torn
    /\ lock \notin {Absent, Torn}
    /\ planfile # Torn
    /\ \E layout \in (IF planfile = Absent THEN LayoutsFor(manifest)
                      ELSE {planfile}) :
           LET graph == GraphOf(layout, "location") IN
           /\ CiAccepts(graph)
           /\ Begin("ci", "recover", manifest, graph, {}, {})

\* OATH_RESOLVER=legacy: the lockfile's graph if it is up to date and the store
\* has all of it, otherwise what the resolver finds.
BeginLegacy ==
    /\ manifest # Torn
    /\ lock # Torn
    /\ \E graph \in {GraphOf(layout, "name") : layout \in LayoutsFor(manifest)}
                    \cup (IF lock # Absent /\ lock.deps = manifest
                          THEN {lock.graph} ELSE {}) :
           Begin("legacy", "recover", manifest, graph, {}, {})

\* cmd_remove of all dependencies deletes node_modules and links nothing.
BeginClear ==
    /\ manifest # Torn
    /\ manifest # {}
    /\ Begin("clear", "clear", {}, GraphOf(Bare, "location"), {}, {})

(***************************************************************************)
(* recover_link_transaction                                                *)
(***************************************************************************)
\* Faulty: a backup is never restored.
RestorableNever == backup # backup

\* Without a live tree the backup is put back, with one it is deleted.
Restorable == backup # Absent /\ live = Absent

RestoreBackup ==
    /\ op.pc = "recover"
    /\ Restorable
    /\ live' = backup
    /\ backup' = Absent
    /\ UNCHANGED <<files, stage, op, past, interrupts>>

DiscardBackup ==
    /\ op.pc = "recover"
    /\ backup # Absent
    /\ ~ Restorable
    /\ backup' \in Shrunk(backup)
    /\ UNCHANGED <<files, live, stage, op, past, interrupts>>

\* Faulty: an interrupted stage is left where it is.
StageLeft == stage

\* One step: nothing but its own removal ever reads an abandoned stage.
StageRecovered == Absent

DiscardStage ==
    /\ op.pc = "recover"
    /\ backup = Absent
    /\ stage' = StageRecovered
    /\ Goto("start")
    /\ UNCHANGED <<files, live, backup, past, interrupts>>

(***************************************************************************)
(* link_placement_plan, link_placement_plan_clean and link_all             *)
(***************************************************************************)
\* Faulty: every command takes the fast path when there is a live tree.
LinkedAny == live # Absent

\* link_all's fast path: the live tree carries the manifest of this graph.
Linked ==
    /\ op.cmd = "legacy"
    /\ live # Absent
    /\ live.manifest = op.graph

SkipLink ==
    /\ op.pc = "start"
    /\ Linked
    /\ Goto("write")
    /\ UNCHANGED <<files, trees, past, interrupts>>

\* Every node of the plan is placed anew, in place of what the seed has there.
ToPlace == Present(op.graph.layout)

\* The stage an installation starts from: create_dir_all leaves an existing
\* directory as it is.
StartStage ==
    /\ op.pc = "start"
    /\ ~ Linked
    /\ stage' = IF stage # Absent THEN stage
                ELSE IF op.cmd \in Planned THEN Seeded
                ELSE Empty(op.cmd = "legacy")
    /\ op' = [op EXCEPT !.pc = "build", !.todo = ToPlace]
    /\ UNCHANGED <<files, live, backup, past, interrupts>>

\* A package comes from the live tree if the plan calls it unchanged, and from
\* the store otherwise.
Place(p) ==
    /\ op.pc = "build"
    /\ p \in op.todo
    /\ p \in op.reuse => live # Absent /\ live.at[p] # None
    /\ stage' = [stage EXCEPT !.at[p] =
                     IF p \in op.reuse THEN live.at[p] ELSE op.graph.layout[p]]
    /\ op' = [op EXCEPT !.todo = @ \ {p}]
    /\ UNCHANGED <<files, live, backup, past, interrupts>>

\* link_all writes its manifest last.
FinishStage ==
    /\ op.pc = "build"
    /\ op.todo = {}
    /\ stage' = IF op.cmd = "legacy"
                THEN [stage EXCEPT !.manifest = op.graph] ELSE stage
    /\ Goto("retire")
    /\ UNCHANGED <<files, live, backup, past, interrupts>>

\* rename(live, backup)
Retire ==
    /\ op.pc = "retire"
    /\ IF live # Absent THEN backup' = live /\ live' = Absent
       ELSE UNCHANGED <<live, backup>>
    /\ Goto("promote")
    /\ UNCHANGED <<files, stage, past, interrupts>>

\* link_all's links on Windows: a junction made in the stage leads to the stage,
\* and to nothing once the stage has moved.  (The placement plan's links lead out
\* of node_modules and stay right.)
Junctioned == Windows /\ op.cmd = "legacy" /\ ToPlace # {}

\* Faulty: a promoted tree counts as complete before its junctions lead into it.
AfterPromotionAtOnce == "cleanup"

AfterPromotion == IF Junctioned THEN "rebase" ELSE "cleanup"

\* The tree that was promoted last from now on.
Commit(tree) == last' = tree /\ stranded' = FALSE

\* rename(stage, live): the commit, unless junctions have to follow.
Promote ==
    /\ op.pc = "promote"
    /\ stage' = Absent
    /\ IF Junctioned
       THEN /\ live' = [stage EXCEPT !.at = Bare]
            /\ UNCHANGED past
       ELSE live' = stage /\ Commit(stage)
    /\ op' = [op EXCEPT !.pc = AfterPromotion,
                        !.todo = IF Junctioned THEN ToPlace ELSE @]
    /\ UNCHANGED <<files, backup, interrupts>>

\* rebase_junctions removes a junction and makes it anew, one after the other;
\* the last one completes the promotion.
Rebase(p) ==
    /\ op.pc = "rebase"
    /\ p \in op.todo
    /\ live' = [live EXCEPT !.at[p] = op.graph.layout[p]]
    /\ IF op.todo = {p} THEN Commit(live') ELSE UNCHANGED past
    /\ op' = [op EXCEPT !.todo = @ \ {p},
                        !.pc = IF op.todo = {p} THEN "cleanup" ELSE @]
    /\ UNCHANGED <<files, stage, backup, interrupts>>

\* mklink or the removal of a junction fails: the new tree is to be removed.
RebaseFails ==
    /\ op.pc = "rebase"
    /\ Goto("undo")
    /\ Interrupted
    /\ UNCHANGED <<files, trees, past>>

UndoRemove ==
    /\ op.pc = "undo"
    /\ live # Absent
    /\ live' \in Shrunk(live)
    /\ UNCHANGED <<files, stage, backup, op, past, interrupts>>

\* The new tree is gone and the old one is put back, if that rename succeeds.
UndoRestore ==
    /\ op.pc = "undo"
    /\ live = Absent
    /\ IF backup # Absent THEN live' = backup /\ backup' = Absent
       ELSE UNCHANGED <<live, backup>>
    /\ op' = Idle
    /\ UNCHANGED <<files, stage, past, interrupts>>

\* The removal fails half-way and its result is ignored: the rename that follows
\* cannot replace the directory, and its result is ignored too. It follows the
\* failure of the rebase, which was counted, so that it is not counted again.
UndoFails ==
    /\ op.pc = "undo"
    /\ stranded' = (stranded \/ live # Absent)
    /\ op' = Idle
    /\ UNCHANGED <<files, trees, last, interrupts>>

\* The rename fails: the old tree is put back, if that rename succeeds.
PromoteFails ==
    /\ op.pc = "promote"
    /\ \/ backup # Absent /\ live' = backup /\ backup' = Absent
       \/ UNCHANGED <<live, backup>>
    /\ op' = Idle
    /\ Interrupted
    /\ UNCHANGED <<files, stage, past>>

DiscardOld ==
    /\ op.pc = "cleanup"
    /\ backup # Absent
    /\ backup' \in Shrunk(backup)
    /\ UNCHANGED <<files, live, stage, op, past, interrupts>>

CleanupDone ==
    /\ op.pc = "cleanup"
    /\ backup = Absent
    /\ Goto("write")
    /\ UNCHANGED <<files, trees, past, interrupts>>

\* link_all only warns when the old tree cannot be deleted.
KeepOld ==
    /\ op.pc = "cleanup"
    /\ op.cmd = "legacy"
    /\ backup # Absent
    /\ Goto("write")
    /\ Interrupted
    /\ UNCHANGED <<files, trees, past>>

(***************************************************************************)
(* remove_dir_all(node_modules) of cmd_remove, then the files              *)
(***************************************************************************)
ClearLive ==
    /\ op.pc = "clear"
    /\ IF live # Absent THEN live' \in Shrunk(live) /\ UNCHANGED op
       ELSE Goto("write") /\ UNCHANGED live
    /\ last' = Absent
    /\ UNCHANGED <<files, stage, backup, stranded, interrupts>>

\* PlacementPlan::write
PlanWritten == op.graph.layout

WriteFile ==
    /\ op.pc = "write"
    /\ op.writes # <<>>
    /\ LET file == Head(op.writes) IN
       /\ manifest' = IF file = "manifest" THEN op.deps ELSE manifest
       /\ lock' = IF file = "lock"
                  THEN [deps |-> op.deps, graph |-> op.graph] ELSE lock
       /\ planfile' = CASE file = "plan" -> PlanWritten
                        [] file = "unplan" -> Absent
                        [] OTHER -> planfile
    /\ op' = [op EXCEPT !.writes = Tail(@)]
    /\ UNCHANGED <<trees, past, interrupts>>

Succeed ==
    /\ op.pc = "write"
    /\ op.writes = <<>>
    /\ Goto("done")
    /\ UNCHANGED <<files, trees, past, interrupts>>

Return ==
    /\ op.pc = "done"
    /\ op' = Idle
    /\ UNCHANGED <<files, trees, past, interrupts>>

\* The user edits package.json between two commands.
Edit(deps) ==
    /\ op = Idle
    /\ manifest' = deps
    /\ UNCHANGED <<lock, planfile, trees, op, past, interrupts>>

\* An error that ends the command, or a crash.  A file being written may be
\* left truncated (std::fs::write).
Interrupt ==
    /\ op.pc \notin {"idle", "done"}
    /\ op' = Idle
    /\ Interrupted
    /\ \/ UNCHANGED files
       \/ /\ op.pc = "write"
          /\ op.writes # <<>>
          /\ manifest' = IF Head(op.writes) = "manifest" THEN Torn ELSE manifest
          /\ lock' = IF Head(op.writes) = "lock" THEN Torn ELSE lock
          /\ planfile' = IF Head(op.writes) = "plan" THEN Torn ELSE planfile
    /\ stranded' = (stranded \/ (op.pc \in {"rebase", "undo"} /\ live # Absent))
    /\ UNCHANGED <<trees, last>>

-----------------------------------------------------------------------------
Init ==
    /\ manifest \in SUBSET Packages
    /\ lock = Absent
    /\ planfile = Absent
    /\ live = Absent
    /\ stage = Absent
    /\ backup = Absent
    /\ op = Idle
    /\ last = Absent
    /\ stranded = FALSE
    /\ interrupts = 0

Recover == RestoreBackup \/ DiscardBackup \/ DiscardStage

Link ==
    \/ SkipLink
    \/ StartStage
    \/ \E p \in Packages : Place(p)
    \/ FinishStage
    \/ Retire
    \/ Promote
    \/ \E p \in Packages : Rebase(p)
    \/ UndoRemove
    \/ UndoRestore
    \/ DiscardOld
    \/ CleanupDone

Step == Recover \/ Link \/ ClearLive \/ WriteFile \/ Succeed \/ Return

Next ==
    \/ \E cmd \in Planned : BeginPlanned(cmd)
    \/ BeginCi
    \/ BeginLegacy
    \/ BeginClear
    \/ \E deps \in SUBSET Packages : Edit(deps)
    \/ Step
    \/ PromoteFails
    \/ RebaseFails
    \/ UndoFails
    \/ KeepOld
    \/ Interrupt

Spec == Init /\ [][Next]_vars

\* A command that is running takes its next step; nothing forces an error, a
\* crash, an edit or the next command.
FairSpec == Spec /\ WF_vars(Step)

-----------------------------------------------------------------------------
\* Every variable has its type, at every step of every command.
TypeOK ==
    /\ manifest = Torn \/ manifest \in SUBSET Packages
    /\ lock \in Locks \cup {Absent, Torn}
    /\ planfile \in Layouts \cup {Absent, Torn}
    /\ live \in Trees \cup {Absent}
    /\ stage \in Trees \cup {Absent}
    /\ backup \in Trees \cup {Absent}
    /\ op \in Operations \cup {Idle}
    /\ last \in Trees \cup {Absent}
    /\ stranded \in BOOLEAN
    /\ interrupts \in 0 .. MaxInterrupts

\* Wherever a command is, the tree whose promotion was completed last is still
\* whole: it is node_modules, or it is the backup, while node_modules is missing or
\* is the tree whose junctions are being rebased or which is being removed again.
TreeRecovered ==
    last # Absent =>
        \/ live = last
        \/ /\ backup = last
           /\ live = Absent \/ op.pc \in {"rebase", "undo"}

\* That holds wherever a command stopped, so that recovery finds the tree, except
\* where a promotion was cut short between the rename and the last junction.
\* (recover_link_transaction, the two renames, rebase_junctions and its undoing.)
TreeKept == stranded \/ TreeRecovered

\* A planned installation that reports success leaves every planned location
\* with the planned version, and neither a stage nor a backup, whatever earlier
\* commands left behind.  (link_placement_plan_inner.)
PlannedPresent ==
    op # Idle /\ op.pc = "done" /\ op.cmd \in Planned \cup {"ci"} =>
        /\ live # Absent
        /\ \A p \in Present(op.graph.layout) : live.at[p] = op.graph.layout[p]
        /\ stage = Absent
        /\ backup = Absent

\* oath ci installs exactly the lockfile of this package.json: nothing of an
\* earlier tree, stage, backup or plan shows.  (cmd_ci.)
CiExact ==
    op # Idle /\ op.pc = "done" /\ op.cmd = "ci" =>
        /\ lock.deps = manifest
        /\ live.at = lock.graph.layout

\* A planned installation leaves the plan's locations and no others.  It does
\* not hold after an interruption: see the README.  (link_placement_plan_inner:
\* "Arborist's exact physical locations".)
PlanExact ==
    op # Idle /\ op.pc = "done" /\ op.cmd \in Planned =>
        live.at = op.graph.layout

\* As long as nothing was interrupted, a planned installation removes whatever
\* earlier commands, of either resolver, and edits have made extraneous.
\* (hardlink_dir, removed_locations and the placement of every node.)
UninterruptedExact == interrupts = 0 => PlanExact

\* A planned installation that ends well always has what it planned, and
\* nothing else unless a command was interrupted before.
PlanHonoured == PlannedPresent /\ UninterruptedExact

\* A lockfile is written only for packages that node_modules holds already,
\* so no error or crash leaves a lockfile ahead of the tree.  (The order of
\* linking and Lockfile::write in cmd_install, cmd_update and cmd_remove.  A
\* legacy installation may have taken the fast path of link_all, which looks
\* at names only and can leave an earlier graph's packages in place.)
LockFollowsTree ==
    [][lock' # lock /\ lock' # Torn /\ op.cmd # "legacy" =>
         \A p \in Present(lock'.graph.layout) :
             live # Absent /\ live.at[p] = lock'.graph.layout[p]]_vars

\* A command that has begun ends: recovery and cleanup terminate, and no
\* location Arborist called unchanged is missing once recovery has run.
CommandEnds == op # Idle ~> op = Idle
=============================================================================
