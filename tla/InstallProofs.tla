--------------------------- MODULE InstallProofs ----------------------------
(***************************************************************************)
(* Proofs about Install: the type invariant, that the tree promoted last   *)
(* is never lost, what a successful command leaves, and that the lockfile  *)
(* follows the tree, for all packages, versions and numbers of interrupts. *)
(***************************************************************************)
EXTENDS Install, TLAPS

\* A tree with every location of the running command's graph.
Holds(tree) ==
    /\ tree # Absent
    /\ \A p \in Present(op.graph.layout) : tree.at[p] = op.graph.layout[p]

\* A tree with no other location.
Only(tree) ==
    \A p \in Packages \ Present(op.graph.layout) : tree.at[p] = None

\* What recovery has established before the stage is built, and what the stage
\* holds while it is.
StageInv ==
    /\ op.pc \in {"recover", "start", "build"} =>
           \A p \in op.reuse : live # Absent /\ live.at[p] = op.graph.layout[p]
    /\ op.pc \in {"start", "build", "retire"} => backup = Absent
    /\ op.pc = "start" => stage = Absent
    /\ op.pc \in {"build", "retire", "promote"} => stage # Absent
    /\ op.pc = "build" =>
           /\ op.todo \subseteq Present(op.graph.layout)
           /\ \A p \in Present(op.graph.layout) \ op.todo :
                  stage.at[p] = op.graph.layout[p]
    /\ op.pc \in {"retire", "promote"} => Holds(stage)

\* Until the exchange is over the backup is the tree promoted last.
BackupHeld == last = Absent \/ stranded \/ backup = last

\* The exchange: the live tree is the new one after the renames, and complete
\* when its junctions, which only link_all makes, have been rebased.
SwapInv ==
    /\ op.pc = "promote" => live = Absent /\ BackupHeld
    /\ op.pc \in {"rebase", "undo"} => op.cmd = "legacy" /\ BackupHeld /\ stage = Absent
    /\ op.pc = "rebase" =>
           /\ live # Absent
           /\ op.todo \subseteq Present(op.graph.layout)
           /\ \A p \in Present(op.graph.layout) \ op.todo :
                  live.at[p] = op.graph.layout[p]
    /\ op.pc = "cleanup" => Holds(live) /\ stage = Absent
    /\ op.pc \in {"write", "done"} /\ op.cmd \in Planned \cup {"ci"} =>
           Holds(live) /\ stage = Absent /\ backup = Absent

\* What ci has checked stays true, and its trees hold nothing else.
CiInv ==
    op.pc # "idle" /\ op.cmd = "ci" =>
        /\ lock \in Locks
        /\ lock.deps = manifest
        /\ lock.graph = op.graph
        /\ op.writes \in {<<"plan">>, <<>>}
        /\ op.reuse = {}
        /\ op.pc \in {"build", "retire", "promote"} => Only(stage)
        /\ op.pc \in {"cleanup", "write", "done"} => Only(live)

\* Only a remove of everything clears, and it has nothing to link.
ClearInv ==
    /\ op.pc = "clear" => op.cmd = "clear"
    /\ op.pc # "idle" =>
           /\ op.cmd \in Commands
           /\ op.cmd = "clear" =>
                  /\ op.pc \in {"clear", "write", "done"}
                  /\ op.graph.layout = Bare

IInv == TypeOK /\ TreeKept /\ StageInv /\ SwapInv /\ CiInv /\ ClearInv

-----------------------------------------------------------------------------
\* GraphOf makes a graph of a layout.
LEMMA GraphOfType ==
    ASSUME NEW layout \in Layouts, NEW keys \in {"name", "location"}
    PROVE  GraphOf(layout, keys) \in Graphs
BY DEF GraphOf, Graphs

\* Deleting an entry of a tree leaves a tree, or nothing.
LEMMA ShrunkType ==
    ASSUME NEW tree \in Trees, NEW rest \in Shrunk(tree)
    PROVE  rest \in Trees \cup {Absent}
<1>1. CASE tree.at = Bare /\ tree.manifest = None
  BY <1>1 DEF Shrunk
<1>2. CASE ~ (tree.at = Bare /\ tree.manifest = None)
  <2>1. CASE \E p \in Present(tree.at) : rest = [tree EXCEPT !.at[p] = None]
    BY <2>1 DEF Trees, Layouts, Present
  <2>2. CASE rest = [tree EXCEPT !.manifest = None]
    BY <2>2 DEF Trees
  <2>3. QED BY <1>2, <2>1, <2>2 DEF Shrunk
<1>3. QED BY <1>1, <1>2

\* The seed of a stage is a tree.
LEMMA SeededType ==
    ASSUME live \in Trees \cup {Absent}
    PROVE  Seeded \in Trees
<1>1. CASE live = Absent
  BY <1>1 DEF Seeded, Empty, Bare, Trees, Layouts
<1>2. CASE live \in Trees /\ live # Absent
  BY <1>2 DEF Seeded, Trees, Layouts
<1>3. QED BY <1>1, <1>2

\* The empty tree is a tree.
LEMMA EmptyType == \A links \in BOOLEAN : Empty(links) \in Trees
BY DEF Empty, Bare, Trees, Layouts

\* An operation is not the idle one.
LEMMA OperationPc ==
    ASSUME op \in Operations \cup {Idle}
    PROVE  /\ op.pc # "idle" => op \in Operations
           /\ op # Idle => op \in Operations /\ op.pc # "idle"
BY DEF Operations, Labels, Idle

\* A command's list of files to write.
LEMMA WritesType ==
    ASSUME NEW cmd \in AllCommands
    PROVE  Writes(cmd) \in Seq({"plan", "lock", "manifest", "unplan"})
<1> DEFINE F == {"plan", "lock", "manifest", "unplan"}
<1>1. <<"plan", "lock">> \in Seq(F)  OBVIOUS
<1>2. <<"plan">> \in Seq(F)  OBVIOUS
<1>3. <<"plan", "lock", "manifest">> \in Seq(F)  OBVIOUS
<1>4. <<"plan", "manifest", "lock">> \in Seq(F)  OBVIOUS
<1>5. <<"manifest", "lock", "unplan">> \in Seq(F)  OBVIOUS
<1>6. <<"lock">> \in Seq(F)  OBVIOUS
<1> HIDE DEF F
<1>7. Writes(cmd) \in Seq(F)
  BY <1>1, <1>2, <1>3, <1>4, <1>5, <1>6 DEF Writes, AllCommands, Planned
<1>8. QED BY <1>7 DEF F

\* What stays the same when a command moves on, and what does not.
LEMMA GotoType ==
    ASSUME op \in Operations, NEW label \in Labels, Goto(label)
    PROVE  /\ op' \in Operations
           /\ op'.pc = label
           /\ op'.cmd = op.cmd /\ op'.graph = op.graph
           /\ op'.reuse = op.reuse /\ op'.todo = op.todo
           /\ op'.writes = op.writes
BY DEF Goto, Operations, Labels

\* A restored backup is the tree promoted last; no plan relies on a live tree.
LEMMA RestoreBackupStep ==
    ASSUME IInv, RestoreBackup
    PROVE  IInv'
<1>0. op \in Operations /\ op.pc # "idle"
  BY OperationPc DEF IInv, TypeOK, Idle, RestoreBackup
<1>1. TypeOK'
  BY <1>0, InstallAssumption DEF IInv, TypeOK, StageInv, RestoreBackup, files,
     trees, past, Operations, Idle, Restorable
<1>2. TreeKept'
  BY <1>0, InstallAssumption DEF IInv, TreeKept, TreeRecovered, StageInv, SwapInv, BackupHeld,
     RestoreBackup, files, trees, past, Operations, Idle, Restorable
<1>3. StageInv'
  BY <1>0, InstallAssumption DEF IInv, TypeOK, StageInv, Holds, Present,
     RestoreBackup, files, trees, past, Operations, Idle, Restorable
<1>4. SwapInv'
  BY <1>0, InstallAssumption DEF IInv, TreeKept, TreeRecovered, StageInv, SwapInv, BackupHeld, Holds,
     Present, RestoreBackup, files, trees, past, Operations, Idle, Restorable
<1>5. CiInv'
  BY <1>0, InstallAssumption DEF IInv, TypeOK, CiInv, Only, Present,
     RestoreBackup, files, trees, past, Operations, Idle, Restorable
<1>6. ClearInv'
  BY <1>0, InstallAssumption DEF IInv, ClearInv, RestoreBackup, files, trees, past,
     Operations, Idle, Restorable
<1>7. QED BY <1>1, <1>2, <1>3, <1>4, <1>5, <1>6 DEF IInv

\* A backup is deleted only while there is a live tree.
LEMMA DiscardBackupStep ==
    ASSUME IInv, DiscardBackup
    PROVE  IInv'
<1>0. op \in Operations /\ op.pc # "idle"
  BY OperationPc DEF IInv, TypeOK, Idle, DiscardBackup
<1>1. TypeOK'
  BY <1>0, InstallAssumption, ShrunkType DEF IInv, TypeOK, StageInv,
     DiscardBackup, files, trees, past, Operations, Idle, Restorable
<1>2. TreeKept'
  BY <1>0, InstallAssumption DEF IInv, TreeKept, TreeRecovered, StageInv, SwapInv, BackupHeld,
     DiscardBackup, files, trees, past, Operations, Idle, Restorable
<1>3. StageInv'
  BY <1>0, InstallAssumption DEF IInv, TypeOK, StageInv, Holds, Present,
     DiscardBackup, files, trees, past, Operations, Idle, Restorable
<1>4. SwapInv'
  BY <1>0, InstallAssumption DEF IInv, TreeKept, TreeRecovered, StageInv, SwapInv, BackupHeld, Holds,
     Present, DiscardBackup, files, trees, past, Operations, Idle, Restorable
<1>5. CiInv'
  BY <1>0, InstallAssumption DEF IInv, TypeOK, CiInv, Only, Present,
     DiscardBackup, files, trees, past, Operations, Idle, Restorable
<1>6. ClearInv'
  BY <1>0, InstallAssumption DEF IInv, ClearInv, DiscardBackup, files, trees, past,
     Operations, Idle, Restorable
<1>7. QED BY <1>1, <1>2, <1>3, <1>4, <1>5, <1>6 DEF IInv

\* After recovery there is neither a stage nor a backup.
LEMMA DiscardStageStep ==
    ASSUME IInv, DiscardStage
    PROVE  IInv'
<1>0. op \in Operations /\ op.pc # "idle"
  BY OperationPc DEF IInv, TypeOK, Idle, DiscardStage
<1>1. TypeOK'
  BY <1>0, GotoType, InstallAssumption DEF IInv, TypeOK, StageInv,
     DiscardStage, files, trees, past, Labels, StageRecovered
<1>2. TreeKept'
  BY <1>0, GotoType, InstallAssumption DEF IInv, TreeKept, TreeRecovered, StageInv, SwapInv, BackupHeld,
     DiscardStage, files, trees, past, Labels, StageRecovered
<1>3. StageInv'
  BY <1>0, GotoType, InstallAssumption DEF IInv, TypeOK, StageInv, Holds,
     Present, DiscardStage, files, trees, past, Labels, StageRecovered
<1>4. SwapInv'
  BY <1>0, GotoType, InstallAssumption DEF IInv, TreeKept, TreeRecovered, StageInv, SwapInv, BackupHeld,
     Holds, Present, DiscardStage, files, trees, past, Labels, StageRecovered
<1>5. CiInv'
  BY <1>0, GotoType, InstallAssumption DEF IInv, TypeOK, CiInv, Only, Present,
     DiscardStage, files, trees, past, Labels, StageRecovered
<1>6. ClearInv'
  BY <1>0, GotoType, InstallAssumption DEF IInv, ClearInv, DiscardStage,
     files, trees, past, Labels, StageRecovered
<1>7. QED BY <1>1, <1>2, <1>3, <1>4, <1>5, <1>6 DEF IInv

\* Only a legacy installation skips linking.
LEMMA SkipLinkStep ==
    ASSUME IInv, SkipLink
    PROVE  IInv'
<1>0. op \in Operations /\ op.pc # "idle"
  BY OperationPc DEF IInv, TypeOK, Idle, SkipLink
<1>1. TypeOK'
  BY <1>0, GotoType, InstallAssumption DEF IInv, TypeOK, StageInv, SkipLink,
     files, trees, past, Labels, Linked, Planned
<1>2. TreeKept'
  BY <1>0, GotoType, InstallAssumption DEF IInv, TreeKept, TreeRecovered, StageInv, SwapInv, BackupHeld,
     SkipLink, files, trees, past, Labels, Linked, Planned
<1>3. StageInv'
  BY <1>0, GotoType, InstallAssumption DEF IInv, TypeOK, StageInv, Holds,
     Present, SkipLink, files, trees, past, Labels, Linked, Planned
<1>4. SwapInv'
  BY <1>0, GotoType, InstallAssumption DEF IInv, TreeKept, TreeRecovered, StageInv, SwapInv, BackupHeld,
     Holds, Present, SkipLink, files, trees, past, Labels, Linked, Planned
<1>5. CiInv'
  BY <1>0, GotoType, InstallAssumption DEF IInv, TypeOK, CiInv, Only, Present,
     SkipLink, files, trees, past, Labels, Linked, Planned
<1>6. ClearInv'
  BY <1>0, GotoType, InstallAssumption DEF IInv, ClearInv, SkipLink, files,
     trees, past, Labels, Linked, Planned
<1>7. QED BY <1>1, <1>2, <1>3, <1>4, <1>5, <1>6 DEF IInv

\* A stage starts from a seed or empty, with everything to place.
LEMMA StartStageStep ==
    ASSUME IInv, StartStage
    PROVE  IInv'
<1>0. op \in Operations /\ op.pc # "idle"
  BY OperationPc DEF IInv, TypeOK, Idle, StartStage
<1>1. TypeOK'
  <2>1. op' \in Operations
    BY <1>0 DEF StartStage, Operations, Labels, ToPlace, Present
  <2>2. stage' \in Trees
    BY SeededType, EmptyType DEF IInv, TypeOK, StageInv, StartStage
  <2>3. QED BY <2>1, <2>2 DEF IInv, TypeOK, StartStage, files, past
<1>2. TreeKept'
  BY <1>0, InstallAssumption DEF IInv, TreeKept, TreeRecovered, StageInv, SwapInv, BackupHeld,
     StartStage, files, trees, past, Operations, Idle, Linked, ToPlace, Labels
<1>3. StageInv'
  <2>1. stage' \in Trees /\ stage' # Absent
    BY SeededType, EmptyType, InstallAssumption
       DEF IInv, TypeOK, StageInv, StartStage
  <2>2. op'.pc = "build" /\ op'.todo = Present(op.graph.layout)
        /\ op'.graph = op.graph /\ op'.reuse = op.reuse
    BY <1>0 DEF StartStage, Operations, ToPlace
  <2>3. QED BY <2>1, <2>2 DEF IInv, StageInv, StartStage, Holds, Present
<1>4. SwapInv'
  BY <1>0, InstallAssumption DEF IInv, TreeKept, TreeRecovered, StageInv, SwapInv, BackupHeld, Holds,
     Present, StartStage, files, trees, past, Operations, Idle, Linked, ToPlace,
     Labels
<1>5. CiInv'
  <2>1. op'.pc = "build" /\ op'.cmd = op.cmd /\ op'.graph = op.graph
        /\ op'.reuse = op.reuse /\ op'.writes = op.writes
    BY <1>0 DEF StartStage, Operations
  <2>2. op.cmd = "ci" => stage' = Empty(FALSE)
    BY DEF IInv, StageInv, StartStage, Planned
  <2>3. QED
    BY <1>0, <2>1, <2>2 DEF IInv, CiInv, StartStage, Only, Empty, Bare, files
<1>6. ClearInv'
  BY <1>0, InstallAssumption DEF IInv, ClearInv, StartStage, files, trees, past,
     Operations, Idle, Linked, ToPlace, Labels
<1>7. QED BY <1>1, <1>2, <1>3, <1>4, <1>5, <1>6 DEF IInv

\* A package placed in the stage has the version of the graph.
LEMMA PlaceStep ==
    ASSUME IInv, NEW p \in Packages, Place(p)
    PROVE  IInv'
<1>0. op \in Operations /\ op.pc # "idle"
  BY OperationPc DEF IInv, TypeOK, Idle, Place
<1>1. TypeOK'
  <2>1. op' \in Operations
    BY <1>0 DEF Place, Operations
  <2>2. op.graph.layout[p] \in Versions \cup {None}
    BY <1>0 DEF Operations, Graphs, Layouts
  <2>3. p \in op.reuse => live.at[p] \in Versions \cup {None}
    BY InstallAssumption DEF IInv, TypeOK, Place, Trees, Layouts
  <2>4. stage \in Trees
    BY DEF IInv, TypeOK, StageInv, Place
  <2>5. stage' \in Trees
    <3> DEFINE v == IF p \in op.reuse THEN live.at[p] ELSE op.graph.layout[p]
    <3>1. [stage.at EXCEPT ![p] = v] \in Layouts
      BY <2>2, <2>3, <2>4 DEF Trees, Layouts
    <3>2. stage' = [stage EXCEPT !.at = [stage.at EXCEPT ![p] = v]]
      BY DEF Place
    <3>3. QED BY <2>4, <3>1, <3>2 DEF Trees
  <2>6. QED BY <2>1, <2>5 DEF IInv, TypeOK, Place, files, past
<1>2. TreeKept'
  BY <1>0, InstallAssumption DEF IInv, TreeKept, TreeRecovered, StageInv, SwapInv, BackupHeld, Place,
     files, trees, past, Operations, Idle, Labels
<1>3. StageInv'
  <2>1. stage \in Trees /\ stage # Absent
    BY DEF IInv, TypeOK, StageInv, Place
  <2>2. stage' =
            [stage EXCEPT !.at = [stage.at EXCEPT ![p] = op.graph.layout[p]]]
    BY DEF IInv, StageInv, Place
  <2>3. stage' # Absent
    <3>1. [stage.at EXCEPT ![p] = op.graph.layout[p]] \in Layouts
      BY <1>0, <2>1 DEF Operations, Graphs, Trees, Layouts
    <3>2. QED BY <2>1, <2>2, <3>1, InstallAssumption DEF Trees
  <2>4. op'.pc = "build" /\ op'.todo = op.todo \ {p}
        /\ op'.graph = op.graph /\ op'.reuse = op.reuse
    BY <1>0 DEF Place, Operations
  <2>5. \A q \in Present(op.graph.layout) \ op'.todo :
            stage'.at[q] = op.graph.layout[q]
    BY <2>1, <2>2, <2>4 DEF IInv, StageInv, Place, Present, Trees, Layouts
  <2>6. QED BY <2>3, <2>4, <2>5 DEF IInv, StageInv, Place, Present, Holds
<1>4. SwapInv'
  BY <1>0, InstallAssumption DEF IInv, TreeKept, TreeRecovered, StageInv, SwapInv, BackupHeld, Holds,
     Present, Place, files, trees, past, Operations, Idle, Labels
<1>5. CiInv'
  BY <1>0, InstallAssumption DEF IInv, TypeOK, CiInv, Only, Present, Place,
     files, trees, past, Operations, Idle, Labels
<1>6. ClearInv'
  BY <1>0, InstallAssumption DEF IInv, ClearInv, Place, files, trees, past,
     Operations, Idle, Labels
<1>7. QED BY <1>1, <1>2, <1>3, <1>4, <1>5, <1>6 DEF IInv

\* A finished stage holds the graph.
LEMMA FinishStageStep ==
    ASSUME IInv, FinishStage
    PROVE  IInv'
<1>0. op \in Operations /\ op.pc # "idle"
  BY OperationPc DEF IInv, TypeOK, Idle, FinishStage
<1>1. TypeOK'
  <2>1. op' \in Operations
    BY <1>0, GotoType DEF FinishStage, Labels
  <2>2. stage' \in Trees
    <3>1. stage \in Trees
      BY DEF IInv, TypeOK, StageInv, FinishStage
    <3>2. [stage EXCEPT !.manifest = op.graph] \in Trees
      BY <1>0, <3>1 DEF Operations, Trees
    <3>3. QED BY <3>1, <3>2 DEF FinishStage
  <2>3. QED BY <2>1, <2>2 DEF IInv, TypeOK, FinishStage, files, past
<1>2. TreeKept'
  BY <1>0, GotoType, InstallAssumption DEF IInv, TreeKept, TreeRecovered, StageInv, SwapInv, BackupHeld,
     FinishStage, files, trees, past, Labels
<1>3. StageInv'
  <2>1. stage \in Trees
    BY DEF IInv, TypeOK, StageInv, FinishStage
  <2>2. stage' # Absent /\ stage'.at = stage.at
    BY <1>0, <2>1, InstallAssumption DEF IInv, StageInv, FinishStage,
       Operations, Trees
  <2>3. QED BY <1>0, <2>2, GotoType DEF IInv, StageInv, FinishStage, Labels,
       Holds, Present
<1>4. SwapInv'
  BY <1>0, GotoType, InstallAssumption DEF IInv, TreeKept, TreeRecovered, StageInv, SwapInv, BackupHeld,
     Holds, Present, FinishStage, files, trees, past, Labels
<1>5. CiInv'
  BY <1>0, GotoType, InstallAssumption DEF IInv, TypeOK, CiInv, Only, Present,
     FinishStage, files, trees, past, Labels
<1>6. ClearInv'
  BY <1>0, GotoType, InstallAssumption DEF IInv, ClearInv, FinishStage, files,
     trees, past, Labels
<1>7. QED BY <1>1, <1>2, <1>3, <1>4, <1>5, <1>6 DEF IInv

\* The live tree becomes the backup.
LEMMA RetireStep ==
    ASSUME IInv, Retire
    PROVE  IInv'
<1>0. op \in Operations /\ op.pc # "idle"
  BY OperationPc DEF IInv, TypeOK, Idle, Retire
<1>1. TypeOK'
  BY <1>0, GotoType, InstallAssumption DEF IInv, TypeOK, StageInv, Retire,
     files, trees, past, Labels
<1>2. TreeKept'
  BY <1>0, GotoType, InstallAssumption DEF IInv, TreeKept, TreeRecovered, StageInv, SwapInv, BackupHeld,
     Retire, files, trees, past, Labels
<1>3. StageInv'
  BY <1>0, GotoType, InstallAssumption DEF IInv, TypeOK, StageInv, Holds,
     Present, Retire, files, trees, past, Labels
<1>4. SwapInv'
  BY <1>0, GotoType, InstallAssumption DEF IInv, TreeKept, TreeRecovered, StageInv, SwapInv, BackupHeld,
     Holds, Present, Retire, files, trees, past, Labels
<1>5. CiInv'
  BY <1>0, GotoType, InstallAssumption DEF IInv, TypeOK, CiInv, Only, Present,
     Retire, files, trees, past, Labels
<1>6. ClearInv'
  BY <1>0, GotoType, InstallAssumption DEF IInv, ClearInv, Retire, files,
     trees, past, Labels
<1>7. QED BY <1>1, <1>2, <1>3, <1>4, <1>5, <1>6 DEF IInv

\* The stage becomes the live tree; one with junctions is not complete yet.
LEMMA PromoteStep ==
    ASSUME IInv, Promote
    PROVE  IInv'
<1>0. op \in Operations /\ op.pc = "promote" /\ op.pc # "idle"
  BY OperationPc DEF IInv, TypeOK, Idle, Promote
<1>1. /\ op' \in Operations
      /\ op'.pc = AfterPromotion
      /\ op'.cmd = op.cmd /\ op'.graph = op.graph
      /\ op'.reuse = op.reuse /\ op'.writes = op.writes
      /\ op'.todo = IF Junctioned THEN ToPlace ELSE op.todo
  BY <1>0 DEF Promote, AfterPromotion, Operations, Labels, ToPlace, Present
<1>2. /\ stage \in Trees /\ stage # Absent /\ Holds(stage)
      /\ live = Absent /\ BackupHeld
  BY <1>0 DEF IInv, TypeOK, StageInv, SwapInv
<1>3. CASE Junctioned
  <2>1. /\ live' = [stage EXCEPT !.at = Bare] /\ stage' = Absent
        /\ op'.pc = "rebase" /\ op.cmd = "legacy" /\ op'.todo = Present(op.graph.layout)
        /\ UNCHANGED <<files, backup, last, stranded, interrupts>>
    BY <1>1, <1>3 DEF Promote, AfterPromotion, Junctioned, ToPlace, past
  <2>2. live' \in Trees /\ live' # Absent
    BY <1>2, <2>1, InstallAssumption DEF Trees, Layouts, Bare
  <2>3. TypeOK'
    BY <1>1, <2>1, <2>2 DEF IInv, TypeOK, files
  <2>4. BackupHeld'
    BY <1>2, <2>1 DEF BackupHeld
  <2>5. TreeKept'
    BY <2>1, <2>4 DEF BackupHeld, TreeKept, TreeRecovered
  <2>6. StageInv' /\ SwapInv'
    BY <1>1, <2>1, <2>2, <2>4 DEF StageInv, SwapInv, Present
  <2>7. CiInv' /\ ClearInv'
    BY <1>0, <1>1, <2>1 DEF IInv, CiInv, ClearInv
  <2>8. QED BY <2>3, <2>5, <2>6, <2>7 DEF IInv
<1>4. CASE ~ Junctioned
  <2>1. /\ live' = stage /\ stage' = Absent /\ last' = stage /\ stranded' = FALSE
        /\ op'.pc = "cleanup" /\ UNCHANGED <<files, backup, interrupts>>
    BY <1>1, <1>4 DEF Promote, AfterPromotion, Commit
  <2>2. TypeOK'
    BY <1>1, <1>2, <2>1 DEF IInv, TypeOK, files
  <2>3. TreeKept'
    BY <2>1 DEF TreeKept, TreeRecovered
  <2>4. StageInv' /\ SwapInv'
    BY <1>1, <1>2, <2>1 DEF StageInv, SwapInv, Holds, Present
  <2>5. CiInv'
    BY <1>0, <1>1, <2>1 DEF IInv, CiInv, Only, Present, files
  <2>6. ClearInv'
    BY <1>0, <1>1, <2>1 DEF IInv, ClearInv
  <2>7. QED BY <2>2, <2>3, <2>4, <2>5, <2>6 DEF IInv
<1>5. QED BY <1>3, <1>4

\* A junction made anew leads to its package; with the last one the promoted tree
\* is complete and becomes the one to keep.
LEMMA RebaseStep ==
    ASSUME IInv, NEW p \in Packages, Rebase(p)
    PROVE  IInv'
<1>0. op \in Operations /\ op.pc = "rebase" /\ op.pc # "idle"
  BY OperationPc DEF IInv, TypeOK, Idle, Rebase
<1> DEFINE Last == op.todo = {p}
<1>1. /\ op' \in Operations
      /\ op'.pc = IF Last THEN "cleanup" ELSE "rebase"
      /\ op'.cmd = op.cmd /\ op'.graph = op.graph
      /\ op'.reuse = op.reuse /\ op'.writes = op.writes
      /\ op'.todo = op.todo \ {p}
  BY <1>0 DEF Rebase, Operations, Labels
<1>2. /\ op.cmd = "legacy" /\ BackupHeld /\ stage = Absent /\ live # Absent /\ live \in Trees
      /\ op.todo \subseteq Present(op.graph.layout)
      /\ \A q \in Present(op.graph.layout) \ op.todo : live.at[q] = op.graph.layout[q]
  BY <1>0 DEF IInv, TypeOK, SwapInv
<1>3. /\ live' = [live EXCEPT !.at = [live.at EXCEPT ![p] = op.graph.layout[p]]]
      /\ UNCHANGED <<files, stage, backup, interrupts>>
  BY DEF Rebase
<1>4. [live.at EXCEPT ![p] = op.graph.layout[p]] \in Layouts
  BY <1>0, <1>2 DEF Operations, Graphs, Trees, Layouts
<1>5. live' \in Trees /\ live' # Absent
      /\ live'.at = [live.at EXCEPT ![p] = op.graph.layout[p]]
  BY <1>2, <1>3, <1>4, InstallAssumption DEF Trees
<1>6. \A q \in Present(op.graph.layout) \ op'.todo : live'.at[q] = op.graph.layout[q]
  BY <1>1, <1>2, <1>5 DEF Trees, Layouts, Present
<1>7. CASE Last
  <2>1. last' = live' /\ stranded' = FALSE /\ op'.pc = "cleanup"
    BY <1>1, <1>7 DEF Rebase, Commit
  <2>2. Holds(live)'
    <3>1. op'.todo = {}
      BY <1>1, <1>7
    <3>2. QED BY <1>1, <1>5, <1>6, <3>1 DEF Holds, Present
  <2>3. TypeOK'
    BY <1>1, <1>3, <1>5, <2>1 DEF IInv, TypeOK, files
  <2>4. TreeKept'
    BY <2>1 DEF TreeKept, TreeRecovered
  <2>5. StageInv' /\ SwapInv'
    BY <1>2, <1>3, <2>1, <2>2 DEF StageInv, SwapInv
  <2>6. CiInv' /\ ClearInv'
    BY <1>0, <1>1, <1>2, <2>1 DEF IInv, CiInv, ClearInv
  <2>7. QED BY <2>3, <2>4, <2>5, <2>6 DEF IInv
<1>8. CASE ~ Last
  <2>1. UNCHANGED <<last, stranded>> /\ op'.pc = "rebase"
    BY <1>1, <1>8 DEF Rebase, past
  <2>2. TypeOK'
    BY <1>1, <1>3, <1>5, <2>1 DEF IInv, TypeOK, files
  <2>3. BackupHeld'
    BY <1>2, <1>3, <2>1 DEF BackupHeld
  <2>4. TreeKept'
    BY <2>1, <2>3 DEF BackupHeld, TreeKept, TreeRecovered
  <2>5. op'.todo \subseteq Present(op'.graph.layout)
    BY <1>1, <1>2 DEF Present
  <2>6. StageInv' /\ SwapInv'
    BY <1>1, <1>2, <1>3, <1>5, <1>6, <2>1, <2>3, <2>5 DEF StageInv, SwapInv, Present
  <2>7. CiInv' /\ ClearInv'
    BY <1>0, <1>1, <1>2, <2>1 DEF IInv, CiInv, ClearInv
  <2>8. QED BY <2>2, <2>4, <2>6, <2>7 DEF IInv
<1>9. QED BY <1>7, <1>8

\* A failing rebase, and the removal of the tree it was for, leave the backup.
LEMMA RebaseFailsStep ==
    ASSUME IInv, RebaseFails \/ UndoRemove
    PROVE  IInv'
<1>0. op \in Operations /\ op.pc \in {"rebase", "undo"}
  BY OperationPc DEF IInv, TypeOK, Idle, RebaseFails, UndoRemove
<1>1. /\ op' \in Operations /\ op'.pc = "undo" /\ op'.cmd = op.cmd
      /\ op'.graph = op.graph /\ UNCHANGED <<files, stage, backup, last, stranded>>
  BY <1>0, GotoType DEF RebaseFails, UndoRemove, trees, past, Labels
<1>2. op.cmd = "legacy" /\ BackupHeld /\ stage = Absent
  BY <1>0 DEF IInv, SwapInv
<1>3. live' \in Trees \cup {Absent} /\ interrupts' \in 0 .. MaxInterrupts
  <2>1. CASE RebaseFails
    BY <2>1, InstallAssumption DEF IInv, TypeOK, RebaseFails, trees, Interrupted
  <2>2. CASE UndoRemove
    BY <2>2, ShrunkType DEF IInv, TypeOK, UndoRemove
  <2>3. QED BY <2>1, <2>2
<1>4. TypeOK'
  BY <1>1, <1>3 DEF IInv, TypeOK, files
<1>5. BackupHeld'
  BY <1>1, <1>2 DEF BackupHeld
<1>6. TreeKept'
  BY <1>1, <1>5 DEF BackupHeld, TreeKept, TreeRecovered
<1>7. StageInv' /\ SwapInv'
  BY <1>1, <1>2, <1>5 DEF StageInv, SwapInv
<1>8. CiInv' /\ ClearInv'
  BY <1>0, <1>1, <1>2 DEF IInv, CiInv, ClearInv
<1>9. QED BY <1>4, <1>6, <1>7, <1>8 DEF IInv

\* A failed promotion puts the old tree back or leaves it in the backup.
LEMMA PromoteFailsStep ==
    ASSUME IInv, PromoteFails
    PROVE  IInv'
<1>0. op \in Operations /\ op.pc # "idle"
  BY OperationPc DEF IInv, TypeOK, Idle, PromoteFails
<1>1. TypeOK'
  BY <1>0, InstallAssumption DEF IInv, TypeOK, StageInv, PromoteFails, files,
     trees, past, Operations, Idle, Interrupted
<1>2. TreeKept'
  BY <1>0, InstallAssumption DEF IInv, TreeKept, TreeRecovered, StageInv, SwapInv, BackupHeld,
     PromoteFails, files, trees, past, Operations, Idle, Interrupted
<1>3. StageInv'
  BY <1>0, InstallAssumption DEF IInv, TypeOK, StageInv, Holds, Present,
     PromoteFails, files, trees, past, Operations, Idle, Interrupted
<1>4. SwapInv'
  BY <1>0, InstallAssumption DEF IInv, TreeKept, TreeRecovered, StageInv, SwapInv, BackupHeld, Holds,
     Present, PromoteFails, files, trees, past, Operations, Idle, Interrupted
<1>5. CiInv'
  BY <1>0, InstallAssumption DEF IInv, TypeOK, CiInv, Only, Present,
     PromoteFails, files, trees, past, Operations, Idle, Interrupted
<1>6. ClearInv'
  BY <1>0, InstallAssumption DEF IInv, ClearInv, PromoteFails, files, trees, past,
     Operations, Idle, Interrupted
<1>7. QED BY <1>1, <1>2, <1>3, <1>4, <1>5, <1>6 DEF IInv

\* The old tree is deleted after the new one is live.
LEMMA DiscardOldStep ==
    ASSUME IInv, DiscardOld
    PROVE  IInv'
<1>0. op \in Operations /\ op.pc # "idle"
  BY OperationPc DEF IInv, TypeOK, Idle, DiscardOld
<1>1. TypeOK'
  BY <1>0, InstallAssumption, ShrunkType DEF IInv, TypeOK, StageInv,
     DiscardOld, files, trees, past, Operations, Idle, Holds
<1>2. TreeKept'
  BY <1>0, InstallAssumption DEF IInv, TreeKept, TreeRecovered, StageInv, SwapInv, BackupHeld,
     DiscardOld, files, trees, past, Operations, Idle, Holds
<1>3. StageInv'
  BY <1>0, InstallAssumption DEF IInv, TypeOK, StageInv, Holds, Present,
     DiscardOld, files, trees, past, Operations, Idle
<1>4. SwapInv'
  BY <1>0, InstallAssumption DEF IInv, TreeKept, TreeRecovered, StageInv, SwapInv, BackupHeld, Holds,
     Present, DiscardOld, files, trees, past, Operations, Idle
<1>5. CiInv'
  BY <1>0, InstallAssumption DEF IInv, TypeOK, CiInv, Only, Present,
     DiscardOld, files, trees, past, Operations, Idle, Holds
<1>6. ClearInv'
  BY <1>0, InstallAssumption DEF IInv, ClearInv, DiscardOld, files, trees, past,
     Operations, Idle, Holds
<1>7. QED BY <1>1, <1>2, <1>3, <1>4, <1>5, <1>6 DEF IInv

\* After the cleanup there is no backup.
LEMMA CleanupDoneStep ==
    ASSUME IInv, CleanupDone
    PROVE  IInv'
<1>0. op \in Operations /\ op.pc # "idle"
  BY OperationPc DEF IInv, TypeOK, Idle, CleanupDone
<1>1. TypeOK'
  BY <1>0, GotoType, InstallAssumption DEF IInv, TypeOK, StageInv,
     CleanupDone, files, trees, past, Labels, Planned
<1>2. TreeKept'
  BY <1>0, GotoType, InstallAssumption DEF IInv, TreeKept, TreeRecovered, StageInv, SwapInv, BackupHeld,
     CleanupDone, files, trees, past, Labels, Planned
<1>3. StageInv'
  BY <1>0, GotoType, InstallAssumption DEF IInv, TypeOK, StageInv, Holds,
     Present, CleanupDone, files, trees, past, Labels, Planned
<1>4. SwapInv'
  BY <1>0, GotoType, InstallAssumption DEF IInv, TreeKept, TreeRecovered, StageInv, SwapInv, BackupHeld,
     Holds, Present, CleanupDone, files, trees, past, Labels, Planned
<1>5. CiInv'
  BY <1>0, GotoType, InstallAssumption DEF IInv, TypeOK, CiInv, Only, Present,
     CleanupDone, files, trees, past, Labels, Planned
<1>6. ClearInv'
  BY <1>0, GotoType, InstallAssumption DEF IInv, ClearInv, CleanupDone, files,
     trees, past, Labels, Planned
<1>7. QED BY <1>1, <1>2, <1>3, <1>4, <1>5, <1>6 DEF IInv

\* Only a legacy installation keeps a backup it cannot delete.
LEMMA KeepOldStep ==
    ASSUME IInv, KeepOld
    PROVE  IInv'
<1>0. op \in Operations /\ op.pc # "idle"
  BY OperationPc DEF IInv, TypeOK, Idle, KeepOld
<1>1. TypeOK'
  BY <1>0, GotoType, InstallAssumption DEF IInv, TypeOK, StageInv, KeepOld,
     files, trees, past, Labels, Planned, Interrupted
<1>2. TreeKept'
  BY <1>0, GotoType, InstallAssumption DEF IInv, TreeKept, TreeRecovered, StageInv, SwapInv, BackupHeld,
     KeepOld, files, trees, past, Labels, Planned, Interrupted
<1>3. StageInv'
  BY <1>0, GotoType, InstallAssumption DEF IInv, TypeOK, StageInv, Holds,
     Present, KeepOld, files, trees, past, Labels, Planned, Interrupted
<1>4. SwapInv'
  BY <1>0, GotoType, InstallAssumption DEF IInv, TreeKept, TreeRecovered, StageInv, SwapInv, BackupHeld,
     Holds, Present, KeepOld, files, trees, past, Labels, Planned, Interrupted
<1>5. CiInv'
  BY <1>0, GotoType, InstallAssumption DEF IInv, TypeOK, CiInv, Only, Present,
     KeepOld, files, trees, past, Labels, Planned, Interrupted
<1>6. ClearInv'
  BY <1>0, GotoType, InstallAssumption DEF IInv, ClearInv, KeepOld, files,
     trees, past, Labels, Planned, Interrupted
<1>7. QED BY <1>1, <1>2, <1>3, <1>4, <1>5, <1>6 DEF IInv

\* Clearing node_modules gives up the tree promoted last.
LEMMA ClearLiveStep ==
    ASSUME IInv, ClearLive
    PROVE  IInv'
<1>0. op \in Operations /\ op.pc # "idle"
  BY OperationPc DEF IInv, TypeOK, Idle, ClearLive
<1>1. TypeOK'
  BY <1>0, InstallAssumption, ShrunkType DEF IInv, TypeOK, StageInv,
     ClearLive, files, trees, past, Operations, Idle, ClearInv, Bare, Planned, Goto,
     Labels
<1>2. TreeKept'
  BY <1>0, InstallAssumption DEF IInv, TreeKept, TreeRecovered, StageInv, SwapInv, BackupHeld, ClearLive,
     files, trees, past, Operations, Idle, ClearInv, Bare, Planned, Goto, Labels
<1>3. StageInv'
  BY <1>0, InstallAssumption DEF IInv, TypeOK, StageInv, Holds, Present,
     ClearLive, files, trees, past, Operations, Idle, ClearInv, Bare, Planned, Goto,
     Labels
<1>4. SwapInv'
  BY <1>0, InstallAssumption DEF IInv, TreeKept, TreeRecovered, StageInv, SwapInv, BackupHeld, Holds,
     Present, ClearLive, files, trees, past, Operations, Idle, ClearInv, Bare,
     Planned, Goto, Labels
<1>5. CiInv'
  BY <1>0, InstallAssumption DEF IInv, TypeOK, CiInv, Only, Present,
     ClearLive, files, trees, past, Operations, Idle, ClearInv, Bare, Planned, Goto,
     Labels
<1>6. ClearInv'
  BY <1>0, InstallAssumption DEF IInv, ClearInv, ClearLive, files, trees, past,
     Operations, Idle, Bare, Planned, Goto, Labels
<1>7. QED BY <1>1, <1>2, <1>3, <1>4, <1>5, <1>6 DEF IInv

\* Writing a file leaves the trees alone; ci writes only the plan.
LEMMA WriteFileStep ==
    ASSUME IInv, WriteFile
    PROVE  IInv'
<1>0. op \in Operations /\ op.pc # "idle"
  BY OperationPc DEF IInv, TypeOK, Idle, WriteFile
<1>1. TypeOK'
  <2>1. op' \in Operations
    <3>1. Tail(op.writes) \in Seq({"plan", "lock", "manifest", "unplan"})
      BY <1>0 DEF WriteFile, Operations
    <3>2. QED BY <1>0, <3>1 DEF WriteFile, Operations
  <2>2. manifest' = Torn \/ manifest' \in SUBSET Packages
    BY <1>0 DEF IInv, TypeOK, WriteFile, Operations
  <2>3. lock' \in Locks \cup {Absent, Torn}
    BY <1>0 DEF IInv, TypeOK, WriteFile, Operations, Locks
  <2>4. planfile' \in Layouts \cup {Absent, Torn}
    BY <1>0 DEF IInv, TypeOK, WriteFile, Operations, Graphs, PlanWritten
  <2>5. QED BY <2>1, <2>2, <2>3, <2>4 DEF IInv, TypeOK, WriteFile, trees, past
<1>2. TreeKept'
  BY <1>0, InstallAssumption DEF IInv, TreeKept, TreeRecovered, StageInv, SwapInv, BackupHeld, WriteFile,
     files, trees, past, Operations, Idle, PlanWritten, Labels
<1>3. StageInv'
  BY <1>0, InstallAssumption DEF IInv, TypeOK, StageInv, Holds, Present,
     WriteFile, files, trees, past, Operations, Idle, PlanWritten, Labels
<1>4. SwapInv'
  BY <1>0, InstallAssumption DEF IInv, TreeKept, TreeRecovered, StageInv, SwapInv, BackupHeld, Holds,
     Present, WriteFile, files, trees, past, Operations, Idle, PlanWritten, Labels
<1>5. CiInv'
  BY <1>0, InstallAssumption DEF IInv, TypeOK, CiInv, Only, Present,
     WriteFile, files, trees, past, Operations, Idle, PlanWritten, Labels
<1>6. ClearInv'
  BY <1>0, InstallAssumption DEF IInv, ClearInv, WriteFile, files, trees, past,
     Operations, Idle, PlanWritten, Labels
<1>7. QED BY <1>1, <1>2, <1>3, <1>4, <1>5, <1>6 DEF IInv

\* A command that has written its files is done.
LEMMA SucceedStep ==
    ASSUME IInv, Succeed
    PROVE  IInv'
<1>0. op \in Operations /\ op.pc # "idle"
  BY OperationPc DEF IInv, TypeOK, Idle, Succeed
<1>1. TypeOK'
  BY <1>0, GotoType, InstallAssumption DEF IInv, TypeOK, StageInv, Succeed,
     files, trees, past, Labels, Planned
<1>2. TreeKept'
  BY <1>0, GotoType, InstallAssumption DEF IInv, TreeKept, TreeRecovered, StageInv, SwapInv, BackupHeld,
     Succeed, files, trees, past, Labels, Planned
<1>3. StageInv'
  BY <1>0, GotoType, InstallAssumption DEF IInv, TypeOK, StageInv, Holds,
     Present, Succeed, files, trees, past, Labels, Planned
<1>4. SwapInv'
  BY <1>0, GotoType, InstallAssumption DEF IInv, TreeKept, TreeRecovered, StageInv, SwapInv, BackupHeld,
     Holds, Present, Succeed, files, trees, past, Labels, Planned
<1>5. CiInv'
  BY <1>0, GotoType, InstallAssumption DEF IInv, TypeOK, CiInv, Only, Present,
     Succeed, files, trees, past, Labels, Planned
<1>6. ClearInv'
  BY <1>0, GotoType, InstallAssumption DEF IInv, ClearInv, Succeed, files,
     trees, past, Labels, Planned
<1>7. QED BY <1>1, <1>2, <1>3, <1>4, <1>5, <1>6 DEF IInv

\* A command that is done leaves everything as it is.
LEMMA ReturnStep ==
    ASSUME IInv, Return
    PROVE  IInv'
<1>0. op \in Operations /\ op.pc # "idle"
  BY OperationPc DEF IInv, TypeOK, Idle, Return
<1>1. TypeOK'
  BY <1>0, InstallAssumption DEF IInv, TypeOK, StageInv, Return, files, trees, past,
     Operations, Idle
<1>2. TreeKept'
  BY <1>0, InstallAssumption DEF IInv, TreeKept, TreeRecovered, StageInv, SwapInv, BackupHeld, Return,
     files, trees, past, Operations, Idle
<1>3. StageInv'
  BY <1>0, InstallAssumption DEF IInv, TypeOK, StageInv, Holds, Present,
     Return, files, trees, past, Operations, Idle
<1>4. SwapInv'
  BY <1>0, InstallAssumption DEF IInv, TreeKept, TreeRecovered, StageInv, SwapInv, BackupHeld, Holds,
     Present, Return, files, trees, past, Operations, Idle
<1>5. CiInv'
  BY <1>0, InstallAssumption DEF IInv, TypeOK, CiInv, Only, Present, Return,
     files, trees, past, Operations, Idle
<1>6. ClearInv'
  BY <1>0, InstallAssumption DEF IInv, ClearInv, Return, files, trees, past,
     Operations, Idle
<1>7. QED BY <1>1, <1>2, <1>3, <1>4, <1>5, <1>6 DEF IInv

\* An error or a crash leaves the trees as they are.
LEMMA InterruptStep ==
    ASSUME IInv, Interrupt
    PROVE  IInv'
<1>0. op \in Operations /\ op.pc # "idle"
  BY OperationPc DEF IInv, TypeOK, Idle, Interrupt
<1>1. TypeOK'
  BY <1>0, InstallAssumption DEF IInv, TypeOK, StageInv, Interrupt, files,
     trees, past, Operations, Idle, Interrupted
<1>2. TreeKept'
  BY <1>0, InstallAssumption DEF IInv, TreeKept, TreeRecovered, StageInv, SwapInv, BackupHeld, Interrupt,
     files, trees, past, Operations, Idle, Interrupted
<1>3. StageInv'
  BY <1>0, InstallAssumption DEF IInv, TypeOK, StageInv, Holds, Present,
     Interrupt, files, trees, past, Operations, Idle, Interrupted
<1>4. SwapInv'
  BY <1>0, InstallAssumption DEF IInv, TreeKept, TreeRecovered, StageInv, SwapInv, BackupHeld, Holds,
     Present, Interrupt, files, trees, past, Operations, Idle, Interrupted
<1>5. CiInv'
  BY <1>0, InstallAssumption DEF IInv, TypeOK, CiInv, Only, Present,
     Interrupt, files, trees, past, Operations, Idle, Interrupted
<1>6. ClearInv'
  BY <1>0, InstallAssumption DEF IInv, ClearInv, Interrupt, files, trees, past,
     Operations, Idle, Interrupted
<1>7. QED BY <1>1, <1>2, <1>3, <1>4, <1>5, <1>6 DEF IInv

\* The idle operation puts no condition on the trees and the files.
LEMMA IdleInv ==
    ASSUME TypeOK, TreeKept, op = Idle
    PROVE  IInv
BY DEF IInv, StageInv, SwapInv, CiInv, ClearInv, Idle

\* The same of a step that ends a command.
LEMMA UndoIdle ==
    ASSUME TypeOK', TreeKept', op' = Idle
    PROVE  IInv'
BY DEF IInv, StageInv, SwapInv, CiInv, ClearInv, Idle

\* The old tree is put back once the new one is gone; a removal that fails, with
\* the rename that follows it, strands the tree that was promoted.
LEMMA UndoEndsStep ==
    ASSUME IInv, UndoRestore \/ UndoFails
    PROVE  IInv'
<1>0. op.pc = "undo" /\ op.pc # "idle" /\ op' = Idle
  BY DEF UndoRestore, UndoFails
<1>1. BackupHeld
  BY <1>0 DEF IInv, SwapInv
<1>2. CASE UndoRestore
  <2>1. TypeOK'
    BY <1>2 DEF IInv, TypeOK, UndoRestore, files, past
  <2>2. TreeKept'
    BY <1>1, <1>2 DEF UndoRestore, BackupHeld, TreeKept, TreeRecovered, past
  <2>3. QED BY <1>0, <2>1, <2>2, UndoIdle
<1>3. CASE UndoFails
  <2>1. TypeOK'
    BY <1>3, InstallAssumption DEF IInv, TypeOK, UndoFails, files, trees, Interrupted
  <2>2. TreeKept'
    BY <1>1, <1>3 DEF UndoFails, BackupHeld, TreeKept, TreeRecovered, trees
  <2>3. QED BY <1>0, <2>1, <2>2, UndoIdle
<1>4. QED BY <1>2, <1>3

\* Editing package.json between two commands preserves the invariant.
LEMMA EditStep ==
    ASSUME IInv, NEW deps \in SUBSET Packages, Edit(deps)
    PROVE  IInv'
<1>1. TypeOK' /\ TreeKept'
  BY DEF IInv, TypeOK, TreeKept, TreeRecovered, Edit, trees, past
<1>2. op' = Idle
  BY DEF Edit
<1>3. QED
  BY <1>1, <1>2 DEF IInv, StageInv, SwapInv, CiInv, ClearInv, Idle

\* A command that starts with a graph, and with reused locations the live tree
\* has, preserves the invariant.
LEMMA BeginStep ==
    ASSUME IInv,
           NEW cmd \in Planned \cup {"ci", "legacy"},
           NEW deps \in SUBSET Packages, NEW graph \in Graphs,
           NEW reuse \in SUBSET Packages, NEW removed \in SUBSET Packages,
           \A p \in reuse : live # Absent /\ live.at[p] = graph.layout[p],
           cmd = "ci" => /\ lock \in Locks
                         /\ lock.deps = manifest
                         /\ lock.graph = graph
                         /\ reuse = {},
           Begin(cmd, "recover", deps, graph, reuse, removed)
    PROVE  IInv'
<1>1. op' = [pc |-> "recover", cmd |-> cmd, deps |-> deps, graph |-> graph,
             reuse |-> reuse, removed |-> removed, todo |-> {},
             writes |-> Writes(cmd)]
  BY DEF Begin
<1>2. TypeOK'
  <2>1. op' \in Operations
    BY <1>1, WritesType DEF Operations, Labels, AllCommands, Planned
  <2>2. QED BY <2>1 DEF IInv, TypeOK, Begin, files, trees, past
<1>3. TreeKept'
  BY DEF IInv, TreeKept, TreeRecovered, Begin, trees, past, Idle
<1>4. StageInv' /\ SwapInv'
  BY <1>1 DEF StageInv, SwapInv, Begin, trees
<1>5. CiInv'
  BY <1>1 DEF CiInv, Begin, files, Writes
<1>6. ClearInv'
  BY <1>1 DEF ClearInv, Begin, Planned
<1>7. QED BY <1>2, <1>3, <1>4, <1>5, <1>6 DEF IInv

\* Starting a planned command preserves the invariant: what Arborist calls
\* unchanged is in the live tree.
LEMMA BeginPlannedStep ==
    ASSUME IInv, NEW cmd \in Planned, BeginPlanned(cmd)
    PROVE  IInv'
<1>0. PICK deps \in Requested(cmd) :
          \E layout \in LayoutsFor(deps) :
              \E reuse \in SUBSET Unchanged(layout) :
                  Begin(cmd, "recover", deps, GraphOf(layout, "location"),
                        reuse, Extraneous(layout))
  BY DEF BeginPlanned
<1>1. PICK layout \in LayoutsFor(deps) :
          \E reuse \in SUBSET Unchanged(layout) :
              Begin(cmd, "recover", deps, GraphOf(layout, "location"), reuse,
                    Extraneous(layout))
  BY <1>0
<1>2. PICK reuse \in SUBSET Unchanged(layout) :
          Begin(cmd, "recover", deps, GraphOf(layout, "location"), reuse,
                Extraneous(layout))
  BY <1>1
<1>3. deps \in SUBSET Packages
  BY DEF BeginPlanned, Requested, IInv, TypeOK, Planned
<1>4. GraphOf(layout, "location") \in Graphs
      /\ GraphOf(layout, "location").layout = layout
  BY GraphOfType DEF LayoutsFor, GraphOf
<1>5. Extraneous(layout) \in SUBSET Packages /\ reuse \in SUBSET Packages
  BY DEF Extraneous, Unchanged, Present
<1>6. \A p \in reuse : live # Absent /\ live.at[p] = layout[p]
  BY DEF Unchanged
<1>7. cmd # "ci"
  BY DEF Planned
<1>8. QED
  BY <1>2, <1>3, <1>4, <1>5, <1>6, <1>7, BeginStep

\* Starting ci preserves the invariant: the lockfile is the plan's.
LEMMA BeginCiStep ==
    ASSUME IInv, BeginCi
    PROVE  IInv'
<1>1. PICK layout \in (IF planfile = Absent THEN LayoutsFor(manifest)
                       ELSE {planfile}) :
          /\ CiAccepts(GraphOf(layout, "location"))
          /\ Begin("ci", "recover", manifest, GraphOf(layout, "location"),
                   {}, {})
  BY DEF BeginCi
<1>2. layout \in Layouts
  BY DEF BeginCi, IInv, TypeOK, LayoutsFor
<1>3. GraphOf(layout, "location") \in Graphs
  BY <1>2, GraphOfType
<1>4. manifest \in SUBSET Packages /\ lock \in Locks
  BY DEF BeginCi, IInv, TypeOK
<1> DEFINE graph == GraphOf(layout, "location")
<1>5. lock.deps = manifest /\ lock.graph = graph /\ graph \in Graphs
  BY <1>1, <1>3 DEF CiAccepts
<1>6. Begin("ci", "recover", manifest, graph, {}, {})
  BY <1>1
<1> HIDE DEF graph
<1>7. \A p \in {} : live # Absent /\ live.at[p] = graph.layout[p]
  OBVIOUS
<1>8. "ci" \in Planned \cup {"ci", "legacy"} /\ {} \in SUBSET Packages
  OBVIOUS
<1>9. QED BY <1>4, <1>5, <1>6, <1>7, <1>8, BeginStep, Zenon

\* Starting a legacy installation preserves the invariant.
LEMMA BeginLegacyStep ==
    ASSUME IInv, BeginLegacy
    PROVE  IInv'
<1>1. PICK graph \in
            {GraphOf(layout, "name") : layout \in LayoutsFor(manifest)}
            \cup (IF lock # Absent /\ lock.deps = manifest
                  THEN {lock.graph} ELSE {}) :
          Begin("legacy", "recover", manifest, graph, {}, {})
  BY DEF BeginLegacy
<1>2. graph \in Graphs
  <2>1. \A layout \in LayoutsFor(manifest) : GraphOf(layout, "name") \in Graphs
    BY GraphOfType DEF LayoutsFor
  <2>2. lock # Absent => lock.graph \in Graphs
    BY DEF BeginLegacy, IInv, TypeOK, Locks
  <2>3. QED BY <1>1, <2>1, <2>2
<1>3. manifest \in SUBSET Packages
  BY DEF BeginLegacy, IInv, TypeOK
<1>4. QED BY <1>1, <1>2, <1>3, BeginStep

\* Starting to remove everything preserves the invariant.
LEMMA BeginClearStep ==
    ASSUME IInv, BeginClear
    PROVE  IInv'
<1>1. op' = [pc |-> "clear", cmd |-> "clear", deps |-> {},
             graph |-> GraphOf(Bare, "location"), reuse |-> {},
             removed |-> {}, todo |-> {}, writes |-> Writes("clear")]
  BY DEF BeginClear, Begin
<1>2. Bare \in Layouts /\ GraphOf(Bare, "location") \in Graphs
      /\ GraphOf(Bare, "location").layout = Bare
  BY GraphOfType DEF Bare, Layouts, GraphOf
<1>3. TypeOK'
  <2>1. op' \in Operations
    BY <1>1, <1>2, WritesType DEF Operations, Labels, AllCommands
  <2>2. QED BY <2>1 DEF IInv, TypeOK, BeginClear, Begin, files, trees, past
<1>4. TreeKept'
  BY DEF IInv, TreeKept, TreeRecovered, BeginClear, Begin, trees, past, Idle
<1>5. StageInv' /\ SwapInv' /\ CiInv'
  BY <1>1 DEF StageInv, SwapInv, CiInv, Begin
<1>6. ClearInv'
  BY <1>1, <1>2 DEF ClearInv, BeginClear, Begin
<1>7. QED BY <1>3, <1>4, <1>5, <1>6 DEF IInv

\* The initial states satisfy the invariant.
LEMMA InitInv == Init => IInv
<1> SUFFICES ASSUME Init PROVE IInv
  OBVIOUS
<1>1. TypeOK
  <2>1. stranded \in BOOLEAN
    BY DEF Init
  <2>2. interrupts \in 0 .. MaxInterrupts
    BY InstallAssumption DEF Init
  <2>3. QED BY <2>1, <2>2 DEF Init, TypeOK
<1>2. TreeKept
  BY DEF Init, TreeKept, TreeRecovered
<1>3. QED BY <1>1, <1>2, IdleInv DEF Init

\* Every step preserves the invariant.
LEMMA NextInv == IInv /\ [Next]_vars => IInv'
<1> SUFFICES ASSUME IInv, [Next]_vars PROVE IInv'
  OBVIOUS
<1>1. CASE UNCHANGED vars
  BY <1>1 DEF vars, files, trees, past, IInv, TypeOK, TreeKept, TreeRecovered, StageInv, SwapInv, BackupHeld,
     CiInv, ClearInv, Holds, Only
<1>2. CASE \E cmd \in Planned : BeginPlanned(cmd)
  BY <1>2, BeginPlannedStep
<1>3. CASE BeginCi \/ BeginLegacy \/ BeginClear
  BY <1>3, BeginCiStep, BeginLegacyStep, BeginClearStep
<1>4. CASE \E deps \in SUBSET Packages : Edit(deps)
  BY <1>4, EditStep
<1>5. CASE Recover
  BY <1>5, RestoreBackupStep, DiscardBackupStep, DiscardStageStep DEF Recover
<1>6. CASE Link
  BY <1>6, SkipLinkStep, StartStageStep, PlaceStep, FinishStageStep,
     RetireStep, PromoteStep, RebaseStep, RebaseFailsStep, UndoEndsStep,
     DiscardOldStep, CleanupDoneStep DEF Link
<1>7. CASE ClearLive \/ WriteFile \/ Succeed \/ Return
  BY <1>7, ClearLiveStep, WriteFileStep, SucceedStep, ReturnStep
<1>8. CASE PromoteFails \/ RebaseFails \/ UndoFails \/ KeepOld \/ Interrupt
  BY <1>8, PromoteFailsStep, RebaseFailsStep, UndoEndsStep, KeepOldStep, InterruptStep
<1>9. QED
  BY <1>1, <1>2, <1>3, <1>4, <1>5, <1>6, <1>7, <1>8 DEF Next, Step

\* The inductive invariant holds in every reachable state.
LEMMA Invariant == Spec => []IInv
BY InitInv, NextInv, PTL DEF Spec

-----------------------------------------------------------------------------
\* Type correctness of the commands and of what they leave on disk.
THEOREM TypeCorrect == Spec => []TypeOK
<1>1. IInv => TypeOK  BY DEF IInv
<1>2. QED BY <1>1, Invariant, PTL

\* The tree whose promotion was completed last survives any number of errors and
\* crashes, as node_modules or as the backup recover_link_transaction restores,
\* also while the junctions of the next one are rebased or its removal runs; only
\* an end within that window, on Windows, can strand it.
THEOREM TreeKeptAlways == Spec => []TreeKept
<1>1. IInv => TreeKept  BY DEF IInv
<1>2. QED BY <1>1, Invariant, PTL

\* A planned installation that reports success has every planned package in
\* place and has left neither stage nor backup (link_placement_plan_inner).
THEOREM PlannedCorrect == Spec => []PlannedPresent
<1>1. IInv => PlannedPresent
  BY OperationPc DEF IInv, TypeOK, SwapInv, PlannedPresent, Holds
<1>2. QED BY <1>1, Invariant, PTL

\* A successful ci leaves exactly the lockfile's packages (cmd_ci).
THEOREM CiCorrect == Spec => []CiExact
<1>1. IInv => CiExact
  <2> SUFFICES ASSUME IInv, op # Idle, op.pc = "done", op.cmd = "ci"
               PROVE  lock.deps = manifest /\ live.at = lock.graph.layout
    BY DEF CiExact
  <2>1. op \in Operations
    BY OperationPc DEF IInv, TypeOK
  <2>2. lock.deps = manifest /\ lock.graph = op.graph /\ Only(live)
    BY <2>1 DEF IInv, CiInv
  <2>3. Holds(live)
    BY DEF IInv, SwapInv
  <2>4. live.at \in Layouts /\ op.graph.layout \in Layouts
    BY <2>1, <2>3 DEF IInv, TypeOK, Holds, Trees, Operations, Graphs
  <2>5. \A p \in Packages : live.at[p] = op.graph.layout[p]
    BY <2>2, <2>3 DEF Holds, Only, Present
  <2>6. live.at = op.graph.layout
    BY <2>4, <2>5 DEF Layouts
  <2>7. QED BY <2>2, <2>6
<1>2. QED BY <1>1, Invariant, PTL

\* The lockfile of a planned command never gets ahead of the tree, whatever
\* fails (cmd_install, cmd_update, cmd_remove).
THEOREM LockCorrect == Spec => LockFollowsTree
<1> DEFINE Follows(l) ==
      \A p \in Present(l.graph.layout) :
          live # Absent /\ live.at[p] = l.graph.layout[p]
<1>1. ASSUME IInv, Next, lock' # lock, lock' # Torn, op.cmd # "legacy"
      PROVE  Follows(lock')
  <2>1. WriteFile
    BY <1>1 DEF Next, Step, Recover, Link, BeginPlanned, BeginCi, BeginLegacy,
       BeginClear, Begin, Edit, RestoreBackup, DiscardBackup, DiscardStage,
       SkipLink, StartStage, Place, FinishStage, Retire, Promote, Rebase,
       RebaseFails, UndoRemove, UndoRestore, UndoFails, DiscardOld,
       CleanupDone, ClearLive, Succeed, Return, PromoteFails, KeepOld,
       Interrupt, files
  <2>2. op.pc = "write" /\ lock' = [deps |-> op.deps, graph |-> op.graph]
    BY <1>1, <2>1 DEF WriteFile
  <2>3. op \in Operations /\ op.cmd \in AllCommands \ {"legacy"}
    BY <1>1, <2>2, OperationPc, InstallAssumption
       DEF IInv, TypeOK, ClearInv
  <2>4. CASE op.cmd = "clear"
    BY <1>1, <2>2, <2>3, <2>4 DEF IInv, ClearInv, Present, Bare
  <2>5. CASE op.cmd \in Planned \cup {"ci"}
    BY <1>1, <2>2, <2>5 DEF IInv, SwapInv, Holds
  <2>6. QED BY <2>3, <2>4, <2>5 DEF AllCommands
<1>2. IInv /\ [Next]_vars =>
          [lock' # lock /\ lock' # Torn /\ op.cmd # "legacy" =>
             Follows(lock')]_vars
  BY <1>1
<1>3. QED BY <1>2, Invariant, PTL DEF Spec, LockFollowsTree

-----------------------------------------------------------------------------
\* Until the first interruption there is a backup only during the exchange,
\* the live tree a plan was made for is the one its stage is seeded from, and
\* so the stage, then the live tree, holds nothing the plan does not list.
CalmInv ==
    interrupts = 0 =>
        /\ op.pc \notin {"promote", "rebase", "undo", "cleanup"} => backup = Absent
        /\ op.pc # "undo"
        /\ op.pc # "idle" /\ op.cmd \in Planned =>
               /\ op.pc \in {"recover", "start"} =>
                      op.removed = Extraneous(op.graph.layout)
               /\ op.pc \in {"build", "retire", "promote"} => Only(stage)
               /\ op.pc \in {"cleanup", "write", "done"} => Only(live)

\* A command starts with no backup, and a plan with what it has to remove.
LEMMA CalmBegin ==
    ASSUME IInv, CalmInv,
           NEW cmd, NEW pc \in {"recover", "clear"}, NEW deps, NEW graph, NEW reuse,
           NEW removed,
           cmd \in Planned => pc = "recover" /\ removed = Extraneous(graph.layout),
           Begin(cmd, pc, deps, graph, reuse, removed)
    PROVE  CalmInv'
<1>1. /\ op = Idle /\ op'.pc = pc /\ op'.cmd = cmd /\ op'.graph = graph
      /\ op'.removed = removed /\ UNCHANGED <<live, backup, interrupts>>
  BY DEF Begin, trees
<1>2. interrupts = 0 => backup = Absent
  BY <1>1 DEF CalmInv, Idle
<1>3. cmd \in Planned => removed = Extraneous(graph.layout)'
  BY <1>1 DEF Extraneous
<1>4. QED BY <1>1, <1>2, <1>3 DEF CalmInv, Extraneous

LEMMA CalmBegins ==
    ASSUME IInv, CalmInv,
           (\E cmd \in Planned : BeginPlanned(cmd)) \/ BeginCi \/ BeginLegacy \/ BeginClear
    PROVE  CalmInv'
<1>1. ASSUME NEW cmd \in Planned, BeginPlanned(cmd) PROVE CalmInv'
  <2>1. PICK deps, layout, reuse :
            Begin(cmd, "recover", deps, GraphOf(layout, "location"), reuse,
                  Extraneous(layout))
    BY <1>1 DEF BeginPlanned
  <2>2. GraphOf(layout, "location").layout = layout
    BY DEF GraphOf
  <2>3. QED BY <2>1, <2>2, CalmBegin
<1>2. CASE BeginCi
  <2>1. PICK layout : Begin("ci", "recover", manifest, GraphOf(layout, "location"), {}, {})
    BY <1>2 DEF BeginCi
  <2>2. "ci" \notin Planned  BY DEF Planned
  <2>3. QED BY <2>1, <2>2, CalmBegin
<1>3. CASE BeginLegacy
  <2>1. PICK graph : Begin("legacy", "recover", manifest, graph, {}, {})
    BY <1>3 DEF BeginLegacy
  <2>2. "legacy" \notin Planned  BY DEF Planned
  <2>3. QED BY <2>1, <2>2, CalmBegin
<1>4. CASE BeginClear
  <2>1. "clear" \notin Planned  BY DEF Planned
  <2>2. Begin("clear", "clear", {}, GraphOf(Bare, "location"), {}, {})
    BY <1>4 DEF BeginClear
  <2>3. QED BY <2>1, <2>2, CalmBegin
<1>5. QED BY <1>1, <1>2, <1>3, <1>4

\* The seed of a stage has no location beyond the plan's and the live tree's,
\* and the plan removes those of the live tree it does not list.
LEMMA CalmStart ==
    ASSUME IInv, CalmInv, StartStage
    PROVE  CalmInv'
<1>0. op \in Operations /\ op.pc = "start" /\ op.pc # "idle"
  BY OperationPc DEF IInv, TypeOK, Idle, StartStage
<1>1. /\ op'.pc = "build" /\ op'.cmd = op.cmd /\ op'.graph = op.graph
      /\ op'.removed = op.removed /\ UNCHANGED <<live, backup, interrupts>>
  BY <1>0 DEF StartStage, Operations
<1>2. ASSUME interrupts = 0, op.cmd \in Planned PROVE Only(stage)'
  <2>1. stage' = Seeded
    BY <1>0, <1>2 DEF IInv, StageInv, StartStage
  <2>2. op.removed = Extraneous(op.graph.layout)
    BY <1>0, <1>2 DEF CalmInv
  <2>3. ASSUME NEW p \in Packages \ Present(op.graph.layout) PROVE Seeded.at[p] = None
    <3>1. CASE live = Absent
      BY <3>1 DEF Seeded, Empty, Bare
    <3>2. CASE live # Absent
      <4>1. live \in Trees
        BY <3>2 DEF IInv, TypeOK
      <4>2. Seeded.at = [q \in Packages |-> IF live.links \/ q \in op.removed
                                            THEN None ELSE live.at[q]]
        BY <3>2, <4>1 DEF Seeded, Trees
      <4>3. p \in op.removed \/ live.at[p] = None
        BY <2>2, <3>2 DEF Extraneous, Present
      <4>4. QED BY <4>2, <4>3
    <3>3. QED BY <3>1, <3>2
  <2>4. QED BY <1>1, <2>1, <2>3 DEF Only, Present
<1>3. QED BY <1>0, <1>1, <1>2 DEF CalmInv

\* Only the plan's own locations are placed.
LEMMA CalmPlace ==
    ASSUME IInv, CalmInv, NEW p \in Packages, Place(p)
    PROVE  CalmInv'
<1>0. op \in Operations /\ op.pc = "build"
  BY OperationPc DEF IInv, TypeOK, Idle, Place
<1>1. /\ op'.pc = "build" /\ op'.cmd = op.cmd /\ op'.graph = op.graph
      /\ UNCHANGED <<live, backup, interrupts>>
  BY <1>0 DEF Place, Operations
<1>2. stage \in Trees /\ p \in Present(op.graph.layout)
  BY <1>0 DEF IInv, TypeOK, StageInv, Place
<1>3. \A q \in Packages \ {p} : stage'.at[q] = stage.at[q]
  BY <1>2 DEF Place, Trees, Layouts
<1>4. Only(stage) => Only(stage)'
  BY <1>1, <1>2, <1>3 DEF Only, Present
<1>5. QED BY <1>0, <1>1, <1>4 DEF CalmInv

\* The other steps of a command only move it on.
LEMMA CalmSteps ==
    ASSUME IInv, CalmInv,
           \/ Recover \/ SkipLink \/ FinishStage \/ Retire \/ Promote \/ DiscardOld
           \/ \E p \in Packages : Rebase(p)
           \/ UndoRemove \/ UndoRestore
           \/ CleanupDone \/ ClearLive \/ WriteFile \/ Succeed
    PROVE  CalmInv'
<1>0. op \in Operations /\ op.pc # "idle"
  BY OperationPc DEF IInv, TypeOK, Idle, Recover, RestoreBackup, DiscardBackup, DiscardStage,
     SkipLink, FinishStage, Retire, Promote, Rebase, UndoRemove, UndoRestore, DiscardOld,
     CleanupDone, ClearLive, WriteFile, Succeed
<1> DEFINE Same == op'.cmd = op.cmd /\ op'.graph = op.graph /\ op'.removed = op.removed
<1>g. ASSUME NEW label, Goto(label) PROVE Same /\ op'.pc = label
  BY <1>0, <1>g DEF Goto, Operations
<1>1. CASE RestoreBackup \/ DiscardBackup
  <2>1. interrupts # 0 /\ interrupts' = interrupts
    BY <1>0, <1>1 DEF CalmInv, RestoreBackup, DiscardBackup, Restorable
  <2>2. QED BY <2>1 DEF CalmInv
<1>2. CASE DiscardStage
  <2>1. Same /\ op.pc = "recover" /\ op'.pc = "start" /\ UNCHANGED <<live, backup, interrupts>>
    BY <1>2, <1>g DEF DiscardStage
  <2>2. Extraneous(op.graph.layout)' = Extraneous(op.graph.layout)
    BY <2>1 DEF Extraneous
  <2>3. QED BY <1>0, <2>1, <2>2 DEF CalmInv
<1>3. CASE SkipLink
  BY <1>0, <1>3, <1>g DEF CalmInv, SkipLink, Linked, Planned, trees
<1>4. CASE FinishStage
  <2>1. op.cmd \in Planned => stage' = stage
    BY <1>4 DEF FinishStage, Planned
  <2>2. QED BY <1>0, <1>4, <1>g, <2>1 DEF CalmInv, FinishStage, Only
<1>5. CASE Retire
  BY <1>0, <1>5, <1>g DEF CalmInv, Retire, Only
<1>6. CASE Promote
  <2>1. Same /\ op.pc = "promote" /\ op'.pc = AfterPromotion
    BY <1>0, <1>6 DEF Promote, Operations
  <2>2. op.cmd \in Planned => op'.pc = "cleanup" /\ live' = stage
    BY <1>6, <2>1 DEF Promote, AfterPromotion, Junctioned, Planned
  <2>3. op'.pc \in {"rebase", "cleanup"} /\ UNCHANGED interrupts
    BY <1>6, <2>1 DEF Promote, AfterPromotion
  <2>4. QED BY <1>0, <2>1, <2>2, <2>3 DEF CalmInv, Only
<1>7. CASE DiscardOld
  BY <1>0, <1>7 DEF CalmInv, DiscardOld, Only
<1>8. CASE CleanupDone
  BY <1>0, <1>8, <1>g DEF CalmInv, CleanupDone, Only, trees
<1>9. CASE ClearLive
  <2>1. op.cmd = "clear" /\ op.cmd \notin Planned
    BY <1>9 DEF IInv, ClearInv, ClearLive, Planned
  <2>2. op'.pc \in {"clear", "write"} /\ op'.cmd = op.cmd /\ UNCHANGED <<backup, interrupts>>
    BY <1>9, <1>g DEF ClearLive
  <2>3. op.pc = "clear"
    BY <1>9 DEF ClearLive
  <2>4. QED BY <2>1, <2>2, <2>3 DEF CalmInv
<1>10. CASE WriteFile
  <2>1. Same /\ op'.pc = "write" /\ op.pc = "write"
    BY <1>0, <1>10 DEF WriteFile, Operations
  <2>2. QED BY <1>10, <2>1 DEF CalmInv, WriteFile, trees, Only
<1>11. CASE Succeed
  BY <1>0, <1>11, <1>g DEF CalmInv, Succeed, Only, trees
<1>12. CASE \E p \in Packages : Rebase(p)
  <2>1. /\ op'.cmd = op.cmd /\ op'.pc \in {"rebase", "cleanup"} /\ UNCHANGED interrupts
        /\ op.pc = "rebase"
    BY <1>0, <1>12 DEF Rebase, Operations
  <2>2. op.cmd \notin Planned
    BY <2>1 DEF IInv, SwapInv, Planned
  <2>3. QED BY <2>1, <2>2 DEF CalmInv
<1>13. CASE UndoRemove \/ UndoRestore
  <2>1. interrupts # 0 /\ interrupts' = interrupts
    BY <1>13 DEF CalmInv, UndoRemove, UndoRestore
  <2>2. QED BY <2>1 DEF CalmInv
<1>14. QED
  BY <1>1, <1>2, <1>3, <1>4, <1>5, <1>6, <1>7, <1>8, <1>9, <1>10, <1>11, <1>12, <1>13
     DEF Recover

LEMMA CalmNext == IInv /\ CalmInv /\ [Next]_vars => CalmInv'
<1> SUFFICES ASSUME IInv, CalmInv, [Next]_vars PROVE CalmInv'
  OBVIOUS
<1>1. CASE UNCHANGED vars
  BY <1>1 DEF vars, trees, CalmInv, Extraneous, Only
<1>2. CASE (\E cmd \in Planned : BeginPlanned(cmd)) \/ BeginCi \/ BeginLegacy \/ BeginClear
  BY <1>2, CalmBegins
<1>3. CASE \E deps \in SUBSET Packages : Edit(deps)
  BY <1>3 DEF Edit, CalmInv, Idle, trees
<1>4. CASE Recover \/ ClearLive \/ WriteFile \/ Succeed
  BY <1>4, CalmSteps
<1>5. CASE Link
  BY <1>5, CalmSteps, CalmStart, CalmPlace DEF Link
<1>6. CASE Return
  BY <1>6 DEF Return, CalmInv, Idle, trees
<1>7. CASE PromoteFails \/ RebaseFails \/ KeepOld \/ Interrupt
  <2>1. interrupts \in Nat
    BY DEF IInv, TypeOK
  <2>2. interrupts' = interrupts + 1
    BY <1>7 DEF PromoteFails, RebaseFails, KeepOld, Interrupt, Interrupted
  <2>3. QED BY <2>1, <2>2 DEF CalmInv
<1>8. CASE UndoFails
  BY <1>8 DEF UndoFails, CalmInv
<1>9. QED
  BY <1>1, <1>2, <1>3, <1>4, <1>5, <1>6, <1>7, <1>8 DEF Next, Step

\* A planned installation that reports success has what it planned, whatever
\* earlier commands left, and nothing else as long as no command was ever
\* interrupted (link_placement_plan_inner, hardlink_dir, removed_locations).
THEOREM PlanHonouredAlways == Spec => []PlanHonoured
<1>1. Init => CalmInv
  BY DEF Init, CalmInv, Idle
<1>2. IInv /\ CalmInv => PlanHonoured
  <2> SUFFICES ASSUME IInv, CalmInv PROVE PlanHonoured
    OBVIOUS
  <2>1. PlannedPresent
    BY OperationPc DEF IInv, TypeOK, SwapInv, PlannedPresent, Holds
  <2>2. ASSUME interrupts = 0, op # Idle, op.pc = "done", op.cmd \in Planned
        PROVE  live.at = op.graph.layout
    <3>1. op \in Operations
      BY <2>2, OperationPc DEF IInv, TypeOK
    <3>2. Holds(live) /\ Only(live)
      BY <2>2 DEF IInv, SwapInv, CalmInv
    <3>3. live.at \in Layouts /\ op.graph.layout \in Layouts
      BY <3>1, <3>2 DEF IInv, TypeOK, Holds, Trees, Operations, Graphs
    <3>4. \A p \in Packages : live.at[p] = op.graph.layout[p]
      BY <3>2 DEF Holds, Only, Present
    <3>5. QED BY <3>3, <3>4 DEF Layouts
  <2>3. QED BY <2>1, <2>2 DEF PlanHonoured, UninterruptedExact, PlanExact
<1>3. QED BY <1>1, <1>2, CalmNext, Invariant, PTL DEF Spec
=============================================================================
