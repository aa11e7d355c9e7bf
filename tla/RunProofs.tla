------------------------------ MODULE RunProofs ------------------------------
(***************************************************************************)
(* Proofs about running a package: the gates of oath exec with the files   *)
(* its commands share, and the sandbox the program runs in.  Each part's   *)
(* proof stands by itself.                                                 *)
(***************************************************************************)
EXTENDS Exec, Sandbox, SequenceTheorems, FiniteSetTheorems, FunctionTheorems,
        WellFoundedInduction, TLAPS

-----------------------------------------------------------------------------
(***************************************************************************)
(* oath exec, for any number of commands, requests, ages and crashes.      *)
(***************************************************************************)
Early  == {"start", "age", "inspect", "sign", "keyLink", "decide", "prompt", "remember"}
Agreed == {"remember", "run", "ran"} \cup Remembering
Graded == {"inspect", "decide", "prompt", "belowGrade", "dryRun"} \cup Agreed

\* What one command has settled by the time it gets to where it is.
SandboxSettled(r) ==
  /\ xat[r] \notin {"start", "refused", "killed"} => EffectiveMode(req[r]) \in Modes
  /\ xat[r] = "ranLocal" => EffectiveMode(req[r]) = "off"
AgeSettled(r) == xat[r] \in Graded => ~ TooNew(age[r], req[r].minHours)
ConsentSettled(r) ==
  /\ xat[r] \in {"start", "age", "inspect"} => ~approved[r]
  /\ approved[r] => Approval(r) \in granted
  /\ xat[r] \in Agreed => ~ NeedsPrompt(r) \/ answered[r]
NetworkSettled(r) == xat[r] = "ran" => outbound[r] \in RunNetworks(r)
Settled(r) ==
  /\ SandboxSettled(r) /\ AgeSettled(r) /\ ConsentSettled(r) /\ NetworkSettled(r)
  /\ xat[r] \in Early => draft[r] = {}

\* Whatever a file or a draft holds, somebody was told to remember it.
Given(file) == file \in {NoFile, TornFile} \/ file \in SUBSET granted
NothingInvented ==
  Given(approvals) /\ Given(tmp) /\ \A r \in Runners : draft[r] \in SUBSET granted

\* Nobody was killed and no two commands remembered at the same time: then the
\* temporary file belongs to one command, and the store only grows.
Calm == ~overlapped /\ killed = 0
OneRemembers == \A r, s \in Runners : xat[r] \in Remembering /\ xat[s] \in Remembering => r = s
OwnTmp(r) ==
  /\ fd[r] = IF xat[r] = "writing" THEN "tmp" ELSE "none"
  /\ xat[r] = "commit" => tmp = draft[r]
  /\ xat[r] \in Remembering => /\ Approval(r) \in draft[r]
                               /\ approvals = NoFile \/ approvals \subseteq draft[r]
  /\ xat[r] \in {"run", "ran"} /\ draft[r] # {} => approvals # NoFile /\ Approval(r) \in approvals
CalmFiles ==
  Calm => /\ OneRemembers /\ mixed = {} /\ approvals # TornFile
          /\ \A r \in Runners : OwnTmp(r)

ExecInv ==
  /\ ExecTypeOK /\ NothingInvented /\ SignedWithStoredKey /\ CalmFiles
  /\ \A r \in Runners : Settled(r)

LEMMA ExecStarts == ExecInit => ExecInv
  <1> SUFFICES ASSUME ExecInit PROVE ExecInv
    OBVIOUS
  <1> USE DEF ExecInit, ExecStart
  <1>1. ExecTypeOK
    <2>1. NoFacts \in Facts /\ 0 \in 0..ExecCrashes
      BY ExecAssumption DEF NoFacts, Facts
    <2>2. req \in [Runners -> Requests] /\ age \in [Runners -> AgesInHours \cup {Unknown}]
      BY ExecAssumption
    <2> QED
      BY <2>1, <2>2 DEF ExecTypeOK, ExecPoints
  <1>2. NothingInvented /\ SignedWithStoredKey
    BY DEF NothingInvented, Given, SignedWithStoredKey
  <1>3. CalmFiles
    BY ExecAssumption DEF CalmFiles, OneRemembers, Remembering, OwnTmp
  <1>4. ASSUME NEW r \in Runners PROVE Settled(r)
    BY DEF Settled, NetworkSettled, SandboxSettled, AgeSettled, ConsentSettled, Graded, Agreed, Remembering
  <1> QED
    BY <1>1, <1>2, <1>3, <1>4 DEF ExecInv

\* The modes there are.
LEMMA ModesOfRequests ==
  ASSUME NEW q \in Requests
  PROVE  /\ EffectiveMode(q) \in {"off", "native", "node", "refused"}
         /\ EffectiveMode(q) = "off" => q.mode = "off" /\ ~q.sandbox /\ ~q.agent
         /\ EffectiveMode(q) = "native" => q.native
         /\ EffectiveMode(q) = "node" => q.degraded
  BY DEF EffectiveMode, RequestedMode, Requests, Modes

\* A command's own steps leave what the others have settled.
LEMMA OthersSettled ==
  ASSUME NEW s \in Runners, Settled(s), req' = req, granted \subseteq granted',
         xat'[s] = xat[s], age'[s] = age[s], facts'[s] = facts[s], approved'[s] = approved[s],
         answered'[s] = answered[s], draft'[s] = draft[s], outbound'[s] = outbound[s]
  PROVE  Settled(s)'
  BY DEF Settled, SandboxSettled, AgeSettled, ConsentSettled, Approval, NeedsPrompt,
         NetworkSettled, RunNetworks, PlanNetwork

\* A step outside remember() leaves the two files, and who may write them.
LEMMA QuietStepKeeps ==
  ASSUME ExecInv, NEW r \in Runners, NEW to \in ExecPoints \ Remembering,
         xat[r] \notin Remembering, xat' = [xat EXCEPT ![r] = to],
         UNCHANGED <<approvalFiles, granted, overlapped, killed, req>>,
         \A s \in Runners : s # r => facts'[s] = facts[s],
         draft[r] = {} \/ (facts' = facts /\ xat[r] = "run")
  PROVE  NothingInvented' /\ CalmFiles'
  <1> USE DEF ExecInv, approvalFiles
  <1>1. NothingInvented'
    BY DEF NothingInvented, Given
  <1>2. CalmFiles'
    <2> SUFFICES ASSUME Calm PROVE OneRemembers' /\ \A s \in Runners : OwnTmp(s)'
      BY DEF CalmFiles, Calm
    <2>1. OneRemembers'
      BY DEF OneRemembers, CalmFiles, ExecTypeOK
    <2>2. ASSUME NEW s \in Runners PROVE OwnTmp(s)'
      <3>1. OwnTmp(s)
        BY DEF CalmFiles
      <3>2. CASE s # r
        BY <3>1, <3>2 DEF OwnTmp, Approval, ExecTypeOK
      <3>3. CASE s = r
        <4>1. xat'[r] = to /\ to \notin {"writing", "commit"} /\ fd'[r] = "none"
          BY <3>1, <3>3 DEF OwnTmp, Remembering, ExecTypeOK
        <4>2. to \in {"run", "ran"} /\ draft[r] # {} => approvals # NoFile /\ Approval(r)' \in approvals
          BY <3>1, <3>3 DEF OwnTmp, Approval
        <4> QED
          BY <3>3, <4>1, <4>2 DEF OwnTmp
      <3> QED
        BY <3>2, <3>3
    <2> QED
      BY <2>1, <2>2
  <1> QED
    BY <1>1, <1>2

LEMMA StartKeeps ==
  ASSUME ExecInv, NEW r \in Runners, StartExec(r)
  PROVE  ExecInv'
  <1> USE DEF ExecInv
  <1>1. PICK to \in {"refused", "ranLocal", "age"} :
          /\ xat' = [xat EXCEPT ![r] = to]
          /\ to = "refused" <=> EffectiveMode(req[r]) = "refused"
          /\ to = "ranLocal" => EffectiveMode(req[r]) = "off"
    BY DEF StartExec, Goto
  <1>2. /\ xat[r] = "start"
        /\ UNCHANGED <<approvalFiles, granted, overlapped, killed, req, facts, age, approved, answered,
                       key, signedWith>>
        /\ outbound' \in [Runners -> {"none", "deny", "inherit"}]
        /\ \A s \in Runners : s # r => outbound'[s] = outbound[s]
    <2>1. outbound' = outbound \/ outbound' = [outbound EXCEPT ![r] = "inherit"]
      BY DEF StartExec
    <2>2. xat[r] = "start"
          /\ UNCHANGED <<approvalFiles, granted, overlapped, killed, req, facts, age, approved, answered,
                         key, signedWith>>
      BY DEF StartExec, Goto
    <2> QED
      BY <2>1, <2>2 DEF ExecTypeOK
  <1>3. ExecTypeOK'
    BY <1>1, <1>2 DEF ExecTypeOK, ExecPoints, Ended, approvalFiles
  <1>4. to \in ExecPoints \ Remembering /\ draft[r] = {} /\ xat[r] \notin Remembering
    BY <1>2 DEF Settled, Early, ExecPoints, Ended, Remembering
  <1>5. NothingInvented' /\ CalmFiles'
    BY <1>1, <1>2, <1>4, QuietStepKeeps
  <1>6. SignedWithStoredKey'
    BY <1>2 DEF SignedWithStoredKey
  <1>7. ASSUME NEW s \in Runners PROVE Settled(s)'
    <2>1. CASE s # r
      BY <1>1, <1>2, <2>1, OthersSettled DEF approvalFiles, ExecTypeOK
    <2>2. CASE s = r
      <3>1. xat'[r] = to /\ draft'[r] = {}
        BY <1>1, <1>2, <1>4 DEF ExecTypeOK, approvalFiles
      <3>2. SandboxSettled(r)'
        BY <1>1, <1>2, <3>1, ModesOfRequests DEF SandboxSettled, ExecTypeOK, Modes
      <3>3. AgeSettled(r)' /\ ConsentSettled(r)'
        BY <1>1, <1>2, <3>1 DEF AgeSettled, ConsentSettled, Settled, Approval, Graded, Agreed, Remembering
      <3> QED
        BY <1>1, <2>2, <3>1, <3>2, <3>3 DEF Settled, NetworkSettled
    <2> QED
      BY <2>1, <2>2
  <1> QED
    BY <1>3, <1>5, <1>6, <1>7

LEMMA AgeKeeps ==
  ASSUME ExecInv, NEW r \in Runners, AgeGate(r)
  PROVE  ExecInv'
  <1> USE DEF ExecInv
  <1>1. /\ xat[r] = "age"
        /\ UNCHANGED <<approvalFiles, granted, overlapped, killed, req, facts, approved, answered,
                       key, signedWith,
                       outbound>>
    BY DEF AgeGate, Goto
  <1>2. PICK to \in {"inspect", "sign", "tooNew", "failed"} :
          /\ xat' = [xat EXCEPT ![r] = to] /\ age' \in [Runners -> AgesInHours \cup {Unknown}]
          /\ \A s \in Runners : s # r => age'[s] = age[s]
          /\ to = "inspect" => ~ TooNew(age'[r], req[r].minHours)
    <2>1. CASE Goto(r, "age", "failed") /\ UNCHANGED age
      BY <2>1 DEF Goto, ExecTypeOK
    <2>2. CASE \E hours \in AgesInHours \cup {Unknown} :
                 /\ age' = [age EXCEPT ![r] = IF req[r].minHours = NoMinimum THEN Unknown ELSE hours]
                 /\ Goto(r, "age", IF ~TooNew(hours, req[r].minHours) THEN "inspect"
                                  ELSE IF req[r].json THEN "sign" ELSE "tooNew")
      <3>1. PICK hours \in AgesInHours \cup {Unknown} :
                 /\ age' = [age EXCEPT ![r] = IF req[r].minHours = NoMinimum THEN Unknown ELSE hours]
                 /\ Goto(r, "age", IF ~TooNew(hours, req[r].minHours) THEN "inspect"
                                  ELSE IF req[r].json THEN "sign" ELSE "tooNew")
        BY <2>2
      <3>2. PICK h \in AgesInHours \cup {Unknown} :
              age' = [age EXCEPT ![r] = h] /\ (h = hours \/ h = Unknown)
        BY <3>1
      <3>3. PICK to \in {"inspect", "sign", "tooNew"} :
              xat' = [xat EXCEPT ![r] = to] /\ (to = "inspect" => ~ TooNew(hours, req[r].minHours))
        BY <3>1 DEF Goto
      <3>4. to = "inspect" => ~ TooNew(h, req[r].minHours)
        BY <3>2, <3>3 DEF TooNew
      <3> QED
        BY <3>2, <3>3, <3>4 DEF ExecTypeOK
    <2> QED
      BY <2>1, <2>2 DEF AgeGate
  <1>3. ExecTypeOK'
    BY <1>1, <1>2 DEF ExecTypeOK, ExecPoints, Ended, approvalFiles
  <1>4. to \in ExecPoints \ Remembering /\ draft[r] = {} /\ xat[r] \notin Remembering
    BY <1>1 DEF Settled, Early, ExecPoints, Ended, Remembering
  <1>5. NothingInvented' /\ CalmFiles'
    BY <1>1, <1>2, <1>4, QuietStepKeeps
  <1>6. SignedWithStoredKey'
    BY <1>1 DEF SignedWithStoredKey
  <1>7. ASSUME NEW s \in Runners PROVE Settled(s)'
    <2>1. CASE s # r
      BY <1>1, <1>2, <2>1, OthersSettled DEF approvalFiles, ExecTypeOK
    <2>2. CASE s = r
      <3>1. xat'[r] = to /\ draft'[r] = {}
        BY <1>1, <1>2, <1>4 DEF ExecTypeOK, approvalFiles
      <3>2. SandboxSettled(r)' /\ AgeSettled(r)'
        BY <1>1, <1>2, <3>1 DEF Settled, SandboxSettled, AgeSettled, Graded, Agreed, Remembering
      <3>3. ConsentSettled(r)'
        BY <1>1, <1>2, <3>1 DEF ConsentSettled, Settled, Approval, Agreed, Remembering
      <3> QED
        BY <1>2, <2>2, <3>1, <3>2, <3>3 DEF Settled, NetworkSettled
    <2> QED
      BY <2>1, <2>2
  <1> QED
    BY <1>3, <1>5, <1>6, <1>7

\* Where a command is once it has settled its sandbox and its age, its approval
\* is one the store can hold.
LEMMA ApprovalTyped ==
  ASSUME ExecInv, NEW r \in Runners, EffectiveMode(req[r]) \in Modes
  PROVE  Approval(r) \in Approvals
  <1>1. DenyNetwork(req[r]) \in BOOLEAN /\ facts[r].network \in BOOLEAN
    BY DEF ExecInv, ExecTypeOK, Requests, Facts, DenyNetwork
  <1> QED
    BY <1>1 DEF Approval, Approvals

LEMMA InspectKeeps ==
  ASSUME ExecInv, NEW r \in Runners, Inspect(r)
  PROVE  ExecInv'
  <1> USE DEF ExecInv
  <1>1. /\ xat[r] = "inspect"
        /\ UNCHANGED <<approvalFiles, granted, overlapped, killed, req, age, answered, key, signedWith,
                       outbound>>
    BY DEF Inspect, Goto
  <1>2. draft[r] = {} /\ ~approved[r] /\ EffectiveMode(req[r]) \in Modes
        /\ ~ TooNew(age[r], req[r].minHours)
    BY <1>1 DEF Settled, SandboxSettled, ConsentSettled, AgeSettled, Early, Graded
  <1>3. PICK to \in {"sign", "decide", "failed"}, f \in Facts, ok \in BOOLEAN :
          /\ xat' = [xat EXCEPT ![r] = to] /\ facts' = [facts EXCEPT ![r] = f]
          /\ approved' = [approved EXCEPT ![r] = ok]
          /\ ok => [backend |-> EffectiveMode(req[r]), denyNetwork |-> DenyNetwork(req[r]),
                    network |-> f.network] \in granted
    <2>1. CASE Goto(r, "inspect", "failed") /\ UNCHANGED <<facts, approved>>
      <3>1. facts = [facts EXCEPT ![r] = facts[r]] /\ approved = [approved EXCEPT ![r] = FALSE]
        BY <1>2 DEF ExecTypeOK
      <3>2. facts[r] \in Facts
        BY DEF ExecTypeOK
      <3> QED
        BY <2>1, <3>1, <3>2 DEF Goto
    <2>2. ASSUME NEW f \in Facts, facts' = [facts EXCEPT ![r] = f], f.integrity /\ approvals = TornFile,
                 Goto(r, "inspect", "failed") /\ UNCHANGED approved
          PROVE  \E to \in {"sign", "decide", "failed"}, g \in Facts, ok \in BOOLEAN :
                   /\ xat' = [xat EXCEPT ![r] = to] /\ facts' = [facts EXCEPT ![r] = g]
                   /\ approved' = [approved EXCEPT ![r] = ok]
                   /\ ok => [backend |-> EffectiveMode(req[r]), denyNetwork |-> DenyNetwork(req[r]),
                             network |-> g.network] \in granted
      <3>1. approved = [approved EXCEPT ![r] = FALSE]
        BY <1>2 DEF ExecTypeOK
      <3> QED
        BY <2>2, <3>1 DEF Goto
    <2>3. ASSUME NEW f \in Facts, facts' = [facts EXCEPT ![r] = f], ~ (f.integrity /\ approvals = TornFile),
                 Goto(r, "inspect", IF req[r].json THEN "sign" ELSE "decide"),
                 approved' = [approved EXCEPT ![r] =
                       /\ f.integrity /\ approvals # NoFile
                       /\ Matches([backend     |-> EffectiveMode(req[r]),
                                   denyNetwork |-> DenyNetwork(req[r]),
                                   network     |-> f.network], approvals)]
          PROVE  \E to \in {"sign", "decide", "failed"}, g \in Facts, ok \in BOOLEAN :
                   /\ xat' = [xat EXCEPT ![r] = to] /\ facts' = [facts EXCEPT ![r] = g]
                   /\ approved' = [approved EXCEPT ![r] = ok]
                   /\ ok => [backend |-> EffectiveMode(req[r]), denyNetwork |-> DenyNetwork(req[r]),
                             network |-> g.network] \in granted
      <3>1. PICK a : a = [backend     |-> EffectiveMode(req[r]),
                          denyNetwork |-> DenyNetwork(req[r]), network     |-> f.network]
        OBVIOUS
      <3>2. PICK ok \in BOOLEAN :
              ok = (f.integrity /\ approvals # NoFile /\ a \in approvals)
        OBVIOUS
      <3>3. ok => a \in granted
        BY <2>3, <3>2 DEF NothingInvented, Given
      <3>4. approved' = [approved EXCEPT ![r] = ok]
        BY <2>3, <3>1, <3>2 DEF Matches
      <3>5. PICK to \in {"sign", "decide", "failed"} : xat' = [xat EXCEPT ![r] = to]
        BY <2>3 DEF Goto
      <3> QED
        BY <2>3, <3>1, <3>3, <3>4, <3>5
    <2> QED
      BY <2>1, <2>2, <2>3 DEF Inspect
  <1>4. ExecTypeOK'
    BY <1>1, <1>3 DEF ExecTypeOK, ExecPoints, Ended, approvalFiles
  <1>5. to \in ExecPoints \ Remembering /\ xat[r] \notin Remembering
        /\ \A s \in Runners : s # r => facts'[s] = facts[s]
    BY <1>1, <1>3 DEF ExecPoints, Ended, Remembering, ExecTypeOK
  <1>6. NothingInvented' /\ CalmFiles'
    BY <1>1, <1>2, <1>3, <1>5, QuietStepKeeps
  <1>7. SignedWithStoredKey'
    BY <1>1 DEF SignedWithStoredKey
  <1>8. ASSUME NEW s \in Runners PROVE Settled(s)'
    <2>1. CASE s # r
      BY <1>1, <1>3, <2>1, OthersSettled DEF approvalFiles, ExecTypeOK
    <2>2. CASE s = r
      <3>1. xat'[r] = to /\ draft'[r] = {} /\ facts'[r] = f /\ approved'[r] = ok
        BY <1>1, <1>2, <1>3 DEF ExecTypeOK, approvalFiles
      <3>2. SandboxSettled(r)' /\ AgeSettled(r)'
        BY <1>1, <1>2, <1>3, <3>1 DEF SandboxSettled, AgeSettled, Graded, Agreed, Remembering
      <3>3. ConsentSettled(r)'
        BY <1>1, <1>3, <3>1 DEF ConsentSettled, Approval, Agreed, Remembering
      <3> QED
        BY <1>3, <2>2, <3>1, <3>2, <3>3 DEF Settled, NetworkSettled
    <2> QED
      BY <2>1, <2>2
  <1> QED
    BY <1>4, <1>6, <1>7, <1>8

\* load_or_create_key: the key file is written once.
LEMMA SignKeeps ==
  ASSUME ExecInv, NEW r \in Runners, LoadKey(r) \/ PublishKey(r)
  PROVE  ExecInv'
  <1> USE DEF ExecInv
  <1>1. /\ xat[r] \in {"sign", "keyLink"}
        /\ UNCHANGED <<approvalFiles, granted, overlapped, killed, req, facts, age, approved, answered,
                       outbound>>
    BY DEF LoadKey, PublishKey, Goto
  <1>2. PICK to \in {"keyLink", "tooNew", "decide"} :
          xat' = [xat EXCEPT ![r] = to] /\ (to = "decide" => ~ TooNew(age[r], req[r].minHours))
    BY DEF LoadKey, PublishKey, Goto, AfterSign
  <1>3. /\ key' \in Runners \cup {NoFile} /\ signedWith' \in [Runners -> Runners \cup {NoFile}]
        /\ SignedWithStoredKey'
    <2>1. CASE signedWith' = signedWith /\ key' = key
      BY <2>1 DEF SignedWithStoredKey, ExecTypeOK
    <2>2. CASE /\ key' = (IF key = NoFile THEN r ELSE key)
               /\ signedWith' = [signedWith EXCEPT ![r] = key']
      <3>1. PICK k \in Runners \cup {NoFile} : k = key'
        BY <2>2 DEF ExecTypeOK
      <3>2. signedWith' = [signedWith EXCEPT ![r] = k]
        BY <2>2, <3>1
      <3> QED
        BY <2>2, <3>1, <3>2 DEF SignedWithStoredKey, ExecTypeOK
    <2>3. CASE key' = key /\ key # NoFile /\ signedWith' = [signedWith EXCEPT ![r] = key]
      BY <2>3 DEF SignedWithStoredKey, ExecTypeOK
    <2> QED
      BY <2>1, <2>2, <2>3 DEF LoadKey, PublishKey
  <1>4. ExecTypeOK'
    BY <1>1, <1>2, <1>3 DEF ExecTypeOK, ExecPoints, Ended, approvalFiles
  <1>5. to \in ExecPoints \ Remembering /\ draft[r] = {} /\ xat[r] \notin Remembering
    BY <1>1 DEF Settled, Early, ExecPoints, Ended, Remembering
  <1>6. NothingInvented' /\ CalmFiles'
    BY <1>1, <1>2, <1>5, QuietStepKeeps
  <1>7. ASSUME NEW s \in Runners PROVE Settled(s)'
    <2>1. CASE s # r
      BY <1>1, <1>2, <2>1, OthersSettled DEF approvalFiles, ExecTypeOK
    <2>2. CASE s = r
      <3>1. xat'[r] = to /\ draft'[r] = {}
        BY <1>1, <1>2, <1>5 DEF ExecTypeOK, approvalFiles
      <3>2. SandboxSettled(r)' /\ AgeSettled(r)'
        BY <1>1, <1>2, <3>1 DEF Settled, SandboxSettled, AgeSettled, Graded, Agreed, Remembering
      <3>3. ConsentSettled(r)'
        BY <1>1, <1>2, <3>1 DEF ConsentSettled, Settled, Approval, Agreed, Remembering
      <3> QED
        BY <1>2, <2>2, <3>1, <3>2, <3>3 DEF Settled, NetworkSettled
    <2> QED
      BY <2>1, <2>2
  <1> QED
    BY <1>3, <1>4, <1>6, <1>7

\* The verdict, the prompt and the start of the program.
LEMMA VerdictKeeps ==
  ASSUME ExecInv, NEW r \in Runners, Decide(r) \/ Prompt(r) \/ RunBinary(r)
  PROVE  ExecInv'
  <1> USE DEF ExecInv
  <1>1. /\ xat[r] \in {"decide", "prompt", "run"}
        /\ UNCHANGED <<approvalFiles, granted, overlapped, killed, req, facts, age, approved, key,
                       signedWith>>
    BY DEF Decide, Prompt, RunBinary, Goto
  <1>2. PICK to \in {"belowGrade", "dryRun", "prompt", "remember", "declined", "ran", "failed"},
             yes \in BOOLEAN :
          /\ xat' = [xat EXCEPT ![r] = to] /\ answered' = [answered EXCEPT ![r] = yes]
          /\ to = "remember" => ~ NeedsPrompt(r) \/ yes
          /\ to = "ran" => xat[r] = "run" /\ yes = answered[r]
    <2>1. CASE Decide(r)
      <3>1. PICK yes \in BOOLEAN : yes = answered[r] /\ answered = [answered EXCEPT ![r] = yes]
        BY DEF ExecTypeOK
      <3> QED
        BY <2>1, <3>1 DEF Decide, Goto
    <2>2. CASE Prompt(r)
      BY <2>2 DEF Prompt, Goto
    <2>3. CASE RunBinary(r)
      <3>1. PICK yes \in BOOLEAN : yes = answered[r] /\ answered = [answered EXCEPT ![r] = yes]
        BY DEF ExecTypeOK
      <3> QED
        BY <2>3, <3>1 DEF RunBinary, Goto
    <2> QED
      BY <2>1, <2>2, <2>3
  <1>8. /\ outbound' \in [Runners -> {"none", "deny", "inherit"}]
        /\ \A s \in Runners : s # r => outbound'[s] = outbound[s]
        /\ xat'[r] = "ran" => outbound'[r] \in RunNetworks(r)
    <2>1. CASE outbound' = outbound /\ xat'[r] # "ran"
      BY <2>1 DEF ExecTypeOK
    <2>2. ASSUME NEW net \in RunNetworks(r), outbound' = [outbound EXCEPT ![r] = net]
          PROVE  /\ outbound' \in [Runners -> {"none", "deny", "inherit"}]
                 /\ \A s \in Runners : s # r => outbound'[s] = outbound[s]
                 /\ outbound'[r] \in RunNetworks(r)
      <3>1. net \in {"deny", "inherit"}
        BY DEF RunNetworks, PlanNetwork
      <3> QED
        BY <2>2, <3>1 DEF ExecTypeOK
    <2>3. Decide(r) \/ Prompt(r) => outbound' = outbound /\ xat'[r] # "ran"
      BY DEF Decide, Prompt, Goto, ExecTypeOK
    <2>4. RunBinary(r) => \/ outbound' = outbound /\ xat'[r] # "ran"
                         \/ \E net \in RunNetworks(r) : outbound' = [outbound EXCEPT ![r] = net]
      BY DEF RunBinary, Goto, ExecTypeOK
    <2> QED
      BY <2>1, <2>2, <2>3, <2>4
  <1>3. ExecTypeOK'
    BY <1>1, <1>2, <1>8 DEF ExecTypeOK, ExecPoints, Ended, approvalFiles
  <1>4. to \in ExecPoints \ Remembering /\ xat[r] \notin Remembering
        /\ (draft[r] = {} \/ xat[r] = "run") /\ (to \in Early => draft[r] = {})
    <2>1. to \in Early => xat[r] # "run"
      BY <1>1, <1>2 DEF Decide, Prompt, RunBinary, Goto, Early, ExecTypeOK
    <2> QED
      BY <1>1, <2>1 DEF Settled, Early, ExecPoints, Ended, Remembering
  <1>5. NothingInvented' /\ CalmFiles'
    BY <1>1, <1>2, <1>4, QuietStepKeeps
  <1>6. SignedWithStoredKey'
    BY <1>1 DEF SignedWithStoredKey
  <1>7. ASSUME NEW s \in Runners PROVE Settled(s)'
    <2>1. CASE s # r
      BY <1>1, <1>2, <1>8, <2>1, OthersSettled DEF approvalFiles, ExecTypeOK
    <2>2. CASE s = r
      <3>1. xat'[r] = to /\ draft'[r] = draft[r] /\ answered'[r] = yes
        BY <1>1, <1>2 DEF ExecTypeOK, approvalFiles
      <3>2. SandboxSettled(r)' /\ AgeSettled(r)'
        BY <1>1, <1>2, <3>1 DEF Settled, SandboxSettled, AgeSettled, Graded, Agreed, Remembering
      <3>3. ConsentSettled(r)'
        BY <1>1, <1>2, <3>1 DEF ConsentSettled, Settled, Approval, NeedsPrompt, Agreed, Remembering
      <3>4. NetworkSettled(r)'
        BY <1>1, <1>8 DEF NetworkSettled, RunNetworks, PlanNetwork
      <3> QED
        BY <2>2, <1>4, <3>1, <3>2, <3>3, <3>4 DEF Settled
    <2> QED
      BY <2>1, <2>2
  <1> QED
    BY <1>3, <1>5, <1>6, <1>7

\* A step of remember() moves between the points where consent is given, and
\* leaves everything but the files.
LEMMA WritingSettled ==
  ASSUME ExecInv, NEW r \in Runners, NEW to \in Remembering \cup {"run", "failed", "killed"},
         xat[r] \in {"remember"} \cup Remembering \/ to = "killed",
         xat' = [xat EXCEPT ![r] = to], granted \subseteq granted',
         \A s \in Runners : s # r => draft'[s] = draft[s],
         UNCHANGED <<req, age, facts, approved, answered, outbound>>
  PROVE  \A s \in Runners : Settled(s)'
  <1> SUFFICES ASSUME NEW s \in Runners PROVE Settled(s)'
    OBVIOUS
  <1> USE DEF ExecInv
  <1>1. CASE s # r
    BY <1>1, OthersSettled DEF ExecTypeOK
  <1>2. CASE s = r
    <2>1. xat'[r] = to /\ to \notin Early
      BY DEF ExecTypeOK, Early, Remembering
    <2>2. SandboxSettled(r)' /\ AgeSettled(r)'
      BY <2>1 DEF Settled, SandboxSettled, AgeSettled, Graded, Agreed, Remembering
    <2>3. ConsentSettled(r)'
      BY <2>1 DEF ConsentSettled, Settled, Approval, NeedsPrompt, Agreed, Remembering
    <2> QED
      BY <1>2, <2>1, <2>2, <2>3 DEF Settled, NetworkSettled, Remembering
  <1> QED
    BY <1>1, <1>2

LEMMA RememberKeeps ==
  ASSUME ExecInv, NEW r \in Runners, Remember(r)
  PROVE  ExecInv'
  <1> USE DEF ExecInv
  <1>1. /\ xat[r] = "remember"
        /\ UNCHANGED <<approvals, tmp, fd, mixed, killed, req, facts, age, approved, answered, key,
                       signedWith, outbound>>
        /\ overlapped' = (overlapped \/ (req[r].remember
                             /\ \E s \in Runners \ {r} : xat[s] \in Remembering))
    BY DEF Remember, Goto
  <1>2. PICK a \in Approvals : a = Approval(r)
    BY <1>1, ApprovalTyped DEF Settled, SandboxSettled
  <1>3. PICK to \in {"run", "failed", "writeTmp"}, d \in SUBSET Approvals :
          /\ xat' = [xat EXCEPT ![r] = to] /\ draft' = [draft EXCEPT ![r] = d]
          /\ to = "writeTmp" =>
               /\ d = (IF approvals = NoFile THEN {} ELSE approvals) \cup {a}
               /\ approvals # TornFile /\ granted' = granted \cup {a} /\ req[r].remember
          /\ to # "writeTmp" => d = {} /\ granted' = granted
    <2>1. draft[r] = {} /\ draft = [draft EXCEPT ![r] = {}]
      BY <1>1 DEF Settled, Early, ExecTypeOK
    <2>2. CASE /\ Goto(r, "remember", "run") \/ Goto(r, "remember", "failed")
               /\ UNCHANGED <<draft, granted>>
      BY <2>1, <2>2 DEF Goto
    <2>3. CASE /\ Goto(r, "remember", "writeTmp") /\ req[r].remember /\ approvals # TornFile
               /\ draft' = [draft EXCEPT ![r] =
                    (IF approvals = NoFile THEN {} ELSE approvals) \cup {Approval(r)}]
               /\ granted' = granted \cup {Approval(r)}
      <3>1. PICK d \in SUBSET Approvals : d = (IF approvals = NoFile THEN {} ELSE approvals) \cup {a}
        BY <2>3 DEF ExecTypeOK
      <3> QED
        BY <2>3, <3>1, <1>2 DEF Goto
    <2> QED
      BY <2>2, <2>3 DEF Remember
  <1>4. ExecTypeOK'
    BY <1>1, <1>2, <1>3 DEF ExecTypeOK, ExecPoints, Remembering, Ended
  <1>5. granted \subseteq granted' /\ d \in SUBSET granted'
    BY <1>3 DEF NothingInvented, Given
  <1>6. NothingInvented'
    BY <1>1, <1>3, <1>5 DEF NothingInvented, Given, ExecTypeOK
  <1>7. SignedWithStoredKey'
    BY <1>1 DEF SignedWithStoredKey
  <1>8. CalmFiles'
    <2> SUFFICES ASSUME Calm' PROVE OneRemembers' /\ approvals # TornFile /\ mixed = {} /\ \A s \in Runners : OwnTmp(s)'
      BY <1>1 DEF CalmFiles
    <2>1. Calm /\ ~ (req[r].remember /\ \E s \in Runners \ {r} : xat[s] \in Remembering)
      BY <1>1 DEF Calm
    <2>2. OneRemembers'
      <3>1. CASE to = "writeTmp"
        BY <1>3, <2>1, <3>1 DEF OneRemembers, ExecTypeOK
      <3>2. CASE to # "writeTmp"
        BY <1>3, <2>1, <3>2 DEF OneRemembers, CalmFiles, Remembering, ExecTypeOK
      <3> QED
        BY <3>1, <3>2
    <2>3. ASSUME NEW s \in Runners PROVE OwnTmp(s)'
      <3>1. OwnTmp(s)
        BY <2>1 DEF CalmFiles
      <3>2. CASE s # r
        BY <1>1, <1>3, <3>1, <3>2 DEF OwnTmp, Approval, ExecTypeOK
      <3>3. CASE s = r
        <4>1. xat'[r] = to /\ draft'[r] = d /\ fd'[r] = "none" /\ Approval(r)' = a
          BY <1>1, <1>2, <1>3, <3>1, <3>3 DEF OwnTmp, Approval, ExecTypeOK
        <4> QED
          BY <1>1, <1>3, <3>3, <4>1 DEF OwnTmp, Remembering
      <3> QED
        BY <3>2, <3>3
    <2> QED
      BY <2>1, <2>2, <2>3 DEF CalmFiles
  <1>9. \A s \in Runners : Settled(s)'
    BY <1>1, <1>3, <1>5, WritingSettled DEF Remembering, ExecTypeOK
  <1> QED
    BY <1>4, <1>6, <1>7, <1>8, <1>9

LEMMA OpenKeeps ==
  ASSUME ExecInv, NEW r \in Runners, OpenTmp(r)
  PROVE  ExecInv'
  <1> USE DEF ExecInv
  <1> DEFINE others == {s \in Runners : fd[s] = "tmp"}
  <1>1. /\ xat[r] = "writeTmp" /\ xat' = [xat EXCEPT ![r] = "writing"]
        /\ tmp' = TornFile /\ fd' = [fd EXCEPT ![r] = "tmp"]
        /\ mixed' = IF others = {} THEN mixed \ {r} ELSE mixed \cup others \cup {r}
        /\ UNCHANGED <<req, age, facts, approved, answered, approvals, draft, key, signedWith, outbound,
                       granted, overlapped, killed>>
    BY DEF OpenTmp, Goto
  <1>2. mixed' \in SUBSET Runners
    BY <1>1 DEF ExecTypeOK
  <1> HIDE DEF others
  <1>3. ExecTypeOK'
    BY <1>1, <1>2 DEF ExecTypeOK, ExecPoints, Remembering
  <1>4. NothingInvented' /\ SignedWithStoredKey'
    BY <1>1 DEF NothingInvented, Given, SignedWithStoredKey
  <1>5. CalmFiles'
    <2> SUFFICES ASSUME Calm PROVE OneRemembers' /\ approvals # TornFile /\ mixed' = {} /\ \A s \in Runners : OwnTmp(s)'
      BY <1>1 DEF CalmFiles, Calm
    <2>1. \A s \in Runners : s # r => xat[s] \notin Remembering
      BY <1>1 DEF CalmFiles, OneRemembers, Remembering
    <2>2. \A s \in Runners : fd[s] # "tmp"
      BY <1>1, <2>1 DEF CalmFiles, OwnTmp, Remembering
    <2>3. mixed' = {}
      BY <1>1, <2>2 DEF CalmFiles, others
    <2>4. OneRemembers'
      BY <1>1, <2>1 DEF OneRemembers, ExecTypeOK
    <2>5. ASSUME NEW s \in Runners PROVE OwnTmp(s)'
      <3>1. OwnTmp(s)
        BY DEF CalmFiles
      <3>2. CASE s # r
        BY <1>1, <2>1, <3>1, <3>2 DEF OwnTmp, Approval, ExecTypeOK, Remembering
      <3>3. CASE s = r
        BY <1>1, <3>1, <3>3 DEF OwnTmp, Approval, ExecTypeOK, Remembering
      <3> QED
        BY <3>2, <3>3
    <2> QED
      BY <2>3, <2>4, <2>5 DEF CalmFiles
  <1>6. \A s \in Runners : Settled(s)'
    BY <1>1, WritingSettled DEF Remembering
  <1> QED
    BY <1>3, <1>4, <1>5, <1>6

LEMMA WriteTmpKeeps ==
  ASSUME ExecInv, NEW r \in Runners, WriteTmp(r)
  PROVE  ExecInv'
  <1> USE DEF ExecInv
  <1>1. /\ xat[r] = "writing" /\ xat' = [xat EXCEPT ![r] = "commit"]
        /\ fd' = [fd EXCEPT ![r] = "none"]
        /\ UNCHANGED <<req, age, facts, approved, answered, mixed, draft, key, signedWith, outbound,
                       granted, overlapped, killed>>
    BY DEF WriteTmp, Goto
  <1>2. /\ tmp' \in {tmp, TornFile, draft[r]} /\ approvals' \in {approvals, TornFile, draft[r]}
        /\ fd[r] = "tmp" => approvals' = approvals /\ (r \notin mixed => tmp' = draft[r])
    BY DEF WriteTmp
  <1>3. ExecTypeOK'
    BY <1>1, <1>2 DEF ExecTypeOK, ExecPoints, Remembering
  <1>4. NothingInvented' /\ SignedWithStoredKey'
    <2>1. Given(tmp)' /\ Given(approvals)'
      BY <1>1, <1>2 DEF NothingInvented, Given
    <2> QED
      BY <1>1, <2>1 DEF NothingInvented, SignedWithStoredKey
  <1>5. CalmFiles'
    <2> SUFFICES ASSUME Calm
                 PROVE  OneRemembers' /\ approvals' # TornFile /\ mixed' = {} /\ \A s \in Runners : OwnTmp(s)'
      BY <1>1 DEF CalmFiles, Calm
    <2>1. fd[r] = "tmp" /\ mixed = {}
      BY <1>1 DEF CalmFiles, OwnTmp
    <2>2. approvals' = approvals /\ tmp' = draft[r]
      BY <1>2, <2>1
    <2>3. \A s \in Runners : s # r => xat[s] \notin Remembering
      BY <1>1 DEF CalmFiles, OneRemembers, Remembering
    <2>4. OneRemembers'
      BY <1>1, <2>3 DEF OneRemembers, ExecTypeOK
    <2>5. ASSUME NEW s \in Runners PROVE OwnTmp(s)'
      <3>1. OwnTmp(s)
        BY DEF CalmFiles
      <3>2. CASE s # r
        BY <1>1, <2>2, <2>3, <3>1, <3>2 DEF OwnTmp, Approval, ExecTypeOK, Remembering
      <3>3. CASE s = r
        BY <1>1, <2>2, <3>1, <3>3 DEF OwnTmp, Approval, ExecTypeOK, Remembering
      <3> QED
        BY <3>2, <3>3
    <2> QED
      BY <1>1, <2>1, <2>2, <2>4, <2>5 DEF CalmFiles
  <1>6. \A s \in Runners : Settled(s)'
    BY <1>1, WritingSettled DEF Remembering
  <1> QED
    BY <1>3, <1>4, <1>5, <1>6

\* The rename: in calm the draft it puts in place contains what was there.
LEMMA CommitKeeps ==
  ASSUME ExecInv, NEW r \in Runners, CommitApproval(r)
  PROVE  ExecInv'
  <1> USE DEF ExecInv
  <1>1. /\ xat[r] = "commit"
        /\ UNCHANGED <<req, age, facts, approved, answered, mixed, draft, key, signedWith, outbound,
                       granted, overlapped, killed>>
    BY DEF CommitApproval, Goto
  <1>2. PICK to \in {"run", "failed"} :
          /\ xat' = [xat EXCEPT ![r] = to]
          /\ to = "failed" => tmp = NoFile /\ approvals' = approvals /\ tmp' = tmp /\ fd' = fd
          /\ to = "run" => tmp # NoFile /\ approvals' = tmp /\ tmp' = NoFile
                           /\ fd' = [s \in Runners |-> CASE fd[s] = "tmp"  -> "live"
                                                         [] fd[s] = "live" -> "gone"
                                                         [] OTHER -> fd[s]]
    BY DEF CommitApproval, Goto
  <1>3. ExecTypeOK'
    <2>1. fd' \in [Runners -> {"none", "tmp", "live", "gone"}]
      BY <1>2 DEF ExecTypeOK
    <2> QED
      BY <1>1, <1>2, <2>1 DEF ExecTypeOK, ExecPoints, Ended
  <1>4. NothingInvented' /\ SignedWithStoredKey'
    BY <1>1, <1>2 DEF NothingInvented, Given, SignedWithStoredKey
  <1>5. CalmFiles'
    <2> SUFFICES ASSUME Calm
                 PROVE  OneRemembers' /\ approvals' # TornFile /\ mixed' = {} /\ \A s \in Runners : OwnTmp(s)'
      BY <1>1 DEF CalmFiles, Calm
    <2>1. OwnTmp(r) /\ tmp = draft[r] /\ draft[r] \in SUBSET Approvals
      BY <1>1 DEF CalmFiles, OwnTmp, ExecTypeOK
    <2>2. tmp \notin {NoFile, TornFile}
      BY <2>1, ExecAssumption
    <2>3. to = "run" /\ approvals' = draft[r] /\ tmp' = NoFile
      BY <1>2, <2>1, <2>2
    <2>4. \A s \in Runners : s # r => xat[s] \notin Remembering
      BY <1>1 DEF CalmFiles, OneRemembers, Remembering
    <2>5. fd' = fd
      <3>1. \A s \in Runners : fd[s] = "none"
        BY <1>1, <2>4 DEF CalmFiles, OwnTmp, Remembering
      <3> QED
        BY <1>2, <2>3, <3>1 DEF ExecTypeOK
    <2>6. OneRemembers'
      BY <1>2, <2>4 DEF OneRemembers, Remembering, ExecTypeOK
    <2>7. Approval(r) \in draft[r] /\ (approvals = NoFile \/ approvals \subseteq draft[r])
      BY <1>1, <2>1 DEF OwnTmp, Remembering
    <2>8. ASSUME NEW s \in Runners PROVE OwnTmp(s)'
      <3>1. OwnTmp(s)
        BY DEF CalmFiles
      <3>2. CASE s # r
        <4>1. xat'[s] = xat[s] /\ xat[s] \notin {"writing", "commit"} /\ fd'[s] = "none"
          BY <1>1, <1>2, <2>4, <2>5, <3>1, <3>2 DEF OwnTmp, ExecTypeOK, Remembering
        <4>2. xat[s] \in {"run", "ran"} /\ draft[s] # {} => Approval(s) \in draft[r]
          BY <2>7, <3>1 DEF OwnTmp
        <4> QED
          BY <1>1, <2>1, <2>2, <2>3, <2>4, <3>2, <4>1, <4>2 DEF OwnTmp, Approval
      <3>3. CASE s = r
        <4>1. xat'[r] = "run" /\ fd'[r] = "none"
          BY <1>1, <1>2, <2>1, <2>3, <2>5 DEF OwnTmp, ExecTypeOK
        <4> QED
          BY <1>1, <2>1, <2>2, <2>3, <2>7, <3>3, <4>1 DEF OwnTmp, Approval, Remembering
      <3> QED
        BY <3>2, <3>3
    <2> QED
      BY <1>1, <2>1, <2>2, <2>3, <2>6, <2>8 DEF CalmFiles
  <1>6. \A s \in Runners : Settled(s)'
    BY <1>1, <1>2, WritingSettled DEF Remembering
  <1> QED
    BY <1>3, <1>4, <1>5, <1>6

LEMMA KillRunnerKeeps ==
  ASSUME ExecInv, NEW r \in Runners, KillRunner(r)
  PROVE  ExecInv'
  <1> USE DEF ExecInv
  <1>1. /\ killed < ExecCrashes /\ xat' = [xat EXCEPT ![r] = "killed"]
        /\ fd' = [fd EXCEPT ![r] = "none"] /\ killed' = killed + 1
        /\ UNCHANGED <<req, age, facts, approved, answered, approvals, tmp, draft, mixed, key,
                       signedWith, outbound, granted, overlapped>>
    BY DEF KillRunner
  <1>2. killed' \in 0..ExecCrashes /\ killed' # 0
    BY <1>1, ExecAssumption DEF ExecTypeOK
  <1>3. ExecTypeOK'
    BY <1>1, <1>2 DEF ExecTypeOK, ExecPoints, Ended
  <1>4. NothingInvented' /\ SignedWithStoredKey' /\ CalmFiles'
    BY <1>1, <1>2 DEF NothingInvented, Given, SignedWithStoredKey, CalmFiles, Calm
  <1>5. \A s \in Runners : Settled(s)'
    BY <1>1, WritingSettled
  <1> QED
    BY <1>3, <1>4, <1>5

LEMMA ExecInvAlways == ExecSpec => []ExecInv
  <1>1. ExecInv /\ ExecNext => ExecInv'
    BY StartKeeps, AgeKeeps, InspectKeeps, SignKeeps, VerdictKeeps, RememberKeeps, OpenKeeps,
       WriteTmpKeeps, CommitKeeps, KillRunnerKeeps DEF ExecNext, ExecStep
  <1>2. ExecInv /\ UNCHANGED execVars => ExecInv'
    <2> SUFFICES ASSUME ExecInv, UNCHANGED execVars PROVE ExecInv'
      OBVIOUS
    <2> USE DEF execVars, approvalFiles
    <2>1. ExecTypeOK' /\ NothingInvented' /\ SignedWithStoredKey'
      BY DEF ExecInv, ExecTypeOK, NothingInvented, Given, SignedWithStoredKey
    <2>2. CalmFiles'
      BY DEF ExecInv, CalmFiles, Calm, OneRemembers, OwnTmp, Approval
    <2>3. \A s \in Runners : Settled(s)'
      BY OthersSettled DEF ExecInv
    <2> QED
      BY <2>1, <2>2, <2>3 DEF ExecInv
  <1> QED
    BY <1>1, <1>2, ExecStarts, PTL DEF ExecSpec

\* Every command stays at a point of cmd_exec, and the files hold approvals.
THEOREM ExecTypeCorrect == ExecSpec => []ExecTypeOK
  <1>1. ExecInv => ExecTypeOK
    BY DEF ExecInv
  <1> QED
    BY <1>1, ExecInvAlways, PTL

\* Asked for a sandbox, by option or by agent mode, oath exec runs the package
\* in one it has verified (or in Node's, if that is allowed) or not at all; and
\* a verified one is open to the network only for a package seen to use it,
\* with neither --deny-network nor agent mode against it.
THEOREM ContainedRunAlways == ExecSpec => []ContainedRun
  <1>1. ExecInv => ContainedRun
    <2> SUFFICES ASSUME ExecInv, NEW r \in Runners, xat[r] \in {"ran", "ranLocal"},
                        req[r].sandbox \/ req[r].agent \/ req[r].mode # "off"
                 PROVE  /\ xat[r] = "ran"
                        /\ \/ /\ EffectiveMode(req[r]) = "native" /\ req[r].native
                              /\ outbound[r] # "deny" =>
                                   facts[r].network /\ ~req[r].agent /\ ~req[r].denyNetwork
                           \/ EffectiveMode(req[r]) = "node" /\ req[r].degraded
      BY DEF ContainedRun
    <2>1. req[r] \in Requests
      BY DEF ExecInv, ExecTypeOK
    <2>2. EffectiveMode(req[r]) \in Modes /\ (xat[r] = "ranLocal" => EffectiveMode(req[r]) = "off")
      BY DEF ExecInv, Settled, SandboxSettled
    <2>3. EffectiveMode(req[r]) \in {"native", "node"}
      BY <2>1, <2>2, ModesOfRequests DEF Modes
    <2>4. xat[r] = "ran" => outbound[r] \in RunNetworks(r)
      BY DEF ExecInv, Settled, NetworkSettled
    <2>5. EffectiveMode(req[r]) = "native" /\ xat[r] = "ran" => outbound[r] = PlanNetwork(r)
      BY <2>4 DEF RunNetworks
    <2> QED
      BY <2>1, <2>2, <2>3, <2>5, ModesOfRequests DEF PlanNetwork, DenyNetwork
  <1> QED
    BY <1>1, ExecInvAlways, PTL

\* The age gate compares whole days, so a minimum of whole days is met in full.
LEMMA WholeDays ==
  ASSUME NEW h \in Nat, NEW m \in Nat, m % 24 = 0, h # Unknown, ~ TooNew(h, m)
  PROVE  h >= m
  <1>1. CASE m = 0
    BY <1>1
  <1>2. CASE m # 0
    <2>1. ~ (h \div 24 < (IF m \div 24 < 1 THEN 1 ELSE m \div 24))
      BY <1>2 DEF TooNew, NoMinimum
    <2>2. m = 24 * (m \div 24) /\ m \div 24 \in Nat
      OBVIOUS
    <2>3. h >= 24 * (h \div 24) /\ h \div 24 \in Nat
      OBVIOUS
    <2> QED
      BY <2>1, <2>2, <2>3
  <1> QED
    BY <1>1, <1>2

\* A package runs only past the gates of cmd_exec: a release known to be
\* younger than a minimum of whole days never gets as far as its download, and
\* one with serious findings runs only with consent to exactly what it is given.
THEOREM GatesPassedAlways == ExecSpec => []GatesPassed
  <1>1. ExecInv => GatesPassed
    <2> SUFFICES ASSUME ExecInv, NEW r \in Runners
                 PROVE  /\ xat[r] = "ran" /\ facts[r].serious /\ ~req[r].json =>
                             req[r].yes \/ req[r].allowAll \/ answered[r] \/ Approval(r) \in granted
                        /\ xat[r] \in {"decide", "prompt", "remember", "run", "ran", "belowGrade", "dryRun"} \cup Remembering
                             /\ age[r] # Unknown /\ req[r].minHours % 24 = 0 => age[r] >= req[r].minHours
      BY DEF GatesPassed, ConsentedRun, WholeDaysEnforced
    <2>1. Settled(r)
      BY DEF ExecInv
    <2>2. age[r] \in Nat /\ req[r].minHours \in Nat
      <3>1. req[r] \in Requests /\ age[r] \in AgesInHours \cup {Unknown}
        BY DEF ExecInv, ExecTypeOK
      <3>2. req[r].minHours \in Nat
        BY <3>1 DEF Requests
      <3>3. age[r] \in Nat
        BY <3>1, ExecAssumption, SMT DEF Unknown
      <3> QED
        BY <3>2, <3>3
    <2>3. ASSUME xat[r] = "ran", facts[r].serious, ~req[r].json
          PROVE  req[r].yes \/ req[r].allowAll \/ answered[r] \/ Approval(r) \in granted
      BY <2>1, <2>3 DEF Settled, ConsentSettled, NeedsPrompt, Agreed
    <2>4. ASSUME xat[r] \in {"decide", "prompt", "remember", "run", "ran", "belowGrade", "dryRun"} \cup Remembering,
                 age[r] # Unknown, req[r].minHours % 24 = 0
          PROVE  age[r] >= req[r].minHours
      <3>1. ~ TooNew(age[r], req[r].minHours)
        BY <2>1, <2>4 DEF Settled, AgeSettled, Graded, Agreed
      <3> QED
        BY <2>2, <2>4, <3>1, WholeDays
    <2> QED
      BY <2>3, <2>4
  <1> QED
    BY <1>1, ExecInvAlways, PTL

\* The files oath exec commands share without a lock never mislead a reader:
\* every verdict is signed with the stored key, the store holds no approval
\* nobody gave, and loses none while no two commands remember at once.
THEOREM SharedFilesSoundAlways == ExecSpec => []SharedFilesSound
  <1>1. ExecInv => SharedFilesSound
    <2>1. ExecInv => (approvals \notin {NoFile, TornFile} => approvals \subseteq granted)
      BY DEF ExecInv, NothingInvented, Given
    <2>2. ASSUME ExecInv, ~overlapped, killed = 0, NEW r \in Runners, draft[r] # {}, xat[r] \in {"run", "ran"}
          PROVE  approvals \notin {NoFile, TornFile} /\ Approval(r) \in approvals
      BY <2>2 DEF ExecInv, CalmFiles, Calm, OwnTmp
    <2> QED
      BY <2>1, <2>2 DEF SharedFilesSound, ApprovalsFaithful, ExecInv
  <1> QED
    BY <1>1, ExecInvAlways, PTL

-----------------------------------------------------------------------------
(***************************************************************************)
(* The sandbox's launches, for any paths, policies and processes.          *)
(***************************************************************************)
\* The controls applied so far are all in full force.
ControlsUp(n) ==
  \A k \in 1..n : Controls[k] \in DOMAIN enforced /\ enforced[Controls[k]] = "full"

\* Nothing runs before the controls are up, or between two launches.
Unstarted == sbAt \in {"idle", "launching"} => alive = {}

\* A Windows launch has granted exactly the plan's writable paths once it is
\* past its grants, and gets past its first control only without network; before
\* its grants, and elsewhere, nothing is granted.
GrantsExact ==
  /\ sbAt = "idle" => aclGrants = {}
  /\ sbAt \in {"launching", "running"} /\ platform # "windows" => aclGrants = {}
  /\ sbAt \in {"launching", "running"} /\ platform = "windows" =>
       /\ step = 0 => aclGrants = {}
       /\ step >= 1 => plan.network = "deny"
       /\ step >= 2 => aclGrants = plan.write

\* A process waits suspended from its creation, the last control but one, to
\* its start; the last one puts it in its job.
WaitsSuspended ==
  /\ suspended => sbAt \in {"launching", "ended"}
  /\ sbAt = "launching" /\ suspended => platform = "windows" /\ step >= 6
  /\ sbAt = "launching" /\ "assigned" \in DOMAIN enforced => step = Len(Controls)

LaunchInv ==
  /\ SandboxTypeOK /\ Unstarted /\ GrantsExact /\ WaitsSuspended /\ NothingOutlives
  /\ sbAt \in {"launching", "running"} => ControlsUp(step)
  /\ sbAt = "running" => step = Len(Controls)

LEMMA ControlsKnown ==
  ASSUME SandboxTypeOK
  PROVE  /\ platform \in {"linux", "macos", "windows"}
         /\ Len(Controls) \in 5..7
         /\ platform = "windows" => Len(Controls) = 7 /\ Controls[1] = "container" /\ Controls[2] = "grants"
         /\ \A k \in 1..Len(Controls) :
              /\ Controls[k] = "grants" => platform = "windows" /\ k = 2
              /\ Controls[k] = "suspended" => platform = "windows" /\ k = 6
              /\ Controls[k] = "assigned" => platform = "windows" /\ k = 7
  <1>1. platform \in {"linux", "macos", "windows"}
    BY SandboxAssumption DEF SandboxTypeOK
  <1>2. CASE platform = "linux"
    BY <1>2 DEF Controls
  <1>3. CASE platform = "macos"
    BY <1>3 DEF Controls
  <1>4. CASE platform = "windows"
    BY <1>4 DEF Controls
  <1> QED
    BY <1>1, <1>2, <1>3, <1>4

LEMMA PlansTyped ==
  /\ StrictPlan \in Plans
  /\ \A policy \in Policies, sub \in BOOLEAN : [ToPlan(policy) EXCEPT !.subprocesses = sub] \in Plans
  <1>1. StrictPlan \in Plans
    BY SandboxAssumption DEF StrictPlan, Plans
  <1>2. ASSUME NEW policy \in Policies, NEW sub \in BOOLEAN
        PROVE  [ToPlan(policy) EXCEPT !.subprocesses = sub] \in Plans
    <2>1. policy.read \in SUBSET TreePaths /\ policy.write \in SUBSET TreePaths
      BY SandboxAssumption
    <2>2. StrictPlan.read \cup policy.read \in SUBSET TreePaths
          /\ StrictPlan.write \cup policy.write \in SUBSET TreePaths
      BY <1>1, <2>1 DEF Plans
    <2>3. ToPlan(policy) \in Plans
      BY <1>1, <2>2 DEF ToPlan, Plans
    <2> QED
      BY <2>3 DEF Plans
  <1> QED
    BY <1>1, <1>2

LEMMA LaunchStarts == SandboxInit => LaunchInv
  <1> SUFFICES ASSUME SandboxInit PROVE LaunchInv
    OBVIOUS
  <1>1. SandboxTypeOK
    <2>1. {probing, available, profiled, suspended, undeleted} \subseteq BOOLEAN
      BY DEF SandboxInit
    <2>2. plan \in Plans
      BY PlansTyped DEF SandboxInit
    <2> QED
      BY <2>1, <2>2 DEF SandboxInit, SandboxTypeOK, Outcomes
  <1> QED
    BY <1>1 DEF SandboxInit, LaunchInv, Unstarted, GrantsExact, WaitsSuspended, NothingOutlives,
                GrantsReleased, TreeDies

\* Taking grants back leaves those whose removal failed, and a profile only if
\* its deletion did.
LEMMA TakenBack ==
  ASSUME SandboxTypeOK, NEW held \in SUBSET TreePaths, NEW paths \in SUBSET TreePaths,
         TakeBack(held, paths)
  PROVE  /\ aclGrants' \subseteq TreePaths /\ unremoved' \subseteq TreePaths
         /\ profiled' \in BOOLEAN /\ undeleted' \in BOOLEAN /\ (profiled' => undeleted')
         /\ held \subseteq paths => aclGrants' \subseteq unremoved'
  <1>1. PICK failing \in SUBSET paths :
          aclGrants' = held \ (paths \ failing) /\ unremoved' = unremoved \cup failing
    BY DEF TakeBack
  <1>2. PICK kept \in {FALSE, profiled} : profiled' = kept /\ undeleted' = (undeleted \/ kept)
    BY DEF TakeBack
  <1>3. profiled \in BOOLEAN /\ undeleted \in BOOLEAN /\ unremoved \subseteq TreePaths
    BY DEF SandboxTypeOK
  <1>4. kept \in BOOLEAN
    BY <1>3
  <1>5. undeleted' \in BOOLEAN /\ profiled' \in BOOLEAN /\ (profiled' => undeleted')
    BY <1>2, <1>4
  <1>6. /\ aclGrants' \subseteq TreePaths /\ unremoved' \subseteq TreePaths
        /\ held \subseteq paths => aclGrants' \subseteq unremoved'
    BY <1>1, <1>3
  <1> QED
    BY <1>5, <1>6

\* run() answers: its processes die with it but for those of macOS, and every
\* grant is taken back.
LEMMA AnswerKeeps ==
  ASSUME LaunchInv, NEW what \in Outcomes \ {"none", "killed"}, NEW procs \in SUBSET alive,
         what \in {"memory", "timeout"} => procs \subseteq detached,
         sbAt \in {"launching", "running"}, platform = "windows" => step # 1,
         Answer(what, procs), suspended' \in BOOLEAN,
         suspended' => what = "refused" /\ "assigned" \notin DOMAIN enforced
  PROVE  LaunchInv'
  <1> USE DEF LaunchInv
  <1>1. /\ sbAt' = "ended" /\ outcome' = what /\ alive' = Survivors(procs)
        /\ detached' = detached \cap alive' /\ TakeBack(aclGrants, Guarded)
        /\ UNCHANGED <<platform, available, plan, probing, step, enforced>>
    BY DEF Answer
  <1>2. alive' \subseteq procs /\ (platform # "macos" => alive' = {})
    BY <1>1, ControlsKnown DEF Survivors, DiesWithLauncher
  <1>5. /\ aclGrants' \subseteq TreePaths /\ unremoved' \subseteq TreePaths
        /\ profiled' \in BOOLEAN /\ undeleted' \in BOOLEAN /\ (profiled' => undeleted')
        /\ aclGrants' \subseteq unremoved'
    <2>1. aclGrants \in SUBSET TreePaths /\ Guarded \in SUBSET TreePaths /\ step \in Nat
      BY DEF SandboxTypeOK, Guarded, Plans
    <2>2. aclGrants \subseteq Guarded
      BY <2>1 DEF GrantsExact, Guarded
    <2> QED
      BY <1>1, <2>1, <2>2, TakenBack
  <1>3. SandboxTypeOK'
    <2>1. {probing', available', profiled', suspended', undeleted'} \subseteq BOOLEAN
      BY <1>1, <1>5 DEF SandboxTypeOK
    <2> QED
      BY <1>1, <1>2, <1>5, <2>1 DEF SandboxTypeOK
  <1>4. NothingOutlives'
    BY <1>1, <1>2, <1>5 DEF NothingOutlives, GrantsReleased, TreeDies
  <1> QED
    BY <1>1, <1>3, <1>4 DEF Unstarted, GrantsExact, WaitsSuspended

LEMMA StartLaunchKeeps ==
  ASSUME LaunchInv, StartProbe \/ StartRun
  PROVE  LaunchInv'
  <1> USE DEF LaunchInv
  <1>1. /\ sbAt = "idle" /\ sbAt' = "launching" /\ step' = 0 /\ plan' \in Plans
        /\ DOMAIN enforced' = {}
        /\ UNCHANGED <<platform, probing, available, aclGrants, profiled, unremoved, undeleted,
                       suspended, alive, detached, outcome>>
    BY PlansTyped DEF StartProbe, StartRun, Idle, SandboxTypeOK, grantVars
  <1>2. SandboxTypeOK'
    BY <1>1 DEF SandboxTypeOK
  <1> QED
    BY <1>1, <1>2 DEF Unstarted, GrantsExact, WaitsSuspended, NothingOutlives, GrantsReleased,
                      TreeDies, ControlsUp

LEMMA ControlKeeps ==
  ASSUME LaunchInv, ApplyControl \/ GrantNext
  PROVE  LaunchInv'
  <1> USE DEF LaunchInv
  <1>1. /\ sbAt = "launching" /\ sbAt' = "launching" /\ step < Len(Controls)
        /\ UNCHANGED <<platform, available, plan, probing, alive, detached, outcome>>
    BY DEF ApplyControl, GrantNext
  <1>2. Controls' = Controls /\ step \in Nat /\ Len(Controls) \in 5..7
    BY <1>1, ControlsKnown DEF Controls, SandboxTypeOK
  <1>3. /\ step' \in {step, step + 1} /\ aclGrants' \subseteq TreePaths /\ profiled' \in BOOLEAN
        /\ platform # "windows" \/ step' = 0 => aclGrants' = {}
        /\ platform = "windows" /\ step' >= 1 => plan.network = "deny"
        /\ platform = "windows" /\ step' >= 2 => aclGrants' = plan.write
    <2>1. CASE ApplyControl
      <3>1. /\ step' = step + 1 /\ aclGrants' = aclGrants /\ profiled' \in BOOLEAN
            /\ NextControl # "grants" /\ (platform = "windows" => plan.network = "deny")
        BY <2>1 DEF ApplyControl
      <3>2. platform = "windows" => step # 1
        BY <3>1, ControlsKnown DEF NextControl
      <3>3. aclGrants \subseteq TreePaths
        BY DEF SandboxTypeOK
      <3> QED
        BY <1>1, <1>2, <3>1, <3>2, <3>3 DEF GrantsExact
    <2>2. CASE GrantNext
      <3>1. NextControl = "grants" /\ profiled' = profiled
        BY <2>2 DEF GrantNext
      <3>2. \/ aclGrants # plan.write /\ step' = step
               /\ \E path \in plan.write \ aclGrants : aclGrants' = aclGrants \cup {path}
            \/ aclGrants = plan.write /\ step' = step + 1 /\ aclGrants' = aclGrants
        BY <2>2 DEF GrantNext
      <3>3. platform = "windows" /\ step = 1
        <4>1. step + 1 \in 1..Len(Controls) /\ Controls[step + 1] = "grants"
          BY <1>1, <1>2, <3>1 DEF NextControl
        <4> QED
          BY <1>2, <4>1, ControlsKnown
      <3>4. aclGrants' \subseteq TreePaths /\ profiled \in BOOLEAN
        <4>1. plan.write \subseteq TreePaths /\ aclGrants \subseteq TreePaths /\ profiled \in BOOLEAN
          BY DEF SandboxTypeOK, Plans
        <4> QED
          BY <3>2, <4>1
      <3>5. platform = "windows" /\ step >= 1 => plan.network = "deny"
        BY <1>1 DEF GrantsExact
      <3>6. platform = "windows" /\ step >= 2 => aclGrants = plan.write
        BY <1>1 DEF GrantsExact
      <3> QED
        BY <1>2, <3>1, <3>2, <3>3, <3>4, <3>5, <3>6
    <2> QED
      BY <2>1, <2>2
  <1>4. ControlsUp(step)'
    <2>1. ControlsUp(step)
      BY <1>1
    <2>2. CASE ApplyControl
      <3>1. PICK c : c = Controls[step + 1]
        OBVIOUS
      <3>2. step' = step + 1
            /\ enforced' = [d \in DOMAIN enforced \cup {c} |-> IF d = c THEN "full" ELSE enforced[d]]
        BY <2>2, <3>1 DEF ApplyControl, NextControl, Accepts
      <3> SUFFICES ASSUME NEW k \in 1..step+1
                   PROVE  Controls[k] \in DOMAIN enforced' /\ enforced'[Controls[k]] = "full"
        BY <1>2, <3>2 DEF ControlsUp
      <3>3. k = step + 1 \/ k \in 1..step
        BY <1>2
      <3> QED
        BY <2>1, <3>1, <3>2, <3>3 DEF ControlsUp
    <2>3. CASE GrantNext /\ step' = step + 1
      <3>1. enforced' = [c \in DOMAIN enforced \cup {"grants"} |-> "full"] /\ Controls[step + 1] = "grants"
        BY <2>3, <1>2 DEF GrantNext, NextControl
      <3> SUFFICES ASSUME NEW k \in 1..step+1
                   PROVE  Controls[k] \in DOMAIN enforced' /\ enforced'[Controls[k]] = "full"
        BY <1>2, <2>3 DEF ControlsUp
      <3>2. k = step + 1 \/ k \in 1..step
        BY <1>2
      <3> QED
        BY <2>1, <3>1, <3>2 DEF ControlsUp
    <2>4. CASE GrantNext /\ step' # step + 1
      BY <1>2, <2>1, <2>4 DEF GrantNext, ControlsUp
    <2> QED
      BY <2>2, <2>3, <2>4
  <1>6. /\ suspended' \in BOOLEAN /\ unremoved' = unremoved /\ undeleted' = undeleted
        /\ WaitsSuspended'
    <2>1. suspended \in BOOLEAN
      BY DEF SandboxTypeOK
    <2>2. step + 1 \in 1..Len(Controls)
      BY <1>1, <1>2
    <2>3. PICK n \in 5..7 : n = Len(Controls)
      BY <1>2
    <2>4. CASE ApplyControl
      <3>1. /\ suspended' = (suspended \/ NextControl = "suspended") /\ step' = step + 1
            /\ DOMAIN enforced' = DOMAIN enforced \cup {NextControl}
            /\ unremoved' = unremoved /\ undeleted' = undeleted
        BY <2>4 DEF ApplyControl
      <3>2. ASSUME suspended' PROVE platform = "windows" /\ step' >= 6
        <4>1. CASE suspended
          BY <1>1, <1>2, <3>1, <4>1 DEF WaitsSuspended
        <4>2. CASE Controls[step + 1] = "suspended"
          <5>1. platform = "windows" /\ step + 1 = 6
            BY <2>2, <4>2, ControlsKnown
          <5> QED
            BY <3>1, <5>1
        <4> QED
          BY <3>1, <3>2, <4>1, <4>2 DEF NextControl
      <3>3. "assigned" \in DOMAIN enforced' => step' = n
        <4>1. NextControl = "assigned" => step + 1 = 7 /\ n = 7
          BY <2>2, <2>3, ControlsKnown DEF NextControl
        <4>2. "assigned" \notin DOMAIN enforced
          BY <1>1, <1>2, <2>3 DEF WaitsSuspended
        <4> QED
          BY <3>1, <4>1, <4>2
      <3> QED
        BY <1>1, <1>2, <2>1, <2>3, <3>1, <3>2, <3>3 DEF WaitsSuspended
    <2>5. CASE GrantNext
      <3>1. /\ UNCHANGED <<unremoved, undeleted, suspended>> /\ NextControl = "grants"
            /\ step' \in {step, step + 1}
            /\ DOMAIN enforced' \subseteq DOMAIN enforced \cup {"grants"}
        BY <1>2, <2>5 DEF GrantNext
      <3>2. step = 1
        BY <2>2, <3>1, <1>2, ControlsKnown DEF NextControl
      <3>3. ~suspended /\ "assigned" \notin DOMAIN enforced
        BY <1>1, <1>2, <2>3, <3>2 DEF WaitsSuspended
      <3> QED
        BY <1>1, <2>1, <3>1, <3>3 DEF WaitsSuspended
    <2> QED
      BY <2>4, <2>5
  <1>5. SandboxTypeOK'
    <2>1. step' \in 0..7
      <3>1. PICK n \in 5..7 : n = Len(Controls)
        BY <1>2
      <3>2. step < n
        BY <1>1, <3>1
      <3>3. step \in 0..7
        BY DEF SandboxTypeOK
      <3> QED
        BY <1>3, <3>2, <3>3
    <2>2. {probing', available', profiled', suspended', undeleted'} \subseteq BOOLEAN
      BY <1>1, <1>3, <1>6 DEF SandboxTypeOK
    <2> QED
      BY <1>1, <1>3, <1>6, <2>1, <2>2 DEF SandboxTypeOK
  <1> QED
    BY <1>1, <1>2, <1>3, <1>4, <1>5, <1>6 DEF Unstarted, GrantsExact, NothingOutlives, GrantsReleased, TreeDies

\* Grants that could not be made: those made before are taken back when icacls
\* failed, and stay when it could not even be started.
LEMMA GrantEndsKeep ==
  ASSUME LaunchInv, GrantFails \/ GrantCannotStart
  PROVE  LaunchInv'
  <1> USE DEF LaunchInv
  <1>1. /\ sbAt = "launching" /\ sbAt' = "ended" /\ step < Len(Controls) /\ NextControl = "grants"
        /\ outcome' \in {"refused", "error"}
        /\ UNCHANGED <<platform, available, plan, probing, step, enforced, suspended, alive, detached>>
    BY DEF GrantFails, GrantCannotStart
  <1>2. /\ aclGrants' \subseteq TreePaths /\ unremoved' \subseteq TreePaths
        /\ profiled' \in BOOLEAN /\ undeleted' \in BOOLEAN /\ (profiled' => undeleted')
        /\ outcome' = "refused" => aclGrants' \subseteq unremoved'
    <2>1. aclGrants \in SUBSET TreePaths /\ plan.write \in SUBSET TreePaths
      BY DEF SandboxTypeOK, Plans
    <2>2. CASE GrantFails
      <3>1. PICK path \in plan.write : TakeBack(aclGrants \cup {path}, RolledBack(path))
        BY <2>2 DEF GrantFails
      <3>2. aclGrants \cup {path} \in SUBSET TreePaths /\ RolledBack(path) = aclGrants \cup {path}
        BY <2>1 DEF RolledBack
      <3> QED
        BY <3>1, <3>2, TakenBack
    <2>3. CASE GrantCannotStart
      <3>1. TakeBack(aclGrants, {}) /\ outcome' = "error"
        BY <2>3 DEF GrantCannotStart
      <3> QED
        BY <2>1, <3>1, TakenBack
    <2> QED
      BY <2>2, <2>3
  <1>3. alive' = {} /\ ~suspended /\ suspended \in BOOLEAN
    <2>1. step \in Nat /\ Len(Controls) \in 5..7
      BY ControlsKnown DEF SandboxTypeOK
    <2>2. step + 1 \in 1..Len(Controls)
      BY <1>1, <2>1
    <2>3. step = 1
      BY <1>1, <2>1, <2>2, ControlsKnown DEF NextControl
    <2> QED
      BY <1>1, <2>3 DEF Unstarted, WaitsSuspended, SandboxTypeOK
  <1>4. SandboxTypeOK'
    <2>1. {probing', available', profiled', suspended', undeleted'} \subseteq BOOLEAN
      BY <1>1, <1>2 DEF SandboxTypeOK
    <2> QED
      BY <1>1, <1>2, <2>1 DEF SandboxTypeOK, Outcomes
  <1>5. NothingOutlives'
    BY <1>1, <1>2, <1>3 DEF NothingOutlives, GrantsReleased, TreeDies
  <1> QED
    BY <1>1, <1>3, <1>4, <1>5 DEF Unstarted, GrantsExact, WaitsSuspended

\* The program starts, forks, and leaves its process group.
LEMMA ProgramKeeps ==
  ASSUME LaunchInv, Begin \/ Fork \/ LeaveGroup
  PROVE  LaunchInv'
  <1> USE DEF LaunchInv
  <1>1. /\ sbAt \in {"launching", "running"} /\ sbAt' = "running"
        /\ sbAt = "launching" => step = Len(Controls)
        /\ UNCHANGED <<platform, available, plan, probing, step, enforced, aclGrants, profiled,
                       unremoved, undeleted, outcome>>
        /\ ~suspended'
    BY DEF Begin, Fork, LeaveGroup, launchVars, grantVars, WaitsSuspended
  <1>2. detached' \subseteq alive' /\ alive' \subseteq Procs
    <2>1. CASE Begin
      <3>1. alive' = {Leader} /\ detached' = detached /\ alive = {}
        BY <2>1 DEF Begin, Unstarted
      <3> QED
        BY <3>1, SandboxAssumption DEF SandboxTypeOK
    <2>2. CASE Fork
      BY <2>2 DEF Fork, SandboxTypeOK
    <2>3. CASE LeaveGroup
      BY <2>3 DEF LeaveGroup, SandboxTypeOK
    <2> QED
      BY <2>1, <2>2, <2>3
  <1>3. SandboxTypeOK'
    <2>1. suspended' \in BOOLEAN
      BY DEF Begin, Fork, LeaveGroup, launchVars, SandboxTypeOK
    <2>2. {probing', available', profiled', suspended', undeleted'} \subseteq BOOLEAN
      BY <1>1, <2>1 DEF SandboxTypeOK
    <2> QED
      BY <1>1, <1>2, <2>2 DEF SandboxTypeOK
  <1>4. Controls' = Controls
    BY <1>1 DEF Controls
  <1>5. ControlsUp(step)' /\ step' = Len(Controls')
    BY <1>1, <1>4 DEF ControlsUp
  <1> QED
    BY <1>1, <1>3, <1>5 DEF Unstarted, GrantsExact, WaitsSuspended, NothingOutlives, GrantsReleased,
                            TreeDies

LEMMA LauncherKilledKeeps ==
  ASSUME LaunchInv, LauncherKilled
  PROVE  LaunchInv'
  <1> USE DEF LaunchInv
  <1>1. /\ sbAt \in {"launching", "running"} /\ sbAt' = "ended" /\ outcome' = "killed"
        /\ alive' = Survivors(alive) /\ detached' = detached \cap alive'
        /\ suspended' = (suspended /\ step < Len(Controls))
        /\ UNCHANGED <<platform, available, plan, probing, step, enforced, aclGrants, profiled,
                       unremoved, undeleted>>
    BY DEF LauncherKilled, grantVars
  <1>2. alive' \subseteq alive /\ (platform # "macos" => alive' = {})
    BY <1>1, ControlsKnown DEF Survivors, DiesWithLauncher
  <1>3. SandboxTypeOK'
    <2>1. suspended' \in BOOLEAN
      BY <1>1 DEF SandboxTypeOK
    <2>2. {probing', available', profiled', suspended', undeleted'} \subseteq BOOLEAN
      BY <1>1, <2>1 DEF SandboxTypeOK
    <2> QED
      BY <1>1, <1>2, <2>2 DEF SandboxTypeOK, Outcomes
  <1>4. suspended' => "assigned" \notin DOMAIN enforced
    <2>1. PICK n \in 5..7 : n = Len(Controls)
      BY ControlsKnown
    <2>2. CASE suspended /\ step < n
      <3>1. sbAt = "launching"
        BY <1>1, <2>2 DEF WaitsSuspended
      <3>2. step # n
        BY <2>2 DEF SandboxTypeOK
      <3> QED
        BY <2>1, <3>1, <3>2 DEF WaitsSuspended
    <2> QED
      BY <1>1, <2>1, <2>2
  <1>5. NothingOutlives'
    BY <1>1, <1>2, <1>4 DEF NothingOutlives, GrantsReleased, TreeDies
  <1> QED
    BY <1>1, <1>3, <1>5 DEF Unstarted, GrantsExact, WaitsSuspended

LEMMA ProbeDoneKeeps ==
  ASSUME LaunchInv, ProbeDone
  PROVE  LaunchInv'
  <1> USE DEF LaunchInv
  <1>1. /\ available' = (outcome = "status") /\ probing' = FALSE /\ sbAt' = "idle" /\ outcome' = "none"
        /\ alive' = {} /\ detached' = {} /\ step' = 0 /\ suspended' = FALSE
        /\ aclGrants' = {} /\ profiled' = FALSE /\ unremoved' = {} /\ undeleted' = FALSE
        /\ UNCHANGED <<platform, plan>>
    BY DEF ProbeDone, Idle
  <1>2. {probing', available', profiled', suspended', undeleted'} \subseteq BOOLEAN
    BY <1>1
  <1>3. SandboxTypeOK'
    BY <1>1, <1>2 DEF SandboxTypeOK, Outcomes
  <1> QED
    BY <1>1, <1>3 DEF Unstarted, GrantsExact, WaitsSuspended, NothingOutlives, GrantsReleased, TreeDies

LEMMA LaunchInvAlways == SandboxSpec => []LaunchInv
  <1>1. LaunchInv /\ SandboxNext => LaunchInv'
    <2> SUFFICES ASSUME LaunchInv, SandboxNext PROVE LaunchInv'
      OBVIOUS
    <2>0. /\ step \in Nat /\ Len(Controls) \in 5..7 /\ {} \in SUBSET alive
          /\ platform = "windows" => Len(Controls) = 7 /\ Controls[2] = "grants"
          /\ suspended \in BOOLEAN
      BY ControlsKnown DEF LaunchInv, SandboxTypeOK
    <2>1. CASE ControlFails
      <3>1. Answer("refused", {}) /\ sbAt = "launching" /\ step < Len(Controls) /\ suspended' = suspended
            /\ NextControl # "grants"
        BY <2>1 DEF ControlFails
      <3>2. (platform = "windows" => step # 1) /\ "assigned" \notin DOMAIN enforced
        BY <2>0, <3>1 DEF NextControl, LaunchInv, WaitsSuspended
      <3>3. suspended' \in BOOLEAN /\ "refused" \in Outcomes \ {"none", "killed"}
        BY <2>0, <3>1 DEF Outcomes
      <3> QED
        BY <2>0, <3>1, <3>2, <3>3, AnswerKeeps
    <2>5. CASE RefuseNetwork
      <3>1. Answer("refused", {}) /\ sbAt = "launching" /\ suspended' = suspended
            /\ platform = "windows" /\ plan.network = "inherit"
        BY <2>5 DEF RefuseNetwork
      <3>2. step = 0
        BY <2>0, <3>1 DEF LaunchInv, GrantsExact
      <3>3. "assigned" \notin DOMAIN enforced
        <4>1. step # Len(Controls)
          BY <2>0, <3>1, <3>2
        <4> QED
          BY <3>1, <4>1, Zenon DEF LaunchInv, WaitsSuspended
      <3>4. suspended' \in BOOLEAN /\ "refused" \in Outcomes \ {"none", "killed"}
        BY <2>0, <3>1 DEF Outcomes
      <3> QED
        BY <2>0, <3>1, <3>2, <3>3, <3>4, AnswerKeeps
    <2>6. CASE ResumeFails
      <3>1. Answer("refused", {}) /\ sbAt = "launching" /\ suspended' = FALSE
            /\ platform = "windows" /\ step = Len(Controls)
        BY <2>6 DEF ResumeFails
      <3>4. step = 7
        BY <2>0, <3>1, Zenon
      <3>2. step # 1 /\ ~suspended' /\ suspended' \in BOOLEAN
        <4>1. step # 1
          BY <3>4
        <4>2. ~suspended' /\ suspended' \in BOOLEAN
          BY <3>1, Zenon
        <4> QED
          BY <4>1, <4>2
      <3>3. "refused" \in Outcomes \ {"none", "killed"}
        BY DEF Outcomes
      <3> QED
        BY <2>0, <3>1, <3>2, <3>3, AnswerKeeps
    <2>7. sbAt = "running" => ~suspended /\ step = Len(Controls)
      BY DEF LaunchInv, WaitsSuspended
    <2>2. CASE LeaderExits
      <3>1. PICK procs \in SUBSET alive : procs = alive \ {Leader}
        OBVIOUS
      <3>2. Answer("status", procs) /\ sbAt = "running" /\ suspended' = suspended
        BY <2>2, <3>1 DEF LeaderExits
      <3> QED
        BY <2>0, <2>7, <3>2, AnswerKeeps DEF Outcomes
    <2>3. CASE LimitPassed
      <3>1. PICK procs \in SUBSET alive : procs = alive \ Killed
        OBVIOUS
      <3>2. PICK limit \in {"memory", "timeout"} : Answer(limit, procs)
        BY <2>3, <3>1 DEF LimitPassed
      <3>3. procs \subseteq detached /\ sbAt = "running" /\ suspended' = suspended
        BY <2>3, <3>1 DEF Killed, LimitPassed
      <3> QED
        BY <2>0, <2>7, <3>2, <3>3, AnswerKeeps DEF Outcomes
    <2>4. CASE MonitorFails
      <3>1. PICK procs \in SUBSET alive : procs = alive
        OBVIOUS
      <3>2. Answer("error", procs) /\ sbAt = "running" /\ suspended' = suspended
        BY <2>4, <3>1 DEF MonitorFails
      <3> QED
        BY <2>0, <2>7, <3>2, AnswerKeeps DEF Outcomes
    <2> QED
      BY <2>1, <2>2, <2>3, <2>4, <2>5, <2>6, StartLaunchKeeps, ControlKeeps, GrantEndsKeep, ProgramKeeps,
         LauncherKilledKeeps, ProbeDoneKeeps DEF SandboxNext
  <1>2. LaunchInv /\ UNCHANGED sbVars => LaunchInv'
    <2> SUFFICES ASSUME LaunchInv, UNCHANGED sbVars PROVE LaunchInv'
      OBVIOUS
    <2> USE DEF sbVars, launchVars, grantVars
    <2>1. SandboxTypeOK' /\ Unstarted' /\ GrantsExact' /\ WaitsSuspended'
      BY DEF LaunchInv, SandboxTypeOK, Unstarted, GrantsExact, WaitsSuspended, Controls
    <2>2. NothingOutlives' /\ Controls' = Controls
      BY DEF LaunchInv, NothingOutlives, GrantsReleased, TreeDies, Controls
    <2> QED
      BY <2>1, <2>2 DEF LaunchInv, ControlsUp
  <1> QED
    BY <1>1, <1>2, LaunchStarts, PTL DEF SandboxSpec

\* Every launch stays at a point of run(), with a plan its policy may have.
THEOREM SandboxTypeCorrect == SandboxSpec => []SandboxTypeOK
  <1>1. LaunchInv => SandboxTypeOK
    BY DEF LaunchInv
  <1> QED
    BY <1>1, LaunchInvAlways, PTL

\* Nothing of a launch outlives it unseen: however run() ends, a grant or a
\* profile it made stays only if its removal failed, oath was killed or icacls
\* could not start; no process that ran stays on Linux and Windows, and none of
\* its group on macOS; and a Windows process that stays is suspended for good.
THEOREM NothingOutlivesAlways == SandboxSpec => []NothingOutlives
  <1>1. LaunchInv => NothingOutlives
    BY DEF LaunchInv
  <1> QED
    BY <1>1, LaunchInvAlways, PTL

-----------------------------------------------------------------------------
(***************************************************************************)
(* What the running program may do.  Of the mounts, or of the lines of a   *)
(* profile, the last that applies decides: that there is a last one, and   *)
(* which one it is, carries the proof.                                     *)
(***************************************************************************)
LEMMA LastIndex ==
  ASSUME NEW n \in Nat, NEW I \in SUBSET (1..n), I # {}
  PROVE  Max(I) \in I /\ \A j \in I : Max(I) >= j
  <1> DEFINE T == {n - i : i \in I}
             R == OpToRel(<, Nat)
  <1>1. T \subseteq Nat /\ T # {}
    OBVIOUS
  <1>2. PICK x \in T : \A y \in T : ~ (<<y, x>> \in R)
    <2>1. IsWellFoundedOn(R, Nat)
      BY NatLessThanWellFounded
    <2> HIDE DEF T, R
    <2> QED
      BY <1>1, <2>1, WFMin
  <1>3. PICK k \in I : x = n - k
    OBVIOUS
  <1>4. ASSUME NEW j \in I PROVE k >= j
    <2>1. n - j \in T /\ n - j \in Nat /\ x \in Nat
      BY <1>1, <1>2
    <2>2. ~ (n - j < x)
      BY <1>2, <2>1 DEF OpToRel
    <2> QED
      BY <1>3, <2>2
  <1>5. \E k0 \in I : \A j \in I : k0 >= j
    BY <1>4
  <1> QED
    BY <1>5 DEF Max

LEMMA OnlyLast ==
  ASSUME NEW n \in Nat, NEW I \in SUBSET (1..n), NEW k \in I, \A j \in I : j <= k
  PROVE  Max(I) = k
  <1>1. PICK m \in I : m = Max(I) /\ m >= k
    BY LastIndex
  <1>2. m <= k /\ m \in 1..n /\ k \in 1..n
    OBVIOUS
  <1> QED
    BY <1>1, <1>2

LEMMA ListedAll ==
  ASSUME NEW S, IsFiniteSet(S)
  PROVE  /\ Cardinality(S) \in Nat /\ SetToSeq(S) \in [1..Cardinality(S) -> S]
         /\ \A x \in S : \E k \in 1..Cardinality(S) : SetToSeq(S)[k] = x
  <1> DEFINE n == Cardinality(S)
             f == SetToSeq(S)
  <1>1. n \in Nat /\ ExistsBijection(1..n, S)
    BY FS_CardinalityType
  <1>2. PICK g \in Bijection(1..n, S) : TRUE
    BY <1>1 DEF ExistsBijection
  <1>3. g \in [1..n -> S] /\ IsInjective(g)
    BY <1>2 DEF Bijection, Injection
  <1>4. f \in [1..n -> S] /\ IsInjective(f)
    BY <1>3 DEF SetToSeq
  <1>5. f \in Injection(1..n, S)
    BY <1>4 DEF Injection
  <1>6. Cardinality(1..n) = n
    BY <1>1, FS_Interval
  <1>7. f \in Surjection(1..n, S)
    BY <1>5, <1>6, FS_Injection
  <1> QED
    BY <1>1, <1>4, <1>7 DEF Surjection

LEMMA ListIsSeq ==
  ASSUME NEW S, NEW n \in Nat, NEW f \in [1..n -> S]
  PROVE  f \in Seq(S) /\ Len(f) = n
  <1>1. f \in Seq(S)
    BY SeqDef
  <1> QED
    BY <1>1

LEMMA Concatenated ==
  ASSUME NEW S, NEW a \in Seq(S), NEW b \in Seq(S)
  PROVE  /\ a \o b \in Seq(S) /\ Len(a \o b) = Len(a) + Len(b)
         /\ \A k \in 1..Len(a) : (a \o b)[k] = a[k]
         /\ \A k \in 1..Len(b) : (a \o b)[Len(a) + k] = b[k]
  OBVIOUS

\* bubblewrap's binds: one mount per path, all of one kind.
LEMMA BindIs ==
  ASSUME NEW S, IsFiniteSet(S), NEW rw
  PROVE  /\ Bind(S, rw) \in Seq([path : S, rw : {rw}])
         /\ \A x \in S : \E k \in 1..Len(Bind(S, rw)) : Bind(S, rw)[k].path = x
  <1> DEFINE n == Cardinality(S)
             M == [path : S, rw : {rw}]
  <1>1. PICK s : s = SetToSeq(S)
    OBVIOUS
  <1>2. n \in Nat /\ s \in [1..n -> S] /\ \A x \in S : \E k \in 1..n : s[k] = x
    BY <1>1, ListedAll
  <1>3. Len(s) = n
    BY <1>2, ListIsSeq
  <1>4. PICK b : b = [k \in 1..n |-> [path |-> s[k], rw |-> rw]]
    OBVIOUS
  <1>5. b \in [1..n -> M] /\ \A k \in 1..n : b[k].path = s[k]
    BY <1>2, <1>4
  <1>6. b \in Seq(M) /\ Len(b) = n
    <2> HIDE DEF n, M
    <2> QED
      BY <1>2, <1>5, ListIsSeq
  <1>7. b = Bind(S, rw)
    BY <1>1, <1>3, <1>4 DEF Bind
  <1>8. \A x \in S : \E k \in 1..n : b[k].path = x
    BY <1>2, <1>5
  <1> QED
    BY <1>6, <1>7, <1>8

LEMMA BoundPaths ==
  ASSUME NEW S \in SUBSET TreePaths, NEW rw \in BOOLEAN
  PROVE  /\ Bind(S, rw) \in Seq([path : TreePaths, rw : BOOLEAN])
         /\ \A k \in 1..Len(Bind(S, rw)) : Bind(S, rw)[k].rw = rw
         /\ \A x \in S : \E k \in 1..Len(Bind(S, rw)) : Bind(S, rw)[k].path = x
  <1>1. IsFiniteSet(S)
    BY SandboxAssumption, FS_Subset
  <1>2. PICK b : b = Bind(S, rw)
    OBVIOUS
  <1>3. b \in Seq([path : S, rw : {rw}]) /\ \A x \in S : \E k \in 1..Len(b) : b[k].path = x
    BY <1>1, <1>2, BindIs
  <1>4. ASSUME NEW k \in 1..Len(b) PROVE b[k] \in [path : TreePaths, rw : BOOLEAN] /\ b[k].rw = rw
    <2>1. b[k] \in [path : S, rw : {rw}]
      BY <1>3, ElementOfSeq
    <2> QED
      BY <2>1
  <1>5. Len(b) \in Nat /\ b \in [1..Len(b) -> [path : TreePaths, rw : BOOLEAN]]
    BY <1>3, <1>4
  <1> QED
    BY <1>2, <1>3, <1>4, <1>5, ListIsSeq

\* The writable binds come last, so above a writable path the last mount is
\* writable whatever else is bound above it.
LEMMA WritableMounted ==
  ASSUME NEW p \in Plans, NEW path, NEW root \in p.write, Under(path, root)
  PROVE  MountDecides(p, path) # 0 /\ Mounts(p)[MountDecides(p, path)].rw
  <1>1. PICK M : M = [path : TreePaths, rw : BOOLEAN]
    OBVIOUS
  <1>2. PICK b1 \in Seq(M), b2 \in Seq(M), b3 \in Seq(M) :
          /\ b1 = Bind(SystemPaths, FALSE) /\ b2 = Bind(p.read, FALSE) /\ b3 = Bind(p.write, TRUE)
          /\ \A k \in 1..Len(b3) : b3[k].rw = TRUE
          /\ \E k \in 1..Len(b3) : b3[k].path = root
    <2>1. SystemPaths \in SUBSET TreePaths /\ p.read \in SUBSET TreePaths /\ p.write \in SUBSET TreePaths
      BY SandboxAssumption DEF Plans
    <2>2. Bind(SystemPaths, FALSE) \in Seq(M)
      BY <1>1, <2>1, BoundPaths
    <2>3. Bind(p.read, FALSE) \in Seq(M)
      BY <1>1, <2>1, BoundPaths
    <2>4. PICK b3 \in Seq(M) : b3 = Bind(p.write, TRUE)
      BY <1>1, <2>1, BoundPaths
    <2>5. (\A k \in 1..Len(b3) : b3[k].rw = TRUE) /\ \E k \in 1..Len(b3) : b3[k].path = root
      <3>1. PICK W \in SUBSET TreePaths : W = p.write
        BY <2>1
      <3>2. /\ \A k \in 1..Len(Bind(W, TRUE)) : Bind(W, TRUE)[k].rw = TRUE
            /\ \A x \in W : \E k \in 1..Len(Bind(W, TRUE)) : Bind(W, TRUE)[k].path = x
        BY BoundPaths
      <3>3. b3 = Bind(W, TRUE) /\ root \in W
        BY <2>4, <3>1
      <3> QED
        BY <3>2, <3>3, Zenon
    <2> QED
      BY <2>2, <2>3, <2>4, <2>5
  <1>3. PICK c \in Seq(M) : c = b1 \o b2
    BY Concatenated
  <1>4. PICK m \in Seq(M) : m = c \o b3
    BY Concatenated
  <1>5. /\ Len(m) = Len(c) + Len(b3) /\ \A k \in 1..Len(b3) : m[Len(c) + k] = b3[k]
        /\ m = Mounts(p)
    <2>1. /\ Len(c \o b3) = Len(c) + Len(b3)
          /\ \A k \in 1..Len(b3) : (c \o b3)[Len(c) + k] = b3[k]
      BY Concatenated
    <2>2. m = Mounts(p)
      BY <1>2, <1>3, <1>4, Zenon DEF Mounts
    <2> QED
      BY <1>4, <2>1, <2>2, Zenon
  <1> DEFINE I == {i \in 1..Len(m) : Under(path, m[i].path)}
  <1>6. MountDecides(p, path) = IF I # {} THEN Max(I) ELSE 0
    BY <1>5 DEF MountDecides, SelectLastInSeq
  <1>7. Len(m) \in Nat /\ Len(c) \in Nat /\ Len(b3) \in Nat /\ I \in SUBSET (1..Len(m))
    OBVIOUS
  <1>8. PICK j \in 1..Len(b3) : Len(c) + j \in I
    <2>1. PICK j \in 1..Len(b3) : b3[j].path = root
      BY <1>2
    <2>2. Len(c) + j \in 1..Len(m)
      BY <1>5, <1>7
    <2>3. m[Len(c) + j].path = root
      BY <1>5, <2>1
    <2> QED
      BY <2>2, <2>3
  <1>9. PICK d \in I : d = Max(I) /\ d >= Len(c) + j
    BY <1>7, <1>8, LastIndex
  <1>10. PICK k \in 1..Len(b3) : k = d - Len(c)
    <2>1. d \in 1..Len(m)
      BY <1>7
    <2>2. PICK x \in Nat, y \in Nat : x = Len(c) /\ y = Len(b3)
      BY <1>7
    <2>3. d \in 1..(x + y) /\ d >= x + j /\ j \in 1..y
      BY <1>5, <1>8, <1>9, <2>1, <2>2
    <2>4. d - x \in 1..y
      BY <2>3
    <2> QED
      BY <2>2, <2>4
  <1>11. d = Len(c) + k /\ d # 0
    BY <1>7, <1>10
  <1>12. m[d].rw
    <2>1. m[d] = b3[k] /\ b3[k].rw = TRUE
      BY <1>2, <1>5, <1>11
    <2> QED
      BY <2>1
  <1> HIDE DEF I
  <1> QED
    BY <1>5, <1>6, <1>9, <1>11, <1>12

LEMMA LinuxConfined ==
  ASSUME NEW p \in Plans, NEW path
  PROVE  /\ LinuxAllows(p, "write", path) <=> Beneath(path, p.write)
         /\ LinuxAllows(p, "read", path) => Beneath(path, SystemPaths \cup p.read \cup p.write)
  <1>1. ASSUME Beneath(path, p.write) PROVE LinuxAllows(p, "write", path)
    <2>1. PICK root \in p.write : Under(path, root)
      BY <1>1 DEF Beneath
    <2>2. MountDecides(p, path) # 0 /\ Mounts(p)[MountDecides(p, path)].rw
      BY <2>1, WritableMounted
    <2> QED
      BY <1>1, <2>2 DEF LinuxAllows, LandlockAllows
  <1>2. ASSUME LinuxAllows(p, "write", path) PROVE Beneath(path, p.write)
    BY <1>2 DEF LinuxAllows, LandlockAllows
  <1>3. ASSUME LinuxAllows(p, "read", path)
        PROVE  Beneath(path, SystemPaths \cup p.read \cup p.write)
    BY <1>3 DEF LinuxAllows, LandlockAllows
  <1> QED
    BY <1>1, <1>2, <1>3

\* A line of a Seatbelt profile speaks of an operation on a path.
Speaks(l, op, path) == op \in l.ops /\ IF l.exact THEN path \in l.roots ELSE Beneath(path, l.roots)

LEMMA LastLineDecides ==
  ASSUME NEW p, NEW op, NEW path, NEW lines, lines = Profile(p), Len(lines) \in Nat,
         NEW k \in 1..Len(lines), Speaks(lines[k], op, path),
         \A j \in k+1..Len(lines) : ~ Speaks(lines[j], op, path)
  PROVE  SeatbeltAllows(p, op, path) = lines[k].verdict
  <1> DEFINE I == {i \in 1..Len(lines) : Speaks(lines[i], op, path)}
  <1>1. SeatbeltAllows(p, op, path) = lines[IF I # {} THEN Max(I) ELSE 0].verdict
    BY DEF SeatbeltAllows, SelectLastInSeq, Speaks
  <1>2. k \in I /\ I \in SUBSET (1..Len(lines)) /\ \A j \in I : j <= k
    OBVIOUS
  <1>3. Max(I) = k
    <2> HIDE DEF I
    <2> QED
      BY <1>2, OnlyLast
  <1> QED
    BY <1>1, <1>2, <1>3

\* Four sequences one after the other, as macos::profile builds its text.
LEMMA Joined ==
  ASSUME NEW S, NEW b \in Seq(S), NEW a \in Seq(S), NEW c \in Seq(S), NEW q \in Seq(S),
         NEW m, m = b \o a \o c \o q
  PROVE  /\ Len(m) = Len(b) + Len(a) + Len(c) + Len(q)
         /\ \A k \in 1..Len(b) : m[k] = b[k]
         /\ \A k \in 1..Len(a) : m[Len(b) + k] = a[k]
         /\ \A k \in 1..Len(c) : m[Len(b) + Len(a) + k] = c[k]
         /\ \A k \in 1..Len(q) : m[Len(b) + Len(a) + Len(c) + k] = q[k]
  <1>1. PICK d \in Seq(S) : d = b \o a
    BY Concatenated
  <1>2. /\ Len(d) = Len(b) + Len(a) /\ \A k \in 1..Len(b) : d[k] = b[k]
        /\ \A k \in 1..Len(a) : d[Len(b) + k] = a[k]
    BY <1>1, Concatenated
  <1>3. PICK e \in Seq(S) : e = d \o c
    BY Concatenated
  <1>4. /\ Len(e) = Len(d) + Len(c) /\ \A k \in 1..Len(d) : e[k] = d[k]
        /\ \A k \in 1..Len(c) : e[Len(d) + k] = c[k]
    BY <1>3, Concatenated
  <1>5. PICK f \in Seq(S) : f = e \o q
    BY Concatenated
  <1>6. /\ Len(f) = Len(e) + Len(q) /\ \A k \in 1..Len(e) : f[k] = e[k]
        /\ \A k \in 1..Len(q) : f[Len(e) + k] = q[k]
    BY <1>5, Concatenated
  <1>0. f = m
    BY <1>1, <1>3, <1>5, Zenon
  <1>7. Len(b) \in Nat /\ Len(a) \in Nat /\ Len(c) \in Nat /\ Len(q) \in Nat
    OBVIOUS
  <1>8. \A k \in 1..Len(b) : k \in 1..Len(d) /\ k \in 1..Len(e)
    BY <1>2, <1>4, <1>7
  <1>9. \A k \in 1..Len(a) : Len(b) + k \in 1..Len(d) /\ Len(b) + k \in 1..Len(e)
    BY <1>2, <1>4, <1>7
  <1>10. \A k \in 1..Len(c) : Len(d) + k \in 1..Len(e)
    BY <1>2, <1>4, <1>7
  <1>11. Len(f) = Len(b) + Len(a) + Len(c) + Len(q)
    BY <1>2, <1>4, <1>6, <1>7
  <1>12. \A k \in 1..Len(b) : f[k] = b[k]
    BY <1>2, <1>4, <1>6, <1>8, Zenon
  <1>13. \A k \in 1..Len(a) : f[Len(b) + k] = a[k]
    BY <1>2, <1>4, <1>6, <1>9, Zenon
  <1>14. \A k \in 1..Len(c) : f[Len(b) + Len(a) + k] = c[k]
    BY <1>2, <1>4, <1>6, <1>10, Zenon
  <1>15. \A k \in 1..Len(q) : f[Len(b) + Len(a) + Len(c) + k] = q[k]
    BY <1>2, <1>4, <1>6, Zenon
  <1> QED
    BY <1>0, <1>11, <1>12, <1>13, <1>14, <1>15, Zenon

\* The lines of a profile: the base, the network, the refusal of fork if the
\* plan asks for it, the plan.
LEMMA ProfileLines ==
  ASSUME NEW p \in Plans
  PROVE  \E frk \in 0..1 :
           /\ Len(Profile(p)) = 11 + frk
           /\ frk = 1 <=> ~p.subprocesses
           /\ \A k \in 1..7 : Profile(p)[k] = BaseLines[k]
           /\ Profile(p)[8] = NetworkLine(p)
           /\ frk = 1 => Profile(p)[9] = Line(FALSE, {"fork"}, Everywhere, FALSE)
           /\ \A k \in 1..3 : Profile(p)[8 + frk + k] = PlanLines(p)[k]
  <1>0. PICK lines : lines = Profile(p)
    OBVIOUS
  <1>1. PICK l1, l2, l3, l4, l5, l6, l7 : BaseLines = <<l1, l2, l3, l4, l5, l6, l7>>
    BY DEF BaseLines
  <1>2. PICK q1, q2, q3 : PlanLines(p) = <<q1, q2, q3>>
    BY DEF PlanLines
  <1>3. PICK n : n = NetworkLine(p)
    OBVIOUS
  <1>4. PICK f : f = Line(FALSE, {"fork"}, Everywhere, FALSE)
    OBVIOUS
  <1>5. PICK S : S = {l1, l2, l3, l4, l5, l6, l7, q1, q2, q3, n, f}
    OBVIOUS
  <1>6. PICK b \in Seq(S) : b = BaseLines /\ Len(b) = 7
    <2>1. <<l1, l2, l3, l4, l5, l6, l7>> \in Seq(S) /\ Len(<<l1, l2, l3, l4, l5, l6, l7>>) = 7
      BY <1>5
    <2> QED
      BY <1>1, <2>1
  <1>7. PICK q \in Seq(S) : q = PlanLines(p) /\ Len(q) = 3
    <2>1. <<q1, q2, q3>> \in Seq(S) /\ Len(<<q1, q2, q3>>) = 3
      BY <1>5
    <2> QED
      BY <1>2, <2>1
  <1>8. <<n>> \in Seq(S) /\ <<f>> \in Seq(S) /\ <<>> \in Seq(S)
    BY <1>5
  <1>9. PICK a \in Seq(S) : a = <<n>> /\ Len(a) = 1 /\ a[1] = n
    BY <1>8
  <1>10. PICK c : c = IF p.subprocesses THEN <<>> ELSE <<f>>
    OBVIOUS
  <1>c. /\ c \in Seq(S) /\ Len(c) \in 0..1
        /\ (Len(c) = 1 <=> ~p.subprocesses) /\ (Len(c) = 1 => c[1] = f)
    <2>1. p.subprocesses \in BOOLEAN
      BY DEF Plans
    <2>2. CASE p.subprocesses
      <3>1. c = <<>>
        BY <1>10, <2>2
      <3> QED
        BY <1>8, <2>2, <3>1
    <2>3. CASE ~p.subprocesses
      <3>1. c = <<f>>
        BY <1>10, <2>3
      <3> QED
        BY <1>8, <2>3, <3>1
    <2> QED
      BY <2>1, <2>2, <2>3
  <1>11. lines = b \o a \o c \o q
    BY <1>0, <1>3, <1>4, <1>6, <1>7, <1>9, <1>10, Zenon DEF Profile
  <1>12. /\ Len(lines) = Len(b) + Len(a) + Len(c) + Len(q)
         /\ \A k \in 1..Len(b) : lines[k] = b[k]
         /\ \A k \in 1..Len(a) : lines[Len(b) + k] = a[k]
         /\ \A k \in 1..Len(c) : lines[Len(b) + Len(a) + k] = c[k]
         /\ \A k \in 1..Len(q) : lines[Len(b) + Len(a) + Len(c) + k] = q[k]
    <2>1. c \in Seq(S)
      BY <1>c
    <2> QED
      BY <1>11, <2>1, Joined
  <1>13. PICK y \in 0..1 : y = Len(c)
    BY <1>c
  <1>d. Len(lines) = 11 + y
    BY <1>6, <1>7, <1>9, <1>12, <1>13
  <1>e. \A k \in 1..7 : lines[k] = b[k]
    BY <1>6, <1>12, Zenon
  <1>f. lines[8] = n
    <2>1. 1 \in 1..Len(a) /\ Len(b) + 1 = 8 /\ a[1] = n
      BY <1>6, <1>9
    <2> QED
      BY <1>12, <2>1, Zenon
  <1>g. ASSUME y = 1 PROVE lines[9] = f
    <2>1. 1 \in 1..Len(c) /\ Len(b) + Len(a) + 1 = 9 /\ c[1] = f
      BY <1>6, <1>9, <1>c, <1>13, <1>g
    <2> QED
      BY <1>12, <2>1, Zenon
  <1>h. \A k \in 1..3 : lines[8 + y + k] = q[k]
    <2>1. Len(b) + Len(a) + Len(c) = 8 + y
      BY <1>6, <1>9, <1>13
    <2> QED
      BY <1>7, <1>12, <2>1, Zenon
  <1>14. /\ Len(lines) = 11 + y
         /\ y = 1 <=> ~p.subprocesses
         /\ \A k \in 1..7 : lines[k] = BaseLines[k]
         /\ lines[8] = n
         /\ y = 1 => lines[9] = f
         /\ \A k \in 1..3 : lines[8 + y + k] = PlanLines(p)[k]
    BY <1>6, <1>7, <1>c, <1>d, <1>e, <1>f, <1>g, <1>h, <1>13, Zenon
  <1> WITNESS y \in 0..1
  <1> QED
    BY <1>0, <1>3, <1>4, <1>14, Zenon

LEMMA RootIsAbove ==
  ASSUME NEW path \in Seq(STRING)
  PROVE  Beneath(path, Everywhere)
  <1>1. Len(<<>>) = 0 /\ Len(path) \in Nat
    OBVIOUS
  <1>2. SubSeq(<<>>, 1, 0) = <<>> /\ SubSeq(path, 1, 0) = <<>>
    BY EmptySeq, SubSeqProperties
  <1>3. IsPrefix(<<>>, path)
    BY <1>1, <1>2 DEF IsPrefix
  <1> QED
    BY <1>3 DEF Beneath, Under, Everywhere

\* Which lines of a profile speak of an operation on a path: frk tells whether
\* the refusal of fork is among them.
SpokenOf(p, lines, op, path, frk) ==
  /\ Len(lines) = 11 + frk
  /\ frk = 1 <=> ~p.subprocesses
  /\ Speaks(lines[1], op, path) /\ lines[1].verdict = TRUE
  /\ Speaks(lines[2], op, path) <=> op \in {"read", "write"}
  /\ lines[2].verdict = FALSE
  /\ Speaks(lines[3], op, path) <=> op = "read" /\ path \in Everywhere
  /\ Speaks(lines[4], op, path) <=> op = "read" /\ Beneath(path, SystemPaths \cup MacPaths)
  /\ ~ Speaks(lines[5], op, path) /\ ~ Speaks(lines[6], op, path)
  /\ Speaks(lines[7], op, path) <=> op = "write" /\ path \in DeviceFiles
  /\ lines[7].verdict = TRUE
  /\ p.network = "deny" => /\ Speaks(lines[8], op, path) <=> op = "network"
                           /\ lines[8].verdict = FALSE
  /\ p.network # "deny" => (Speaks(lines[8], op, path) <=> op = "read" /\ Beneath(path, NetworkFiles))
  /\ frk = 1 => /\ Speaks(lines[9], op, path) <=> op = "fork"
                /\ lines[9].verdict = FALSE
  /\ Speaks(lines[9 + frk], op, path)
       <=> op = "read" /\ path \in Ancestors(p.read \cup p.write)
  /\ Speaks(lines[10 + frk], op, path) <=> op = "read" /\ Beneath(path, p.read)
  /\ Speaks(lines[11 + frk], op, path)
       <=> op \in {"read", "write"} /\ Beneath(path, p.write)
  /\ lines[11 + frk].verdict = TRUE

LEMMA ProfileSpeaks ==
  ASSUME NEW p \in Plans, NEW path \in Seq(STRING),
         NEW op \in {"read", "write", "network", "fork"}
  PROVE  \E frk \in 0..1 : SpokenOf(p, Profile(p), op, path, frk)
  <1>0. PICK lines : lines = Profile(p)
    OBVIOUS
  <1>1. PICK frk \in 0..1 :
          /\ Len(lines) = 11 + frk
          /\ frk = 1 <=> ~p.subprocesses
          /\ \A k \in 1..7 : lines[k] = BaseLines[k]
          /\ lines[8] = NetworkLine(p)
          /\ frk = 1 => lines[9] = Line(FALSE, {"fork"}, Everywhere, FALSE)
          /\ \A k \in 1..3 : lines[8 + frk + k] = PlanLines(p)[k]
    BY <1>0, ProfileLines, Zenon
  <1>2. /\ BaseLines[1] = Line(TRUE, {"read", "write", "exec", "fork", "network"}, Everywhere, FALSE)
        /\ BaseLines[2] = Line(FALSE, {"write", "read", "exec"}, Everywhere, FALSE)
        /\ BaseLines[3] = Line(TRUE, {"read"}, Everywhere, TRUE)
        /\ BaseLines[4] = Line(TRUE, {"read"}, SystemPaths \cup MacPaths, FALSE)
        /\ BaseLines[5] = Line(TRUE, {"exec"}, SystemPaths, FALSE)
        /\ BaseLines[6] = Line(FALSE, {"exec"}, DeniedTools, TRUE)
        /\ BaseLines[7] = Line(TRUE, {"write"}, DeviceFiles, TRUE)
    BY DEF BaseLines
  <1>3. /\ PlanLines(p)[1] = Line(TRUE, {"read"}, Ancestors(p.read \cup p.write), TRUE)
        /\ PlanLines(p)[2] = Line(TRUE, {"read", "exec"}, p.read, FALSE)
        /\ PlanLines(p)[3] = Line(TRUE, {"read", "write", "exec"}, p.write, FALSE)
    BY DEF PlanLines
  <1>4. /\ lines[1] = BaseLines[1] /\ lines[2] = BaseLines[2] /\ lines[3] = BaseLines[3]
        /\ lines[4] = BaseLines[4] /\ lines[5] = BaseLines[5] /\ lines[6] = BaseLines[6]
        /\ lines[7] = BaseLines[7]
    BY <1>1
  <1>5. /\ lines[9 + frk] = PlanLines(p)[1] /\ lines[10 + frk] = PlanLines(p)[2]
        /\ lines[11 + frk] = PlanLines(p)[3]
    <2>1. 8 + frk + 1 = 9 + frk /\ 8 + frk + 2 = 10 + frk /\ 8 + frk + 3 = 11 + frk
          /\ {1, 2, 3} \subseteq 1..3
      OBVIOUS
    <2> QED
      BY <1>1, <2>1
  <1>6. Beneath(path, Everywhere)
    BY RootIsAbove
  <1>7. Speaks(lines[1], op, path) /\ lines[1].verdict = TRUE
    <2>1. lines[1] = Line(TRUE, {"read", "write", "exec", "fork", "network"}, Everywhere, FALSE)
      BY <1>1, <1>2, <1>3, <1>4, <1>5, Zenon
    <2> QED
      BY <1>6, <2>1, SMT DEF Line, Speaks
  <1>8. (Speaks(lines[2], op, path) <=> op \in {"read", "write"}) /\ lines[2].verdict = FALSE
    <2>1. lines[2] = Line(FALSE, {"write", "read", "exec"}, Everywhere, FALSE)
      BY <1>1, <1>2, <1>3, <1>4, <1>5, Zenon
    <2> QED
      BY <1>6, <2>1, SMT DEF Line, Speaks
  <1>9. Speaks(lines[3], op, path) <=> op = "read" /\ path \in Everywhere
    <2>1. lines[3] = Line(TRUE, {"read"}, Everywhere, TRUE)
      BY <1>1, <1>2, <1>3, <1>4, <1>5, Zenon
    <2> QED
      BY <2>1, SMT DEF Line, Speaks
  <1>10. Speaks(lines[4], op, path) <=> op = "read" /\ Beneath(path, SystemPaths \cup MacPaths)
    <2>1. lines[4] = Line(TRUE, {"read"}, SystemPaths \cup MacPaths, FALSE)
      BY <1>1, <1>2, <1>3, <1>4, <1>5, Zenon
    <2> QED
      BY <2>1, SMT DEF Line, Speaks
  <1>11. ~ Speaks(lines[5], op, path)
    <2>1. lines[5] = Line(TRUE, {"exec"}, SystemPaths, FALSE)
      BY <1>1, <1>2, <1>3, <1>4, <1>5, Zenon
    <2> QED
      BY <2>1, SMT DEF Line, Speaks
  <1>12. ~ Speaks(lines[6], op, path)
    <2>1. lines[6] = Line(FALSE, {"exec"}, DeniedTools, TRUE)
      BY <1>1, <1>2, <1>3, <1>4, <1>5, Zenon
    <2> QED
      BY <2>1, SMT DEF Line, Speaks
  <1>13. /\ Speaks(lines[7], op, path) <=> op = "write" /\ path \in DeviceFiles
         /\ lines[7].verdict = TRUE
    <2>1. lines[7] = Line(TRUE, {"write"}, DeviceFiles, TRUE)
      BY <1>1, <1>2, <1>3, <1>4, <1>5, Zenon
    <2> QED
      BY <2>1, SMT DEF Line, Speaks
  <1>14. ASSUME p.network = "deny"
         PROVE  (Speaks(lines[8], op, path) <=> op = "network") /\ lines[8].verdict = FALSE
    <2>1. lines[8] = Line(FALSE, {"network"}, Everywhere, FALSE)
      BY <1>1, <1>14 DEF NetworkLine
    <2> QED
      BY <1>6, <2>1, SMT DEF Line, Speaks
  <1>15. ASSUME p.network # "deny"
         PROVE  Speaks(lines[8], op, path) <=> op = "read" /\ Beneath(path, NetworkFiles)
    <2>1. lines[8] = Line(TRUE, {"read"}, NetworkFiles, FALSE)
      BY <1>1, <1>15 DEF NetworkLine
    <2> QED
      BY <2>1, SMT DEF Line, Speaks
  <1>16. ASSUME frk = 1
         PROVE  (Speaks(lines[9], op, path) <=> op = "fork") /\ lines[9].verdict = FALSE
    <2>1. lines[9] = Line(FALSE, {"fork"}, Everywhere, FALSE)
      BY <1>1, <1>16, Zenon
    <2> QED
      BY <1>6, <2>1, SMT DEF Line, Speaks
  <1>17. Speaks(lines[9 + frk], op, path)
           <=> op = "read" /\ path \in Ancestors(p.read \cup p.write)
    <2>1. lines[9 + frk] = Line(TRUE, {"read"}, Ancestors(p.read \cup p.write), TRUE)
      BY <1>1, <1>2, <1>3, <1>4, <1>5, Zenon
    <2> QED
      BY <2>1, SMT DEF Line, Speaks
  <1>18. Speaks(lines[10 + frk], op, path) <=> op = "read" /\ Beneath(path, p.read)
    <2>1. lines[10 + frk] = Line(TRUE, {"read", "exec"}, p.read, FALSE)
      BY <1>1, <1>2, <1>3, <1>4, <1>5, Zenon
    <2> QED
      BY <2>1, SMT DEF Line, Speaks
  <1>19. /\ Speaks(lines[11 + frk], op, path)
              <=> op \in {"read", "write"} /\ Beneath(path, p.write)
         /\ lines[11 + frk].verdict = TRUE
    <2>1. lines[11 + frk] = Line(TRUE, {"read", "write", "exec"}, p.write, FALSE)
      BY <1>1, <1>2, <1>3, <1>4, <1>5, Zenon
    <2> QED
      BY <2>1, SMT DEF Line, Speaks
  <1>20. SpokenOf(p, lines, op, path, frk)
    BY <1>1, <1>7, <1>8, <1>9, <1>10, <1>11, <1>12, <1>13, <1>14, <1>15, <1>16, <1>17, <1>18,
       <1>19, Zenon DEF SpokenOf
  <1> QED
    BY <1>0, <1>20, Zenon

LEMMA LineNumbers ==
  ASSUME NEW frk \in 0..1, NEW j \in 1..(11 + frk)
  PROVE  \/ j = 1 \/ j = 2 \/ j = 3 \/ j = 4 \/ j = 5 \/ j = 6 \/ j = 7 \/ j = 8
         \/ frk = 1 /\ j = 9
         \/ j = 9 + frk \/ j = 10 + frk \/ j = 11 + frk
  <1>1. CASE frk = 0
    BY <1>1
  <1>2. CASE frk = 1
    BY <1>2
  <1> QED
    BY <1>1, <1>2

\* What the Seatbelt profile lets be read besides the plan's own paths.
SeatbeltReads(p) == MacPaths \cup (IF p.network = "inherit" THEN NetworkFiles ELSE {})

LEMMA SeatbeltFiles ==
  ASSUME NEW p \in Plans, NEW path \in Seq(STRING)
  PROVE  /\ SeatbeltAllows(p, "write", path) <=> Beneath(path, p.write) \/ path \in DeviceFiles
         /\ SeatbeltAllows(p, "read", path)
              => \/ Beneath(path, SystemPaths \cup p.read \cup p.write \cup SeatbeltReads(p))
                 \/ path \in Ancestors(p.read \cup p.write) \cup Everywhere
  <1>1. PICK lines : lines = Profile(p)
    OBVIOUS
  <1>2. ASSUME NEW op \in {"read", "write"}, Beneath(path, p.write)
        PROVE  SeatbeltAllows(p, op, path) = TRUE
    <2>1. PICK n \in Nat : Len(lines) = n /\ n >= 1 /\ Speaks(lines[n], op, path) /\ lines[n].verdict = TRUE
      <3>0. PICK frk \in 0..1 : SpokenOf(p, Profile(p), op, path, frk)
        BY ProfileSpeaks, Zenon
      <3>1. /\ Len(lines) = 11 + frk
            /\ Speaks(lines[11 + frk], op, path)
            /\ lines[11 + frk].verdict = TRUE
        BY <1>1, <1>2, <3>0 DEF SpokenOf
      <3> QED
        BY <3>1
    <2>2. n \in 1..Len(lines) /\ Len(lines) \in Nat /\ \A j \in n+1..Len(lines) : ~ Speaks(lines[j], op, path)
      BY <2>1
    <2>3. SeatbeltAllows(p, op, path) = lines[n].verdict
      BY <1>1, <2>1, <2>2, LastLineDecides
    <2> QED
      BY <2>1, <2>3
  <1>3. ASSUME NEW op \in {"read", "write"}, ~ Beneath(path, p.write),
               op = "write" => path \notin DeviceFiles,
               op = "read" => /\ ~ Beneath(path, SystemPaths \cup MacPaths) /\ ~ Beneath(path, p.read)
                              /\ p.network # "deny" => ~ Beneath(path, NetworkFiles)
                              /\ path \notin Everywhere /\ path \notin Ancestors(p.read \cup p.write)
        PROVE  SeatbeltAllows(p, op, path) = FALSE
    <2>0. PICK frk \in 0..1 : SpokenOf(p, Profile(p), op, path, frk)
      BY ProfileSpeaks, Zenon
    <2>1. /\ Len(lines) = 11 + frk
          /\ Speaks(lines[2], op, path) /\ lines[2].verdict = FALSE
          /\ ~ Speaks(lines[3], op, path) /\ ~ Speaks(lines[4], op, path)
          /\ ~ Speaks(lines[5], op, path) /\ ~ Speaks(lines[6], op, path)
          /\ ~ Speaks(lines[7], op, path) /\ ~ Speaks(lines[8], op, path)
          /\ frk = 1 => ~ Speaks(lines[9], op, path)
          /\ ~ Speaks(lines[9 + frk], op, path) /\ ~ Speaks(lines[10 + frk], op, path)
          /\ ~ Speaks(lines[11 + frk], op, path)
      BY <1>1, <1>3, <2>0 DEF SpokenOf
    <2>2. ASSUME NEW j \in 3..Len(lines) PROVE ~ Speaks(lines[j], op, path)
      <3>1. j \in 1..(11 + frk) /\ j # 1 /\ j # 2
        BY <2>1
      <3> QED
        BY <2>1, <3>1, LineNumbers, Zenon
    <2>3. 2 \in 1..Len(lines) /\ Len(lines) \in Nat /\ 2 + 1 = 3
      BY <2>1
    <2>4. PICK k \in 1..Len(lines) :
            /\ Speaks(lines[k], op, path) /\ lines[k].verdict = FALSE
            /\ \A j \in k+1..Len(lines) : ~ Speaks(lines[j], op, path)
      BY <2>1, <2>2, <2>3, Zenon
    <2>5. SeatbeltAllows(p, op, path) = lines[k].verdict
      BY <1>1, <2>3, <2>4, LastLineDecides
    <2> QED
      BY <2>4, <2>5
  <1>4. ASSUME path \in DeviceFiles, ~ Beneath(path, p.write)
        PROVE  SeatbeltAllows(p, "write", path) = TRUE
    <2>0. PICK frk \in 0..1 : SpokenOf(p, Profile(p), "write", path, frk)
      BY ProfileSpeaks, Zenon
    <2>1. /\ Len(lines) = 11 + frk
          /\ Speaks(lines[7], "write", path) /\ lines[7].verdict = TRUE
          /\ ~ Speaks(lines[8], "write", path)
          /\ frk = 1 => ~ Speaks(lines[9], "write", path)
          /\ ~ Speaks(lines[9 + frk], "write", path) /\ ~ Speaks(lines[10 + frk], "write", path)
          /\ ~ Speaks(lines[11 + frk], "write", path)
      BY <1>1, <1>4, <2>0 DEF SpokenOf
    <2>2. ASSUME NEW j \in 8..Len(lines) PROVE ~ Speaks(lines[j], "write", path)
      <3>1. j \in 1..(11 + frk) /\ j \notin {1, 2, 3, 4, 5, 6, 7}
        BY <2>1
      <3> QED
        BY <2>1, <3>1, LineNumbers, Zenon
    <2>3. 7 \in 1..Len(lines) /\ Len(lines) \in Nat /\ 7 + 1 = 8
      BY <2>1
    <2>4. SeatbeltAllows(p, "write", path) = lines[7].verdict
      BY <1>1, <2>1, <2>2, <2>3, LastLineDecides
    <2> QED
      BY <2>1, <2>4
  <1>5. SeatbeltAllows(p, "write", path) <=> Beneath(path, p.write) \/ path \in DeviceFiles
    <2>1. Beneath(path, p.write) => SeatbeltAllows(p, "write", path) = TRUE
      BY <1>2
    <2>2. ~ Beneath(path, p.write) /\ path \notin DeviceFiles => SeatbeltAllows(p, "write", path) = FALSE
      BY <1>3
    <2> QED
      BY <1>4, <2>1, <2>2
  <1>6. ASSUME SeatbeltAllows(p, "read", path)
        PROVE  \/ Beneath(path, SystemPaths \cup p.read \cup p.write \cup SeatbeltReads(p))
               \/ path \in Ancestors(p.read \cup p.write) \cup Everywhere
    <2>1. \/ Beneath(path, p.write) \/ Beneath(path, SystemPaths \cup MacPaths) \/ Beneath(path, p.read)
          \/ p.network # "deny" /\ Beneath(path, NetworkFiles)
          \/ path \in Everywhere \/ path \in Ancestors(p.read \cup p.write)
      BY <1>3, <1>6
    <2>2. Beneath(path, p.write) \/ Beneath(path, SystemPaths \cup MacPaths) \/ Beneath(path, p.read)
            => Beneath(path, SystemPaths \cup p.read \cup p.write \cup SeatbeltReads(p))
      BY DEF Beneath, SeatbeltReads
    <2>3. p.network # "deny" /\ Beneath(path, NetworkFiles)
            => Beneath(path, SystemPaths \cup p.read \cup p.write \cup SeatbeltReads(p))
      BY DEF Beneath, SeatbeltReads, Plans
    <2> QED
      BY <2>1, <2>2, <2>3
  <1> QED
    BY <1>5, <1>6

LEMMA SeatbeltCalls ==
  ASSUME NEW p \in Plans
  PROVE  /\ SeatbeltAllows(p, "network", <<>>) <=> p.network = "inherit"
         /\ SeatbeltAllows(p, "fork", <<>>) <=> p.subprocesses
  <1>1. PICK lines : lines = Profile(p)
    OBVIOUS
  <1>2. PICK path \in Seq(STRING) : path = <<>>
    <2>1. <<>> \in Seq(STRING)
      OBVIOUS
    <2> QED
      BY <2>1
  <1>3. ASSUME NEW op \in {"network", "fork"},
               op = "network" => p.network # "deny", op = "fork" => p.subprocesses
        PROVE  SeatbeltAllows(p, op, path) = TRUE
    <2>0. PICK frk \in 0..1 : SpokenOf(p, Profile(p), op, path, frk)
      BY ProfileSpeaks, Zenon
    <2>1. /\ Len(lines) = 11 + frk
          /\ Speaks(lines[1], op, path) /\ lines[1].verdict = TRUE
          /\ ~ Speaks(lines[2], op, path)
          /\ ~ Speaks(lines[3], op, path) /\ ~ Speaks(lines[4], op, path)
          /\ ~ Speaks(lines[5], op, path) /\ ~ Speaks(lines[6], op, path)
          /\ ~ Speaks(lines[7], op, path) /\ ~ Speaks(lines[8], op, path)
          /\ frk = 1 => ~ Speaks(lines[9], op, path)
          /\ ~ Speaks(lines[9 + frk], op, path) /\ ~ Speaks(lines[10 + frk], op, path)
          /\ ~ Speaks(lines[11 + frk], op, path)
      BY <1>1, <1>3, <2>0 DEF SpokenOf
    <2>2. ASSUME NEW j \in 2..Len(lines) PROVE ~ Speaks(lines[j], op, path)
      <3>1. j \in 1..(11 + frk) /\ j # 1
        BY <2>1
      <3> QED
        BY <2>1, <3>1, LineNumbers, Zenon
    <2>3. 1 \in 1..Len(lines) /\ Len(lines) \in Nat /\ 1 + 1 = 2
      BY <2>1
    <2>4. SeatbeltAllows(p, op, path) = lines[1].verdict
      BY <1>1, <2>1, <2>2, <2>3, LastLineDecides
    <2> QED
      BY <2>1, <2>4
  <1>4. ASSUME NEW op \in {"network", "fork"},
               op = "network" => p.network = "deny", op = "fork" => ~p.subprocesses
        PROVE  SeatbeltAllows(p, op, path) = FALSE
    <2>0. PICK frk \in 0..1 : SpokenOf(p, Profile(p), op, path, frk)
      BY ProfileSpeaks, Zenon
    <2>1. /\ Len(lines) = 11 + frk
          /\ op = "network" => Speaks(lines[8], op, path) /\ lines[8].verdict = FALSE
          /\ op = "fork" => frk = 1 /\ Speaks(lines[9], op, path) /\ lines[9].verdict = FALSE
          /\ op = "network" => (frk = 1 => ~ Speaks(lines[9], op, path))
          /\ ~ Speaks(lines[9 + frk], op, path) /\ ~ Speaks(lines[10 + frk], op, path)
          /\ ~ Speaks(lines[11 + frk], op, path)
      BY <1>1, <1>4, <2>0 DEF SpokenOf
    <2>2. PICK k \in 8..9 :
            /\ k \in 1..Len(lines) /\ Speaks(lines[k], op, path) /\ lines[k].verdict = FALSE
            /\ \A j \in k+1..Len(lines) : ~ Speaks(lines[j], op, path)
      <3>1. CASE op = "network"
        <4>1. ASSUME NEW j \in 9..Len(lines) PROVE ~ Speaks(lines[j], op, path)
          <5>1. j \in 1..(11 + frk) /\ j \notin {1, 2, 3, 4, 5, 6, 7, 8}
            BY <2>1
          <5> QED
            BY <2>1, <3>1, <5>1, LineNumbers, Zenon
        <4>2. 8 \in 1..Len(lines) /\ 8 + 1 = 9
          BY <2>1
        <4> QED
          BY <2>1, <3>1, <4>1, <4>2
      <3>2. CASE op = "fork"
        <4>1. ASSUME NEW j \in 10..Len(lines) PROVE ~ Speaks(lines[j], op, path)
          <5>1. j \in 1..(11 + frk) /\ j \notin {1, 2, 3, 4, 5, 6, 7, 8, 9}
            BY <2>1
          <5> QED
            BY <2>1, <5>1, LineNumbers, Zenon
        <4>2. 9 \in 1..Len(lines) /\ 9 + 1 = 10
          BY <2>1
        <4> QED
          BY <2>1, <3>2, <4>1, <4>2
      <3> QED
        BY <3>1, <3>2
    <2>3. Len(lines) \in Nat
      BY <2>1
    <2>4. SeatbeltAllows(p, op, path) = lines[k].verdict
      BY <1>1, <2>2, <2>3, LastLineDecides
    <2> QED
      BY <2>2, <2>4
  <1>5. SeatbeltAllows(p, "network", path) <=> p.network = "inherit"
    <2>1. p.network \in {"deny", "inherit"}
      BY DEF Plans
    <2>2. p.network = "deny" => SeatbeltAllows(p, "network", path) = FALSE
      BY <1>4
    <2>3. p.network = "inherit" => SeatbeltAllows(p, "network", path) = TRUE
      BY <1>3
    <2> QED
      BY <2>1, <2>2, <2>3
  <1>6. SeatbeltAllows(p, "fork", path) <=> p.subprocesses
    <2>1. p.subprocesses \in BOOLEAN
      BY DEF Plans
    <2>2. ~p.subprocesses => SeatbeltAllows(p, "fork", path) = FALSE
      BY <1>4
    <2>3. p.subprocesses => SeatbeltAllows(p, "fork", path) = TRUE
      BY <1>3
    <2> QED
      BY <2>1, <2>2, <2>3
  <1> QED
    BY <1>2, <1>5, <1>6

-----------------------------------------------------------------------------
\* The program that runs has the plan's permissions and no more than its
\* platform gives every program, for every plan: the writable paths, the
\* readable ones on Linux and macOS, the network and fork (linux.rs, macos.rs,
\* windows.rs); and it has them behind every control its launcher knows, each
\* fully enforced.
THEOREM RunsConfinedAlways == SandboxSpec => []RunsConfined
  <1>1. LaunchInv => RunsConfined
    <2> SUFFICES ASSUME LaunchInv, sbAt = "running" PROVE RunsConfined
      BY DEF RunsConfined, Confined, FailClosed
    <2>1. platform \in {"linux", "macos", "windows"} /\ step = Len(Controls) /\ ControlsUp(step)
      BY ControlsKnown DEF LaunchInv
    <2>2. PICK p \in Plans : p = plan
      BY DEF LaunchInv, SandboxTypeOK
    <2>3. FailClosed
      BY <2>1 DEF FailClosed, ControlsUp
    <2>4. \A path \in TreePaths : path \in Seq(STRING)
      BY SandboxAssumption
    <2>5. /\ p.network \in {"deny", "inherit"} /\ p.subprocesses \in BOOLEAN
      BY DEF Plans
    <2>6. ASSUME NEW path \in TreePaths
          PROVE  /\ Allows("write", path) <=> Beneath(path, p.write) \/ OwnWrite(path)
                 /\ platform # "windows" /\ Allows("read", path)
                      => \/ Beneath(path, SystemPaths \cup p.read \cup p.write \cup OwnReads)
                         \/ path \in Ancestors(p.read \cup p.write) \cup Everywhere
      <3>1. CASE platform = "linux"
        <4>1. Allows("write", path) = LinuxAllows(p, "write", path)
              /\ Allows("read", path) = LinuxAllows(p, "read", path)
          BY <2>2, <3>1 DEF Allows
        <4>2. Allows("read", path) => Beneath(path, SystemPaths \cup p.read \cup p.write)
                                      \/ path \in Ancestors(p.read \cup p.write) \cup Everywhere
          BY <4>1, LinuxConfined, Zenon
        <4>3. Beneath(path, SystemPaths \cup p.read \cup p.write)
                => Beneath(path, SystemPaths \cup p.read \cup p.write \cup OwnReads)
          BY DEF Beneath
        <4>4. Allows("write", path) <=> Beneath(path, p.write)
          BY <4>1, LinuxConfined, Zenon
        <4> QED
          BY <3>1, <4>2, <4>3, <4>4 DEF OwnWrite
      <3>2. CASE platform = "macos"
        <4>1. Allows("write", path) = SeatbeltAllows(p, "write", path)
              /\ Allows("read", path) = SeatbeltAllows(p, "read", path)
          BY <2>2, <3>2 DEF Allows
        <4>2. path \in Seq(STRING)
          BY <2>4
        <4>3. OwnReads = SeatbeltReads(p) /\ (OwnWrite(path) <=> path \in DeviceFiles)
          BY <2>2, <3>2 DEF OwnReads, SeatbeltReads, OwnWrite
        <4> QED
          BY <4>1, <4>2, <4>3, SeatbeltFiles, Zenon
      <3>3. CASE platform = "windows"
        <4>1. aclGrants = p.write
          BY <2>1, <2>2, <3>3, ControlsKnown DEF LaunchInv, GrantsExact
        <4>2. Allows("write", path) <=> Beneath(path, aclGrants \cup {ContainerFolder})
          BY <3>3 DEF Allows
        <4>3. Beneath(path, p.write \cup {ContainerFolder})
                <=> Beneath(path, p.write) \/ Under(path, ContainerFolder)
          BY DEF Beneath
        <4>4. OwnWrite(path) <=> Under(path, ContainerFolder)
          BY <3>3 DEF OwnWrite
        <4> QED
          BY <3>3, <4>1, <4>2, <4>3, <4>4, Zenon
      <3> QED
        BY <2>1, <3>1, <3>2, <3>3
    <2>7. /\ AllowsCall("network") <=> p.network = "inherit"
          /\ AllowsCall("fork") <=> p.subprocesses
      <3>1. CASE platform = "linux"
        <4>1. AllowsCall("network") = SeccompAllows(p, "network")
              /\ AllowsCall("fork") = SeccompAllows(p, "fork")
          BY <2>2, <3>1 DEF AllowsCall
        <4> QED
          BY <2>5, <4>1 DEF SeccompAllows
      <3>2. CASE platform = "macos"
        <4>1. AllowsCall("network") = SeatbeltAllows(p, "network", <<>>)
              /\ AllowsCall("fork") = SeatbeltAllows(p, "fork", <<>>)
          BY <2>2, <3>2 DEF AllowsCall
        <4> QED
          BY <4>1, SeatbeltCalls, Zenon
      <3>3. CASE platform = "windows"
        <4>1. p.network = "deny"
          BY <2>1, <2>2, <3>3, ControlsKnown DEF LaunchInv, GrantsExact
        <4> QED
          BY <2>2, <2>5, <3>3, <4>1 DEF AllowsCall
      <3> QED
        BY <2>1, <3>1, <3>2, <3>3
    <2>8. Confined
      BY <2>2, <2>6, <2>7, Zenon DEF Confined
    <2> QED
      BY <2>3, <2>8 DEF RunsConfined
  <1> QED
    BY <1>1, LaunchInvAlways, PTL
=============================================================================
