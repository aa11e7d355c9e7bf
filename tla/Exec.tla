-------------------------------- MODULE Exec --------------------------------
(***************************************************************************)
(* oath exec (cmd_exec in oath-cli/main.rs): choose a sandbox, inspect the *)
(* package, pass the release-age and grade gates, ask the user, remember   *)
(* the approval, run.  Several commands share two files of ~/.oath: the    *)
(* approval store (approvals.rs) and the key that signs verdicts           *)
(* (exec_assessment.rs).  Neither is locked.                               *)
(*                                                                         *)
(* A request holds the options and the environment of one command.  Of the *)
(* package only what the gates ask is kept: its age, whether it grades too *)
(* low, has serious findings, uses the network, has registry integrity.    *)
(***************************************************************************)
EXTENDS Naturals, FiniteSets

CONSTANTS Runners,       \* oath exec commands
          Scenarios,     \* the combinations of requests they may carry
          AgesInHours,   \* release ages the registry may report
          ExecCrashes,   \* bound: how many commands may be killed
          NoFile,        \* a file that does not exist
          TornFile       \* a file that does not parse

NoMinimum == 0           \* no --min-age, or one parse_duration_secs rejects
Unknown   == 1000000     \* the registry gave no publish time

Modes    == {"off", "auto", "node", "native"}
Requests == [sandbox : BOOLEAN, mode : Modes, degraded : BOOLEAN, agent : BOOLEAN,
             native : BOOLEAN, nodeFlag : BOOLEAN, denyNetwork : BOOLEAN,
             localBin : BOOLEAN, yes : BOOLEAN, allowAll : BOOLEAN, json : BOOLEAN,
             dryRun : BOOLEAN, remember : BOOLEAN, minHours : Nat, gate : BOOLEAN]

\* ExecApproval: package and integrity are those of the one package here.
Approvals == [backend : Modes, denyNetwork : BOOLEAN, network : BOOLEAN]
Facts     == [serious : BOOLEAN, belowGrade : BOOLEAN, network : BOOLEAN, integrity : BOOLEAN]
NoFacts   == [serious |-> FALSE, belowGrade |-> FALSE, network |-> FALSE, integrity |-> FALSE]

ASSUME ExecAssumption ==
  /\ Scenarios \subseteq [Runners -> Requests]
  /\ AgesInHours \subseteq Nat
  /\ ExecCrashes \in Nat
  /\ NoFile # TornFile /\ \A held \in SUBSET Approvals : held \notin {NoFile, TornFile}

VARIABLES xat,           \* what each command does next
          req,           \* its request
          age,           \* the release age it was gated by, in hours
          facts,         \* what scanning the package showed it
          approved,      \* previously_approved, as it read it
          answered,      \* the user said y to it
          approvals,     \* exec-approvals.json: NoFile, TornFile or a set of approvals
          tmp,           \* exec-approvals.json.tmp, one name for every command
          draft,         \* the approvals each command is about to write
          fd,            \* where the file each command writes is linked by now
          mixed,         \* commands whose open file another command has written too
          key,           \* decision-signing.key: NoFile or the command whose bytes it holds
          signedWith,    \* the key each command's verdict was signed with
          outbound,      \* the network each command's program was given
          granted,       \* history: approvals somebody was told to remember
          overlapped,    \* history: two commands were remembering at once
          killed

approvalFiles == <<approvals, tmp, draft, fd, mixed>>
execVars == <<xat, req, age, facts, approved, answered, approvalFiles, key, signedWith,
              outbound, granted, overlapped, killed>>

Ended == {"ran", "ranLocal", "refused", "tooNew", "belowGrade", "declined", "dryRun",
          "failed", "killed"}
Remembering == {"writeTmp", "writing", "commit"}
ExecPoints == Ended \cup Remembering
                \cup {"start", "age", "inspect", "sign", "keyLink", "decide", "prompt",
                      "remember", "run"}

ExecTypeOK ==
  /\ xat \in [Runners -> ExecPoints]
  /\ req \in [Runners -> Requests]
  /\ age \in [Runners -> AgesInHours \cup {Unknown}]
  /\ facts \in [Runners -> Facts]
  /\ approved \in [Runners -> BOOLEAN] /\ answered \in [Runners -> BOOLEAN]
  /\ approvals \in {NoFile, TornFile} \/ approvals \in SUBSET Approvals
  /\ tmp \in {NoFile, TornFile} \/ tmp \in SUBSET Approvals
  /\ draft \in [Runners -> SUBSET Approvals]
  /\ fd \in [Runners -> {"none", "tmp", "live", "gone"}]
  /\ mixed \in SUBSET Runners
  /\ key \in Runners \cup {NoFile}
  /\ signedWith \in [Runners -> Runners \cup {NoFile}]
  /\ outbound \in [Runners -> {"none", "deny", "inherit"}]
  /\ granted \in SUBSET Approvals
  /\ overlapped \in BOOLEAN /\ killed \in 0..ExecCrashes

\* The commands start.
ExecStart ==
  /\ xat = [r \in Runners |-> "start"]
  /\ age = [r \in Runners |-> Unknown]
  /\ facts = [r \in Runners |-> NoFacts]
  /\ approved = [r \in Runners |-> FALSE] /\ answered = [r \in Runners |-> FALSE]
  /\ approvals = NoFile /\ tmp = NoFile
  /\ draft = [r \in Runners |-> {}] /\ fd = [r \in Runners |-> "none"] /\ mixed = {}
  /\ key = NoFile /\ signedWith = [r \in Runners |-> NoFile]
  /\ outbound = [r \in Runners |-> "none"]
  /\ granted = {} /\ overlapped = FALSE /\ killed = 0

ExecInit == req \in Scenarios /\ ExecStart

Goto(r, from, to) == xat[r] = from /\ xat' = [xat EXCEPT ![r] = to]

----------------------------------------------------------------------------
(* The sandbox decision.                                                    *)

\* resolve_exec_sandbox: --sandbox and agent mode turn "off" into "auto".
RequestedMode(q) == IF q.mode = "off" /\ (q.sandbox \/ q.agent) THEN "auto" ELSE q.mode

\* Faulty: auto falls back to Node permissions without being told it may.
EffectiveModeDowngrading(q) ==
  LET requested == RequestedMode(q) IN
  CASE requested = "off"  -> "off"
    [] requested = "auto" /\ q.native -> "native"
    [] requested = "auto" /\ ~q.native /\ q.nodeFlag -> "node"
    [] requested = "native" /\ q.native -> "native"
    [] requested = "node" /\ q.degraded /\ q.nodeFlag -> "node"
    [] OTHER -> "refused"

\* resolve_exec_sandbox_capabilities: native needs every control verified,
\* Node permissions need --allow-degraded-sandbox, anything else is refused.
EffectiveMode(q) ==
  LET requested == RequestedMode(q) IN
  CASE requested = "off"  -> "off"
    [] requested \in {"auto", "native"} /\ q.native -> "native"
    [] /\ requested = "node" \/ (requested = "auto" /\ ~q.native)
       /\ q.degraded /\ q.nodeFlag -> "node"
    [] OTHER -> "refused"

DenyNetwork(q) == q.denyNetwork \/ q.agent

\* The plan is strict unless network is neither denied nor unused.
PlanNetwork(r) ==
  IF ~DenyNetwork(req[r]) /\ facts[r].network THEN "inherit" ELSE "deny"

\* Faulty: the plan inherits the network the package was found to use.
RunNetworksAsFound(r) ==
  CASE EffectiveMode(req[r]) = "native" -> {IF facts[r].network THEN "inherit" ELSE "deny"}
    [] EffectiveMode(req[r]) = "node"   -> {"deny", "inherit"}
    [] OTHER -> {"inherit"}

\* What run_node_binary gives the program.  Only the native backends are handed
\* the plan; Node is told of files alone, so that its network is whatever the
\* permission model of the installed Node makes of it.
RunNetworks(r) ==
  CASE EffectiveMode(req[r]) = "native" -> {PlanNetwork(r)}
    [] EffectiveMode(req[r]) = "node"   -> {"deny", "inherit"}
    [] OTHER -> {"inherit"}

----------------------------------------------------------------------------
(* The command up to its verdict.                                           *)

\* The sandbox is settled first; a binary the project already installed runs
\* at once when no sandbox is in force.
StartExec(r) ==
  LET q == req[r] IN
  /\ Goto(r, "start", CASE EffectiveMode(q) = "refused" -> "refused"
                        [] EffectiveMode(q) = "off" /\ q.localBin /\ ~q.dryRun -> "ranLocal"
                        [] OTHER -> "age")
  /\ outbound' = IF xat'[r] = "ranLocal" THEN [outbound EXCEPT ![r] = "inherit"] ELSE outbound
  /\ UNCHANGED <<req, age, facts, approved, answered, approvalFiles, key, signedWith,
                 granted, overlapped, killed>>

\* The age gate compares whole days; the minimum is rounded down, to one day
\* at least.
TooNew(hours, minHours) ==
  /\ minHours # NoMinimum /\ hours # Unknown
  /\ LET minDays == minHours \div 24 IN
       hours \div 24 < (IF minDays < 1 THEN 1 ELSE minDays)

\* Packuments: the first must be there; the full one, which has the publish
\* time, is optional.
AgeGate(r) ==
  /\ \/ \E hours \in AgesInHours \cup {Unknown} :
          /\ age' = [age EXCEPT ![r] = IF req[r].minHours = NoMinimum THEN Unknown ELSE hours]
          /\ Goto(r, "age", IF ~TooNew(hours, req[r].minHours) THEN "inspect"
                           ELSE IF req[r].json THEN "sign" ELSE "tooNew")
     \/ Goto(r, "age", "failed") /\ UNCHANGED age
  /\ UNCHANGED <<req, facts, approved, answered, approvalFiles, key, signedWith,
                 outbound, granted, overlapped, killed>>

Approval(r) == [backend     |-> EffectiveMode(req[r]),
                denyNetwork |-> DenyNetwork(req[r]),
                network     |-> facts[r].network]

\* Faulty: the capabilities and the network policy are not part of the match.
MatchesBackendOnly(a, found) == \E b \in found : a.backend = b.backend

\* ApprovalStore::contains compares every field.
Matches(a, found) == a \in found

\* Plan, download, link, scan, score; then the approval store is consulted.
Inspect(r) ==
  /\ \/ \E f \in Facts :
          /\ f.belowGrade => req[r].gate
          /\ facts' = [facts EXCEPT ![r] = f]
          /\ IF f.integrity /\ approvals = TornFile
             THEN Goto(r, "inspect", "failed") /\ UNCHANGED approved
             ELSE /\ Goto(r, "inspect", IF req[r].json THEN "sign" ELSE "decide")
                  /\ approved' = [approved EXCEPT ![r] =
                       /\ f.integrity /\ approvals # NoFile
                       /\ Matches([backend     |-> EffectiveMode(req[r]),
                                   denyNetwork |-> DenyNetwork(req[r]),
                                   network     |-> f.network], approvals)]
     \/ Goto(r, "inspect", "failed") /\ UNCHANGED <<facts, approved>>
  /\ UNCHANGED <<req, age, answered, approvalFiles, key, signedWith, outbound, granted,
                 overlapped, killed>>

----------------------------------------------------------------------------
(* signed_v3 and load_or_create_key: a key is created in a private file and *)
(* published with a hard link, which fails when another is there already.   *)
(* A release refused for its age is signed too.                             *)
AfterSign(r) == IF TooNew(age[r], req[r].minHours) THEN "tooNew" ELSE "decide"

LoadKey(r) ==
  /\ IF key # NoFile
     THEN Goto(r, "sign", AfterSign(r)) /\ signedWith' = [signedWith EXCEPT ![r] = key]
     ELSE Goto(r, "sign", "keyLink") /\ UNCHANGED signedWith
  /\ UNCHANGED <<req, age, facts, approved, answered, approvalFiles, key, outbound, granted,
                 overlapped, killed>>

\* Faulty: the new key is moved into place over whatever is there.
PublishKeyOver(r) ==
  /\ Goto(r, "keyLink", AfterSign(r))
  /\ key' = r /\ signedWith' = [signedWith EXCEPT ![r] = r]
  /\ UNCHANGED <<req, age, facts, approved, answered, approvalFiles, outbound, granted,
                 overlapped, killed>>

PublishKey(r) ==
  /\ Goto(r, "keyLink", AfterSign(r))
  /\ key' = IF key = NoFile THEN r ELSE key
  /\ signedWith' = [signedWith EXCEPT ![r] = key']
  /\ UNCHANGED <<req, age, facts, approved, answered, approvalFiles, outbound, granted,
                 overlapped, killed>>

----------------------------------------------------------------------------
(* The verdict, the prompt, the run.                                        *)

NeedsPrompt(r) ==
  ~req[r].json /\ facts[r].serious /\ ~req[r].yes /\ ~approved[r] /\ ~req[r].allowAll

Decide(r) ==
  /\ Goto(r, "decide", IF facts[r].belowGrade THEN "belowGrade"
                       ELSE IF req[r].dryRun THEN "dryRun"
                       ELSE IF NeedsPrompt(r) THEN "prompt" ELSE "remember")
  /\ UNCHANGED <<req, age, facts, approved, answered, approvalFiles, key, signedWith,
                 outbound, granted, overlapped, killed>>

Prompt(r) ==
  /\ \E yes \in BOOLEAN :
       /\ Goto(r, "prompt", IF yes THEN "remember" ELSE "declined")
       /\ answered' = [answered EXCEPT ![r] = yes]
  /\ UNCHANGED <<req, age, facts, approved, approvalFiles, key, signedWith, outbound, granted,
                 overlapped, killed>>

\* remember: load, add this approval, then write a temporary file ...
Remember(r) ==
  /\ IF ~req[r].remember THEN Goto(r, "remember", "run") /\ UNCHANGED <<draft, granted>>
     ELSE IF ~facts[r].integrity \/ approvals = TornFile
          THEN Goto(r, "remember", "failed") /\ UNCHANGED <<draft, granted>>
          ELSE /\ Goto(r, "remember", "writeTmp")
               /\ draft' = [draft EXCEPT ![r] =
                    (IF approvals = NoFile THEN {} ELSE approvals) \cup {Approval(r)}]
               /\ granted' = granted \cup {Approval(r)}
  /\ overlapped' = (overlapped \/ (req[r].remember
                      /\ \E s \in Runners \ {r} : xat[s] \in Remembering))
  /\ UNCHANGED <<req, age, facts, approved, answered, approvals, tmp, fd, mixed, key,
                 signedWith, outbound, killed>>

\* ... which is truncated when it is opened, ...
OpenTmp(r) ==
  /\ Goto(r, "writeTmp", "writing")
  /\ tmp' = TornFile /\ fd' = [fd EXCEPT ![r] = "tmp"]
  /\ LET others == {s \in Runners : fd[s] = "tmp"} IN
       mixed' = IF others = {} THEN mixed \ {r} ELSE mixed \cup others \cup {r}
  /\ UNCHANGED <<req, age, facts, approved, answered, approvals, draft, key, signedWith,
                 outbound, granted, overlapped, killed>>

\* ... whole when only this command wrote it: two writers of one file may
\* leave a mixture ...
WriteTmp(r) ==
  LET left == IF r \in mixed THEN {TornFile, draft[r]} ELSE {draft[r]} IN
     /\ Goto(r, "writing", "commit")
     /\ fd' = [fd EXCEPT ![r] = "none"]
     /\ \/ fd[r] = "tmp"  /\ tmp' \in left /\ UNCHANGED approvals
        \/ fd[r] = "live" /\ approvals' \in left /\ UNCHANGED tmp
        \/ fd[r] = "gone" /\ UNCHANGED <<approvals, tmp>>
     /\ UNCHANGED <<req, age, facts, approved, answered, draft, mixed, key, signedWith,
                    outbound, granted, overlapped, killed>>

\* ... and renamed over the store; a file still being written moves with it.
CommitApproval(r) ==
  /\ IF tmp = NoFile
     THEN Goto(r, "commit", "failed") /\ UNCHANGED <<approvals, tmp, fd>>
     ELSE /\ Goto(r, "commit", "run")
          /\ approvals' = tmp /\ tmp' = NoFile
          /\ fd' = [s \in Runners |-> CASE fd[s] = "tmp"  -> "live"
                                        [] fd[s] = "live" -> "gone"
                                        [] OTHER -> fd[s]]
  /\ UNCHANGED <<req, age, facts, approved, answered, draft, mixed, key, signedWith,
                 outbound, granted, overlapped, killed>>

\* The binary is looked up and run_node_binary starts it in the sandbox.
RunBinary(r) ==
  /\ \/ /\ Goto(r, "run", "ran")
        /\ \E net \in RunNetworks(r) : outbound' = [outbound EXCEPT ![r] = net]
     \/ Goto(r, "run", "failed") /\ UNCHANGED outbound
  /\ UNCHANGED <<req, age, facts, approved, answered, approvalFiles, key, signedWith,
                 granted, overlapped, killed>>

KillRunner(r) ==
  /\ xat[r] \notin Ended /\ killed < ExecCrashes
  /\ xat' = [xat EXCEPT ![r] = "killed"] /\ fd' = [fd EXCEPT ![r] = "none"]
  /\ killed' = killed + 1
  /\ UNCHANGED <<req, age, facts, approved, answered, approvals, tmp, draft, mixed, key,
                 signedWith, outbound, granted, overlapped>>

ExecStep(r) ==
  \/ StartExec(r) \/ AgeGate(r) \/ Inspect(r) \/ LoadKey(r) \/ PublishKey(r) \/ Decide(r)
  \/ Prompt(r) \/ Remember(r) \/ OpenTmp(r) \/ WriteTmp(r) \/ CommitApproval(r) \/ RunBinary(r)

ExecNext == \E r \in Runners : ExecStep(r) \/ KillRunner(r)
ExecSpec == ExecInit /\ [][ExecNext]_execVars

----------------------------------------------------------------------------
(* Outside --json, a package with serious findings runs only when the user  *)
(* agreed: --yes, OATH_ALLOW_ALL, y at the prompt, or an approval which     *)
(* some command was told to remember for exactly this backend, capability   *)
(* and network policy - however the writers of the approval store           *)
(* interleave or die.                                                       *)
ConsentedRun ==
  \A r \in Runners :
    xat[r] = "ran" /\ facts[r].serious /\ ~req[r].json =>
      req[r].yes \/ req[r].allowAll \/ answered[r] \/ Approval(r) \in granted

(* Asked for a sandbox, by option or by agent mode, oath exec either runs   *)
(* the package in one it has verified, or in Node's when that is allowed,   *)
(* or not at all; no fast path escapes it.  In a verified sandbox a program *)
(* has the network only if the scan saw it use the network and neither      *)
(* --deny-network nor agent mode closes it; Node's sandbox promises nothing *)
(* about the network (resolve_exec_sandbox_capabilities, run_node_binary).  *)
ContainedRun ==
  \A r \in Runners :
    LET q == req[r] IN
    xat[r] \in {"ran", "ranLocal"} /\ (q.sandbox \/ q.agent \/ q.mode # "off") =>
      /\ xat[r] = "ran"
      /\ \/ /\ EffectiveMode(q) = "native" /\ q.native
            /\ outbound[r] # "deny" => facts[r].network /\ ~q.agent /\ ~q.denyNetwork
         \/ EffectiveMode(q) = "node" /\ q.degraded

(* "Deny outbound network access in the selected sandbox": with that option *)
(* or in agent mode, a program in any sandbox has no network.  The code     *)
(* hands the plan to the native backends only.                              *)
NetworkDenied ==
  \A r \in Runners :
    xat[r] = "ran" /\ DenyNetwork(req[r]) /\ EffectiveMode(req[r]) # "off" =>
      outbound[r] = "deny"

(* With a minimum of whole days, a release known to be younger never gets   *)
(* as far as its download (the age gate of cmd_exec).                       *)
WholeDaysEnforced ==
  \A r \in Runners :
    xat[r] \in {"decide", "prompt", "remember", "run", "ran", "belowGrade", "dryRun"} \cup Remembering
      /\ age[r] # Unknown /\ req[r].minHours % 24 = 0 => age[r] >= req[r].minHours

(* Every verdict is signed with the key the file holds, though commands     *)
(* that find no key race to create it (load_or_create_key).                 *)
SignedWithStoredKey ==
  \A r \in Runners : signedWith[r] # NoFile => signedWith[r] = key

(* The approval store never holds an approval nobody gave, and when no two  *)
(* commands remembered at the same time it holds each one that was stored.  *)
ApprovalsFaithful ==
  /\ approvals \notin {NoFile, TornFile} => approvals \subseteq granted
  /\ ~overlapped /\ killed = 0 =>
       \A r \in Runners : draft[r] # {} /\ xat[r] \in {"run", "ran"} =>
                            approvals \notin {NoFile, TornFile} /\ Approval(r) \in approvals

(* A package runs only past the gates of cmd_exec: old enough, and with     *)
(* the user's consent to what was found in it.                              *)
GatesPassed ==
  ConsentedRun /\ WholeDaysEnforced

(* The two files oath exec commands share without a lock, the signing key   *)
(* and the approval store, never mislead a later reader.                    *)
SharedFilesSound ==
  SignedWithStoredKey /\ ApprovalsFaithful
=============================================================================
