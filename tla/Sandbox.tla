------------------------------ MODULE Sandbox ------------------------------
(***************************************************************************)
(* The native sandbox of oath-sandbox: the plan derived from a policy      *)
(* (policy.rs), the capability probe (lib.rs), and the launchers: linux.rs *)
(* (bubblewrap, Landlock, seccomp), macos.rs (Seatbelt, process group,     *)
(* rlimits and a monitor loop) and windows.rs (AppContainer, ACL grants,   *)
(* job object).  One oath process probes the platform and then runs one    *)
(* package program.                                                        *)
(*                                                                         *)
(* A path is a sequence of components.  The kernel's own rules (which of   *)
(* several mounts, Landlock rules or profile lines decides an access) are  *)
(* external and are the operators MountDecides, LandlockAllows and         *)
(* SeatbeltAllows.                                                         *)
(***************************************************************************)
EXTENDS Naturals, Sequences, FiniteSets, SequencesExt

CONSTANTS Platforms,       \* subset of {"linux", "macos", "windows"}
          TreePaths,       \* the paths of the host
          SystemPaths,     \* /usr, /bin, ... : readable on every platform
          DeniedTools,     \* programs under SystemPaths that Seatbelt refuses
          MacPaths,        \* /dev, ... : what only the Seatbelt profile adds to them
          DeviceFiles,     \* /dev/null and /dev/tty
          NetworkFiles,    \* /private/etc/hosts, ssl, ... : readable with the network
          ContainerFolder, \* the AppContainer's own folder, with its Temp
          Workdir,         \* the directory the program runs in
          Policies,        \* [network, unrestricted, read, write] a package may ask for
          Procs,           \* processes the program may have; one is Leader
          Leader

ASSUME SandboxAssumption ==
  /\ Platforms \subseteq {"linux", "macos", "windows"}
  /\ TreePaths \subseteq Seq(STRING) /\ IsFiniteSet(TreePaths)
  /\ SystemPaths \cup DeniedTools \cup {Workdir, ContainerFolder} \subseteq TreePaths
  /\ MacPaths \cup DeviceFiles \cup NetworkFiles \subseteq TreePaths
  /\ Policies \subseteq [network : BOOLEAN, unrestricted : BOOLEAN,
                         read : SUBSET TreePaths, write : SUBSET TreePaths]
  /\ Leader \in Procs

VARIABLES platform,
          plan,            \* the SandboxPlan of the current launch
          sbAt,            \* "idle", "launching", "running", "ended"
          probing,         \* the current launch is the capability probe
          available,       \* BackendCapabilities.available, cached by the OnceLock
          step,            \* controls of Controls(platform) applied
          enforced,        \* how far the kernel took each control: "full" or "partial"
          aclGrants,       \* paths with an ACL entry of the AppContainer
          profiled,        \* the AppContainer profile exists
          suspended,       \* a Windows process was created and has not run
          alive, detached, \* running processes; those that left the process group
          unremoved,       \* history: paths whose icacls /remove failed
          undeleted,       \* history: DeleteAppContainerProfile failed
          outcome          \* what run() answered

grantVars == <<aclGrants, profiled, unremoved, undeleted>>
launchVars == <<plan, probing, step, enforced, grantVars, suspended>>
sbVars == <<platform, sbAt, available, launchVars, alive, detached, outcome>>

Plans == [network : {"deny", "inherit"}, subprocesses : BOOLEAN,
          read : SUBSET TreePaths, write : SUBSET TreePaths]

Outcomes == {"none", "status", "refused", "timeout", "memory", "error", "killed"}

SandboxTypeOK ==
  /\ platform \in Platforms /\ plan \in Plans
  /\ sbAt \in {"idle", "launching", "running", "ended"}
  /\ {probing, available, profiled, suspended, undeleted} \subseteq BOOLEAN
  /\ step \in 0..7
  /\ aclGrants \subseteq TreePaths /\ unremoved \subseteq TreePaths
  /\ detached \subseteq alive /\ alive \subseteq Procs
  /\ outcome \in Outcomes

----------------------------------------------------------------------------
(* SandboxPlan::strict and SandboxPolicy::to_plan.                          *)
StrictPlan == [network |-> "deny", subprocesses |-> TRUE, read |-> {Workdir}, write |-> {Workdir}]

ToPlan(policy) ==
  [StrictPlan EXCEPT !.network = IF policy.network \/ policy.unrestricted THEN "inherit" ELSE "deny",
                     !.read    = @ \cup policy.read,
                     !.write   = @ \cup policy.write]

Under(path, root) == IsPrefix(root, path)

Beneath(path, roots) == \E root \in roots : Under(path, root)

Ancestors(paths) == {a \in TreePaths : \E p \in paths : a # p /\ Under(p, a)}

----------------------------------------------------------------------------
(* Linux: bubblewrap's mounts in the order of its arguments; of the mounts  *)
(* above a path the latest one decides.                                     *)
Bind(paths, rw) == LET s == SetToSeq(paths) IN [k \in 1..Len(s) |-> [path |-> s[k], rw |-> rw]]

\* Faulty: the read-only binds come last and cover the writable ones.
MountsReadOnlyLast(p) == Bind(SystemPaths, FALSE) \o Bind(p.write, TRUE) \o Bind(p.read, FALSE)

Mounts(p) == Bind(SystemPaths, FALSE) \o Bind(p.read, FALSE) \o Bind(p.write, TRUE)

MountDecides(p, path) == SelectLastInSeq(Mounts(p), LAMBDA m : Under(path, m.path))

LandlockAllows(p, op, path) ==
  Beneath(path, IF op = "write" THEN p.write ELSE SystemPaths \cup p.read \cup p.write)

\* seccomp's allow list gains clone and fork, and the socket calls.
SeccompAllows(p, call) ==
  \/ call = "fork" /\ p.subprocesses
  \/ call = "network" /\ p.network = "inherit"

LinuxAllows(p, op, path) ==
  LET m == MountDecides(p, path)
  IN  /\ m # 0
      /\ op = "write" => Mounts(p)[m].rw
      /\ LandlockAllows(p, op, path)

----------------------------------------------------------------------------
(* macOS: the lines of the Seatbelt profile, of those that speak of the     *)
(* contents of files, of programs, forks and the network; the last line     *)
(* that speaks of an operation on a path decides.                           *)
Line(verdict, ops, roots, exact) == [verdict |-> verdict, ops |-> ops, roots |-> roots, exact |-> exact]
Everywhere == {<<>>}

BaseLines ==
  << Line(TRUE,  {"read", "write", "exec", "fork", "network"}, Everywhere, FALSE),
     Line(FALSE, {"write", "read", "exec"}, Everywhere, FALSE),
     Line(TRUE,  {"read"}, Everywhere, TRUE),
     Line(TRUE,  {"read"}, SystemPaths \cup MacPaths, FALSE),
     Line(TRUE,  {"exec"}, SystemPaths, FALSE),
     Line(FALSE, {"exec"}, DeniedTools, TRUE),
     Line(TRUE,  {"write"}, DeviceFiles, TRUE) >>

\* Without network it is refused; with it, the files that serve it are readable.
NetworkLine(p) ==
  IF p.network = "deny" THEN Line(FALSE, {"network"}, Everywhere, FALSE)
                        ELSE Line(TRUE, {"read"}, NetworkFiles, FALSE)

PlanLines(p) ==
  << Line(TRUE, {"read"}, Ancestors(p.read \cup p.write), TRUE),
     Line(TRUE, {"read", "exec"}, p.read, FALSE),
     Line(TRUE, {"read", "write", "exec"}, p.write, FALSE) >>

Profile(p) ==
  BaseLines
    \o << NetworkLine(p) >>
    \o (IF p.subprocesses THEN <<>> ELSE << Line(FALSE, {"fork"}, Everywhere, FALSE) >>)
    \o PlanLines(p)

SeatbeltAllows(p, op, path) ==
  LET speaks(l) == op \in l.ops /\ IF l.exact THEN path \in l.roots ELSE Beneath(path, l.roots)
      lines == Profile(p)
  IN  lines[SelectLastInSeq(lines, speaks)].verdict

----------------------------------------------------------------------------
(* What the running program may do.  An AppContainer writes its own folder  *)
(* besides what it was granted; what Windows lets it read is the host's     *)
(* doing and not modelled.                                                  *)
Allows(op, path) ==
  CASE platform = "linux"   -> LinuxAllows(plan, op, path)
    [] platform = "macos"   -> SeatbeltAllows(plan, op, path)
    [] platform = "windows" -> op # "write" \/ Beneath(path, aclGrants \cup {ContainerFolder})

AllowsCall(call) ==
  CASE platform = "linux"   -> SeccompAllows(plan, call)
    [] platform = "macos"   -> SeatbeltAllows(plan, call, <<>>)
    [] platform = "windows" -> call = "fork" /\ plan.subprocesses   \* no capability SIDs; ActiveProcessLimit

----------------------------------------------------------------------------
(* The controls each launcher puts up, in order, before the program runs.   *)
Controls ==
  CASE platform = "linux"   -> <<"bubblewrap", "no-new-privs", "rlimits", "namespaces", "landlock", "seccomp">>
    [] platform = "macos"   -> <<"sandbox-exec", "profile", "process-group", "rlimits", "seatbelt">>
    [] platform = "windows" -> <<"container", "grants", "folder", "attributes", "job", "suspended", "assigned">>

NextControl == Controls[step + 1]

Idle ==
  /\ step' = 0 /\ enforced' = [k \in {} |-> ""]

SandboxInit ==
  /\ platform \in Platforms
  /\ plan = StrictPlan /\ probing = TRUE /\ available = FALSE
  /\ sbAt = "idle" /\ step = 0 /\ enforced = [k \in {} |-> ""]
  /\ aclGrants = {} /\ profiled = FALSE /\ unremoved = {} /\ undeleted = FALSE
  /\ suspended = FALSE /\ alive = {} /\ detached = {} /\ outcome = "none"

\* verify_native_capabilities launches a strict plan, on macOS with a probe
\* that must fail to escape; the package runs only on a verified backend.
StartProbe ==
  /\ sbAt = "idle" /\ probing /\ outcome = "none"
  /\ sbAt' = "launching" /\ Idle
  /\ UNCHANGED <<platform, plan, probing, available, grantVars, suspended, alive, detached, outcome>>

StartRun ==
  /\ sbAt = "idle" /\ ~probing /\ available /\ outcome = "none"
  /\ \E policy \in Policies, sub \in BOOLEAN :
       plan' = [ToPlan(policy) EXCEPT !.subprocesses = sub]
  /\ sbAt' = "launching" /\ Idle
  /\ UNCHANGED <<platform, probing, available, grantVars, suspended, alive, detached, outcome>>

----------------------------------------------------------------------------
\* --die-with-parent in a PID namespace; KILL_ON_JOB_CLOSE.
DiesWithLauncher == platform \in {"linux", "windows"}

Survivors(procs) == IF DiesWithLauncher THEN {} ELSE procs

\* The guard of windows::run exists once its grants are made, and takes the
\* plan's writable paths back.
Guarded == IF platform = "windows" /\ step >= 2 THEN plan.write ELSE {}

\* icacls /remove for each path, then DeleteAppContainerProfile: the answer of
\* neither is looked at.
TakeBack(held, paths) ==
  /\ \E failing \in SUBSET paths :
       aclGrants' = held \ (paths \ failing) /\ unremoved' = unremoved \cup failing
  /\ \E kept \in {FALSE, profiled} : profiled' = kept /\ undeleted' = (undeleted \/ kept)

\* A process in its job, or in its namespace, ends with run().
Answer(what, procs) ==
  /\ sbAt' = "ended" /\ outcome' = what
  /\ alive' = Survivors(procs) /\ detached' = detached \cap alive'
  /\ TakeBack(aclGrants, Guarded)
  /\ UNCHANGED <<platform, available, plan, probing, step, enforced>>

----------------------------------------------------------------------------
\* Landlock must be FullyEnforced; every other control reports success or failure.
Accepts(how) == how = "full"

ApplyControl ==
  /\ sbAt = "launching" /\ step < Len(Controls) /\ NextControl # "grants"
  /\ platform = "windows" => plan.network = "deny"
  /\ \E how \in {"full"} \cup (IF NextControl = "landlock" THEN {"partial"} ELSE {}) :
       /\ Accepts(how)
       /\ enforced' = [c \in DOMAIN enforced \cup {NextControl} |-> IF c = NextControl THEN how ELSE enforced[c]]
  /\ step' = step + 1
  /\ profiled' = (profiled \/ NextControl = "container")
  /\ suspended' = (suspended \/ NextControl = "suspended")
  /\ UNCHANGED <<platform, sbAt, available, plan, probing, aclGrants, unremoved, undeleted,
                 alive, detached, outcome>>

\* The launch is refused.  A Windows process that could not be assigned to
\* its job is not terminated: it stays behind, suspended.
ControlFails ==
  /\ sbAt = "launching" /\ step < Len(Controls) /\ NextControl # "grants"
  /\ Answer("refused", {}) /\ UNCHANGED suspended

\* The process is in its job but ResumeThread fails: it ends with the job.
ResumeFails ==
  /\ sbAt = "launching" /\ platform = "windows" /\ step = Len(Controls)
  /\ Answer("refused", {}) /\ suspended' = FALSE

\* windows::run refuses a plan with network access before anything is created.
RefuseNetwork ==
  /\ sbAt = "launching" /\ platform = "windows" /\ plan.network = "inherit"
  /\ Answer("refused", {}) /\ UNCHANGED suspended

----------------------------------------------------------------------------
(* grant_workdir: one icacls call per writable path.                        *)
GrantNext ==
  /\ sbAt = "launching" /\ step < Len(Controls) /\ NextControl = "grants"
  /\ \/ /\ aclGrants # plan.write
        /\ \E path \in plan.write \ aclGrants : aclGrants' = aclGrants \cup {path}
        /\ UNCHANGED <<step, enforced>>
     \/ /\ aclGrants = plan.write
        /\ step' = step + 1 /\ enforced' = [c \in DOMAIN enforced \cup {"grants"} |-> "full"]
        /\ UNCHANGED aclGrants
  /\ UNCHANGED <<platform, sbAt, available, plan, probing, profiled, unremoved, undeleted,
                 suspended, alive, detached, outcome>>

\* Faulty: only the paths before the failing one are taken back.
RolledBackEarlier(failing) == aclGrants

\* icacls /T may have granted part of the failing path too: paths[..=index].
RolledBack(failing) == aclGrants \cup {failing}

\* icacls ran and failed: the grants so far are removed, then the profile.
GrantFails ==
  /\ sbAt = "launching" /\ step < Len(Controls) /\ NextControl = "grants"
  /\ \E path \in plan.write \ aclGrants : TakeBack(aclGrants \cup {path}, RolledBack(path))
  /\ sbAt' = "ended" /\ outcome' = "refused"
  /\ UNCHANGED <<platform, available, plan, probing, step, enforced, suspended, alive, detached>>

\* icacls could not be started: the error leaves through `?` with the earlier
\* grants in place.
GrantCannotStart ==
  /\ sbAt = "launching" /\ step < Len(Controls) /\ NextControl = "grants"
  /\ aclGrants # plan.write
  /\ TakeBack(aclGrants, {})
  /\ sbAt' = "ended" /\ outcome' = "error"
  /\ UNCHANGED <<platform, available, plan, probing, step, enforced, suspended, alive, detached>>

----------------------------------------------------------------------------
(* The program runs: execve, sandbox-exec's exec, or ResumeThread.          *)
Begin ==
  /\ sbAt = "launching" /\ step = Len(Controls)
  /\ sbAt' = "running" /\ alive' = {Leader} /\ suspended' = FALSE
  /\ UNCHANGED <<platform, available, plan, probing, step, enforced, grantVars, detached, outcome>>

\* A process of the program forks, or (Seatbelt does not forbid it) leaves the group.
Fork ==
  /\ sbAt = "running" /\ alive # {} /\ AllowsCall("fork")
  /\ \E q \in Procs \ (alive \cup {Leader}) : alive' = alive \cup {q}
  /\ UNCHANGED <<platform, sbAt, available, launchVars, detached, outcome>>

LeaveGroup ==
  /\ sbAt = "running" /\ platform = "macos"
  /\ \E q \in alive \ {Leader} : detached' = detached \cup {q}
  /\ UNCHANGED <<platform, sbAt, available, launchVars, alive, outcome>>

\* The program's first process ends: wait() or try_wait() returns its status.
LeaderExits ==
  /\ sbAt = "running" /\ Leader \in alive
  /\ Answer("status", alive \ {Leader}) /\ UNCHANGED suspended

\* kill(-process_group, SIGKILL).
Killed == alive \ detached

\* The monitor loop of macos::run sees the memory limit or the deadline passed.
LimitPassed ==
  /\ sbAt = "running" /\ platform = "macos"
  /\ \E limit \in {"memory", "timeout"} : Answer(limit, alive \ Killed)
  /\ UNCHANGED suspended

\* proc_listpids fails: the error leaves through `?`, nothing is killed.
MonitorFails ==
  /\ sbAt = "running" /\ platform = "macos"
  /\ Answer("error", alive) /\ UNCHANGED suspended

\* oath itself is killed: no drop guard runs, and the job ends with its last
\* handle; a process not yet assigned to it stays behind, suspended.
LauncherKilled ==
  /\ sbAt \in {"launching", "running"}
  /\ sbAt' = "ended" /\ outcome' = "killed"
  /\ alive' = Survivors(alive) /\ detached' = detached \cap alive'
  /\ suspended' = (suspended /\ step < Len(Controls))
  /\ UNCHANGED <<platform, available, plan, probing, step, enforced, grantVars>>

\* The probe's answer is cached; a failed one clears every capability.  What
\* the probe left behind is another AppContainer's than the next launch's.
ProbeDone ==
  /\ sbAt = "ended" /\ probing /\ outcome # "killed"
  /\ available' = (outcome = "status")
  /\ probing' = FALSE /\ sbAt' = "idle" /\ outcome' = "none"
  /\ suspended' = FALSE /\ alive' = {} /\ detached' = {}
  /\ aclGrants' = {} /\ profiled' = FALSE /\ unremoved' = {} /\ undeleted' = FALSE
  /\ Idle
  /\ UNCHANGED <<platform, plan>>

SandboxNext ==
  \/ StartProbe \/ StartRun \/ ApplyControl \/ ControlFails \/ ResumeFails \/ RefuseNetwork
  \/ GrantNext \/ GrantFails \/ GrantCannotStart
  \/ Begin \/ Fork \/ LeaveGroup \/ LeaderExits \/ LimitPassed \/ MonitorFails
  \/ LauncherKilled \/ ProbeDone

SandboxSpec == SandboxInit /\ [][SandboxNext]_sbVars

----------------------------------------------------------------------------
(* What a platform gives every program: macOS its device files to write and *)
(* more to read, with the network the files that serve it; Windows the      *)
(* AppContainer's own folder.                                               *)
OwnWrite(path) ==
  \/ platform = "macos" /\ path \in DeviceFiles
  \/ platform = "windows" /\ Under(path, ContainerFolder)
OwnReads ==
  IF platform # "macos" THEN {}
  ELSE MacPaths \cup (IF plan.network = "inherit" THEN NetworkFiles ELSE {})

(* The program writes beneath the plan's writable paths and what its        *)
(* platform gives every program, and nowhere else; on Linux and macOS it    *)
(* reads nothing but the system, the plan's paths, the directories leading  *)
(* to them and what the platform adds; and it reaches the network or forks  *)
(* exactly when the plan says so -- whatever overlap the plan's paths have  *)
(* and however each kernel combines mounts, rules and profile lines         *)
(* (linux.rs run/apply_inner, macos.rs profile, windows.rs run).            *)
Confined ==
  sbAt = "running" =>
    /\ \A path \in TreePaths : Allows("write", path) <=> Beneath(path, plan.write) \/ OwnWrite(path)
    /\ platform # "windows" => \A path \in TreePaths :
         Allows("read", path) => \/ Beneath(path, SystemPaths \cup plan.read \cup plan.write \cup OwnReads)
                                 \/ path \in Ancestors(plan.read \cup plan.write) \cup Everywhere
    /\ AllowsCall("network") <=> plan.network = "inherit"
    /\ AllowsCall("fork") <=> plan.subprocesses

(* No program runs unless every control of its platform is up and fully     *)
(* enforced: a launcher never falls back to fewer (fail-closed launchers,   *)
(* the FullyEnforced check of apply_landlock).                              *)
FailClosed ==
  sbAt = "running" => \A k \in 1..Len(Controls) :
    Controls[k] \in DOMAIN enforced /\ enforced[Controls[k]] = "full"

(* Whatever way a Windows launch ends, an ACL entry or an AppContainer      *)
(* profile outlives it only when its own removal failed, oath was killed,   *)
(* or icacls could not even be started (grant_workdir's rollback and        *)
(* AppContainerProfileGuard, which ignore what the removals answer).        *)
GrantsReleased ==
  /\ sbAt = "ended" /\ outcome \notin {"killed", "error"} => aclGrants \subseteq unremoved
  /\ sbAt = "ended" /\ outcome # "killed" => (profiled => undeleted)

(* On Linux and Windows no process that ran outlives run(), even when oath  *)
(* is killed; on macOS none of its process group outlives a limit           *)
(* (--die-with-parent, KILL_ON_JOB_CLOSE, kill(-process_group)).  A Windows *)
(* process that stays behind never runs: it is suspended, and was left      *)
(* before it was in its job.                                                *)
TreeDies ==
  sbAt = "ended" =>
    /\ platform # "macos" => alive = {}
    /\ outcome \in {"memory", "timeout"} => alive \subseteq detached
    /\ suspended => outcome \in {"refused", "killed"} /\ "assigned" \notin DOMAIN enforced

(* A program that runs has the plan's permissions and no more than its      *)
(* platform gives every program, because every control of the platform is   *)
(* enforced.                                                                *)
RunsConfined ==
  Confined /\ FailClosed

(* Nothing of a launch outlives it unseen: neither the permissions it       *)
(* handed out, but for those whose removal failed, nor a process it ran.    *)
NothingOutlives ==
  GrantsReleased /\ TreeDies
=============================================================================
