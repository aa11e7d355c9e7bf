------------------------------- MODULE MCExec -------------------------------
(***************************************************************************)
(* oath exec for TLC: the requests two commands carry.                      *)
(***************************************************************************)
EXTENDS Exec, TLC

CONSTANTS x1, x2

(* Every sandbox request, every gate, and two commands that remember        *)
(* approvals or sign verdicts at the same time.                             *)
PlainRequest ==
  [sandbox |-> FALSE, mode |-> "off", degraded |-> FALSE, agent |-> FALSE, native |-> FALSE,
   nodeFlag |-> FALSE, denyNetwork |-> FALSE, localBin |-> FALSE, yes |-> FALSE,
   allowAll |-> FALSE, json |-> FALSE, dryRun |-> FALSE, remember |-> FALSE,
   minHours |-> 0, gate |-> FALSE]
\* It is refused at once, so that the other command runs alone.
Bystander == [PlainRequest EXCEPT !.mode = "native"]
SandboxRequests ==
  {[PlainRequest EXCEPT !.sandbox = s, !.mode = m, !.degraded = d, !.agent = a, !.native = n,
                        !.nodeFlag = f, !.localBin = l, !.denyNetwork = dn] :
     s \in BOOLEAN, m \in Modes, d \in BOOLEAN, a \in BOOLEAN, n \in BOOLEAN,
     f \in BOOLEAN, l \in BOOLEAN, dn \in BOOLEAN}
GateRequests ==
  {[PlainRequest EXCEPT !.yes = y, !.json = j, !.dryRun = d, !.allowAll = r, !.minHours = h,
                        !.gate = (h = 36)] :
     y \in BOOLEAN, j \in BOOLEAN, d \in BOOLEAN, r \in BOOLEAN, h \in {0, 36, 48}}
Remembers(deny) == [PlainRequest EXCEPT !.remember = TRUE, !.denyNetwork = deny]
Signs == [PlainRequest EXCEPT !.json = TRUE]
Pair(a, b) == (x1 :> a) @@ (x2 :> b)
ExecScenarios ==
  {Pair(a, Bystander) : a \in SandboxRequests \cup GateRequests}
  \cup {Pair([Remembers(d) EXCEPT !.remember = r], Remembers(FALSE)) : d, r \in BOOLEAN}
  \cup {Pair(Signs, Signs)}

\* One command with a sandbox and --deny-network or agent mode.
DenyingScenarios ==
  {Pair(q, Bystander) : q \in {asked \in SandboxRequests : DenyNetwork(asked)}}
=============================================================================
