----------------------------- MODULE RateLimit -----------------------------
(***************************************************************************)
(* The registry's request limit (postgres_api.rs enforce_registry_rate_    *)
(* limit, control_plane.rs consume_rate_limit and the hourly pruning of    *)
(* main.rs): one counter row per subject and window of the clock, counted  *)
(* up by an upsert that is one statement.                                  *)
(***************************************************************************)
EXTENDS Naturals

CONSTANTS Subjects,      \* hashes of Authorization headers, "anonymous" too
          Window,        \* window_seconds, 60 in the code
          Maximum,       \* OATH_REGISTRY_REQUESTS_PER_MINUTE
          Retention,     \* age at which a row is pruned, 24 hours in the code
          MaxTime, MaxPerSecond   \* bounds of the model

ASSUME RateAssumption ==
  /\ {Window, Maximum, Retention, MaxTime, MaxPerSecond} \subseteq Nat \ {0}
  /\ Retention >= Window

VARIABLES rlNow,         \* the clock, in seconds
          counts,        \* registry_rate_limits: [Subjects -> [window starts -> Nat]]
          asked,         \* requests of the running second
          passed         \* history: [Subjects -> [windows -> requests let through]]

rlVars == <<rlNow, counts, asked, passed>>

Times == 0..MaxTime

RateTypeOK ==
  /\ rlNow \in Times /\ asked \in [Subjects -> 0..MaxPerSecond]
  /\ counts \in [Subjects -> [Times -> 0..(Window * MaxPerSecond)]]
  /\ passed \in [Subjects -> [Times -> 0..(Window * MaxPerSecond)]]

RateInit ==
  /\ rlNow = 0 /\ asked = [s \in Subjects |-> 0]
  /\ counts = [s \in Subjects |-> [t \in Times |-> 0]]
  /\ passed = [s \in Subjects |-> [t \in Times |-> 0]]

\* now - now.rem_euclid(window_seconds)
WindowStart == rlNow - (rlNow % Window)

\* The minute of the clock a request falls into, by its number.
ClockWindow == rlNow \div Window

\* Faulty: the request that reaches the maximum plus one passes.
WithinOffByOne(count) == count <= Maximum + 1

Within(count) == count <= Maximum

\* consume_rate_limit: count the request, refused or not, and compare.
Request(s) ==
  LET count == counts[s][WindowStart] + 1 IN
  /\ asked[s] < MaxPerSecond
  /\ asked' = [asked EXCEPT ![s] = @ + 1]
  /\ counts' = [counts EXCEPT ![s][WindowStart] = count]
  /\ passed' = IF Within(count) THEN [passed EXCEPT ![s][ClockWindow] = @ + 1] ELSE passed
  /\ UNCHANGED rlNow

\* prune_rate_limits_before(now - 24 h); an absent row counts from zero.
Prune ==
  /\ counts' = [s \in Subjects |-> [t \in Times |->
                  IF t + Retention < rlNow THEN 0 ELSE counts[s][t]]]
  /\ UNCHANGED <<rlNow, asked, passed>>

Second ==
  /\ rlNow < MaxTime /\ rlNow' = rlNow + 1
  /\ asked' = [s \in Subjects |-> 0]
  /\ UNCHANGED <<counts, passed>>

RateNext == (\E s \in Subjects : Request(s)) \/ Prune \/ Second

RateSpec == RateInit /\ [][RateNext]_rlVars

-----------------------------------------------------------------------------
\* No subject gets more than the maximum through in one window of the clock,
\* whatever the pruning deletes meanwhile and whoever else asks.  (So within
\* any stretch of a window's length, across a boundary, at most twice as many.)
WindowBound ==
  \A s \in Subjects, w \in Times : passed[s][w] <= Maximum
=============================================================================
