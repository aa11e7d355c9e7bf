----------------------------- MODULE MCRegistry -----------------------------
(* Instances of Registry and its readers for TLC.                           *)
EXTENDS RegistryReads, TLC

CONSTANTS r1, r2, o1, o2, pkg, mine, g1

Principal(o, role) == [organization |-> o, role |-> role, kind |-> "service"]
StepUp(o) == [organization |-> o, role |-> "admin", kind |-> "oidc-mfa"]

OneTag == {"latest"}
TwoVersions == 1..2
ThreeVersions == 1..3

\* One name anybody may claim, one scoped to the first organization.
Unscoped == [n \in Names |-> None]
ScopedToO1 == [n \in Names |-> IF n = mine THEN o1 ELSE None]

\* Publishers and administrators of two organizations.
TwoOrgPrincipals ==
    {Principal(o1, "publisher"), Principal(o2, "publisher"),
     Principal(o1, "admin"), StepUp(o1), StepUp(o2)}
OneOrgAdmin == {StepUp(o1)}
OwnerAndGuest == {StepUp(o1), Principal(o2, "publisher")}

RequestSymmetry == Permutations(Requests)
=============================================================================
