----------------------------- MODULE MCServices -----------------------------
(***************************************************************************)
(* The registry's services beside its control plane, and the commands that *)
(* publish to it, in one run.  They share no variable, so a behaviour is   *)
(* one part's, chosen in the initial state; the others keep one value.     *)
(***************************************************************************)
EXTENDS Identity, ArtifactStore, RateLimit, Billing, MerkleProofs, Publish, TLC

CONSTANTS oA, oB, ann, bob, bootA, bootB

VARIABLE part

ServiceParts == {"identity", "artifacts", "limits", "billing", "checkpoints", "publish"}

----------------------------------------------------------------------------
(* Identity: an administrator of one organization, a reader of the other.   *)
BootstrapToken(id, org, role) ==
  [id |-> id, organization |-> org, role |-> role, expires |-> 0,
   kind |-> "bootstrap", who |-> NoRow]
BootstrapTokens == {BootstrapToken(bootA, oA, "admin"), BootstrapToken(bootB, oB, "reader")}

\* Ann with a password and with a second factor, Bob with a one-time code,
\* and somebody who claims Ann's address without having proved it.
Claims(sub, email, verified, amr, acr) ==
  [sub |-> sub, email |-> email, email_verified |-> verified, amr |-> amr, acr |-> acr]
SignIns ==
  {Claims("s1", ann, TRUE, {"pwd"}, {}), Claims("s1", ann, TRUE, {"pwd"}, {"mfa"}),
   Claims("s2", bob, TRUE, {"pwd", "otp"}, {}), Claims("s3", ann, FALSE, {}, {})}

----------------------------------------------------------------------------
(* Publish: a package with a manifest and one source file.                  *)
PackageDirectories == {[pkg |-> 2, lib |-> 1]}

----------------------------------------------------------------------------
ServicesInit ==
  /\ part \in ServiceParts
  /\ IdInit /\ ArtifactInit /\ RateInit /\ BillingInit /\ CheckpointInit /\ PublishInit

ServicesNext ==
  /\ UNCHANGED part
  /\ IF part = "identity" THEN IdNext ELSE UNCHANGED idVars
  /\ IF part = "artifacts" THEN ArtifactNext ELSE UNCHANGED objVars
  /\ IF part = "limits" THEN RateNext ELSE UNCHANGED rlVars
  /\ IF part = "billing" THEN BillingNext ELSE UNCHANGED billVars
  /\ IF part = "checkpoints" THEN CheckpointNext ELSE UNCHANGED cpVars
  /\ IF part = "publish" THEN PublishNext ELSE UNCHANGED pubVars

servicesVars == <<part, idVars, objVars, rlVars, billVars, cpVars, pubVars>>

ServicesSpec == ServicesInit /\ [][ServicesNext]_servicesVars

(* The type invariants of the parts: every table row and every request is   *)
(* of a kind the handlers know.                                             *)
ServicesTypeOK ==
  /\ IdTypeOK /\ ArtifactTypeOK /\ RateTypeOK /\ BillingTypeOK
  /\ CheckpointTypeOK /\ PublishTypeOK

\* Requests, and commands, are interchangeable.
ServicesSymmetry == Permutations(Calls) \cup Permutations(Commands)
=============================================================================
