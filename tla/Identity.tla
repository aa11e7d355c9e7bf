------------------------------ MODULE Identity ------------------------------
(***************************************************************************)
(* Tokens, invitations and single sign-on (postgres_api.rs issue_token to  *)
(* sso_exchange, control_plane.rs, identity.rs).  A call is one HTTP       *)
(* request; its steps are the awaits at which other calls interleave and   *)
(* at which it can fail or be dropped with its connection.  A call issues  *)
(* at most one token and creates at most one invitation, so the random     *)
(* token of each is named by the call that drew it.                        *)
(***************************************************************************)
EXTENDS Naturals, FiniteSets

CONSTANTS Calls,           \* HTTP requests
          Bootstrap,       \* rows main.rs and the operator put into tokens
          Identities,      \* what the OIDC provider may assert: IdentityClaims
          Invitees,        \* email addresses invitations are made out to
          AskedRoles,      \* roles requests ask for, valid or not
          MaxClock,        \* bound on the clock
          InvitationTTL, IdentityTTL, ServiceTTL,
          CallFaults,      \* bound on failed or dropped awaits
          NoRow

Roles == {"reader", "publisher", "admin"}
Forever == 0               \* expires_at IS NULL

VARIABLES clock, tokens, invitations, members, mailed, audit, call, callFaults

idVars == <<clock, tokens, invitations, members, mailed, audit, call, callFaults>>

Orgs == {t.organization : t \in Bootstrap}

\* A row of the table invitations; by is the call that consumed it.
Invitation ==
  [organization : Orgs, email : Invitees, role : Roles, expires : Nat,
   status : {"pending", "accepted", "revoked"}, by : Calls \cup {NoRow}]

\* The operator's tokens are no call's, and no row is no organization and no
\* invitation.
ASSUME IdentityAssumption ==
  /\ {MaxClock, InvitationTTL, IdentityTTL, ServiceTTL, CallFaults} \subseteq Nat
  /\ MaxClock >= 1
  /\ \A t \in Bootstrap : /\ t.kind = "bootstrap" /\ t.expires = Forever
                          /\ t.role \in Roles /\ t.id \notin Calls
  /\ NoRow \notin Orgs /\ NoRow \notin Invitation

IdleCall == [pc |-> "idle", kind |-> "none", org |-> NoRow, role |-> NoRow,
             inv |-> NoRow, who |-> NoRow, reply |-> "none"]

IdTypeOK ==
  /\ clock \in 1..MaxClock
  /\ \A t \in tokens : /\ t.organization \in Orgs /\ t.role \in Roles
                       /\ t.kind \in {"bootstrap", "service", "oidc", "oidc-mfa"}
  /\ \A i \in Calls : invitations[i] # NoRow =>
        invitations[i].status \in {"pending", "accepted", "revoked"}
  /\ \A m \in members : m.organization \in Orgs /\ m.role \in Roles
  /\ mailed \in SUBSET Calls /\ callFaults \in 0..CallFaults
  /\ \A h \in Calls : call[h].reply \in {"none", "ok", "refused", "notfound", "error", "mailfailed"}

IdInit ==
  /\ clock = 1 /\ tokens = Bootstrap /\ members = {} /\ mailed = {} /\ audit = {}
  /\ invitations = [h \in Calls |-> NoRow]
  /\ call = [h \in Calls |-> IdleCall]
  /\ callFaults = 0

Goes(h, pc) == call' = [call EXCEPT ![h].pc = pc]
Reply(h, what) == call' = [call EXCEPT ![h].pc = "done", ![h].reply = what]
At(h, kind, pc) == call[h].kind = kind /\ call[h].pc = pc

\* control_plane authenticate: the row exists and has not expired.
Live(t) == t.expires = Forever \/ t.expires > clock

\* has_step_up_authentication: a second-factor method, or an acr component mfa.
HasStepUp(claims) ==
  \/ claims.amr \cap {"mfa", "otp", "hwk", "fido", "webauthn", "swk"} # {}
  \/ "mfa" \in claims.acr

\* Faulty: any principal of the organization may mint tokens and invitations.
BeginAdminAnyone(h, t, role, kind) ==
  /\ call[h] = IdleCall
  /\ call' = [call EXCEPT ![h] =
        IF role \in Roles
        THEN [@ EXCEPT !.pc = "insert", !.kind = kind, !.org = t.organization, !.role = role]
        ELSE [@ EXCEPT !.pc = "done", !.kind = kind, !.reply = "refused"]]

\* Faulty: the role the request asks for is not checked.
BeginAdminAnyRole(h, t, role, kind) ==
  /\ call[h] = IdleCall
  /\ call' = [call EXCEPT ![h] =
        IF t.role = "admin"
        THEN [@ EXCEPT !.pc = "insert", !.kind = kind, !.org = t.organization, !.role = role]
        ELSE [@ EXCEPT !.pc = "done", !.kind = kind, !.reply = "refused"]]

\* issue_token and create_invitation: an admin principal and a known role.
BeginAdmin(h, t, role, kind) ==
  /\ call[h] = IdleCall
  /\ call' = [call EXCEPT ![h] =
        IF t.role = "admin" /\ role \in Roles
        THEN [@ EXCEPT !.pc = "insert", !.kind = kind, !.org = t.organization, !.role = role]
        ELSE [@ EXCEPT !.pc = "done", !.kind = kind, !.reply = "refused"]]

NewToken(h, org, role, ttl, kind, who) ==
  [id |-> h, organization |-> org, role |-> role, expires |-> clock + ttl,
   kind |-> kind, who |-> who]

\* Faulty: the answer is sent without waiting for the event.
InsertTokenUnlogged(h) ==
  /\ At(h, "issue", "insert") /\ Reply(h, "ok")
  /\ tokens' = tokens \cup
       {NewToken(h, call[h].org, call[h].role, ServiceTTL, "service", NoRow)}
  /\ UNCHANGED <<invitations, members, mailed, audit>>

\* issue_token inserts a service token of the caller's organization.
InsertToken(h) ==
  /\ At(h, "issue", "insert") /\ Goes(h, "log")
  /\ tokens' = tokens \cup
       {NewToken(h, call[h].org, call[h].role, ServiceTTL, "service", NoRow)}
  /\ UNCHANGED <<invitations, members, mailed, audit>>

\* create_invitation stores the row before the mail is sent.
InsertInvitation(h) ==
  /\ At(h, "invite", "insert") /\ Goes(h, "mail")
  /\ \E email \in Invitees :
       invitations' = [invitations EXCEPT ![h] =
         [organization |-> call[h].org, email |-> email, role |-> call[h].role,
          expires |-> clock + InvitationTTL, status |-> "pending", by |-> NoRow]]
  /\ UNCHANGED <<tokens, members, mailed, audit>>

SendMail(h) ==
  /\ At(h, "invite", "mail") /\ Goes(h, "log")
  /\ mailed' = mailed \cup {h}
  /\ UNCHANGED <<tokens, invitations, members, audit>>

\* The provider reports an error: the mail may have left all the same.
MailFails(h) ==
  /\ At(h, "invite", "mail") /\ Goes(h, "unsend")
  /\ mailed' \in {mailed, mailed \cup {h}}
  /\ UNCHANGED <<tokens, invitations, members, audit>>

\* Faulty: an invitation that was accepted is revoked as well.
RevokedTooLate(i, org) ==
  IF invitations[i] # NoRow /\ invitations[i].organization = org
     /\ invitations[i].status # "revoked"
  THEN [invitations EXCEPT ![i].status = "revoked"]
  ELSE invitations

\* control_plane revoke_invitation: an open invitation of this organization.
Revoked(i, org) ==
  IF invitations[i] # NoRow /\ invitations[i].organization = org
     /\ invitations[i].status = "pending"
  THEN [invitations EXCEPT ![i].status = "revoked"]
  ELSE invitations

\* create_invitation takes the invitation back when its mail failed.
UnsendInvitation(h) ==
  /\ At(h, "invite", "unsend") /\ Reply(h, "mailfailed")
  /\ invitations' = Revoked(h, call[h].org)
  /\ UNCHANGED <<tokens, members, mailed, audit>>

BeginRevoke(h, t, i) ==
  /\ call[h] = IdleCall
  /\ call' = [call EXCEPT ![h] =
        IF t.role = "admin"
        THEN [@ EXCEPT !.pc = "update", !.kind = "revoke", !.org = t.organization, !.inv = i]
        ELSE [@ EXCEPT !.pc = "done", !.kind = "revoke", !.reply = "refused"]]

RevokeInvitation(h) ==
  /\ At(h, "revoke", "update")
  /\ invitations' = Revoked(call[h].inv, call[h].org)
  /\ IF invitations' # invitations THEN Goes(h, "log") ELSE Reply(h, "notfound")
  /\ UNCHANGED <<tokens, members, mailed, audit>>

\* accept_invitation and sso_exchange: verify takes what the provider signed.
BeginIdentity(h, claims, kind, i) ==
  /\ call[h] = IdleCall
  /\ call' = [call EXCEPT ![h] =
        IF kind = "accept" /\ ~claims.email_verified
        THEN [@ EXCEPT !.pc = "done", !.kind = kind, !.reply = "refused"]
        ELSE [@ EXCEPT !.pc = "update", !.kind = kind, !.who = claims, !.inv = i]]

\* control_plane accept_invitation: the row is locked, checked and consumed in
\* one transaction, and the membership is inserted or given the new role.
Open(i) == /\ invitations[i] # NoRow /\ invitations[i].status = "pending"
           /\ invitations[i].expires > clock

Enrolled(org, who, role) ==
  LET old == {m \in members : m.organization = org /\ m.sub = who.sub}
  IN (members \ old) \cup
     {[organization |-> org, sub |-> who.sub, role |-> role,
       created |-> IF old = {} THEN clock ELSE (CHOOSE m \in old : TRUE).created]}

AcceptInvitation(h) ==
  LET i == call[h].inv who == call[h].who IN
  /\ At(h, "accept", "update")
  /\ IF ~Open(i)
     THEN Reply(h, "notfound") /\ UNCHANGED <<invitations, members>>
     ELSE IF invitations[i].email # who.email
     THEN Reply(h, "error") /\ UNCHANGED <<invitations, members>>
     ELSE /\ members' = Enrolled(invitations[i].organization, who, invitations[i].role)
          /\ invitations' = [invitations EXCEPT ![i].status = "accepted", ![i].by = h]
          /\ call' = [call EXCEPT ![h].pc = "identity",
                        ![h].org = invitations[i].organization, ![h].role = invitations[i].role]
  /\ UNCHANGED <<tokens, mailed, audit>>

\* membership: the oldest membership of the subject; one of them on a tie.
Membership(h) ==
  LET mine == {m \in members : m.sub = call[h].who.sub} IN
  /\ At(h, "sso", "update")
  /\ IF mine = {} THEN Reply(h, "refused")
     ELSE \E m \in mine :
            /\ \A n \in mine : m.created <= n.created
            /\ call' = [call EXCEPT ![h].pc = "identity", ![h].org = m.organization,
                                    ![h].role = m.role]
  /\ UNCHANGED <<tokens, invitations, members, mailed, audit>>

\* issue_identity_token; sso_exchange answers here and logs no event.
IssueIdentityToken(h) ==
  /\ call[h].pc = "identity"
  /\ tokens' = tokens \cup
       {NewToken(h, call[h].org, call[h].role, IdentityTTL,
                 IF HasStepUp(call[h].who) THEN "oidc-mfa" ELSE "oidc", call[h].who)}
  /\ IF call[h].kind = "sso" THEN Reply(h, "ok") ELSE Goes(h, "log")
  /\ UNCHANGED <<invitations, members, mailed, audit>>

\* What append_event is given.  No token has a name of its own in its event,
\* and its expiry is computed anew; emails that differ in case are one.
EventOf(h) ==
  LET c == call[h] IN
  CASE c.kind = "issue"  -> <<"token.issued", c.org, c.role, clock + ServiceTTL>>
    [] c.kind = "invite" -> <<"invitation.created", c.org, invitations[h].email, c.role, invitations[h].expires>>
    [] c.kind = "revoke" -> <<"invitation.revoked", c.org, c.inv>>
    [] c.kind = "accept" -> <<"invitation.accepted", c.org, c.who.sub, c.who.email, c.role>>

\* append_event, after the mutation and in a transaction of its own.  The key
\* of an event is the hash of what it says: one that was said before is not
\* inserted again, and the call succeeds.
LogEvent(h) ==
  /\ call[h].pc = "log" /\ Reply(h, "ok")
  /\ audit' = audit \cup {EventOf(h)}
  /\ UNCHANGED <<tokens, invitations, members, mailed>>

\* Any other await fails or the connection, and the future with it, is dropped.
Abort(h) ==
  /\ call[h].pc \notin {"idle", "done"} /\ Reply(h, "error")
  /\ UNCHANGED <<tokens, invitations, members, mailed, audit>>

BeginAny(h) ==
  /\ \/ \E t \in tokens : Live(t) /\
          \/ \E role \in AskedRoles, kind \in {"issue", "invite"} : BeginAdmin(h, t, role, kind)
          \/ \E i \in {j \in Calls : invitations[j] # NoRow} : BeginRevoke(h, t, i)
     \/ \E claims \in Identities :
          \/ \E i \in mailed : BeginIdentity(h, claims, "accept", i)
          \/ BeginIdentity(h, claims, "sso", NoRow)
  /\ UNCHANGED <<tokens, invitations, members, mailed, audit>>

CallStep(h) ==
  \/ BeginAny(h) \/ InsertToken(h) \/ InsertInvitation(h) \/ SendMail(h)
  \/ UnsendInvitation(h) \/ RevokeInvitation(h) \/ AcceptInvitation(h)
  \/ Membership(h) \/ IssueIdentityToken(h) \/ LogEvent(h)

CallFault(h) ==
  /\ callFaults < CallFaults /\ callFaults' = callFaults + 1
  /\ MailFails(h) \/ Abort(h)

IdTick == clock < MaxClock /\ clock' = clock + 1
          /\ UNCHANGED <<tokens, invitations, members, mailed, audit, call, callFaults>>

IdNext ==
  \/ \E h \in Calls : CallStep(h) /\ UNCHANGED <<clock, callFaults>>
  \/ \E h \in Calls : CallFault(h) /\ UNCHANGED clock
  \/ IdTick

IdSpec == IdInit /\ [][IdNext]_idVars

---------------------------------------------------------------------------
\* An invitation ends one way: an accept that succeeded is never followed by a
\* revocation that succeeds, nor by a second accept, however calls interleave.
OneOutcome ==
  \A i \in Calls :
    LET took == {h \in Calls : call[h].kind = "accept" /\ call[h].inv = i
                               /\ (\E t \in tokens : t.id = h)}
        undid == {h \in Calls : call[h].kind = "revoke" /\ call[h].inv = i /\ call[h].reply = "ok"}
    IN Cardinality(took) + Cardinality(undid) <= 1

\* A creator told that the mail failed leaves no invitation that could still be
\* accepted, even when the mail was delivered all the same.
DeadAfterMailFailure ==
  \A h \in Calls : call[h].reply = "mailfailed" => ~Open(h)

\* An organization whose only credential is a reader token never gets a member,
\* an invitation, or a token that can do more: no call crosses organizations.
OutsiderPowerless ==
  \A o \in Orgs :
    (\A t \in Bootstrap : t.organization = o => t.role = "reader") =>
      /\ \A t \in tokens : t.organization = o => t \in Bootstrap
      /\ \A m \in members : m.organization # o
      /\ \A i \in Calls : invitations[i] # NoRow => invitations[i].organization # o

\* Step-up kinds, which release approval relies on, are carried only by tokens
\* of people whose sign-in used a second factor; service tokens never are.
StepUpGenuine ==
  \A t \in tokens : t.kind = "oidc-mfa" =>
    t.who.amr \cap {"mfa", "otp", "hwk", "fido", "webauthn", "swk"} # {} \/ "mfa" \in t.who.acr

\* The audit log tells of every service token, and of every invitation's
\* creation, acceptance and revocation, whose caller was told of success, with
\* the values of the row, and with an expiry no earlier than the token's: a
\* mutation it does not tell of is a call that has not answered or that
\* answered an error, or an invitation taken back as its mail failed.  Equal
\* mutations may share one event, and sign-ins have none.
Silent(h) == call[h].reply \in {"none", "error"}

EveryMutationTold ==
  /\ \A t \in tokens : t.kind = "service" /\ ~Silent(t.id) =>
       \E e \in audit : /\ e[1] = "token.issued" /\ e[2] = t.organization
                        /\ e[3] = t.role /\ t.expires <= e[4]
  /\ \A i \in Calls : invitations[i] # NoRow =>
       LET row == invitations[i] IN
       /\ \/ Silent(i) \/ call[i].reply = "mailfailed"
          \/ <<"invitation.created", row.organization, row.email, row.role, row.expires>> \in audit
       /\ row.status = "accepted" =>
            \/ Silent(row.by)
            \/ <<"invitation.accepted", row.organization, call[row.by].who.sub, row.email, row.role>> \in audit
       /\ row.status = "revoked" =>
            \/ <<"invitation.revoked", row.organization, i>> \in audit
            \/ call[i].kind = "invite" /\ call[i].reply = "mailfailed"
            \/ \E h \in Calls : call[h].kind = "revoke" /\ call[h].inv = i /\ Silent(h)

\* And it tells of nothing else: each event has the row it speaks of, an
\* acceptance its membership too.
EveryEventTrue ==
  \A e \in audit :
    /\ e[1] = "token.issued" =>
         \E t \in tokens : /\ t.kind = "service" /\ t.organization = e[2]
                           /\ t.role = e[3] /\ t.expires <= e[4]
    /\ e[1] = "invitation.created" =>
         \E i \in mailed : LET row == invitations[i] IN
           /\ row # NoRow /\ row.organization = e[2] /\ row.email = e[3]
           /\ row.role = e[4] /\ row.expires = e[5]
    /\ e[1] = "invitation.revoked" =>
         LET row == invitations[e[3]] IN
         row # NoRow /\ row.organization = e[2] /\ row.status = "revoked"
    /\ e[1] = "invitation.accepted" =>
         /\ \E m \in members : m.organization = e[2] /\ m.sub = e[3]
         /\ \E i \in Calls : LET row == invitations[i] IN
              /\ row # NoRow /\ row.status = "accepted" /\ row.organization = e[2]
              /\ row.email = e[4] /\ row.role = e[5]

\* The audit log is complete for whoever was told of success, and true
\* (append_event and append_event_keyed, which insert an equal event once).
MutationsLogged ==
  EveryMutationTold /\ EveryEventTrue

\* An invitation comes to one end, and the caller who is told of that end can
\* rely on it.
InvitationsEnd ==
  OneOutcome /\ DeadAfterMailFailure

\* No chain of tokens, invitations and sign-ins lifts anybody above what an
\* organization's own credentials or a second factor gave.
NoElevation ==
  OutsiderPowerless /\ StepUpGenuine
=============================================================================
