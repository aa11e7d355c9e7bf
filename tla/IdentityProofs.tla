--------------------------- MODULE IdentityProofs ---------------------------
(***************************************************************************)
(* Proofs about Identity, for any numbers of calls, organizations, people  *)
(* and invitations, any lifetimes and any number of failed awaits.         *)
(***************************************************************************)
EXTENDS Identity, FiniteSetTheorems, TLAPS

CallKinds == {"none", "issue", "invite", "revoke", "accept", "sso"}
Phases == {"idle", "insert", "mail", "unsend", "update", "identity", "log", "done"}
Replies == {"none", "ok", "refused", "notfound", "error", "mailfailed"}

CallRow ==
  [pc : Phases, kind : CallKinds, org : Orgs \cup {NoRow}, role : Roles \cup {NoRow},
   inv : Calls \cup {NoRow}, who : Identities \cup {NoRow}, reply : Replies]

IssuedToken ==
  [id : Calls, organization : Orgs, role : Roles, expires : Nat,
   kind : {"service", "oidc", "oidc-mfa"}, who : Identities \cup {NoRow}]

\* The shapes of the tables and of what a call holds.
TablesTyped ==
  /\ clock \in 1..MaxClock
  /\ tokens \subseteq Bootstrap \cup IssuedToken
  /\ invitations \in [Calls -> Invitation \cup {NoRow}]
  /\ \A m \in members : m.organization \in Orgs /\ m.role \in Roles
  /\ mailed \in SUBSET Calls
  /\ call \in [Calls -> CallRow]
  /\ callFaults \in 0..CallFaults

\* What a call has found out when it reaches a step.
CallHeld(c) ==
  /\ c.pc # "done" => c.reply = "none"
  /\ c.pc = "insert" => c.kind \in {"issue", "invite"} /\ c.org \in Orgs /\ c.role \in Roles
  /\ c.pc \in {"mail", "unsend"} => c.kind = "invite"
  /\ c.pc = "update" => /\ c.kind \in {"revoke", "accept", "sso"}
                        /\ c.kind # "sso" => c.inv \in Calls
  /\ c.pc = "identity" => c.kind \in {"accept", "sso"} /\ c.org \in Orgs /\ c.role \in Roles
  /\ c.pc = "log" => c.kind \in {"issue", "invite", "revoke", "accept"}
CallsHeld == \A h \in Calls : CallHeld(call[h])

HasToken(h) == \E t \in tokens : t.id = h

\* A call whose token is in the table went on to log it or has ended.
Settled(c) == c.pc = "log" \/ (c.pc = "done" /\ c.reply \in {"ok", "error"})
TokensHeld ==
  /\ \A t \in tokens : t.id \in Calls =>
        /\ Settled(call[t.id])
        /\ t.kind = "service" <=> call[t.id].kind = "issue"
        /\ t.kind = "service" =>
             /\ t.organization = call[t.id].org /\ t.role = call[t.id].role
             /\ t.expires <= clock + ServiceTTL
  /\ \A h \in Calls : call[h].pc = "log" =>
        /\ call[h].kind \in {"issue", "accept"} => HasToken(h)
        /\ call[h].kind = "issue" => \E t \in tokens : t.id = h /\ t.kind = "service"

\* An invitation knows the call that created it, the call that consumed it,
\* and that a call took it back.
InvitationsHeld ==
  \A i \in Calls : invitations[i] # NoRow =>
    /\ call[i].kind = "invite" /\ call[i].pc \notin {"idle", "insert"}
    /\ invitations[i].organization = call[i].org /\ invitations[i].role = call[i].role
    /\ call[i].reply \in {"none", "ok", "error", "mailfailed"}
    /\ call[i].reply = "mailfailed" => invitations[i].status # "pending"
    /\ invitations[i].status = "accepted" =>
         \E b \in Calls : /\ b = invitations[i].by /\ call[b].kind = "accept"
                          /\ call[b].pc = "identity" \/ Settled(call[b])
                          /\ invitations[i].organization = call[b].org
                          /\ invitations[i].role = call[b].role
                          /\ invitations[i].email = call[b].who.email
                          /\ \E m \in members : /\ m.organization = invitations[i].organization
                                                /\ m.sub = call[b].who.sub
    /\ invitations[i].status = "revoked" =>
         \/ call[i].reply = "mailfailed"
         \/ \E h \in Calls : /\ call[h].kind = "revoke" /\ call[h].inv = i /\ Settled(call[h])

\* A call that accepted is the one its invitation names.
AcceptsHeld ==
  \A h \in Calls : call[h].kind = "accept" /\ (call[h].pc \in {"identity", "log"} \/ HasToken(h)) =>
    \E i \in Calls : /\ i = call[h].inv /\ invitations[i] # NoRow
                     /\ invitations[i].status = "accepted" /\ invitations[i].by = h

\* A revocation that succeeded is the only one of its invitation.
DidRevoke(c) == c.kind = "revoke" /\ (c.pc = "log" \/ c.reply = "ok")
RevokesHeld ==
  /\ \A h \in Calls : DidRevoke(call[h]) =>
       \E i \in Calls : /\ i = call[h].inv /\ invitations[i] # NoRow
                        /\ invitations[i].status = "revoked"
                        /\ invitations[i].organization = call[h].org
  /\ \A h, g \in Calls : DidRevoke(call[h]) /\ DidRevoke(call[g]) /\ call[h].inv = call[g].inv
                           => h = g

\* The log tells of a call, with the values of what it wrote.
Told(h) ==
  /\ call[h].kind = "issue" => \E e \in audit :
       /\ e[1] = "token.issued" /\ e[2] = call[h].org /\ e[3] = call[h].role
       /\ \A t \in tokens : t.id = h => t.expires <= e[4]
  /\ call[h].kind = "invite" =>
       /\ invitations[h] # NoRow
       /\ <<"invitation.created", call[h].org, invitations[h].email, call[h].role,
            invitations[h].expires>> \in audit
  /\ call[h].kind = "revoke" => <<"invitation.revoked", call[h].org, call[h].inv>> \in audit
  /\ call[h].kind = "accept" =>
       <<"invitation.accepted", call[h].org, call[h].who.sub, call[h].who.email,
         call[h].role>> \in audit

\* An event is true of the tables, and a call that answered ok is told of.
AuditHeld ==
  /\ EveryEventTrue
  /\ \A e \in audit : e[1] = "invitation.revoked" => e[3] \in Calls
  /\ \A h \in Calls : call[h].reply = "ok" => Told(h)
  /\ \A h \in Calls : call[h].kind = "invite" /\ call[h].pc = "log" =>
        h \in mailed /\ invitations[h] # NoRow
  /\ \A h \in Calls : call[h].kind = "invite" /\ call[h].pc \in {"mail", "unsend"} =>
        invitations[h] # NoRow

\* No call acts for an organization that only has reader tokens.
OutsidersIdle ==
  \A o \in Orgs : (\A t \in Bootstrap : t.organization = o => t.role = "reader") =>
    \A h \in Calls : call[h].org # o

IdInv ==
  /\ TablesTyped /\ CallsHeld /\ TokensHeld /\ InvitationsHeld /\ AcceptsHeld
  /\ RevokesHeld /\ AuditHeld /\ OutsidersIdle /\ OutsiderPowerless /\ StepUpGenuine

-----------------------------------------------------------------------------
\* What Goes and Reply do to the calls.
LEMMA GoesCall ==
  ASSUME TablesTyped, NEW h \in Calls, NEW pc \in Phases, Goes(h, pc)
  PROVE  /\ call' \in [Calls -> CallRow]
         /\ \A x \in Calls : x # h => call'[x] = call[x]
         /\ call'[h].pc = pc /\ call'[h].kind = call[h].kind /\ call'[h].org = call[h].org
         /\ call'[h].role = call[h].role /\ call'[h].inv = call[h].inv
         /\ call'[h].who = call[h].who /\ call'[h].reply = call[h].reply
  BY DEF TablesTyped, CallRow, Goes

LEMMA ReplyCall ==
  ASSUME TablesTyped, NEW h \in Calls, NEW what \in Replies, Reply(h, what)
  PROVE  /\ call' \in [Calls -> CallRow]
         /\ \A x \in Calls : x # h => call'[x] = call[x]
         /\ call'[h].pc = "done" /\ call'[h].kind = call[h].kind /\ call'[h].org = call[h].org
         /\ call'[h].role = call[h].role /\ call'[h].inv = call[h].inv
         /\ call'[h].who = call[h].who /\ call'[h].reply = what
  <1> DEFINE c == [call[h] EXCEPT !.pc = "done", !.reply = what]
  <1>1. call[h] \in CallRow
    BY DEF TablesTyped
  <1>2. /\ c \in CallRow /\ c.pc = "done" /\ c.reply = what /\ c.kind = call[h].kind
        /\ c.org = call[h].org /\ c.role = call[h].role /\ c.inv = call[h].inv
        /\ c.who = call[h].who
    BY <1>1 DEF CallRow, Phases
  <1>3. call' = [call EXCEPT ![h] = c]
    BY DEF Reply, TablesTyped
  <1> HIDE DEF c
  <1>4. call' \in [Calls -> CallRow] /\ call'[h] = c /\ \A x \in Calls : x # h => call'[x] = call[x]
    BY <1>2, <1>3 DEF TablesTyped
  <1> QED
    BY <1>2, <1>4

-----------------------------------------------------------------------------
\* No table forgets a row, nor an invitation what it was made out to; one that
\* is not pending stays as it is.
TablesGrow ==
  /\ tokens \subseteq tokens' /\ mailed \subseteq mailed' /\ audit \subseteq audit'
  /\ \A i \in Calls : invitations[i] # NoRow =>
       /\ invitations'[i] # NoRow
       /\ invitations'[i].organization = invitations[i].organization
       /\ invitations'[i].email = invitations[i].email
       /\ invitations'[i].role = invitations[i].role
       /\ invitations'[i].expires = invitations[i].expires
       /\ invitations[i].status # "pending" => invitations'[i].status = invitations[i].status
  /\ \A m \in members : \E n \in members' : n.organization = m.organization /\ n.sub = m.sub

\* What the log tells stays true.
LEMMA EventsStay ==
  ASSUME TablesTyped, AuditHeld, TablesGrow
  PROVE  \A e \in audit :
    /\ e[1] = "token.issued" =>
         \E t \in tokens' : /\ t.kind = "service" /\ t.organization = e[2]
                            /\ t.role = e[3] /\ t.expires <= e[4]
    /\ e[1] = "invitation.created" =>
         \E i \in mailed' : LET row == invitations'[i] IN
           /\ row # NoRow /\ row.organization = e[2] /\ row.email = e[3]
           /\ row.role = e[4] /\ row.expires = e[5]
    /\ e[1] = "invitation.revoked" =>
         LET row == invitations'[e[3]] IN
         row # NoRow /\ row.organization = e[2] /\ row.status = "revoked"
    /\ e[1] = "invitation.accepted" =>
         /\ \E m \in members' : m.organization = e[2] /\ m.sub = e[3]
         /\ \E i \in Calls : LET row == invitations'[i] IN
              /\ row # NoRow /\ row.status = "accepted" /\ row.organization = e[2]
              /\ row.email = e[4] /\ row.role = e[5]
  <1> TAKE e \in audit
  <1>1. ASSUME e[1] = "token.issued"
        PROVE  \E t \in tokens' : /\ t.kind = "service" /\ t.organization = e[2]
                                  /\ t.role = e[3] /\ t.expires <= e[4]
    BY <1>1 DEF AuditHeld, EveryEventTrue, TablesGrow
  <1>2. ASSUME e[1] = "invitation.created"
        PROVE  \E i \in mailed' : LET row == invitations'[i] IN
                 /\ row # NoRow /\ row.organization = e[2] /\ row.email = e[3]
                 /\ row.role = e[4] /\ row.expires = e[5]
    <2>1. PICK i \in mailed : LET row == invitations[i] IN
                 /\ row # NoRow /\ row.organization = e[2] /\ row.email = e[3]
                 /\ row.role = e[4] /\ row.expires = e[5]
      BY <1>2 DEF AuditHeld, EveryEventTrue
    <2> QED
      BY <2>1 DEF TablesGrow, TablesTyped
  <1>3. ASSUME e[1] = "invitation.revoked"
        PROVE  LET row == invitations'[e[3]] IN
               row # NoRow /\ row.organization = e[2] /\ row.status = "revoked"
    <2>1. PICK i \in Calls : /\ i = e[3] /\ invitations[i] # NoRow
                             /\ invitations[i].organization = e[2] /\ invitations[i].status = "revoked"
      BY <1>3 DEF AuditHeld, EveryEventTrue
    <2>2. /\ invitations'[i] # NoRow /\ invitations'[i].organization = e[2]
          /\ invitations'[i].status = "revoked"
      BY <2>1 DEF TablesGrow
    <2> QED
      BY <2>1, <2>2
  <1>4. ASSUME e[1] = "invitation.accepted"
        PROVE  /\ \E m \in members' : m.organization = e[2] /\ m.sub = e[3]
               /\ \E i \in Calls : LET row == invitations'[i] IN
                    /\ row # NoRow /\ row.status = "accepted" /\ row.organization = e[2]
                    /\ row.email = e[4] /\ row.role = e[5]
    <2>1. PICK m \in members : m.organization = e[2] /\ m.sub = e[3]
      BY <1>4 DEF AuditHeld, EveryEventTrue
    <2>2. PICK i \in Calls : LET row == invitations[i] IN
                    /\ row # NoRow /\ row.status = "accepted" /\ row.organization = e[2]
                    /\ row.email = e[4] /\ row.role = e[5]
      BY <1>4 DEF AuditHeld, EveryEventTrue
    <2>3. \E n \in members' : n.organization = e[2] /\ n.sub = e[3]
      BY <2>1 DEF TablesGrow
    <2>4. LET row == invitations'[i] IN
            /\ row # NoRow /\ row.status = "accepted" /\ row.organization = e[2]
            /\ row.email = e[4] /\ row.role = e[5]
      BY <2>2 DEF TablesGrow
    <2> QED
      BY <2>3, <2>4
  <1> QED
    BY <1>1, <1>2, <1>3, <1>4

\* A call that was told of and does nothing stays told of.
LEMMA ToldStays ==
  ASSUME TablesGrow, NEW x \in Calls, Told(x), call'[x] = call[x],
         \A t \in tokens' : t.id = x => t \in tokens
  PROVE  Told(x)'
  <1>1. ASSUME call[x].kind = "issue"
        PROVE  \E e \in audit' : /\ e[1] = "token.issued" /\ e[2] = call'[x].org /\ e[3] = call'[x].role
                                 /\ \A t \in tokens' : t.id = x => t.expires <= e[4]
    BY <1>1 DEF Told, TablesGrow
  <1>2. ASSUME call[x].kind = "invite"
        PROVE  /\ invitations'[x] # NoRow
               /\ <<"invitation.created", call'[x].org, invitations'[x].email, call'[x].role,
                    invitations'[x].expires>> \in audit'
    BY <1>2 DEF Told, TablesGrow
  <1>3. ASSUME call[x].kind = "revoke"
        PROVE  <<"invitation.revoked", call'[x].org, call'[x].inv>> \in audit'
    BY <1>3 DEF Told, TablesGrow
  <1>4. ASSUME call[x].kind = "accept"
        PROVE  <<"invitation.accepted", call'[x].org, call'[x].who.sub, call'[x].who.email,
                 call'[x].role>> \in audit'
    BY <1>4 DEF Told, TablesGrow
  <1> QED
    BY <1>1, <1>2, <1>3, <1>4 DEF Told

\* A step of one call that logs nothing leaves the log right.
LEMMA AuditStays ==
  ASSUME TablesTyped, AuditHeld, TablesGrow, UNCHANGED audit, NEW h \in Calls,
         \A x \in Calls : x # h => call'[x] = call[x],
         \A t \in tokens' \ tokens : t.id = h,
         call'[h].reply = "ok" => call'[h] = call[h] \/ call'[h].kind = "sso",
         call'[h].reply = "ok" /\ call'[h] = call[h] => tokens' = tokens,
         call'[h].kind = "invite" /\ call'[h].pc = "log" => h \in mailed' /\ invitations'[h] # NoRow,
         call'[h].kind = "invite" /\ call'[h].pc \in {"mail", "unsend"} => invitations'[h] # NoRow
  PROVE  AuditHeld'
  <1>1. EveryEventTrue'
    BY EventsStay DEF EveryEventTrue
  <1>2. \A e \in audit' : e[1] = "invitation.revoked" => e[3] \in Calls
    BY DEF AuditHeld
  <1>3. ASSUME NEW x \in Calls, call'[x].reply = "ok"
        PROVE  Told(x)'
    <2>1. CASE call'[x] = call[x]
      <3>1. Told(x) /\ \A t \in tokens' : t.id = x => t \in tokens
        BY <1>3, <2>1 DEF AuditHeld
      <3> QED
        BY <2>1, <3>1, ToldStays
    <2>2. CASE call'[x] # call[x]
      <3>1. call'[x].kind = "sso"
        BY <1>3, <2>2
      <3> QED
        BY <3>1 DEF Told
    <2> QED
      BY <2>1, <2>2
  <1>4. ASSUME NEW x \in Calls, call'[x].kind = "invite"
        PROVE  /\ call'[x].pc = "log" => x \in mailed' /\ invitations'[x] # NoRow
               /\ call'[x].pc \in {"mail", "unsend"} => invitations'[x] # NoRow
    BY <1>4 DEF AuditHeld, TablesGrow
  <1> QED
    BY <1>1, <1>2, <1>3, <1>4 DEF AuditHeld

-----------------------------------------------------------------------------
\* A call that has begun: refused at once, or about to read or write a table.
LEMMA BeginKeeps ==
  ASSUME IdInv, NEW h \in Calls, call[h] = IdleCall, NEW c \in CallRow, CallHeld(c),
         call' = [call EXCEPT ![h] = c],
         c.pc \in {"insert", "update"} \/ (c.pc = "done" /\ c.reply = "refused"),
         \A o \in Orgs : (\A t \in Bootstrap : t.organization = o => t.role = "reader") => c.org # o,
         UNCHANGED <<clock, tokens, invitations, members, mailed, audit, callFaults>>
  PROVE  IdInv'
  <1> USE DEF IdInv
  <1>1. /\ call[h].pc = "idle" /\ call[h].kind = "none"
        /\ call' \in [Calls -> CallRow] /\ call'[h] = c
        /\ \A x \in Calls : x # h => call'[x] = call[x]
    BY DEF IdleCall, TablesTyped
  <1>2. TablesTyped'
    BY <1>1 DEF TablesTyped
  <1>3. CallsHeld'
    BY <1>1 DEF CallsHeld, CallHeld
  <1>4. ~ HasToken(h) /\ invitations[h] = NoRow
    BY <1>1 DEF TokensHeld, InvitationsHeld, HasToken, Settled
  <1>5. TokensHeld'
    BY <1>1, <1>4 DEF TokensHeld, HasToken, Settled
  <1>6. InvitationsHeld'
    BY <1>1, <1>4 DEF InvitationsHeld, Settled
  <1>7. AcceptsHeld'
    BY <1>1, <1>4 DEF AcceptsHeld, HasToken
  <1>8. RevokesHeld'
    <2>1. ~ DidRevoke(c) /\ ~ DidRevoke(call[h])
      BY <1>1 DEF DidRevoke, CallHeld
    <2> QED
      BY <1>1, <2>1 DEF RevokesHeld, DidRevoke
  <1>9. AuditHeld'
    <2>1. c.reply # "ok" /\ c.pc \notin {"log", "mail", "unsend"}
      BY DEF CallHeld
    <2>2. TablesGrow
      BY DEF TablesGrow
    <2> QED
      BY <1>1, <2>1, <2>2, AuditStays
  <1>10. OutsidersIdle'
    BY <1>1 DEF OutsidersIdle
  <1>11. OutsiderPowerless' /\ StepUpGenuine'
    BY DEF OutsiderPowerless, StepUpGenuine
  <1> QED
    BY <1>2, <1>3, <1>5, <1>6, <1>7, <1>8, <1>9, <1>10, <1>11

\* Every way to begin a call.
LEMMA BeginAnyKeeps ==
  ASSUME IdInv, NEW h \in Calls, BeginAny(h), UNCHANGED <<clock, callFaults>>
  PROVE  IdInv'
  <1> USE DEF IdInv
  <1>1. UNCHANGED <<tokens, invitations, members, mailed, audit>>
    BY DEF BeginAny
  <1> DEFINE Outsider(o) == \A t \in Bootstrap : t.organization = o => t.role = "reader"
  <1>2. ASSUME NEW t \in tokens, NEW role \in AskedRoles, NEW kind \in {"issue", "invite"},
               BeginAdmin(h, t, role, kind)
        PROVE  IdInv'
    <2> DEFINE c == IF t.role = "admin" /\ role \in Roles
                    THEN [IdleCall EXCEPT !.pc = "insert", !.kind = kind, !.org = t.organization, !.role = role]
                    ELSE [IdleCall EXCEPT !.pc = "done", !.kind = kind, !.reply = "refused"]
    <2>1. call[h] = IdleCall /\ call' = [call EXCEPT ![h] = c]
      BY <1>2 DEF BeginAdmin, TablesTyped
    <2>2. t.organization \in Orgs
      BY DEF TablesTyped, IssuedToken, Orgs
    <2>3. CASE t.role = "admin" /\ role \in Roles
      <3>1. c = [pc |-> "insert", kind |-> kind, org |-> t.organization, role |-> role,
                 inv |-> NoRow, who |-> NoRow, reply |-> "none"]
        BY <2>3 DEF IdleCall
      <3>2. ASSUME NEW o \in Orgs, Outsider(o) PROVE t.organization # o
        BY <2>3, <3>2 DEF OutsiderPowerless
      <3> HIDE DEF c
      <3>3. c \in CallRow /\ CallHeld(c)
        BY <2>2, <2>3, <3>1 DEF CallRow, CallHeld, Phases, CallKinds, Replies
      <3>4. c.org = t.organization /\ c.pc = "insert"
        BY <3>1
      <3> QED
        BY <1>1, <2>1, <3>2, <3>3, <3>4, BeginKeeps
    <2>4. CASE ~ (t.role = "admin" /\ role \in Roles)
      <3>1. c = [pc |-> "done", kind |-> kind, org |-> NoRow, role |-> NoRow,
                 inv |-> NoRow, who |-> NoRow, reply |-> "refused"]
        BY <2>4 DEF IdleCall
      <3> HIDE DEF c
      <3>2. c \in CallRow /\ CallHeld(c)
        BY <3>1 DEF CallRow, CallHeld, Phases, CallKinds, Replies
      <3>3. c.org = NoRow /\ c.pc = "done" /\ c.reply = "refused"
        BY <3>1
      <3> QED
        BY <1>1, <2>1, <3>2, <3>3, BeginKeeps, IdentityAssumption
    <2> QED
      BY <2>3, <2>4
  <1>3. ASSUME NEW t \in tokens, NEW i \in Calls, BeginRevoke(h, t, i)
        PROVE  IdInv'
    <2> DEFINE c == IF t.role = "admin"
                    THEN [IdleCall EXCEPT !.pc = "update", !.kind = "revoke", !.org = t.organization, !.inv = i]
                    ELSE [IdleCall EXCEPT !.pc = "done", !.kind = "revoke", !.reply = "refused"]
    <2>1. call[h] = IdleCall /\ call' = [call EXCEPT ![h] = c]
      BY <1>3 DEF BeginRevoke, TablesTyped
    <2>2. t.organization \in Orgs
      BY DEF TablesTyped, IssuedToken, Orgs
    <2>3. CASE t.role = "admin"
      <3>1. c = [pc |-> "update", kind |-> "revoke", org |-> t.organization, role |-> NoRow,
                 inv |-> i, who |-> NoRow, reply |-> "none"]
        BY <2>3 DEF IdleCall
      <3>2. ASSUME NEW o \in Orgs, Outsider(o) PROVE t.organization # o
        BY <2>3, <3>2 DEF OutsiderPowerless
      <3> HIDE DEF c
      <3>3. c \in CallRow /\ CallHeld(c)
        BY <2>2, <3>1 DEF CallRow, CallHeld, Phases, CallKinds, Replies
      <3>4. c.org = t.organization /\ c.pc = "update"
        BY <3>1
      <3> QED
        BY <1>1, <2>1, <3>2, <3>3, <3>4, BeginKeeps
    <2>4. CASE t.role # "admin"
      <3>1. c = [pc |-> "done", kind |-> "revoke", org |-> NoRow, role |-> NoRow,
                 inv |-> NoRow, who |-> NoRow, reply |-> "refused"]
        BY <2>4 DEF IdleCall
      <3> HIDE DEF c
      <3>2. c \in CallRow /\ CallHeld(c)
        BY <3>1 DEF CallRow, CallHeld, Phases, CallKinds, Replies
      <3>3. c.org = NoRow /\ c.pc = "done" /\ c.reply = "refused"
        BY <3>1
      <3> QED
        BY <1>1, <2>1, <3>2, <3>3, BeginKeeps, IdentityAssumption
    <2> QED
      BY <2>3, <2>4
  <1>4. ASSUME NEW who \in Identities, NEW kind \in {"accept", "sso"}, NEW i \in Calls \cup {NoRow},
               kind = "accept" => i \in Calls, BeginIdentity(h, who, kind, i)
        PROVE  IdInv'
    <2> DEFINE c == IF kind = "accept" /\ ~who.email_verified
                    THEN [IdleCall EXCEPT !.pc = "done", !.kind = kind, !.reply = "refused"]
                    ELSE [IdleCall EXCEPT !.pc = "update", !.kind = kind, !.who = who, !.inv = i]
    <2>1. call[h] = IdleCall /\ call' = [call EXCEPT ![h] = c]
      BY <1>4 DEF BeginIdentity, TablesTyped
    <2>2. c \in {[pc |-> "done", kind |-> kind, org |-> NoRow, role |-> NoRow,
                  inv |-> NoRow, who |-> NoRow, reply |-> "refused"],
                 [pc |-> "update", kind |-> kind, org |-> NoRow, role |-> NoRow,
                  inv |-> i, who |-> who, reply |-> "none"]}
      BY DEF IdleCall
    <2> HIDE DEF c
    <2>3. c \in CallRow /\ CallHeld(c)
      BY <1>4, <2>2 DEF CallRow, CallHeld, Phases, CallKinds, Replies
    <2>4. c.org = NoRow /\ (c.pc = "update" \/ (c.pc = "done" /\ c.reply = "refused"))
      BY <2>2
    <2> QED
      BY <1>1, <2>1, <2>3, <2>4, BeginKeeps, IdentityAssumption
  <1>5. \A i \in mailed : i \in Calls
    BY DEF TablesTyped
  <1> QED
    BY <1>2, <1>3, <1>4, <1>5 DEF BeginAny

-----------------------------------------------------------------------------
\* A token a call adds belongs to no other call.
LEMMA NewTokenTyped ==
  ASSUME TablesTyped, NEW h \in Calls, NEW org \in Orgs, NEW role \in Roles, NEW ttl \in Nat,
         NEW kind \in {"service", "oidc", "oidc-mfa"}, NEW who \in Identities \cup {NoRow},
         NEW t, t = NewToken(h, org, role, ttl, kind, who)
  PROVE  /\ t \in IssuedToken /\ t.id = h /\ t.organization = org /\ t.kind = kind /\ t.who = who
         /\ t.role = role /\ t.expires = clock + ttl /\ t \notin Bootstrap
  <1>1. clock \in Nat /\ clock + ttl \in Nat
    BY IdentityAssumption DEF TablesTyped
  <1>2. /\ t \in IssuedToken /\ t.id = h /\ t.organization = org /\ t.kind = kind /\ t.who = who
        /\ t.role = role /\ t.expires = clock + ttl
    BY <1>1 DEF NewToken, IssuedToken
  <1> QED
    BY <1>2, IdentityAssumption

\* issue_token and issue_identity_token: the token is inserted before the call
\* logs it or answers.
LEMMA TokenKeeps ==
  ASSUME IdInv, NEW h \in Calls, NEW t \in IssuedToken, t \notin Bootstrap, t.id = h,
         t.organization = call[h].org, t.kind = "service" <=> call[h].kind = "issue",
         t.kind = "service" => t.role = call[h].role /\ t.expires <= clock + ServiceTTL,
         t.kind = "oidc-mfa" => HasStepUp(t.who),
         call[h].pc \in {"insert", "identity"}, call[h].kind \in {"issue", "accept", "sso"},
         tokens' = tokens \cup {t},
         IF call[h].kind = "sso" THEN Reply(h, "ok") ELSE Goes(h, "log"),
         call[h].kind = "accept" => call[h].pc = "identity",
         UNCHANGED <<clock, invitations, members, mailed, audit, callFaults>>
  PROVE  IdInv'
  <1> USE DEF IdInv
  <1>1. /\ call' \in [Calls -> CallRow]
        /\ \A x \in Calls : x # h => call'[x] = call[x]
        /\ call'[h].kind = call[h].kind /\ call'[h].org = call[h].org
        /\ call'[h].role = call[h].role /\ call'[h].inv = call[h].inv
        /\ call'[h].who = call[h].who
        /\ IF call[h].kind = "sso" THEN call'[h].pc = "done" /\ call'[h].reply = "ok"
           ELSE call'[h].pc = "log" /\ call'[h].reply = "none"
    <2>1. call[h].reply = "none"
      BY DEF CallsHeld, CallHeld
    <2>2. CASE call[h].kind = "sso"
      BY <2>2, ReplyCall DEF Replies
    <2>3. CASE call[h].kind # "sso"
      BY <2>1, <2>3, GoesCall DEF Phases
    <2> QED
      BY <2>2, <2>3
  <1>2. TablesTyped'
    BY <1>1 DEF TablesTyped
  <1>3. CallsHeld'
    BY <1>1 DEF CallsHeld, CallHeld
  <1>4. \A x \in Calls : HasToken(x)' <=> HasToken(x) \/ x = h
    BY DEF HasToken
  <1>5. ~ HasToken(h) /\ invitations[h] = NoRow
    BY DEF TokensHeld, InvitationsHeld, HasToken, Settled
  <1>6. TokensHeld'
    <2>1. ASSUME NEW u \in tokens', u.id \in Calls
          PROVE  /\ Settled(call'[u.id])
                 /\ u.kind = "service" <=> call'[u.id].kind = "issue"
                 /\ u.kind = "service" =>
                      /\ u.organization = call'[u.id].org
                      /\ u.role = call'[u.id].role /\ u.expires <= clock' + ServiceTTL
      <3>1. CASE u = t
        BY <1>1, <3>1 DEF Settled
      <3>2. CASE u # t
        <4>1. u \in tokens /\ u.id # h
          BY <1>5, <3>2 DEF HasToken
        <4> QED
          BY <1>1, <2>1, <4>1 DEF TokensHeld
      <3> QED
        BY <3>1, <3>2
    <2>2. ASSUME NEW x \in Calls, call'[x].pc = "log"
          PROVE  /\ call'[x].kind \in {"issue", "accept"} => HasToken(x)'
                 /\ call'[x].kind = "issue" => \E u \in tokens' : u.id = x /\ u.kind = "service"
      <3>1. CASE x = h
        BY <1>1, <1>4, <3>1
      <3>2. CASE x # h
        BY <1>1, <1>4, <2>2, <3>2 DEF TokensHeld
      <3> QED
        BY <3>1, <3>2
    <2> QED
      BY <2>1, <2>2 DEF TokensHeld
  <1>7. InvitationsHeld'
    BY <1>1, <1>5 DEF InvitationsHeld, Settled
  <1>8. AcceptsHeld'
    BY <1>1, <1>4 DEF AcceptsHeld
  <1>9. RevokesHeld'
    BY <1>1 DEF RevokesHeld, DidRevoke
  <1>10. AuditHeld'
    <2>1. TablesGrow
      BY DEF TablesGrow
    <2>2. call'[h].kind # "invite" /\ (call'[h].reply = "ok" => call'[h].kind = "sso")
      BY <1>1
    <2>3. \A u \in tokens' \ tokens : u.id = h
      OBVIOUS
    <2>4. call'[h].reply = "ok" => call[h].reply # "ok"
      BY DEF CallsHeld, CallHeld
    <2> QED
      BY <1>1, <2>1, <2>2, <2>3, <2>4, AuditStays
  <1>11. OutsidersIdle' /\ OutsiderPowerless'
    BY <1>1 DEF OutsidersIdle, OutsiderPowerless
  <1>12. StepUpGenuine'
    BY DEF StepUpGenuine, HasStepUp
  <1> QED
    BY <1>2, <1>3, <1>6, <1>7, <1>8, <1>9, <1>10, <1>11, <1>12

LEMMA InsertTokenKeeps ==
  ASSUME IdInv, NEW h \in Calls, InsertToken(h), UNCHANGED <<clock, callFaults>>
  PROVE  IdInv'
  <1>1. PICK t : t = NewToken(h, call[h].org, call[h].role, ServiceTTL, "service", NoRow)
    OBVIOUS
  <1>2. /\ call[h].pc = "insert" /\ call[h].kind = "issue"
        /\ call[h].org \in Orgs /\ call[h].role \in Roles
    BY DEF InsertToken, At, IdInv, CallsHeld, CallHeld
  <1>3. /\ t \in IssuedToken /\ t.id = h /\ t.organization = call[h].org /\ t.kind = "service"
        /\ t.role = call[h].role /\ t.expires = clock + ServiceTTL /\ t \notin Bootstrap
    BY <1>1, <1>2, NewTokenTyped, IdentityAssumption DEF IdInv
  <1>4. /\ tokens' = tokens \cup {t} /\ Goes(h, "log")
        /\ UNCHANGED <<invitations, members, mailed, audit>>
    BY <1>1 DEF InsertToken
  <1>5. t.expires <= clock + ServiceTTL
    BY <1>3, IdentityAssumption DEF IdInv, TablesTyped
  <1> QED
    BY <1>2, <1>3, <1>4, <1>5, TokenKeeps

LEMMA IssueIdentityTokenKeeps ==
  ASSUME IdInv, NEW h \in Calls, IssueIdentityToken(h), UNCHANGED <<clock, callFaults>>
  PROVE  IdInv'
  <1>1. PICK k : k = IF HasStepUp(call[h].who) THEN "oidc-mfa" ELSE "oidc"
    OBVIOUS
  <1>2. PICK t : t = NewToken(h, call[h].org, call[h].role, IdentityTTL, k, call[h].who)
    OBVIOUS
  <1>3. /\ call[h].pc = "identity" /\ call[h].kind \in {"accept", "sso"}
        /\ call[h].org \in Orgs /\ call[h].role \in Roles
    BY DEF IssueIdentityToken, IdInv, CallsHeld, CallHeld
  <1>4. call[h].who \in Identities \cup {NoRow}
    BY DEF IdInv, TablesTyped, CallRow
  <1>5. /\ t \in IssuedToken /\ t.id = h /\ t.organization = call[h].org /\ t.kind = k
        /\ t.who = call[h].who /\ t \notin Bootstrap
    BY <1>1, <1>2, <1>3, <1>4, NewTokenTyped, IdentityAssumption DEF IdInv
  <1>6. /\ tokens' = tokens \cup {t}
        /\ IF call[h].kind = "sso" THEN Reply(h, "ok") ELSE Goes(h, "log")
        /\ UNCHANGED <<invitations, members, mailed, audit>>
    BY <1>1, <1>2 DEF IssueIdentityToken
  <1>7. t.kind = "oidc-mfa" => HasStepUp(t.who)
    BY <1>1, <1>5 DEF HasStepUp
  <1> QED
    BY <1>1, <1>3, <1>5, <1>6, <1>7, TokenKeeps

-----------------------------------------------------------------------------
\* create_invitation stores the row under the caller's organization.
LEMMA InsertInvitationKeeps ==
  ASSUME IdInv, NEW h \in Calls, InsertInvitation(h), UNCHANGED <<clock, callFaults>>
  PROVE  IdInv'
  <1> USE DEF IdInv
  <1>1. /\ call[h].pc = "insert" /\ call[h].kind = "invite" /\ call[h].reply = "none"
        /\ call[h].org \in Orgs /\ call[h].role \in Roles
        /\ UNCHANGED <<tokens, members, mailed, audit>>
    BY DEF InsertInvitation, At, CallsHeld, CallHeld
  <1>2. /\ call' \in [Calls -> CallRow]
        /\ \A x \in Calls : x # h => call'[x] = call[x]
        /\ call'[h].kind = "invite" /\ call'[h].org = call[h].org
        /\ call'[h].role = call[h].role /\ call'[h].pc = "mail" /\ call'[h].reply = "none"
    BY <1>1, GoesCall DEF InsertInvitation, Phases
  <1>3. PICK row \in Invitation :
          /\ invitations' = [invitations EXCEPT ![h] = row]
          /\ row.organization = call[h].org /\ row.role = call[h].role /\ row.status = "pending"
    <2>1. PICK email \in Invitees :
            invitations' = [invitations EXCEPT ![h] =
              [organization |-> call[h].org, email |-> email, role |-> call[h].role,
               expires |-> clock + InvitationTTL, status |-> "pending", by |-> NoRow]]
      BY DEF InsertInvitation
    <2>2. clock + InvitationTTL \in Nat
      BY IdentityAssumption DEF TablesTyped
    <2>3. PICK row : row =
            [organization |-> call[h].org, email |-> email, role |-> call[h].role,
             expires |-> clock + InvitationTTL, status |-> "pending", by |-> NoRow]
      OBVIOUS
    <2>4. /\ row \in Invitation /\ row.organization = call[h].org /\ row.role = call[h].role
          /\ row.status = "pending"
      BY <1>1, <2>2, <2>3 DEF Invitation
    <2> QED
      BY <2>1, <2>3, <2>4
  <1>4. /\ invitations'[h] = row /\ row # NoRow
        /\ \A x \in Calls : x # h => invitations'[x] = invitations[x]
        /\ invitations' \in [Calls -> Invitation \cup {NoRow}]
    BY <1>3, IdentityAssumption DEF TablesTyped
  <1>5. TablesTyped'
    BY <1>1, <1>2, <1>4 DEF TablesTyped
  <1>6. CallsHeld'
    BY <1>2 DEF CallsHeld, CallHeld
  <1>7. invitations[h] = NoRow
    BY <1>1 DEF InvitationsHeld
  <1>8. TokensHeld'
    BY <1>1, <1>2 DEF TokensHeld, HasToken, Settled
  <1>9. InvitationsHeld'
    BY <1>1, <1>2, <1>3, <1>4 DEF InvitationsHeld, Settled
  <1>10. AcceptsHeld'
    BY <1>1, <1>2, <1>4, <1>7 DEF AcceptsHeld, HasToken
  <1>11. RevokesHeld'
    BY <1>1, <1>2, <1>4, <1>7 DEF RevokesHeld, DidRevoke
  <1>12. AuditHeld'
    <2>1. TablesGrow
      BY <1>1, <1>4, <1>7 DEF TablesGrow
    <2> QED
      BY <1>1, <1>2, <1>4, <2>1, AuditStays
  <1>13. OutsidersIdle' /\ OutsiderPowerless' /\ StepUpGenuine'
    BY <1>1, <1>2, <1>3, <1>4 DEF OutsidersIdle, OutsiderPowerless, StepUpGenuine
  <1> QED
    BY <1>5, <1>6, <1>8, <1>9, <1>10, <1>11, <1>12, <1>13

\* Sending the mail, or failing to: only mailed and the call's place change.
LEMMA MailKeeps ==
  ASSUME IdInv, NEW h \in Calls, SendMail(h) \/ MailFails(h), UNCHANGED clock,
         callFaults' \in 0..CallFaults
  PROVE  IdInv'
  <1> USE DEF IdInv
  <1>1. /\ call[h].pc = "mail" /\ call[h].kind = "invite" /\ call[h].reply = "none"
        /\ UNCHANGED <<tokens, invitations, members, audit>>
        /\ invitations[h] # NoRow
        /\ mailed \subseteq mailed' /\ mailed' \subseteq mailed \cup {h}
        /\ SendMail(h) => h \in mailed'
    BY DEF SendMail, MailFails, At, CallsHeld, CallHeld, AuditHeld
  <1>2. /\ call' \in [Calls -> CallRow]
        /\ \A x \in Calls : x # h => call'[x] = call[x]
        /\ call'[h].kind = "invite" /\ call'[h].org = call[h].org
        /\ call'[h].role = call[h].role /\ call'[h].reply = "none"
        /\ call'[h].pc = "unsend" \/ (call'[h].pc = "log" /\ h \in mailed')
    <2>1. CASE SendMail(h)
      BY <1>1, <2>1, GoesCall DEF SendMail, Phases
    <2>2. CASE MailFails(h)
      BY <1>1, <2>2, GoesCall DEF MailFails, Phases
    <2> QED
      BY <2>1, <2>2
  <1>3. TablesTyped'
    BY <1>1, <1>2 DEF TablesTyped
  <1>4. CallsHeld'
    BY <1>2 DEF CallsHeld, CallHeld
  <1>5. TokensHeld'
    BY <1>1, <1>2 DEF TokensHeld, HasToken, Settled
  <1>6. InvitationsHeld'
    BY <1>1, <1>2 DEF InvitationsHeld, Settled
  <1>7. AcceptsHeld'
    BY <1>1, <1>2 DEF AcceptsHeld, HasToken
  <1>8. RevokesHeld'
    BY <1>1, <1>2 DEF RevokesHeld, DidRevoke
  <1>9. AuditHeld'
    <2>1. TablesGrow
      BY <1>1 DEF TablesGrow
    <2> QED
      BY <1>1, <1>2, <2>1, AuditStays
  <1>10. OutsidersIdle' /\ OutsiderPowerless' /\ StepUpGenuine'
    BY <1>1, <1>2 DEF OutsidersIdle, OutsiderPowerless, StepUpGenuine
  <1> QED
    BY <1>3, <1>4, <1>5, <1>6, <1>7, <1>8, <1>9, <1>10

\* What an UPDATE of revoke_invitation leaves in the table.
LEMMA RevokedRows ==
  ASSUME TablesTyped, NEW i \in Calls, NEW org, invitations' = Revoked(i, org)
  PROVE  /\ invitations' \in [Calls -> Invitation \cup {NoRow}]
         /\ \A x \in Calls : x # i => invitations'[x] = invitations[x]
         /\ \/ invitations' = invitations
               /\ (invitations[i] # NoRow /\ invitations[i].organization = org
                     => invitations[i].status # "pending")
            \/ /\ invitations[i] # NoRow /\ invitations[i].status = "pending"
               /\ invitations[i].organization = org
               /\ invitations'[i].email = invitations[i].email
               /\ invitations'[i].role = invitations[i].role
               /\ invitations'[i].expires = invitations[i].expires
               /\ invitations'[i] # NoRow /\ invitations'[i].status = "revoked"
               /\ invitations'[i].organization = invitations[i].organization
               /\ invitations' # invitations
  <1>1. CASE invitations[i] # NoRow /\ invitations[i].organization = org
             /\ invitations[i].status = "pending"
    <2>1. PICK row \in Invitation : row = invitations[i]
      BY <1>1 DEF TablesTyped
    <2>2. PICK new : new = [row EXCEPT !.status = "revoked"]
      OBVIOUS
    <2>3. /\ new \in Invitation /\ new.status = "revoked" /\ new.organization = row.organization
          /\ new.email = row.email /\ new.role = row.role /\ new.expires = row.expires
      BY <2>2 DEF Invitation
    <2>4. invitations' = [invitations EXCEPT ![i] = new]
      BY <1>1, <2>1, <2>2 DEF Revoked, TablesTyped
    <2> QED
      BY <1>1, <2>1, <2>3, <2>4, IdentityAssumption DEF TablesTyped
  <1>2. CASE ~ (invitations[i] # NoRow /\ invitations[i].organization = org
                /\ invitations[i].status = "pending")
    BY <1>2 DEF Revoked, TablesTyped
  <1> QED
    BY <1>1, <1>2

-----------------------------------------------------------------------------
\* An invitation is taken back, by its creator or by revoke_invitation.
LEMMA RevokeKeeps ==
  ASSUME IdInv, NEW h \in Calls, UnsendInvitation(h) \/ RevokeInvitation(h),
         UNCHANGED <<clock, callFaults>>
  PROVE  IdInv'
  <1> USE DEF IdInv
  <1>1. /\ call[h].pc \in {"unsend", "update"} /\ call[h].reply = "none"
        /\ call[h].kind = IF call[h].pc = "unsend" THEN "invite" ELSE "revoke"
        /\ UNCHANGED <<tokens, members, mailed, audit>>
    BY DEF UnsendInvitation, RevokeInvitation, At, CallsHeld, CallHeld
  <1>2. PICK i \in Calls : /\ i = IF call[h].pc = "unsend" THEN h ELSE call[h].inv
                           /\ invitations' = Revoked(i, call[h].org)
    BY <1>1 DEF UnsendInvitation, RevokeInvitation, At, CallsHeld, CallHeld
  <1>3. /\ call' \in [Calls -> CallRow]
        /\ \A x \in Calls : x # h => call'[x] = call[x]
        /\ call'[h].kind = call[h].kind /\ call'[h].org = call[h].org
        /\ call'[h].role = call[h].role /\ call'[h].inv = call[h].inv
        /\ IF call[h].pc = "unsend" THEN call'[h].pc = "done" /\ call'[h].reply = "mailfailed"
           ELSE IF invitations' # invitations THEN call'[h].pc = "log" /\ call'[h].reply = "none"
           ELSE call'[h].pc = "done" /\ call'[h].reply = "notfound"
    <2>1. CASE UnsendInvitation(h)
      BY <2>1, ReplyCall DEF UnsendInvitation, At, Replies
    <2>2. CASE RevokeInvitation(h) /\ invitations' # invitations
      BY <1>1, <2>2, GoesCall DEF RevokeInvitation, At, Phases
    <2>3. CASE RevokeInvitation(h) /\ ~ (invitations' # invitations)
      BY <2>3, ReplyCall DEF RevokeInvitation, At, Replies
    <2> QED
      BY <2>1, <2>2, <2>3
  <1>4. /\ invitations' \in [Calls -> Invitation \cup {NoRow}]
        /\ \A x \in Calls : x # i => invitations'[x] = invitations[x]
        /\ \/ invitations' = invitations
               /\ (invitations[i] # NoRow /\ invitations[i].organization = call[h].org
                     => invitations[i].status # "pending")
           \/ /\ invitations[i] # NoRow /\ invitations[i].status = "pending"
              /\ invitations[i].organization = call[h].org
              /\ invitations'[i].email = invitations[i].email
              /\ invitations'[i].role = invitations[i].role
              /\ invitations'[i].expires = invitations[i].expires
              /\ invitations'[i] # NoRow /\ invitations'[i].status = "revoked"
              /\ invitations'[i].organization = invitations[i].organization
              /\ invitations' # invitations
    BY <1>2, RevokedRows
  <1>5. TablesTyped'
    BY <1>1, <1>3, <1>4 DEF TablesTyped
  <1>6. CallsHeld'
    BY <1>1, <1>3 DEF CallsHeld, CallHeld
  <1>7. TokensHeld'
    BY <1>1, <1>3 DEF TokensHeld, HasToken, Settled
  <1>8. InvitationsHeld'
    <2> DEFINE Row == invitations'
    <2>1. ASSUME NEW x \in Calls, Row[x] # NoRow
          PROVE  /\ invitations[x] # NoRow /\ Row[x].organization = invitations[x].organization
                 /\ Row[x].role = invitations[x].role /\ Row[x].email = invitations[x].email
                 /\ \/ Row[x].status = invitations[x].status
                    \/ x = i /\ Row[x].status = "revoked" /\ Row # invitations
      BY <1>4, <2>1
    <2>2. ASSUME NEW x \in Calls, Row[x] # NoRow
          PROVE  /\ call'[x].kind = "invite" /\ call'[x].pc \notin {"idle", "insert"}
                 /\ Row[x].organization = call'[x].org /\ Row[x].role = call'[x].role
                 /\ call'[x].reply \in {"none", "ok", "error", "mailfailed"}
                 /\ call'[x].reply = "mailfailed" => Row[x].status # "pending"
      <3>1. /\ call[x].kind = "invite" /\ call[x].pc \notin {"idle", "insert"}
            /\ invitations[x].organization = call[x].org /\ invitations[x].role = call[x].role
            /\ call[x].reply \in {"none", "ok", "error", "mailfailed"}
            /\ call[x].reply = "mailfailed" => invitations[x].status # "pending"
        BY <2>1, <2>2 DEF InvitationsHeld
      <3>2. CASE x = h
        <4>1. call[h].pc = "unsend" /\ i = h
          BY <1>1, <1>2, <3>1, <3>2
        <4>2. Row[h].status # "pending"
          BY <1>4, <2>1, <2>2, <3>1, <3>2, <4>1
        <4> QED
          BY <1>3, <2>1, <2>2, <3>1, <3>2, <4>1, <4>2
      <3>3. CASE x # h
        BY <1>3, <2>1, <2>2, <3>1, <3>3
      <3> QED
        BY <3>2, <3>3
    <2>3. ASSUME NEW x \in Calls, Row[x] # NoRow, Row[x].status = "accepted"
          PROVE  \E b \in Calls : /\ b = Row[x].by /\ call'[b].kind = "accept"
                                  /\ call'[b].pc = "identity" \/ Settled(call'[b])
                                  /\ Row[x].organization = call'[b].org /\ Row[x].role = call'[b].role
                                  /\ Row[x].email = call'[b].who.email
                                  /\ \E m \in members : /\ m.organization = Row[x].organization
                                                        /\ m.sub = call'[b].who.sub
      <3>1. Row[x] = invitations[x]
        BY <1>4, <2>3
      <3>2. PICK b \in Calls : /\ b = invitations[x].by /\ call[b].kind = "accept"
                               /\ call[b].pc = "identity" \/ Settled(call[b])
                               /\ invitations[x].organization = call[b].org
                               /\ invitations[x].role = call[b].role
                               /\ invitations[x].email = call[b].who.email
                               /\ \E m \in members : /\ m.organization = invitations[x].organization
                                                     /\ m.sub = call[b].who.sub
        BY <2>3, <3>1 DEF InvitationsHeld
      <3>3. call'[b] = call[b]
        BY <1>1, <1>3, <3>2
      <3> QED
        BY <3>1, <3>2, <3>3
    <2>4. ASSUME NEW x \in Calls, Row[x] # NoRow, Row[x].status = "revoked"
          PROVE  \/ call'[x].reply = "mailfailed"
                 \/ \E y \in Calls : /\ call'[y].kind = "revoke" /\ call'[y].inv = x
                                     /\ Settled(call'[y])
      <3>1. CASE invitations[x].status = "revoked"
        <4>1. \/ call[x].reply = "mailfailed"
              \/ \E y \in Calls : call[y].kind = "revoke" /\ call[y].inv = x /\ Settled(call[y])
          BY <2>1, <2>4, <3>1 DEF InvitationsHeld
        <4>2. \A y \in Calls : (Settled(call[y]) \/ call[y].reply = "mailfailed") => y # h
          BY <1>1 DEF Settled
        <4> QED
          BY <1>3, <4>1, <4>2
      <3>2. CASE invitations[x].status # "revoked"
        <4>1. x = i /\ Row # invitations
          BY <2>1, <2>4, <3>2
        <4> QED
          BY <1>1, <1>2, <1>3, <4>1 DEF Settled
      <3> QED
        BY <3>1, <3>2
    <2> QED
      BY <1>1, <2>2, <2>3, <2>4 DEF InvitationsHeld
  <1>9. AcceptsHeld'
    BY <1>1, <1>3, <1>4 DEF AcceptsHeld, HasToken
  <1>10. RevokesHeld'
    <2> DEFINE revoked == invitations' # invitations /\ call[h].pc = "update"
    <2>1. \A x \in Calls : /\ call'[x].inv = call[x].inv /\ call'[x].org = call[x].org
                           /\ DidRevoke(call[x])' => DidRevoke(call[x]) \/ (x = h /\ revoked)
      BY <1>1, <1>3 DEF DidRevoke
    <2>2. revoked => i = call[h].inv /\ \A x \in Calls : DidRevoke(call[x]) => call[x].inv # i
      BY <1>2, <1>4 DEF RevokesHeld
    <2>3. ASSUME NEW x \in Calls, DidRevoke(call[x])'
          PROVE  \E j \in Calls : /\ j = call'[x].inv /\ invitations'[j] # NoRow
                                 /\ invitations'[j].status = "revoked"
                                 /\ invitations'[j].organization = call'[x].org
      BY <1>4, <2>1, <2>2, <2>3 DEF RevokesHeld
    <2>4. ASSUME NEW x \in Calls, NEW y \in Calls, DidRevoke(call[x])', DidRevoke(call[y])',
                 call'[x].inv = call'[y].inv
          PROVE  x = y
      BY <2>1, <2>2, <2>4 DEF RevokesHeld
    <2> QED
      BY <2>3, <2>4 DEF RevokesHeld
  <1>11. AuditHeld'
    <2>1. TablesGrow
      BY <1>1, <1>4 DEF TablesGrow
    <2>2. call'[h].reply # "ok" /\ (call'[h].kind = "invite" => call'[h].pc = "done")
      BY <1>1, <1>3
    <2> QED
      BY <1>1, <1>3, <2>1, <2>2, AuditStays
  <1>12. OutsidersIdle' /\ OutsiderPowerless' /\ StepUpGenuine'
    BY <1>1, <1>3, <1>4 DEF OutsidersIdle, OutsiderPowerless, StepUpGenuine
  <1> QED
    BY <1>5, <1>6, <1>7, <1>8, <1>9, <1>10, <1>11, <1>12

\* accept_invitation consumes an open invitation and enrols the person, or
\* changes nothing.
LEMMA AcceptKeeps ==
  ASSUME IdInv, NEW h \in Calls, AcceptInvitation(h), UNCHANGED <<clock, callFaults>>
  PROVE  IdInv'
  <1> USE DEF IdInv
  <1>1. /\ call[h].pc = "update" /\ call[h].kind = "accept" /\ call[h].reply = "none"
        /\ UNCHANGED <<tokens, mailed, audit>>
    BY DEF AcceptInvitation, At, CallsHeld, CallHeld
  <1>2. PICK i \in Calls : i = call[h].inv
    BY <1>1 DEF CallsHeld, CallHeld
  <1>3. ~ HasToken(h) /\ invitations[h] = NoRow
    BY <1>1 DEF TokensHeld, InvitationsHeld, HasToken, Settled
  <1>4. CASE (Reply(h, "notfound") \/ Reply(h, "error")) /\ UNCHANGED <<invitations, members>>
    <2>1. /\ call' \in [Calls -> CallRow]
          /\ \A x \in Calls : x # h => call'[x] = call[x]
          /\ call'[h].kind = "accept" /\ call'[h].org = call[h].org
          /\ call'[h].role = call[h].role /\ call'[h].inv = i
          /\ call'[h].pc = "done" /\ call'[h].reply \in {"notfound", "error"}
      BY <1>1, <1>2, <1>4, ReplyCall DEF Replies
    <2>2. TablesTyped'
      BY <1>1, <1>4, <2>1 DEF TablesTyped
    <2>3. CallsHeld'
      BY <2>1 DEF CallsHeld, CallHeld
    <2>4. TokensHeld'
      BY <1>1, <1>3, <2>1 DEF TokensHeld, HasToken, Settled
    <2>5. InvitationsHeld'
      BY <1>1, <1>4, <2>1 DEF InvitationsHeld, Settled
    <2>6. AcceptsHeld'
      BY <1>1, <1>3, <1>4, <2>1 DEF AcceptsHeld, HasToken
    <2>7. RevokesHeld'
      BY <1>1, <1>4, <2>1 DEF RevokesHeld, DidRevoke
    <2>8. AuditHeld'
      <3>1. TablesGrow
        BY <1>1, <1>4 DEF TablesGrow
      <3> QED
        BY <1>1, <2>1, <3>1, AuditStays
    <2>9. OutsidersIdle' /\ OutsiderPowerless' /\ StepUpGenuine'
      BY <1>1, <1>4, <2>1 DEF OutsidersIdle, OutsiderPowerless, StepUpGenuine
    <2> QED
      BY <2>2, <2>3, <2>4, <2>5, <2>6, <2>7, <2>8, <2>9
  <1>5. CASE ~ ((Reply(h, "notfound") \/ Reply(h, "error")) /\ UNCHANGED <<invitations, members>>)
    <2>1. PICK row \in Invitation :
            /\ row = invitations[i] /\ invitations[i] # NoRow /\ row.status = "pending"
            /\ row.email = call[h].who.email
            /\ members' = Enrolled(row.organization, call[h].who, row.role)
            /\ invitations' = [invitations EXCEPT ![i].status = "accepted", ![i].by = h]
            /\ call' = [call EXCEPT ![h].pc = "identity", ![h].org = row.organization,
                                    ![h].role = row.role]
      BY <1>2, <1>5 DEF AcceptInvitation, Open, TablesTyped
    <2>2. row.organization \in Orgs /\ row.role \in Roles
      BY DEF Invitation
    <2>3. PICK new \in Invitation :
            /\ new.status = "accepted" /\ new.by = h /\ new.organization = row.organization
            /\ new.email = row.email /\ new.role = row.role /\ new.expires = row.expires
            /\ invitations' = [invitations EXCEPT ![i] = new]
      <3>1. PICK new : new = [row EXCEPT !.status = "accepted", !.by = h]
        OBVIOUS
      <3>2. /\ new \in Invitation /\ new.status = "accepted" /\ new.by = h /\ new.organization = row.organization
            /\ new.email = row.email /\ new.role = row.role /\ new.expires = row.expires
        BY <3>1 DEF Invitation
      <3>3. invitations' = [invitations EXCEPT ![i] = new]
        BY <2>1, <3>1 DEF TablesTyped
      <3> QED
        BY <3>2, <3>3
    <2>4. /\ call' \in [Calls -> CallRow]
          /\ \A x \in Calls : x # h => call'[x] = call[x]
          /\ call'[h].kind = "accept" /\ call'[h].org = row.organization
          /\ call'[h].role = row.role /\ call'[h].inv = i /\ call'[h].who = call[h].who
          /\ call'[h].pc = "identity" /\ call'[h].reply = "none"
      <3>1. PICK c \in CallRow : c = call[h]
        BY DEF TablesTyped
      <3>2. PICK d : d = [c EXCEPT !.pc = "identity", !.org = row.organization, !.role = row.role]
        OBVIOUS
      <3>3. /\ d \in CallRow /\ d.kind = c.kind /\ d.org = row.organization /\ d.role = row.role
            /\ d.inv = c.inv /\ d.who = c.who /\ d.pc = "identity" /\ d.reply = c.reply
        BY <2>2, <3>2 DEF CallRow, Phases
      <3>4. call' = [call EXCEPT ![h] = d]
        BY <2>1, <3>1, <3>2 DEF TablesTyped
      <3> QED
        BY <1>1, <1>2, <3>1, <3>3, <3>4 DEF TablesTyped
    <2>5. /\ invitations' \in [Calls -> Invitation \cup {NoRow}] /\ invitations'[i] = new
          /\ new # NoRow /\ \A x \in Calls : x # i => invitations'[x] = invitations[x]
      BY <2>3, IdentityAssumption DEF TablesTyped
    <2>6. \A m \in members' : \/ m \in members
                              \/ m.organization = row.organization /\ m.role = row.role
      BY <2>1 DEF Enrolled
    <2>17. /\ \E m \in members' : m.organization = row.organization /\ m.sub = call[h].who.sub
           /\ \A m \in members : \E n \in members' : n.organization = m.organization /\ n.sub = m.sub
      <3>1. PICK made : members' = (members \ {m \in members : m.organization = row.organization
                                                               /\ m.sub = call[h].who.sub})
                \cup {[organization |-> row.organization, sub |-> call[h].who.sub,
                       role |-> row.role, created |-> made]}
        BY <2>1 DEF Enrolled
      <3>2. PICK own : own = [organization |-> row.organization, sub |-> call[h].who.sub,
                              role |-> row.role, created |-> made]
        OBVIOUS
      <3>3. own \in members' /\ own.organization = row.organization /\ own.sub = call[h].who.sub
        BY <3>1, <3>2
      <3>4. ASSUME NEW m \in members
            PROVE  \E n \in members' : n.organization = m.organization /\ n.sub = m.sub
        BY <3>1, <3>3
      <3> QED
        BY <3>3, <3>4
    <2>18. TablesGrow
      BY <1>1, <2>1, <2>3, <2>5, <2>17 DEF TablesGrow
    <2>7. TablesTyped'
      BY <1>1, <2>2, <2>4, <2>5, <2>6 DEF TablesTyped
    <2>8. CallsHeld'
      BY <2>2, <2>4 DEF CallsHeld, CallHeld
    <2>9. TokensHeld'
      BY <1>1, <1>3, <2>4 DEF TokensHeld, HasToken, Settled
    <2>10. InvitationsHeld'
      <3> DEFINE Row == invitations'
      <3>1. ASSUME NEW x \in Calls, Row[x] # NoRow
            PROVE  /\ call'[x].kind = "invite" /\ call'[x].pc \notin {"idle", "insert"}
                   /\ Row[x].organization = call'[x].org /\ Row[x].role = call'[x].role
                   /\ call'[x].reply \in {"none", "ok", "error", "mailfailed"}
                   /\ call'[x].reply = "mailfailed" => Row[x].status # "pending"
        BY <1>1, <1>3, <2>1, <2>3, <2>4, <2>5, <3>1 DEF InvitationsHeld
      <3>2. ASSUME NEW x \in Calls, Row[x] # NoRow, Row[x].status = "accepted"
            PROVE  \E b \in Calls : /\ b = Row[x].by /\ call'[b].kind = "accept"
                                    /\ call'[b].pc = "identity" \/ Settled(call'[b])
                                    /\ Row[x].organization = call'[b].org /\ Row[x].role = call'[b].role
                                    /\ Row[x].email = call'[b].who.email
                                    /\ \E m \in members' : /\ m.organization = Row[x].organization
                                                           /\ m.sub = call'[b].who.sub
        <4>1. CASE x = i
          BY <2>1, <2>3, <2>4, <2>5, <2>17, <4>1
        <4>2. CASE x # i
          <5>1. Row[x] = invitations[x]
            BY <2>5, <4>2
          <5>2. PICK b \in Calls : /\ b = invitations[x].by /\ call[b].kind = "accept"
                                   /\ call[b].pc = "identity" \/ Settled(call[b])
                                   /\ invitations[x].organization = call[b].org
                                   /\ invitations[x].role = call[b].role
                                   /\ invitations[x].email = call[b].who.email
                                   /\ \E m \in members : /\ m.organization = invitations[x].organization
                                                         /\ m.sub = call[b].who.sub
            BY <3>2, <5>1 DEF InvitationsHeld
          <5>3. call'[b] = call[b]
            BY <1>1, <2>4, <5>2 DEF Settled
          <5>4. \E m \in members' : m.organization = invitations[x].organization /\ m.sub = call[b].who.sub
            BY <2>17, <5>2
          <5> QED
            BY <5>1, <5>2, <5>3, <5>4
        <4> QED
          BY <4>1, <4>2
      <3>3. ASSUME NEW x \in Calls, Row[x] # NoRow, Row[x].status = "revoked"
            PROVE  \/ call'[x].reply = "mailfailed"
                   \/ \E y \in Calls : /\ call'[y].kind = "revoke" /\ call'[y].inv = x
                                       /\ Settled(call'[y])
        <4>1. x # i /\ Row[x] = invitations[x]
          BY <2>3, <2>5, <3>3
        <4>2. \/ call[x].reply = "mailfailed"
              \/ \E y \in Calls : call[y].kind = "revoke" /\ call[y].inv = x /\ Settled(call[y])
          BY <3>3, <4>1 DEF InvitationsHeld
        <4>3. \A y \in Calls : (Settled(call[y]) \/ call[y].reply = "mailfailed") => y # h
          BY <1>1 DEF Settled
        <4> QED
          BY <2>4, <4>2, <4>3
      <3> QED
        BY <3>1, <3>2, <3>3 DEF InvitationsHeld
    <2>11. AcceptsHeld'
      <3>1. \A x \in Calls : HasToken(x)' = HasToken(x)
        BY <1>1 DEF HasToken
      <3>2. ASSUME NEW x \in Calls, x # h, call[x].kind = "accept",
                   call[x].pc \in {"identity", "log"} \/ HasToken(x)
            PROVE  \E j \in Calls : /\ j = call[x].inv /\ invitations'[j] # NoRow
                                   /\ invitations'[j].status = "accepted"
                                   /\ invitations'[j].by = x
        BY <2>1, <2>5, <3>2 DEF AcceptsHeld
      <3>3. \E j \in Calls : /\ j = call'[h].inv /\ invitations'[j] # NoRow
                             /\ invitations'[j].status = "accepted" /\ invitations'[j].by = h
        BY <2>3, <2>4, <2>5
      <3> QED
        BY <2>4, <3>1, <3>2, <3>3 DEF AcceptsHeld
    <2>12. RevokesHeld'
      BY <1>1, <2>1, <2>4, <2>5 DEF RevokesHeld, DidRevoke
    <2>13. AuditHeld'
      BY <1>1, <2>4, <2>18, AuditStays
    <2>14. ASSUME NEW o \in Orgs, \A t \in Bootstrap : t.organization = o => t.role = "reader"
           PROVE  row.organization # o
      BY <2>1, <2>14 DEF OutsiderPowerless
    <2>15. OutsidersIdle' /\ StepUpGenuine'
      BY <1>1, <2>4, <2>14 DEF OutsidersIdle, StepUpGenuine
    <2>16. OutsiderPowerless'
      BY <1>1, <2>3, <2>5, <2>6, <2>14 DEF OutsiderPowerless
    <2> QED
      BY <2>7, <2>8, <2>9, <2>10, <2>11, <2>12, <2>13, <2>15, <2>16
  <1> QED
    BY <1>4, <1>5

-----------------------------------------------------------------------------
\* A call that moves on or ends and writes no table.
LEMMA QuietKeeps ==
  ASSUME IdInv, NEW h \in Calls, UNCHANGED <<clock, tokens, invitations, members, mailed, audit>>,
         callFaults' \in 0..CallFaults,
         call' \in [Calls -> CallRow], \A x \in Calls : x # h => call'[x] = call[x],
         call'[h].kind = call[h].kind, call'[h].inv = call[h].inv, call'[h].who = call[h].who,
         call[h].pc # "idle",
         \/ /\ call[h].pc # "done" /\ call'[h].pc = "done" /\ call'[h].org = call[h].org
            /\ call'[h].role = call[h].role
            /\ \/ call'[h].reply = "error"
               \/ call'[h].reply = "refused" /\ call[h].pc = "update"
         \/ /\ call[h].kind = "sso" /\ call[h].pc = "update" /\ call'[h].pc = "identity"
            /\ call'[h].reply = "none"
            /\ \E m \in members : call'[h].org = m.organization /\ call'[h].role = m.role
  PROVE  IdInv'
  <1> USE DEF IdInv
  <1>1. TablesTyped'
    BY DEF TablesTyped
  <1>2. CallsHeld'
    BY DEF CallsHeld, CallHeld, TablesTyped
  <1>3. \A x \in Calls : HasToken(x)' = HasToken(x)
    BY DEF HasToken
  <1>4. TokensHeld'
    BY <1>3 DEF TokensHeld, Settled
  <1>5. InvitationsHeld'
    <2>1. ASSUME NEW x \in Calls, invitations[x] # NoRow
          PROVE  /\ call'[x].kind = "invite" /\ call'[x].pc \notin {"idle", "insert"}
                 /\ invitations[x].organization = call'[x].org /\ invitations[x].role = call'[x].role
                 /\ call'[x].reply \in {"none", "ok", "error", "mailfailed"}
                 /\ call'[x].reply = "mailfailed" => invitations[x].status # "pending"
      BY <2>1 DEF InvitationsHeld, CallsHeld, CallHeld
    <2>2. ASSUME NEW x \in Calls, invitations[x] # NoRow, invitations[x].status = "accepted"
          PROVE  \E b \in Calls : /\ b = invitations[x].by /\ call'[b].kind = "accept"
                                  /\ call'[b].pc = "identity" \/ Settled(call'[b])
                                  /\ invitations[x].organization = call'[b].org
                                  /\ invitations[x].role = call'[b].role
                                  /\ invitations[x].email = call'[b].who.email
                                  /\ \E m \in members : /\ m.organization = invitations[x].organization
                                                        /\ m.sub = call'[b].who.sub
      <3>1. PICK b \in Calls : /\ b = invitations[x].by /\ call[b].kind = "accept"
                               /\ call[b].pc = "identity" \/ Settled(call[b])
                               /\ invitations[x].organization = call[b].org
                               /\ invitations[x].role = call[b].role
                               /\ invitations[x].email = call[b].who.email
                               /\ \E m \in members : /\ m.organization = invitations[x].organization
                                                     /\ m.sub = call[b].who.sub
        BY <2>2 DEF InvitationsHeld
      <3>2. CASE b = h
        BY <3>1, <3>2 DEF Settled
      <3>3. CASE b # h
        BY <3>1, <3>3
      <3> QED
        BY <3>2, <3>3
    <2>3. ASSUME NEW x \in Calls, invitations[x] # NoRow, invitations[x].status = "revoked"
          PROVE  \/ call'[x].reply = "mailfailed"
                 \/ \E y \in Calls : /\ call'[y].kind = "revoke" /\ call'[y].inv = x
                                     /\ Settled(call'[y])
      <3>1. CASE call[x].reply = "mailfailed"
        <4>1. x # h
          BY <3>1 DEF CallsHeld, CallHeld
        <4> QED
          BY <3>1, <4>1
      <3>2. CASE \E y \in Calls : call[y].kind = "revoke" /\ call[y].inv = x /\ Settled(call[y])
        <4>1. PICK y \in Calls : call[y].kind = "revoke" /\ call[y].inv = x /\ Settled(call[y])
          BY <3>2
        <4>2. CASE y = h
          BY <4>1, <4>2 DEF Settled
        <4>3. CASE y # h
          BY <4>1, <4>3
        <4> QED
          BY <4>2, <4>3
      <3> QED
        BY <2>3, <3>1, <3>2 DEF InvitationsHeld
    <2> QED
      BY <2>1, <2>2, <2>3 DEF InvitationsHeld
  <1>6. AcceptsHeld'
    BY <1>3 DEF AcceptsHeld
  <1>7. RevokesHeld'
    <2>1. \A x \in Calls : /\ call'[x].inv = call[x].inv
                           /\ DidRevoke(call[x])' => DidRevoke(call[x]) /\ call'[x].org = call[x].org
      BY DEF DidRevoke
    <2> QED
      BY <2>1 DEF RevokesHeld
  <1>8. AuditHeld'
    <2>1. TablesGrow
      BY DEF TablesGrow
    <2>2. call'[h].reply # "ok" /\ (call'[h].kind = "invite" => call'[h].pc = "done")
      OBVIOUS
    <2> QED
      BY <2>1, <2>2, AuditStays
  <1>9. OutsidersIdle' /\ OutsiderPowerless' /\ StepUpGenuine'
    BY DEF OutsidersIdle, OutsiderPowerless, StepUpGenuine
  <1> QED
    BY <1>1, <1>2, <1>4, <1>5, <1>6, <1>7, <1>8, <1>9

\* membership finds the organization a person signs in to.
LEMMA MembershipKeeps ==
  ASSUME IdInv, NEW h \in Calls, Membership(h), UNCHANGED <<clock, callFaults>>
  PROVE  IdInv'
  <1>1. /\ call[h].pc = "update" /\ call[h].kind = "sso" /\ call[h].reply = "none"
        /\ UNCHANGED <<tokens, invitations, members, mailed, audit>>
        /\ callFaults' \in 0..CallFaults /\ TablesTyped
    BY DEF Membership, At, IdInv, CallsHeld, CallHeld, TablesTyped
  <1>2. CASE Reply(h, "refused")
    <2>1. /\ call' \in [Calls -> CallRow] /\ \A x \in Calls : x # h => call'[x] = call[x]
          /\ call'[h].pc = "done" /\ call'[h].reply = "refused" /\ call'[h].kind = call[h].kind
          /\ call'[h].inv = call[h].inv /\ call'[h].org = call[h].org
          /\ call'[h].role = call[h].role /\ call'[h].who = call[h].who
      BY <1>1, <1>2, ReplyCall DEF Replies
    <2> QED
      BY <1>1, <2>1, QuietKeeps
  <1>3. CASE ~ Reply(h, "refused")
    <2>1. PICK m \in members :
            call' = [call EXCEPT ![h].pc = "identity", ![h].org = m.organization, ![h].role = m.role]
      BY <1>3 DEF Membership
    <2>2. m.organization \in Orgs /\ m.role \in Roles
      BY <1>1 DEF TablesTyped
    <2>3. PICK c \in CallRow : c = call[h]
      BY <1>1 DEF TablesTyped
    <2>4. PICK d : d = [c EXCEPT !.pc = "identity", !.org = m.organization, !.role = m.role]
      OBVIOUS
    <2>5. /\ d \in CallRow /\ d.kind = c.kind /\ d.org = m.organization /\ d.role = m.role
          /\ d.inv = c.inv /\ d.who = c.who /\ d.pc = "identity" /\ d.reply = c.reply
      BY <2>2, <2>4 DEF CallRow, Phases
    <2>6. call' = [call EXCEPT ![h] = d]
      BY <1>1, <2>1, <2>3, <2>4 DEF TablesTyped
    <2>7. /\ call' \in [Calls -> CallRow] /\ \A x \in Calls : x # h => call'[x] = call[x]
          /\ call'[h] = d
      BY <1>1, <2>5, <2>6 DEF TablesTyped
    <2> QED
      BY <1>1, <2>3, <2>5, <2>7, QuietKeeps
  <1> QED
    BY <1>2, <1>3

\* An await that fails, or a connection that is dropped, changes no table.
LEMMA AbortKeeps ==
  ASSUME IdInv, NEW h \in Calls, Abort(h), UNCHANGED clock, callFaults' \in 0..CallFaults
  PROVE  IdInv'
  <1>1. /\ call[h].pc \notin {"idle", "done"}
        /\ UNCHANGED <<tokens, invitations, members, mailed, audit>> /\ TablesTyped
    BY DEF Abort, IdInv
  <1>2. /\ call' \in [Calls -> CallRow] /\ \A x \in Calls : x # h => call'[x] = call[x]
        /\ call'[h].pc = "done" /\ call'[h].reply = "error" /\ call'[h].kind = call[h].kind
        /\ call'[h].inv = call[h].inv /\ call'[h].org = call[h].org
        /\ call'[h].role = call[h].role /\ call'[h].who = call[h].who
    BY <1>1, ReplyCall DEF Abort, Replies
  <1> QED
    BY <1>1, <1>2, QuietKeeps

\* An event that is true of the tables joins the log, and its call is told of.
LEMMA LoggedKeeps ==
  ASSUME IdInv, NEW h \in Calls, TablesGrow,
         call[h].pc = "log", call[h].reply = "none",
         UNCHANGED <<clock, tokens, invitations, members, mailed, callFaults>>,
         call' \in [Calls -> CallRow], \A x \in Calls : x # h => call'[x] = call[x],
         call'[h].pc = "done", call'[h].reply = "ok", call'[h].kind = call[h].kind,
         call'[h].org = call[h].org,
         TablesTyped', CallsHeld', TokensHeld', InvitationsHeld', AcceptsHeld', RevokesHeld',
         Told(h)', NEW new, \A e \in audit' \ audit : e = new,
         \/ /\ new[1] = "token.issued"
            /\ \E t \in tokens : /\ t.kind = "service" /\ t.organization = new[2]
                                 /\ t.role = new[3] /\ t.expires <= new[4]
         \/ /\ new[1] = "invitation.created"
            /\ \E i \in mailed : /\ invitations[i] # NoRow /\ invitations[i].organization = new[2]
                                 /\ invitations[i].email = new[3] /\ invitations[i].role = new[4]
                                 /\ invitations[i].expires = new[5]
         \/ /\ new[1] = "invitation.revoked" /\ new[3] \in Calls
            /\ invitations[new[3]] # NoRow /\ invitations[new[3]].organization = new[2]
            /\ invitations[new[3]].status = "revoked"
         \/ /\ new[1] = "invitation.accepted"
            /\ \E m \in members : m.organization = new[2] /\ m.sub = new[3]
            /\ \E i \in Calls : /\ invitations[i] # NoRow /\ invitations[i].status = "accepted"
                                /\ invitations[i].organization = new[2]
                                /\ invitations[i].email = new[4] /\ invitations[i].role = new[5]
  PROVE  IdInv'
  <1> USE DEF IdInv
  <1>1. EveryEventTrue'
    <2> SUFFICES ASSUME NEW e \in audit'
                 PROVE  (/\ e[1] = "token.issued" =>
                              \E t \in tokens : /\ t.kind = "service" /\ t.organization = e[2]
                                                /\ t.role = e[3] /\ t.expires <= e[4]
                         /\ e[1] = "invitation.created" =>
                              \E i \in mailed : LET row == invitations[i] IN
                                /\ row # NoRow /\ row.organization = e[2] /\ row.email = e[3]
                                /\ row.role = e[4] /\ row.expires = e[5]
                         /\ e[1] = "invitation.revoked" =>
                              LET row == invitations[e[3]] IN
                              row # NoRow /\ row.organization = e[2] /\ row.status = "revoked"
                         /\ e[1] = "invitation.accepted" =>
                              /\ \E m \in members : m.organization = e[2] /\ m.sub = e[3]
                              /\ \E i \in Calls : LET row == invitations[i] IN
                                   /\ row # NoRow /\ row.status = "accepted" /\ row.organization = e[2]
                                   /\ row.email = e[4] /\ row.role = e[5])
      BY DEF EveryEventTrue
    <2>1. CASE e \in audit
      BY <2>1 DEF AuditHeld, EveryEventTrue
    <2>2. CASE e \notin audit
      <3>1. e = new
        BY <2>2
      <3> QED
        BY <3>1
    <2> QED
      BY <2>1, <2>2
  <1>2. \A e \in audit' : e[1] = "invitation.revoked" => e[3] \in Calls
    BY DEF AuditHeld
  <1>3. ASSUME NEW x \in Calls, call'[x].reply = "ok"
        PROVE  Told(x)'
    <2>1. CASE x = h
      BY <2>1
    <2>2. CASE x # h
      <3>1. Told(x)
        BY <1>3, <2>2 DEF AuditHeld
      <3> QED
        BY <2>2, <3>1, ToldStays
    <2> QED
      BY <2>1, <2>2
  <1>4. ASSUME NEW x \in Calls, call'[x].kind = "invite"
        PROVE  /\ call'[x].pc = "log" => x \in mailed' /\ invitations'[x] # NoRow
               /\ call'[x].pc \in {"mail", "unsend"} => invitations'[x] # NoRow
    BY <1>4 DEF AuditHeld
  <1>5. AuditHeld'
    BY <1>1, <1>2, <1>3, <1>4 DEF AuditHeld
  <1>6. OutsidersIdle' /\ OutsiderPowerless' /\ StepUpGenuine'
    BY DEF OutsidersIdle, OutsiderPowerless, StepUpGenuine
  <1> QED
    BY <1>5, <1>6

\* append_event, then the answer.
LEMMA LogEventKeeps ==
  ASSUME IdInv, NEW h \in Calls, LogEvent(h), UNCHANGED <<clock, callFaults>>
  PROVE  IdInv'
  <1> USE DEF IdInv
  <1>1. /\ call[h].pc = "log" /\ call[h].kind \in {"issue", "invite", "revoke", "accept"}
        /\ call[h].reply = "none"
        /\ UNCHANGED <<tokens, invitations, members, mailed>>
    BY DEF LogEvent, CallsHeld, CallHeld
  <1>2. /\ call' \in [Calls -> CallRow] /\ \A x \in Calls : x # h => call'[x] = call[x]
        /\ call'[h].pc = "done" /\ call'[h].reply = "ok" /\ call'[h].kind = call[h].kind
        /\ call'[h].inv = call[h].inv /\ call'[h].org = call[h].org
        /\ call'[h].role = call[h].role /\ call'[h].who = call[h].who
    BY ReplyCall DEF LogEvent, Replies
  <1>3. TablesTyped'
    BY <1>1, <1>2 DEF TablesTyped
  <1>4. CallsHeld'
    BY <1>2 DEF CallsHeld, CallHeld
  <1>5. \A x \in Calls : HasToken(x)' = HasToken(x)
    BY <1>1 DEF HasToken
  <1>6. TokensHeld'
    BY <1>1, <1>2, <1>5 DEF TokensHeld, Settled
  <1>7. InvitationsHeld'
    <2>1. \A x \in Calls : /\ call'[x].kind = call[x].kind /\ call'[x].org = call[x].org
                           /\ call'[x].role = call[x].role /\ call'[x].inv = call[x].inv
                           /\ call'[x].who = call[x].who
                           /\ call'[x].reply = "mailfailed" <=> call[x].reply = "mailfailed"
                           /\ call'[x].reply = call[x].reply \/ call'[x].reply = "ok"
                           /\ (call[x].pc = "identity" \/ Settled(call[x]))
                                => (call'[x].pc = "identity" \/ Settled(call'[x]))
                           /\ Settled(call[x]) => Settled(call'[x])
                           /\ call[x].pc \notin {"idle", "insert"} => call'[x].pc \notin {"idle", "insert"}
      BY <1>1, <1>2 DEF Settled
    <2> QED
      BY <1>1, <2>1 DEF InvitationsHeld
  <1>8. AcceptsHeld'
    BY <1>1, <1>2, <1>5 DEF AcceptsHeld
  <1>9. RevokesHeld'
    <2>1. \A x \in Calls : /\ call'[x].inv = call[x].inv /\ call'[x].org = call[x].org
                           /\ DidRevoke(call[x])' => DidRevoke(call[x])
      BY <1>1, <1>2 DEF DidRevoke
    <2> QED
      BY <1>1, <2>1 DEF RevokesHeld
  <1>10. TablesGrow
    BY <1>1 DEF TablesGrow, LogEvent
  <1>11. CASE call[h].kind = "issue"
    <2>1. PICK new : /\ new = <<"token.issued", call[h].org, call[h].role, clock + ServiceTTL>>
                     /\ audit' = audit \cup {new}
      BY <1>11 DEF LogEvent, EventOf
    <2>2. PICK t \in tokens : t.id = h /\ t.kind = "service"
      BY <1>1, <1>11 DEF TokensHeld
    <2>3. t.organization = call[h].org /\ t.role = call[h].role /\ t.expires <= clock + ServiceTTL
      BY <2>2 DEF TokensHeld
    <2>4. /\ new[1] = "token.issued" /\ new[2] = call[h].org /\ new[3] = call[h].role
          /\ new[4] = clock + ServiceTTL
      BY <2>1
    <2>5. \A u \in tokens : u.id = h => u.expires <= clock + ServiceTTL
      BY <1>11 DEF TokensHeld
    <2>6. Told(h)'
      BY <1>1, <1>2, <1>11, <2>1, <2>4, <2>5 DEF Told
    <2>7. \A e \in audit' \ audit : e = new
      BY <2>1
    <2> QED
      BY <1>1, <1>2, <1>3, <1>4, <1>6, <1>7, <1>8, <1>9, <1>10, <2>2, <2>3, <2>4, <2>6, <2>7, LoggedKeeps
  <1>12. CASE call[h].kind = "invite"
    <2>1. PICK new : /\ new = <<"invitation.created", call[h].org, invitations[h].email, call[h].role,
                                 invitations[h].expires>>
                     /\ audit' = audit \cup {new}
      BY <1>12 DEF LogEvent, EventOf
    <2>2. /\ h \in mailed /\ invitations[h] # NoRow
          /\ invitations[h].organization = call[h].org /\ invitations[h].role = call[h].role
      BY <1>1, <1>12 DEF AuditHeld, InvitationsHeld
    <2>3. /\ new[1] = "invitation.created" /\ new[2] = call[h].org /\ new[3] = invitations[h].email
          /\ new[4] = call[h].role /\ new[5] = invitations[h].expires
      BY <2>1
    <2>4. Told(h)'
      BY <1>1, <1>2, <1>12, <2>1, <2>2 DEF Told
    <2>5. \A e \in audit' \ audit : e = new
      BY <2>1
    <2> QED
      BY <1>1, <1>2, <1>3, <1>4, <1>6, <1>7, <1>8, <1>9, <1>10, <2>2, <2>3, <2>4, <2>5, LoggedKeeps
  <1>13. CASE call[h].kind = "revoke"
    <2>1. PICK new : /\ new = <<"invitation.revoked", call[h].org, call[h].inv>>
                     /\ audit' = audit \cup {new}
      BY <1>13 DEF LogEvent, EventOf
    <2>2. PICK i \in Calls : /\ i = call[h].inv /\ invitations[i] # NoRow
                             /\ invitations[i].status = "revoked"
                             /\ invitations[i].organization = call[h].org
      BY <1>1, <1>13 DEF RevokesHeld, DidRevoke
    <2>3. new[1] = "invitation.revoked" /\ new[2] = call[h].org /\ new[3] = i
      BY <2>1, <2>2
    <2>4. Told(h)'
      BY <1>1, <1>2, <1>13, <2>1 DEF Told
    <2>5. \A e \in audit' \ audit : e = new
      BY <2>1
    <2> QED
      BY <1>1, <1>2, <1>3, <1>4, <1>6, <1>7, <1>8, <1>9, <1>10, <2>2, <2>3, <2>4, <2>5, LoggedKeeps
  <1>14. CASE call[h].kind = "accept"
    <2>1. PICK new : /\ new = <<"invitation.accepted", call[h].org, call[h].who.sub, call[h].who.email,
                                 call[h].role>>
                     /\ audit' = audit \cup {new}
      BY <1>14 DEF LogEvent, EventOf
    <2>2. PICK i \in Calls : /\ invitations[i] # NoRow /\ invitations[i].status = "accepted"
                             /\ invitations[i].by = h
      BY <1>1, <1>14 DEF AcceptsHeld
    <2>3. /\ invitations[i].organization = call[h].org /\ invitations[i].role = call[h].role
          /\ invitations[i].email = call[h].who.email
          /\ \E m \in members : m.organization = call[h].org /\ m.sub = call[h].who.sub
      BY <2>2 DEF InvitationsHeld
    <2>4. /\ new[1] = "invitation.accepted" /\ new[2] = call[h].org /\ new[3] = call[h].who.sub
          /\ new[4] = call[h].who.email /\ new[5] = call[h].role
      BY <2>1
    <2>5. Told(h)'
      BY <1>1, <1>2, <1>14, <2>1 DEF Told
    <2>6. \A e \in audit' \ audit : e = new
      BY <2>1
    <2> QED
      BY <1>1, <1>2, <1>3, <1>4, <1>6, <1>7, <1>8, <1>9, <1>10, <2>2, <2>3, <2>4, <2>5, <2>6, LoggedKeeps
  <1> QED
    BY <1>1, <1>11, <1>12, <1>13, <1>14

-----------------------------------------------------------------------------
\* The tables and the calls are consistent in every reachable state.
LEMMA IdInvariant == IdSpec => []IdInv
  <1>1. IdInit => IdInv
    <2> SUFFICES ASSUME IdInit PROVE IdInv
      OBVIOUS
    <2> USE DEF IdInit
    <2>1. IdleCall \in CallRow /\ CallHeld(IdleCall)
      BY DEF IdleCall, CallRow, CallHeld, Phases, CallKinds, Replies
    <2>2. TablesTyped
      BY <2>1, IdentityAssumption DEF TablesTyped
    <2>3. CallsHeld
      BY <2>1 DEF CallsHeld
    <2>4. \A h \in Calls : /\ call[h].kind = "none" /\ call[h].pc = "idle" /\ call[h].org = NoRow
                           /\ call[h].reply = "none"
      BY DEF IdleCall
    <2>5. \A t \in tokens : t.id \notin Calls /\ t.kind = "bootstrap"
      BY IdentityAssumption
    <2>6. TokensHeld /\ InvitationsHeld /\ AcceptsHeld /\ RevokesHeld /\ AuditHeld
      BY <2>4, <2>5
      DEF TokensHeld, InvitationsHeld, AcceptsHeld, RevokesHeld, AuditHeld, EveryEventTrue, DidRevoke
    <2>7. OutsidersIdle /\ OutsiderPowerless /\ StepUpGenuine
      BY <2>4, <2>5, IdentityAssumption DEF OutsidersIdle, OutsiderPowerless, StepUpGenuine
    <2> QED
      BY <2>2, <2>3, <2>6, <2>7 DEF IdInv
  <1>2. IdInv /\ [IdNext]_idVars => IdInv'
    <2> SUFFICES ASSUME IdInv, [IdNext]_idVars PROVE IdInv'
      OBVIOUS
    <2>1. ASSUME NEW h \in Calls, CallStep(h), UNCHANGED <<clock, callFaults>> PROVE IdInv'
      <3>1. callFaults' \in 0..CallFaults
        BY <2>1 DEF IdInv, TablesTyped
      <3> QED
        BY <2>1, <3>1, BeginAnyKeeps, InsertTokenKeeps, InsertInvitationKeeps, MailKeeps, RevokeKeeps,
           AcceptKeeps, MembershipKeeps, IssueIdentityTokenKeeps, LogEventKeeps
        DEF CallStep
    <2>2. ASSUME NEW h \in Calls, CallFault(h), UNCHANGED clock PROVE IdInv'
      <3>1. callFaults' \in 0..CallFaults
        BY <2>2, IdentityAssumption DEF CallFault, IdInv, TablesTyped
      <3> QED
        BY <2>2, <3>1, MailKeeps, AbortKeeps DEF CallFault
    <2>3. CASE IdTick \/ UNCHANGED idVars
      <3>1. /\ UNCHANGED <<tokens, invitations, members, mailed, audit, call, callFaults>>
            /\ TablesTyped'
        BY <2>3, IdentityAssumption DEF IdTick, idVars, IdInv, TablesTyped
      <3>2. clock \in Nat /\ clock' \in Nat /\ clock <= clock'
        BY <2>3, <3>1, IdentityAssumption DEF IdTick, idVars, IdInv, TablesTyped
      <3>3. TokensHeld'
        <4>1. ASSUME NEW t \in tokens, t.id \in Calls, t.kind = "service"
              PROVE  t.expires <= clock' + ServiceTTL
          <5>1. t \in IssuedToken
            BY <4>1, IdentityAssumption DEF IdInv, TablesTyped
          <5>2. t.expires \in Nat /\ t.expires <= clock + ServiceTTL
            BY <4>1, <5>1 DEF IdInv, TokensHeld, IssuedToken
          <5> QED
            BY <3>2, <5>2, IdentityAssumption
        <4> QED
          BY <3>1, <4>1 DEF IdInv, TokensHeld, HasToken, Settled
      <3>4. AuditHeld'
        <4>1. \A x \in Calls : Told(x)' = Told(x)
          BY <3>1 DEF Told
        <4> QED
          BY <3>1, <4>1 DEF IdInv, AuditHeld, EveryEventTrue
      <3> QED
        BY <3>1, <3>3, <3>4
        DEF IdInv, CallsHeld, CallHeld, InvitationsHeld, AcceptsHeld, RevokesHeld,
            OutsidersIdle, OutsiderPowerless, StepUpGenuine, HasToken, DidRevoke, Settled
    <2> QED
      BY <2>1, <2>2, <2>3 DEF IdNext
  <1> QED
    BY <1>1, <1>2, PTL DEF IdSpec

\* Rows and calls keep the kinds the handlers know.
THEOREM IdentityTypes == IdSpec => []IdTypeOK
  <1>1. IdInv => IdTypeOK
    <2> SUFFICES ASSUME IdInv PROVE IdTypeOK
      OBVIOUS
    <2>1. TablesTyped
      BY DEF IdInv
    <2>2. \A t \in tokens : /\ t.organization \in Orgs /\ t.role \in Roles
                            /\ t.kind \in {"bootstrap", "service", "oidc", "oidc-mfa"}
      BY <2>1, IdentityAssumption DEF TablesTyped, IssuedToken, Orgs
    <2>3. \A i \in Calls : invitations[i] # NoRow =>
            invitations[i].status \in {"pending", "accepted", "revoked"}
      BY <2>1 DEF TablesTyped, Invitation
    <2>4. \A h \in Calls : call[h].reply \in Replies
      BY <2>1 DEF TablesTyped, CallRow
    <2> QED
      BY <2>1, <2>2, <2>3, <2>4 DEF IdTypeOK, TablesTyped, Replies
  <1> QED
    BY <1>1, IdInvariant, PTL

\* accept_invitation and revoke_invitation, racing in any number of calls, end
\* an invitation once, and a mail failure leaves none that can be accepted.
THEOREM InvitationsEndAlways == IdSpec => []InvitationsEnd
  <1>1. IdInv => InvitationsEnd
    <2> SUFFICES ASSUME IdInv PROVE InvitationsEnd
      OBVIOUS
    <2> USE DEF IdInv
    <2>1. OneOutcome
      <3> SUFFICES ASSUME NEW i \in Calls
                   PROVE  LET took == {h \in Calls : call[h].kind = "accept" /\ call[h].inv = i
                                                     /\ (\E t \in tokens : t.id = h)}
                              undid == {h \in Calls : call[h].kind = "revoke" /\ call[h].inv = i
                                                      /\ call[h].reply = "ok"}
                          IN  Cardinality(took) + Cardinality(undid) <= 1
        BY DEF OneOutcome
      <3> DEFINE took == {h \in Calls : call[h].kind = "accept" /\ call[h].inv = i
                                        /\ (\E t \in tokens : t.id = h)}
                 undid == {h \in Calls : call[h].kind = "revoke" /\ call[h].inv = i
                                         /\ call[h].reply = "ok"}
      <3>1. \A h \in took : invitations[i].status = "accepted" /\ invitations[i].by = h
        BY DEF AcceptsHeld, HasToken
      <3>2. \A h \in undid : invitations[i].status = "revoked" /\ \A g \in undid : g = h
        BY DEF RevokesHeld, DidRevoke
      <3> HIDE DEF took, undid
      <3>3. took = {} \/ undid = {}
        BY <3>1, <3>2
      <3>4. ASSUME NEW S, \A x, y \in S : x = y PROVE Cardinality(S) = 0 \/ Cardinality(S) = 1
        <4>1. CASE S = {}
          BY <4>1, FS_EmptySet
        <4>2. CASE S # {}
          <5>1. PICK x \in S : TRUE
            BY <4>2
          <5>2. S = {x}
            BY <3>4, <5>1
          <5> QED
            BY <5>2, FS_Singleton
        <4> QED
          BY <4>1, <4>2
      <3>5. /\ Cardinality(took) = 0 \/ Cardinality(took) = 1
            /\ Cardinality(undid) = 0 \/ Cardinality(undid) = 1
        BY <3>1, <3>2, <3>4
      <3>6. Cardinality(took) = 0 \/ Cardinality(undid) = 0
        BY <3>3, FS_EmptySet
      <3> QED
        BY <3>5, <3>6 DEF took, undid
    <2>2. DeadAfterMailFailure
      BY DEF DeadAfterMailFailure, Open, InvitationsHeld
    <2> QED
      BY <2>1, <2>2 DEF InvitationsEnd
  <1> QED
    BY <1>1, IdInvariant, PTL

\* issue_token, create_invitation, accept_invitation and sso_exchange together
\* never give an organization of readers a member or a stronger token, and a
\* step-up token is somebody's who used a second factor.
THEOREM NoElevationAlways == IdSpec => []NoElevation
  <1>1. IdInv => NoElevation
    BY DEF IdInv, NoElevation
  <1> QED
    BY <1>1, IdInvariant, PTL

\* append_event comes after the mutation and may be lost with the connection:
\* then the caller got an error or nothing.  Whoever was told of success finds
\* an event with the values of the row, shared only by equal mutations, and no
\* event speaks of a row that is not there.
THEOREM MutationsLoggedAlways == IdSpec => []MutationsLogged
  <1>1. IdInv => MutationsLogged
    <2> SUFFICES ASSUME IdInv PROVE MutationsLogged
      OBVIOUS
    <2> USE DEF IdInv
    <2>1. ASSUME NEW h \in Calls, Settled(call[h]), ~Silent(h)
          PROVE  call[h].reply = "ok" /\ Told(h)
      BY <2>1 DEF Settled, Silent, CallsHeld, CallHeld, AuditHeld
    <2>2. ASSUME NEW t \in tokens, t.kind = "service", ~Silent(t.id)
          PROVE  \E e \in audit : /\ e[1] = "token.issued" /\ e[2] = t.organization
                                 /\ e[3] = t.role /\ t.expires <= e[4]
      <3>1. PICK h \in Calls : h = t.id
        BY <2>2, IdentityAssumption DEF TablesTyped, IssuedToken
      <3>2. /\ Settled(call[h]) /\ call[h].kind = "issue"
            /\ t.organization = call[h].org /\ t.role = call[h].role
        BY <2>2, <3>1 DEF TokensHeld
      <3>3. Told(h)
        BY <2>1, <2>2, <3>1, <3>2
      <3> QED
        BY <3>1, <3>2, <3>3 DEF Told
    <2>3. ASSUME NEW i \in Calls, invitations[i] # NoRow
          PROVE  LET row == invitations[i] IN
       /\ \/ Silent(i) \/ call[i].reply = "mailfailed"
          \/ <<"invitation.created", row.organization, row.email, row.role, row.expires>> \in audit
       /\ row.status = "accepted" =>
            \/ Silent(row.by)
            \/ <<"invitation.accepted", row.organization, call[row.by].who.sub, row.email, row.role>> \in audit
       /\ row.status = "revoked" =>
            \/ <<"invitation.revoked", row.organization, i>> \in audit
            \/ call[i].kind = "invite" /\ call[i].reply = "mailfailed"
            \/ \E h \in Calls : call[h].kind = "revoke" /\ call[h].inv = i /\ Silent(h)
      <3> DEFINE row == invitations[i]
      <3>1. /\ call[i].kind = "invite" /\ row.organization = call[i].org /\ row.role = call[i].role
        BY <2>3 DEF InvitationsHeld
      <3>2. \/ Silent(i) \/ call[i].reply = "mailfailed"
            \/ <<"invitation.created", row.organization, row.email, row.role, row.expires>> \in audit
        <4>1. CASE call[i].reply = "ok"
          BY <3>1, <4>1 DEF AuditHeld, Told
        <4>2. CASE call[i].reply # "ok"
          BY <2>3, <4>2 DEF Silent, InvitationsHeld
        <4> QED
          BY <4>1, <4>2
      <3>3. ASSUME row.status = "accepted"
            PROVE  \/ Silent(row.by)
                   \/ <<"invitation.accepted", row.organization, call[row.by].who.sub, row.email,
                        row.role>> \in audit
        <4>1. PICK b \in Calls : /\ b = row.by /\ call[b].kind = "accept"
                                 /\ call[b].pc = "identity" \/ Settled(call[b])
                                 /\ row.organization = call[b].org /\ row.role = call[b].role
                                 /\ row.email = call[b].who.email
          BY <2>3, <3>3 DEF InvitationsHeld
        <4>2. CASE call[b].pc = "identity"
          BY <4>1, <4>2 DEF Silent, CallsHeld, CallHeld
        <4>3. CASE Settled(call[b])
          BY <2>1, <4>1, <4>3 DEF Told
        <4> QED
          BY <4>1, <4>2, <4>3
      <3>4. ASSUME row.status = "revoked"
            PROVE  \/ <<"invitation.revoked", row.organization, i>> \in audit
                   \/ call[i].kind = "invite" /\ call[i].reply = "mailfailed"
                   \/ \E h \in Calls : call[h].kind = "revoke" /\ call[h].inv = i /\ Silent(h)
        <4>1. CASE call[i].reply = "mailfailed"
          BY <3>1, <4>1
        <4>2. CASE \E h \in Calls : call[h].kind = "revoke" /\ call[h].inv = i /\ Settled(call[h])
          <5>1. PICK h \in Calls : call[h].kind = "revoke" /\ call[h].inv = i /\ Settled(call[h])
            BY <4>2
          <5>2. CASE Silent(h)
            BY <5>1, <5>2
          <5>3. CASE ~Silent(h)
            <6>1. call[h].reply = "ok" /\ Told(h)
              BY <2>1, <5>1, <5>3
            <6>2. row.organization = call[h].org
              BY <5>1, <6>1 DEF RevokesHeld, DidRevoke
            <6> QED
              BY <5>1, <6>1, <6>2 DEF Told
          <5> QED
            BY <5>2, <5>3
        <4> QED
          BY <2>3, <3>4, <4>1, <4>2 DEF InvitationsHeld
      <3> QED
        BY <3>2, <3>3, <3>4
    <2>4. EveryMutationTold
      BY <2>2, <2>3 DEF EveryMutationTold
    <2> QED
      BY <2>4 DEF MutationsLogged, AuditHeld
  <1> QED
    BY <1>1, IdInvariant, PTL
=============================================================================
