---------------------------- MODULE AdminAccounts ----------------------------
(***************************************************************************)
(* The accounts of the dashboard's administrators and the two kinds of     *)
(* link that set a password: invitations (adminInvitationService.js) and   *)
(* password resets (passwordResetService.js), with the operator's command  *)
(* line (adminProvisioningService.js).                                     *)
(*                                                                         *)
(* Every database call of a request is a step, so requests interleave      *)
(* between a check and the write that relies on it.  A request that fails, *)
(* or whose process dies, is one that takes no further step.  A link is    *)
(* named by the request that made it: the token is random.                 *)
(***************************************************************************)
EXTENDS Naturals, FiniteSets

CONSTANTS
  Emails,       \* one account each at most: admins.email is unique
  Requests,     \* bound of the model: the requests that are ever made
  Beginnings    \* bound of the model: the accounts there may be at first

VARIABLES
  admins,    \* admins: [Emails -> Account]
  invites,   \* admin_invitations, by the request that creates the row
  resets,    \* admin_password_resets, likewise
  req        \* per request: what it does next, and what it has read

rows == <<admins, invites, resets>>
vars == <<admins, invites, resets, req>>

\* REVIEWER and VIEWER accounts are refused alike by the invitation routes.
Roles == {"ADMIN", "VIEWER"}
None == "none"

\* `password`: the request that set it.
Account == [status : {"NONE", "ACTIVE", "INACTIVE"}, role : Roles, password : Requests \cup {None}]
\* `by` wrote the status; `spent`: the requests that set a password through the
\* link; `replaces`: the links of this account when the link was asked for.
Link == [status : {"NONE", "OPEN", "ACCEPTED", "REVOKED", "DELETED", "USED"},
         email : Emails \cup {None}, role : Roles, expired : BOOLEAN, audited : BOOLEAN, mailed : BOOLEAN,
         by : Requests \cup {None}, spent : SUBSET Requests, replaces : SUBSET Requests]
Step == {"idle", "RevokeOld", "CreateInvitation", "AuditInvitation", "MailInvitation",
         "CheckAccount", "Accept", "Revoke", "Delete", "Invalidate", "StoreReset", "MailReset",
         "Reset", "Provision", "done"}
Request == [pc : Step, email : Emails \cup {None}, role : Roles, link : Requests \cup {None},
            seen : {"NONE", "ACTIVE", "INACTIVE"}, replaces : SUBSET Requests]

ASSUME AccountAssumption ==
  /\ None \notin Requests \cup Emails
  /\ Beginnings \subseteq [Emails -> Account]

NoLink == [status |-> "NONE", email |-> None, role |-> "VIEWER", expired |-> FALSE, audited |-> FALSE,
           mailed |-> FALSE, by |-> None, spent |-> {}, replaces |-> {}]
Idle == [pc |-> "idle", email |-> None, role |-> "VIEWER", link |-> None, seen |-> "NONE", replaces |-> {}]

Init ==
  /\ admins \in Beginnings
  /\ invites = [r \in Requests |-> NoLink]
  /\ resets = [r \in Requests |-> NoLink]
  /\ req = [r \in Requests |-> Idle]

\* The request's first step, and the next one.
Begin(r, new) == req[r].pc = "idle" /\ req' = [req EXCEPT ![r] = new]
At(r, pc) == req[r].pc = pc
Goto(r, pc) == req' = [req EXCEPT ![r].pc = pc]

Exists(link) == link.status \notin {"NONE", "DELETED"}
LinksOf(table, e) == {l \in Requests : table[l].email = e}
\* updateMany: every open link of an account is closed.
Closed(table, e, status, r) ==
  [l \in Requests |-> IF table[l].email = e /\ table[l].status = "OPEN"
                      THEN [table[l] EXCEPT !.status = status, !.by = r] ELSE table[l]]
NewLink(r) ==
  [status |-> "OPEN", email |-> req[r].email, role |-> req[r].role, expired |-> FALSE, audited |-> FALSE,
   mailed |-> FALSE, by |-> r, spent |-> {}, replaces |-> req[r].replaces]
Spent(link, status, r) == [link EXCEPT !.status = status, !.by = r, !.spent = @ \cup {r}]

-----------------------------------------------------------------------------
(* Reads *)

Active(e) == admins[e].status = "ACTIVE"

\* requireActiveAdmin and requireRole([ADMIN]): the stored profile decides.
SomeAdmin == \E e \in Emails : Active(e) /\ admins[e].role = "ADMIN"

\* getInvitationByToken, and the same refusals before a password is set.
InvitationWorks(l) == invites[l].status = "OPEN" /\ ~invites[l].expired

\* validateResetToken, likewise.
ResetWorks(l) == resets[l].status = "OPEN" /\ ~resets[l].expired

\* listInvitations: the status on the page, EXPIRED being computed.
ListedStatus(l) == IF invites[l].status = "OPEN" /\ invites[l].expired THEN "EXPIRED" ELSE invites[l].status

-----------------------------------------------------------------------------
(* Invitations *)

\* createInvitation: an account that is active cannot be invited.
InviteCheck(r, e, role) ==
  /\ SomeAdmin /\ ~Active(e)
  /\ Begin(r, [pc |-> "RevokeOld", email |-> e, role |-> role, link |-> r, seen |-> "NONE",
               replaces |-> LinksOf(invites, e)])
  /\ UNCHANGED rows

\* Variant: the links that were sent before are left open.
RevokeNone(r) ==
  /\ At(r, "RevokeOld") /\ Goto(r, "CreateInvitation")
  /\ UNCHANGED rows

RevokeOld(r) ==
  /\ At(r, "RevokeOld")
  /\ invites' = Closed(invites, req[r].email, "REVOKED", r)
  /\ Goto(r, "CreateInvitation")
  /\ UNCHANGED <<admins, resets>>

\* Variant: the account's open links are revoked after the new one is stored.
CreateThenRevoke(r) ==
  /\ At(r, "CreateInvitation")
  /\ invites' = Closed([invites EXCEPT ![r] = NewLink(r)], req[r].email, "REVOKED", r)
  /\ Goto(r, "AuditInvitation")
  /\ UNCHANGED <<admins, resets>>
CreateInvitation(r) ==
  /\ At(r, "CreateInvitation")
  /\ invites' = [invites EXCEPT ![r] = NewLink(r)]
  /\ Goto(r, "AuditInvitation")
  /\ UNCHANGED <<admins, resets>>

AuditInvitation(r) ==
  /\ At(r, "AuditInvitation")
  /\ invites' = [invites EXCEPT ![r] = [@ EXCEPT !.audited = TRUE]]
  /\ Goto(r, "MailInvitation")
  /\ UNCHANGED <<admins, resets>>

\* sendInvitationEmail: the only copy of the token that leaves the process.
MailInvitation(r) ==
  /\ At(r, "MailInvitation")
  /\ invites' = [invites EXCEPT ![r] = [@ EXCEPT !.mailed = TRUE]]
  /\ Goto(r, "done")
  /\ UNCHANGED <<admins, resets>>

\* setupPasswordFromInvitation: reads the invitation, then the account.
SetupRead(r, l) ==
  /\ invites[l].mailed /\ InvitationWorks(l)
  /\ Begin(r, [Idle EXCEPT !.pc = "CheckAccount", !.email = invites[l].email,
                           !.role = invites[l].role, !.link = l])
  /\ UNCHANGED rows

CheckAccount(r) ==
  /\ At(r, "CheckAccount")
  /\ req' = [req EXCEPT ![r] = [@ EXCEPT !.seen = admins[req[r].email].status,
                                         !.pc = IF Active(req[r].email) THEN "done" ELSE "Accept"]]
  /\ UNCHANGED rows

\* The transaction after the password is hashed.  It does not read the
\* invitation again; it is rolled back when the row is gone, or when the
\* account it creates exists by now.
Accepts(r) ==
  /\ Exists(invites[req[r].link])
  /\ req[r].seen = "NONE" => admins[req[r].email].status = "NONE"

Accept(r) ==
  /\ At(r, "Accept") /\ Accepts(r)
  /\ invites' = [invites EXCEPT ![req[r].link] = Spent(@, "ACCEPTED", r)]
  /\ admins' = [admins EXCEPT ![req[r].email] = [status |-> "ACTIVE", role |-> req[r].role, password |-> r]]
  /\ Goto(r, "done")
  /\ UNCHANGED resets

AcceptFails(r) ==
  /\ At(r, "Accept") /\ ~Accepts(r)
  /\ Goto(r, "done")
  /\ UNCHANGED rows

\* revokeInvitation: neither accepted nor revoked, when it is read.
RevokeRead(r, l) ==
  /\ SomeAdmin /\ invites[l].status = "OPEN"
  /\ Begin(r, [Idle EXCEPT !.pc = "Revoke", !.link = l])
  /\ UNCHANGED rows

Revoke(r) ==
  /\ At(r, "Revoke")
  /\ invites' = IF Exists(invites[req[r].link])
                THEN [invites EXCEPT ![req[r].link] = [@ EXCEPT !.status = "REVOKED", !.by = r]]
                ELSE invites
  /\ Goto(r, "done")
  /\ UNCHANGED <<admins, resets>>

\* deleteInvitation: of any status.
DeleteRead(r, l) ==
  /\ SomeAdmin /\ Exists(invites[l])
  /\ Begin(r, [Idle EXCEPT !.pc = "Delete", !.link = l])
  /\ UNCHANGED rows

Delete(r) ==
  /\ At(r, "Delete")
  /\ invites' = [invites EXCEPT ![req[r].link] = [@ EXCEPT !.status = "DELETED", !.by = r]]
  /\ Goto(r, "done")
  /\ UNCHANGED <<admins, resets>>

-----------------------------------------------------------------------------
(* Password resets *)

\* requestPasswordReset: nothing happens for an account that is not active.
ForgotRead(r, e) ==
  /\ Active(e)
  /\ Begin(r, [Idle EXCEPT !.pc = "Invalidate", !.email = e, !.link = r, !.replaces = LinksOf(resets, e)])
  /\ UNCHANGED rows

Invalidate(r) ==
  /\ At(r, "Invalidate")
  /\ resets' = Closed(resets, req[r].email, "USED", r)
  /\ Goto(r, "StoreReset")
  /\ UNCHANGED <<admins, invites>>

StoreReset(r) ==
  /\ At(r, "StoreReset")
  /\ resets' = [resets EXCEPT ![r] = NewLink(r)]
  /\ Goto(r, "MailReset")
  /\ UNCHANGED <<admins, invites>>

\* Not awaited: the answer is out before the mail, which may never go.
MailReset(r) ==
  /\ At(r, "MailReset")
  /\ resets' = [resets EXCEPT ![r] = [@ EXCEPT !.mailed = TRUE]]
  /\ Goto(r, "done")
  /\ UNCHANGED <<admins, invites>>

\* resetPassword: the link is read, the password hashed, and both rows written.
ResetRead(r, l) ==
  /\ resets[l].mailed /\ ResetWorks(l)
  /\ Begin(r, [Idle EXCEPT !.pc = "Reset", !.email = resets[l].email, !.link = l])
  /\ UNCHANGED rows

\* Variant: the account is made usable as well.
ResetActivates(r) ==
  /\ At(r, "Reset")
  /\ resets' = [resets EXCEPT ![req[r].link] = Spent(@, "USED", r)]
  /\ admins' = [admins EXCEPT ![req[r].email] = [@ EXCEPT !.password = r, !.status = "ACTIVE"]]
  /\ Goto(r, "done")
  /\ UNCHANGED invites

Reset(r) ==
  /\ At(r, "Reset")
  /\ resets' = [resets EXCEPT ![req[r].link] = Spent(@, "USED", r)]
  /\ admins' = [admins EXCEPT ![req[r].email].password = r]
  /\ Goto(r, "done")
  /\ UNCHANGED invites

-----------------------------------------------------------------------------
(* Accounts *)

\* createAdminAccount, run by an operator at a terminal.
ProvisionRead(r, e) ==
  /\ admins[e].status = "NONE"
  /\ Begin(r, [Idle EXCEPT !.pc = "Provision", !.email = e, !.role = "ADMIN"])
  /\ UNCHANGED rows

\* Variant: an upsert.
ProvisionUpsert(r) ==
  /\ At(r, "Provision")
  /\ admins' = [admins EXCEPT ![req[r].email] = [status |-> "ACTIVE", role |-> req[r].role, password |-> r]]
  /\ Goto(r, "done")
  /\ UNCHANGED <<invites, resets>>

Provision(r) ==
  /\ At(r, "Provision")
  /\ admins' = IF admins[req[r].email].status = "NONE"
               THEN [admins EXCEPT ![req[r].email] = [status |-> "ACTIVE", role |-> req[r].role, password |-> r]]
               ELSE admins
  /\ Goto(r, "done")
  /\ UNCHANGED <<invites, resets>>

\* No code deactivates an account: it is done in the database.
Deactivate(e) ==
  /\ Active(e)
  /\ admins' = [admins EXCEPT ![e].status = "INACTIVE"]
  /\ UNCHANGED <<invites, resets, req>>

\* 24 hours for an invitation, one hour for a reset.
ExpireInvitation(l) ==
  /\ InvitationWorks(l)
  /\ invites' = [invites EXCEPT ![l] = [@ EXCEPT !.expired = TRUE]]
  /\ UNCHANGED <<admins, resets, req>>

ExpireReset(l) ==
  /\ ResetWorks(l)
  /\ resets' = [resets EXCEPT ![l] = [@ EXCEPT !.expired = TRUE]]
  /\ UNCHANGED <<admins, invites, req>>

-----------------------------------------------------------------------------
RequestStep(r) ==
  \/ \E e \in Emails, role \in Roles : InviteCheck(r, e, role)
  \/ RevokeOld(r) \/ CreateInvitation(r) \/ AuditInvitation(r) \/ MailInvitation(r)
  \/ \E l \in Requests : SetupRead(r, l) \/ RevokeRead(r, l) \/ DeleteRead(r, l) \/ ResetRead(r, l)
  \/ CheckAccount(r) \/ Accept(r) \/ AcceptFails(r) \/ Revoke(r) \/ Delete(r)
  \/ \E e \in Emails : ForgotRead(r, e) \/ ProvisionRead(r, e)
  \/ Invalidate(r) \/ StoreReset(r) \/ MailReset(r) \/ Reset(r) \/ Provision(r)

Next ==
  \/ \E r \in Requests : RequestStep(r)
  \/ \E e \in Emails : Deactivate(e)
  \/ \E l \in Requests : ExpireInvitation(l) \/ ExpireReset(l)

Spec == Init /\ [][Next]_vars

-----------------------------------------------------------------------------
TypeOK ==
  /\ admins \in [Emails -> Account]
  /\ invites \in [Requests -> Link]
  /\ resets \in [Requests -> Link]
  /\ req \in [Requests -> Request]

\* Once a new link of an account is stored, the links that the account had when
\* the new one was asked for work no more and are not listed as pending,
\* whatever requests with the older links are still under way.
OldLinksDead ==
  \A r \in Requests :
    /\ \A l \in invites[r].replaces : ~InvitationWorks(l) /\ ListedStatus(l) # "OPEN"
    /\ \A l \in resets[r].replaces : ~ResetWorks(l)

\* A request never closes the link it has made itself.
OwnLinkLives ==
  \A r \in Requests, table \in {invites, resets} :
    table[r].status \notin {"NONE", "OPEN"} => table[r].by # r

\* A link that has been mailed has its audit record, so every password set
\* through an invitation follows a recorded one, even when a call fails midway.
MailedIsAudited ==
  \A r \in Requests : invites[r].mailed => invites[r].audited

\* An invitation listed as accepted is one through which a password was set, by
\* the request that marked it.
AcceptedSetsPassword ==
  \A r \in Requests : invites[r].status = "ACCEPTED" => invites[r].by \in invites[r].spent

\* An account becomes active only when it is created by an operator, or by the
\* setup that marks its mailed invitation as accepted: never by a reset.
ActivatedByInvitation ==
  [][\A e \in Emails : ~Active(e) /\ admins'[e].status = "ACTIVE" =>
       \/ admins[e].status = "NONE" /\ req[admins'[e].password].pc = "Provision"
       \/ \E l \in Requests : /\ invites[l].email = e /\ invites[l].mailed
                              /\ invites'[l].status = "ACCEPTED"
                              /\ invites'[l].by = admins'[e].password]_vars

\* The role and the password of an active account change only through a reset
\* link of this account, or by a setup that had read the account as inactive.
ActiveKept ==
  [][\A e \in Emails : Active(e) =>
       \/ admins'[e] = [admins[e] EXCEPT !.status = admins'[e].status]
       \/ /\ admins'[e] = [admins[e] EXCEPT !.password = admins'[e].password]
          /\ \E l \in Requests : resets[l].email = e /\ resets[l].mailed /\ admins'[e].password \in resets'[l].spent
       \/ LET r == admins'[e].password IN req[r].pc = "Accept" /\ req[r].email = e /\ req[r].seen = "INACTIVE"]_vars
=============================================================================
