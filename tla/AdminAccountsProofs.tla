-------------------------- MODULE AdminAccountsProofs --------------------------
(***************************************************************************)
(* Proofs about AdminAccounts, for any number of accounts and requests.    *)
(*                                                                         *)
(* The argument: a stored link keeps its account, is never opened again    *)
(* and never forgets that it was audited and mailed (RowKept), so what a   *)
(* request has read of a link stays true enough while others run.          *)
(***************************************************************************)
EXTENDS AdminAccounts, TLAPS

Gone == {"NONE", "OPEN"}

\* What may happen to a row of either table.
RowKept(old, new) ==
  /\ old.status # "NONE" => new.status # "NONE" /\ new.email = old.email /\ new.replaces = old.replaces
  /\ old.status \notin Gone => new.status \notin Gone
  /\ old.mailed => new.mailed
  /\ old.audited => new.audited

\* A request that has not stored a link has no row.
NoRow(r) == invites[r] = NoLink /\ resets[r] = NoLink
RowLess == Step \ {"AuditInvitation", "MailInvitation", "MailReset", "done"}

\* What a request relies on between its calls.
Relies(r) ==
  /\ req[r].pc \in RowLess => NoRow(r)
  /\ req[r].pc \notin {"idle", "Revoke", "Delete", "done"} => req[r].email \in Emails
  /\ req[r].pc = "RevokeOld" =>
       \A l \in req[r].replaces : invites[l].status # "NONE" /\ invites[l].email = req[r].email
  /\ req[r].pc = "CreateInvitation" => \A l \in req[r].replaces : invites[l].status \notin Gone
  /\ req[r].pc = "Invalidate" =>
       \A l \in req[r].replaces : resets[l].status # "NONE" /\ resets[l].email = req[r].email
  /\ req[r].pc = "StoreReset" => \A l \in req[r].replaces : resets[l].status \notin Gone
  /\ req[r].pc = "MailInvitation" => invites[r].audited
  /\ req[r].pc \in {"AuditInvitation", "MailInvitation"} => invites[r].status # "NONE"
  /\ req[r].pc = "MailReset" => resets[r].status # "NONE"
  /\ req[r].pc \in {"CheckAccount", "Accept", "Revoke", "Delete"} =>
       req[r].link \in Requests /\ invites[req[r].link].status # "NONE"
  /\ req[r].pc \in {"CheckAccount", "Accept"} =>
       invites[req[r].link].email = req[r].email /\ invites[req[r].link].mailed
  /\ req[r].pc = "Accept" => req[r].seen # "ACTIVE"
  /\ req[r].pc = "Reset" =>
       /\ req[r].link \in Requests /\ resets[req[r].link].status # "NONE"
       /\ resets[req[r].link].email = req[r].email /\ resets[req[r].link].mailed

\* What is true of every stored link.
Sound(table, r) ==
  /\ table[r].status = "NONE" => table[r] = NoLink
  /\ \A l \in table[r].replaces : table[l].status \notin Gone
  /\ table[r].status \notin Gone => table[r].by # r

\* A stored link is an account's.
StoredHasEmail ==
  \A r \in Requests, table \in {invites, resets} : table[r].status # "NONE" => table[r].email \in Emails

IInv ==
  /\ TypeOK /\ StoredHasEmail
  /\ \A r \in Requests : Relies(r)
  /\ \A r \in Requests : Sound(invites, r) /\ Sound(resets, r)
  /\ MailedIsAudited
  /\ AcceptedSetsPassword

-----------------------------------------------------------------------------
(* Types.                                                                  *)

LEMMA ClosedType ==
  ASSUME NEW table \in [Requests -> Link], NEW e, NEW r \in Requests, NEW status \in {"REVOKED", "USED"}
  PROVE  Closed(table, e, status, r) \in [Requests -> Link]
<1> SUFFICES ASSUME NEW l \in Requests
             PROVE  [table[l] EXCEPT !.status = status, !.by = r] \in Link
  BY DEF Closed
<1> table[l] \in Link
  OBVIOUS
<1> QED BY DEF Link

LEMMA NewLinkType ==
  ASSUME TypeOK, NEW r \in Requests
  PROVE  NewLink(r) \in Link
<1> req[r] \in Request
  BY DEF TypeOK
<1> QED BY DEF NewLink, Link, Request

LEMMA SpentType ==
  ASSUME NEW link \in Link, NEW r \in Requests, NEW status \in {"ACCEPTED", "USED"}
  PROVE  Spent(link, status, r) \in Link
BY DEF Spent, Link

LEMMA EditType ==
  ASSUME NEW link \in Link, NEW r \in Requests
  PROVE  /\ [link EXCEPT !.audited = TRUE] \in Link
         /\ [link EXCEPT !.mailed = TRUE] \in Link
         /\ [link EXCEPT !.expired = TRUE] \in Link
         /\ [link EXCEPT !.status = "REVOKED", !.by = r] \in Link
         /\ [link EXCEPT !.status = "DELETED", !.by = r] \in Link
BY DEF Link

\* Every step keeps the types, given what the request relies on.
LEMMA Typing ==
  ASSUME TypeOK, \A r \in Requests : Relies(r), [Next]_vars
  PROVE  TypeOK'
<1> USE DEF TypeOK
<1>a. /\ \A r \in Requests : req[r] \in Request /\ invites[r] \in Link /\ resets[r] \in Link
      /\ \A e \in Emails : admins[e] \in Account
  OBVIOUS
<1>r. ASSUME NEW r \in Requests, RequestStep(r)
      PROVE  req' \in [Requests -> Request]
  <2>1. ASSUME NEW new \in Request, Begin(r, new) PROVE req' \in [Requests -> Request]
    BY <2>1 DEF Begin
  <2>2. ASSUME NEW pc \in Step, Goto(r, pc) PROVE req' \in [Requests -> Request]
    BY <2>2 DEF Goto, Request
  <2>3. ASSUME NEW e \in Emails, NEW role \in Roles, InviteCheck(r, e, role) PROVE req' \in [Requests -> Request]
    <3>1. [pc |-> "RevokeOld", email |-> e, role |-> role, link |-> r, seen |-> "NONE",
           replaces |-> LinksOf(invites, e)] \in Request
      BY DEF Request, Step, LinksOf
    <3> QED BY <3>1, <2>1, <2>3 DEF InviteCheck
  <2>4. ASSUME NEW l \in Requests, SetupRead(r, l) \/ RevokeRead(r, l) \/ DeleteRead(r, l) \/ ResetRead(r, l)
        PROVE req' \in [Requests -> Request]
    <3>1. /\ [Idle EXCEPT !.pc = "CheckAccount", !.email = invites[l].email, !.role = invites[l].role,
                          !.link = l] \in Request
          /\ [Idle EXCEPT !.pc = "Revoke", !.link = l] \in Request
          /\ [Idle EXCEPT !.pc = "Delete", !.link = l] \in Request
          /\ [Idle EXCEPT !.pc = "Reset", !.email = resets[l].email, !.link = l] \in Request
      BY <1>a DEF Request, Step, Idle, Link, Roles
    <3> QED BY <3>1, <2>1, <2>4 DEF SetupRead, RevokeRead, DeleteRead, ResetRead
  <2>5. ASSUME NEW e \in Emails, ForgotRead(r, e) \/ ProvisionRead(r, e) PROVE req' \in [Requests -> Request]
    <3>1. /\ [Idle EXCEPT !.pc = "Invalidate", !.email = e, !.link = r,
                          !.replaces = LinksOf(resets, e)] \in Request
          /\ [Idle EXCEPT !.pc = "Provision", !.email = e, !.role = "ADMIN"] \in Request
      BY DEF Request, Step, Idle, LinksOf, Roles
    <3> QED BY <3>1, <2>1, <2>5 DEF ForgotRead, ProvisionRead
  <2>6. CASE CheckAccount(r)
    <3>1. req[r].email \in Emails
      BY <2>6 DEF CheckAccount, At, Relies
    <3>2. admins[req[r].email].status \in {"NONE", "ACTIVE", "INACTIVE"}
      BY <3>1, <1>a DEF Account
    <3>3. ASSUME NEW pc \in {"done", "Accept"}, NEW seen \in {"NONE", "ACTIVE", "INACTIVE"}
          PROVE  [req[r] EXCEPT !.seen = seen, !.pc = pc] \in Request
      <4>1. pc \in Step
        BY DEF Step
      <4>2. req[r] \in Request
        BY <1>a
      <4> QED BY <4>1, <4>2 DEF Request
    <3> DEFINE pc == IF Active(req[r].email) THEN "done" ELSE "Accept"
    <3>4. [req[r] EXCEPT !.seen = admins[req[r].email].status, !.pc = pc] \in Request
      BY <3>2, <3>3
    <3> QED BY <3>4, <2>6 DEF CheckAccount
  <2>7. {"CreateInvitation", "AuditInvitation", "MailInvitation", "StoreReset", "MailReset", "done"} \subseteq Step
    BY DEF Step
  <2>8. CASE RevokeOld(r) \/ CreateInvitation(r) \/ AuditInvitation(r) \/ MailInvitation(r) \/ Accept(r)
             \/ AcceptFails(r) \/ Revoke(r) \/ Delete(r) \/ Invalidate(r) \/ StoreReset(r) \/ MailReset(r)
             \/ Reset(r) \/ Provision(r)
    <3> HIDE DEF TypeOK
    <3> QED BY <2>8, <2>7, <2>2 DEF RevokeOld, CreateInvitation, AuditInvitation, MailInvitation, Accept, AcceptFails,
               Revoke, Delete, Invalidate, StoreReset, MailReset, Reset, Provision
  <2> QED BY <1>r, <2>3, <2>4, <2>5, <2>6, <2>8 DEF RequestStep
<1>i. ASSUME NEW r \in Requests, RequestStep(r)
      PROVE  invites' \in [Requests -> Link]
  <2>1. CASE RevokeOld(r)
    BY <2>1, ClosedType DEF RevokeOld
  <2>2. CASE CreateInvitation(r)
    BY <2>2, NewLinkType DEF CreateInvitation
  <2>3. CASE AuditInvitation(r) \/ MailInvitation(r)
    BY <2>3, <1>a, EditType DEF AuditInvitation, MailInvitation
  <2>4. CASE Accept(r)
    <3>1. Spent(invites[req[r].link], "ACCEPTED", r) \in Link
      BY <2>4, <1>a, SpentType DEF Accept, At, Relies
    <3> QED BY <2>4, <3>1 DEF Accept
  <2>5. CASE Revoke(r)
    <3>1. [invites[req[r].link] EXCEPT !.status = "REVOKED", !.by = r] \in Link
      BY <2>5, <1>a, EditType DEF Revoke, At, Relies
    <3> QED BY <2>5, <3>1 DEF Revoke
  <2>6. CASE Delete(r)
    <3>1. [invites[req[r].link] EXCEPT !.status = "DELETED", !.by = r] \in Link
      BY <2>6, <1>a, EditType DEF Delete, At, Relies
    <3> QED BY <2>6, <3>1 DEF Delete
  <2>7. CASE UNCHANGED invites
    BY <2>7
  <2> QED BY <1>i, <2>1, <2>2, <2>3, <2>4, <2>5, <2>6, <2>7
          DEF RequestStep, rows, InviteCheck, SetupRead, RevokeRead, DeleteRead, ResetRead, CheckAccount, AcceptFails,
              ForgotRead, ProvisionRead, Invalidate, StoreReset, MailReset, Reset, Provision
<1>s. ASSUME NEW r \in Requests, RequestStep(r)
      PROVE  resets' \in [Requests -> Link]
  <2>1. CASE Invalidate(r)
    BY <2>1, ClosedType DEF Invalidate
  <2>2. CASE StoreReset(r)
    BY <2>2, NewLinkType DEF StoreReset
  <2>3. CASE MailReset(r)
    BY <2>3, <1>a, EditType DEF MailReset
  <2>4. CASE Reset(r)
    <3>1. Spent(resets[req[r].link], "USED", r) \in Link
      BY <2>4, <1>a, SpentType DEF Reset, At, Relies
    <3> QED BY <2>4, <3>1 DEF Reset
  <2>5. CASE UNCHANGED resets
    BY <2>5
  <2> QED BY <1>s, <2>1, <2>2, <2>3, <2>4, <2>5
          DEF RequestStep, rows, InviteCheck, SetupRead, RevokeRead, DeleteRead, ResetRead, CheckAccount, AcceptFails,
              ForgotRead, ProvisionRead, RevokeOld, CreateInvitation, AuditInvitation, MailInvitation, Accept, Revoke,
              Delete, Provision
<1>d. ASSUME NEW r \in Requests, RequestStep(r)
      PROVE  admins' \in [Emails -> Account]
  <2>1. CASE Accept(r) \/ Provision(r)
    <3>1. [status |-> "ACTIVE", role |-> req[r].role, password |-> r] \in Account
      BY <1>a DEF Account, Request
    <3> QED BY <3>1, <2>1 DEF Accept, Provision
  <2>2. CASE Reset(r)
    BY <2>2 DEF Reset, Account
  <2>3. CASE UNCHANGED admins
    BY <2>3
  <2> QED BY <1>d, <2>1, <2>2, <2>3
          DEF RequestStep, rows, InviteCheck, SetupRead, RevokeRead, DeleteRead, ResetRead, CheckAccount, AcceptFails,
              ForgotRead, ProvisionRead, RevokeOld, CreateInvitation, AuditInvitation, MailInvitation, Revoke,
              Delete, Invalidate, StoreReset, MailReset
<1>e. ASSUME NEW e \in Emails, Deactivate(e) PROVE TypeOK'
  BY <1>e DEF Deactivate, Account
<1>x. ASSUME NEW l \in Requests, ExpireInvitation(l) \/ ExpireReset(l) PROVE TypeOK'
  BY <1>x, <1>a, EditType DEF ExpireInvitation, ExpireReset
<1>u. CASE UNCHANGED vars
  BY <1>u DEF vars
<1> QED BY <1>r, <1>i, <1>s, <1>d, <1>e, <1>x, <1>u DEF Next
-----------------------------------------------------------------------------
(* What a step does to the rows and to the other requests.                 *)

\* A step of one request leaves the others where they are.
LEMMA OthersWait ==
  ASSUME TypeOK, NEW r \in Requests, RequestStep(r), NEW q \in Requests, q # r
  PROVE  req'[q] = req[q]
BY DEF TypeOK, RequestStep, Begin, Goto, InviteCheck, SetupRead, RevokeRead, DeleteRead, ResetRead, CheckAccount,
       AcceptFails, ForgotRead, ProvisionRead, RevokeOld, CreateInvitation, AuditInvitation, MailInvitation, Accept,
       Revoke, Delete, Invalidate, StoreReset, MailReset, Reset, Provision

LEMMA ClosedKeeps ==
  ASSUME NEW table \in [Requests -> Link], NEW e, NEW r \in Requests, NEW status \in {"REVOKED", "USED"},
         NEW l \in Requests
  PROVE  LET new == Closed(table, e, status, r)[l]
         IN  /\ RowKept(table[l], new)
             /\ table[l].status = "NONE" => new = table[l]
             /\ new.replaces = table[l].replaces
             /\ new = table[l] \/ (new.status = status /\ new.by = r /\ table[l].status = "OPEN" /\ table[l].email = e)
             /\ new.email = e => new.status # "OPEN"
<1> table[l] \in Link
  OBVIOUS
<1>1. CASE table[l].email = e /\ table[l].status = "OPEN"
  <2>1. Closed(table, e, status, r)[l] = [table[l] EXCEPT !.status = status, !.by = r]
    BY <1>1 DEF Closed
  <2> QED BY <2>1, <1>1 DEF RowKept, Link, Gone
<1>2. CASE ~(table[l].email = e /\ table[l].status = "OPEN")
  <2>1. Closed(table, e, status, r)[l] = table[l]
    BY <1>2 DEF Closed
  <2> QED BY <2>1, <1>2 DEF RowKept
<1> QED BY <1>1, <1>2

LEMMA EditKeeps ==
  ASSUME NEW link \in Link, link.status # "NONE", NEW r \in Requests
  PROVE  /\ RowKept(link, [link EXCEPT !.audited = TRUE])
         /\ RowKept(link, [link EXCEPT !.mailed = TRUE])
         /\ RowKept(link, [link EXCEPT !.expired = TRUE])
         /\ RowKept(link, [link EXCEPT !.status = "REVOKED", !.by = r])
         /\ RowKept(link, [link EXCEPT !.status = "DELETED", !.by = r])
         /\ RowKept(link, Spent(link, "ACCEPTED", r))
         /\ RowKept(link, Spent(link, "USED", r))
BY DEF RowKept, Link, Spent, Gone

\* A row changes as RowKept says, and appears only by its own request.
LEMMA InvitesKept ==
  ASSUME TypeOK, NEW r \in Requests, Relies(r), RequestStep(r), NEW l \in Requests
  PROVE  /\ RowKept(invites[l], invites'[l])
         /\ l # r /\ invites[l].status = "NONE" => invites'[l] = invites[l]
<1> invites \in [Requests -> Link] /\ invites[l] \in Link
  BY DEF TypeOK
<1>1. CASE RevokeOld(r)
  BY <1>1, ClosedKeeps DEF RevokeOld
<1>2. CASE CreateInvitation(r)
  <2>1. invites[r].status = "NONE" /\ ~invites[r].mailed /\ ~invites[r].audited
    BY <1>2 DEF CreateInvitation, At, Relies, RowLess, Step, NoRow, NoLink
  <2> QED BY <1>2, <2>1 DEF CreateInvitation, RowKept, Gone
<1>3. CASE AuditInvitation(r) \/ MailInvitation(r)
  <2>1. invites[r].status # "NONE"
    BY <1>3 DEF AuditInvitation, MailInvitation, At, Relies
  <2>2. invites'[r] \in {[invites[r] EXCEPT !.audited = TRUE], [invites[r] EXCEPT !.mailed = TRUE]}
        /\ (l # r => invites'[l] = invites[l])
    BY <1>3 DEF AuditInvitation, MailInvitation
  <2>3. RowKept(invites[r], invites'[r])
    BY <2>1, <2>2, EditKeeps DEF TypeOK
  <2>4. RowKept(invites[l], invites[l])
    BY DEF RowKept
  <2> QED BY <2>2, <2>3, <2>4
<1>4. CASE Accept(r)
  <2>1. req[r].link \in Requests /\ invites[req[r].link].status # "NONE"
    BY <1>4 DEF Accept, At, Relies
  <2> QED BY <1>4, <2>1, EditKeeps DEF Accept, RowKept
<1>5. CASE Revoke(r) \/ Delete(r)
  <2>1. req[r].link \in Requests /\ invites[req[r].link].status # "NONE"
    BY <1>5 DEF Revoke, Delete, At, Relies
  <2> DEFINE k == req[r].link
  <2>2. /\ invites'[k] \in {invites[k], [invites[k] EXCEPT !.status = "REVOKED", !.by = r],
                                       [invites[k] EXCEPT !.status = "DELETED", !.by = r]}
        /\ l # k => invites'[l] = invites[l]
    BY <1>5, <2>1 DEF Revoke, Delete
  <2>3. RowKept(invites[k], invites'[k])
    <3>1. RowKept(invites[k], invites[k])
      BY DEF RowKept
    <3>2. invites[k] \in Link /\ invites[k].status # "NONE"
      BY <2>1 DEF TypeOK
    <3> HIDE DEF k
    <3> QED BY <2>2, <3>1, <3>2, EditKeeps
  <2>4. RowKept(invites[l], invites[l])
    BY DEF RowKept
  <2> QED BY <2>1, <2>2, <2>3, <2>4
<1>6. CASE UNCHANGED invites
  BY <1>6 DEF RowKept
<1> QED BY <1>1, <1>2, <1>3, <1>4, <1>5, <1>6
        DEF RequestStep, rows, InviteCheck, SetupRead, RevokeRead, DeleteRead, ResetRead, CheckAccount, AcceptFails,
            ForgotRead, ProvisionRead, Invalidate, StoreReset, MailReset, Reset, Provision

LEMMA ResetsKept ==
  ASSUME TypeOK, NEW r \in Requests, Relies(r), RequestStep(r), NEW l \in Requests
  PROVE  /\ RowKept(resets[l], resets'[l])
         /\ l # r /\ resets[l].status = "NONE" => resets'[l] = resets[l]
<1> resets \in [Requests -> Link] /\ resets[l] \in Link
  BY DEF TypeOK
<1>1. CASE Invalidate(r)
  BY <1>1, ClosedKeeps DEF Invalidate
<1>2. CASE StoreReset(r)
  <2>1. resets[r].status = "NONE" /\ ~resets[r].mailed /\ ~resets[r].audited
    BY <1>2 DEF StoreReset, At, Relies, RowLess, Step, NoRow, NoLink
  <2> QED BY <1>2, <2>1 DEF StoreReset, RowKept, Gone
<1>3. CASE MailReset(r)
  <2>1. resets[r].status # "NONE"
    BY <1>3 DEF MailReset, At, Relies
  <2> QED BY <1>3, <2>1, EditKeeps DEF MailReset, RowKept
<1>4. CASE Reset(r)
  <2>1. req[r].link \in Requests /\ resets[req[r].link].status # "NONE"
    BY <1>4 DEF Reset, At, Relies
  <2> QED BY <1>4, <2>1, EditKeeps DEF Reset, RowKept
<1>5. CASE UNCHANGED resets
  BY <1>5 DEF RowKept
<1> QED BY <1>1, <1>2, <1>3, <1>4, <1>5
        DEF RequestStep, rows, InviteCheck, SetupRead, RevokeRead, DeleteRead, ResetRead, CheckAccount, AcceptFails,
            ForgotRead, ProvisionRead, RevokeOld, CreateInvitation, AuditInvitation, MailInvitation, Accept, Revoke,
            Delete, Provision

-----------------------------------------------------------------------------
(* What a request relies on.                                               *)

\* Rows that change as RowKept says keep what a waiting request relies on.
LEMMA WaitingRelies ==
  ASSUME TypeOK, TypeOK', NEW q \in Requests, Relies(q), Sound(invites, q), Sound(resets, q), req'[q] = req[q],
         \A l \in Requests : RowKept(invites[l], invites'[l]) /\ RowKept(resets[l], resets'[l]),
         NoRow(q) => NoRow(q)'
  PROVE  Relies(q)'
<1>1. req[q] \in Request
  BY DEF TypeOK
<1>2. req[q].replaces \subseteq Requests
  BY <1>1 DEF Request
<1> QED BY <1>2 DEF Relies, RowKept, Gone

\* The links of an account that are stored at all.
LEMMA LinksStored ==
  ASSUME TypeOK, \A l \in Requests : Sound(invites, l) /\ Sound(resets, l), NEW e \in Emails
  PROVE  /\ \A l \in LinksOf(invites, e) : invites[l].status # "NONE" /\ invites[l].email = e
         /\ \A l \in LinksOf(resets, e) : resets[l].status # "NONE" /\ resets[l].email = e
BY AccountAssumption DEF LinksOf, Sound, NoLink

\* The request that steps gets what it relies on next.
LEMMA SteppingRelies ==
  ASSUME IInv, TypeOK', NEW r \in Requests, RequestStep(r)
  PROVE  Relies(r)'
<1>0. /\ TypeOK /\ Relies(r) /\ Sound(invites, r) /\ Sound(resets, r)
      /\ req[r] \in Request /\ invites[r] \in Link /\ resets[r] \in Link
      /\ \A l \in Requests : invites[l] \in Link /\ resets[l] \in Link
  BY DEF IInv, TypeOK
<1>m. /\ \A l \in Requests : RowKept(invites[l], invites'[l])
      /\ \A l \in Requests : RowKept(resets[l], resets'[l])
  BY <1>0, InvitesKept, ResetsKept
<1>n. \A new : Begin(r, new) => req'[r] = new /\ NoRow(r)
  BY <1>0 DEF Begin, TypeOK, RowLess, Step, Relies
<1>l. /\ req[r].pc \in {"RevokeOld", "CheckAccount", "Invalidate"} => NoRow(r)
      /\ \A pc \in {"AuditInvitation", "MailInvitation", "MailReset", "done"} : pc \notin RowLess
  BY <1>0 DEF Relies, RowLess, Step
<1>g. \A pc : At(r, pc) => req[r].pc = pc
  BY DEF At
<1>h. \A pc : Goto(r, pc) => /\ req'[r].pc = pc /\ req'[r].email = req[r].email /\ req'[r].link = req[r].link
                             /\ req'[r].replaces = req[r].replaces /\ req'[r].seen = req[r].seen
  BY <1>0 DEF Goto, TypeOK, Request
<1>1. ASSUME NEW e \in Emails, NEW role \in Roles, InviteCheck(r, e, role) PROVE Relies(r)'
  <2>1. /\ req'[r].pc = "RevokeOld" /\ req'[r].email = e /\ req'[r].replaces = LinksOf(invites, e)
        /\ NoRow(r) /\ invites' = invites /\ resets' = resets
    BY <1>1, <1>n DEF InviteCheck, rows
  <2>2. \A l \in LinksOf(invites, e) : invites[l].status # "NONE" /\ invites[l].email = e
    BY LinksStored, <1>0 DEF IInv
  <2> QED BY <2>1, <2>2 DEF NoRow, Relies
<1>2. CASE RevokeOld(r)
  <2>1. /\ req[r].pc = "RevokeOld" /\ req'[r].pc = "CreateInvitation" /\ req'[r].email = req[r].email
        /\ req'[r].replaces = req[r].replaces /\ resets' = resets
        /\ invites' = Closed(invites, req[r].email, "REVOKED", r)
    BY <1>2, <1>g, <1>h DEF RevokeOld
  <2>2. NoRow(r)
    BY <2>1, <1>l
  <2>3. NoRow(r)'
    <3>1. invites[r] = NoLink /\ resets[r] = NoLink /\ NoLink.status = "NONE"
      BY <2>2 DEF NoRow, NoLink
    <3> QED BY <2>1, <3>1 DEF NoRow, Closed
  <2>4. ASSUME NEW l \in req[r].replaces PROVE invites'[l].status \notin Gone
    <3>1. l \in Requests /\ invites[l].status # "NONE" /\ invites[l].email = req[r].email
      BY <2>1, <1>0 DEF Request, Relies
    <3>2. invites'[l].status # "NONE" /\ invites'[l].email = req[r].email
      BY <3>1, <1>m DEF RowKept
    <3>3. invites'[l].email = req[r].email => invites'[l].status # "OPEN"
      BY <2>1, <3>1, <1>0, ClosedKeeps DEF TypeOK
    <3> QED BY <3>2, <3>3 DEF Gone
  <2> QED BY <2>1, <2>3, <2>4, <1>0 DEF Relies
<1>3. CASE CreateInvitation(r)
  <2>1. /\ req[r].pc = "CreateInvitation" /\ req'[r].pc = "AuditInvitation" /\ req'[r].email = req[r].email
    BY <1>3, <1>g, <1>h DEF CreateInvitation
  <2>2. invites'[r].status = "OPEN"
    BY <1>3, <1>0 DEF CreateInvitation, NewLink, TypeOK
  <2> QED BY <2>1, <2>2, <1>l, <1>0 DEF Relies
<1>4. CASE AuditInvitation(r)
  <2>1. /\ req[r].pc = "AuditInvitation" /\ req'[r].pc = "MailInvitation" /\ req'[r].email = req[r].email
    BY <1>4, <1>g, <1>h DEF AuditInvitation
  <2>2. invites'[r].audited /\ invites'[r].status = invites[r].status
    BY <1>4, <1>0 DEF AuditInvitation, TypeOK, Link
  <2> QED BY <2>1, <2>2, <1>l, <1>0 DEF Relies
<1>5. ASSUME NEW l \in Requests, SetupRead(r, l) PROVE Relies(r)'
  <2>1. /\ req'[r].pc = "CheckAccount" /\ req'[r].email = invites[l].email /\ req'[r].link = l
        /\ NoRow(r) /\ invites' = invites /\ resets' = resets
    <3> DEFINE new == [Idle EXCEPT !.pc = "CheckAccount", !.email = invites[l].email, !.role = invites[l].role, !.link = l]
    <3>1. new.pc = "CheckAccount" /\ new.email = invites[l].email /\ new.link = l
      BY DEF Idle
    <3>2. Begin(r, new)
      BY <1>5 DEF SetupRead
    <3> HIDE DEF new
    <3> QED BY <1>5, <3>1, <3>2, <1>n DEF SetupRead, rows
  <2>2. invites[l].status = "OPEN" /\ invites[l].mailed
    BY <1>5 DEF SetupRead, InvitationWorks
  <2>3. invites[l].email \in Emails
    BY <2>2 DEF IInv, StoredHasEmail
  <2> QED BY <2>1, <2>2, <2>3, <1>0 DEF NoRow, Relies
<1>6. CASE CheckAccount(r)
  <2>1. /\ req[r].pc = "CheckAccount" /\ req'[r].email = req[r].email /\ req'[r].link = req[r].link
        /\ req'[r].pc = (IF Active(req[r].email) THEN "done" ELSE "Accept")
        /\ req'[r].seen = admins[req[r].email].status /\ invites' = invites /\ resets' = resets
    BY <1>6, <1>0 DEF CheckAccount, At, TypeOK, Request, rows
  <2>2. NoRow(r)
    BY <2>1, <1>l
  <2> QED BY <2>1, <2>2, <1>0 DEF NoRow, Active, Relies
<1>7. ASSUME NEW l \in Requests, RevokeRead(r, l) \/ DeleteRead(r, l) PROVE Relies(r)'
  <2>1. /\ req'[r].pc \in {"Revoke", "Delete"} /\ req'[r].link = l
        /\ NoRow(r) /\ invites' = invites /\ resets' = resets
    <3>1. PICK pc \in {"Revoke", "Delete"} : Begin(r, [Idle EXCEPT !.pc = pc, !.link = l]) /\ UNCHANGED rows
      BY <1>7 DEF RevokeRead, DeleteRead
    <3> DEFINE new == [Idle EXCEPT !.pc = pc, !.link = l]
    <3>2. new.pc = pc /\ new.link = l
      BY DEF Idle
    <3> HIDE DEF new
    <3>3. Begin(r, new)
      BY <3>1 DEF new
    <3> QED BY <3>1, <3>2, <3>3, <1>n DEF rows
  <2>2. invites[l].status # "NONE"
    BY <1>7 DEF RevokeRead, DeleteRead, Exists
  <2> QED BY <2>1, <2>2 DEF NoRow, Relies
<1>8. ASSUME NEW e \in Emails, ForgotRead(r, e) PROVE Relies(r)'
  <2>1. /\ req'[r].pc = "Invalidate" /\ req'[r].email = e /\ req'[r].replaces = LinksOf(resets, e)
        /\ NoRow(r) /\ invites' = invites /\ resets' = resets
    <3> DEFINE new == [Idle EXCEPT !.pc = "Invalidate", !.email = e, !.link = r, !.replaces = LinksOf(resets, e)]
    <3>1. new.pc = "Invalidate" /\ new.email = e /\ new.replaces = LinksOf(resets, e)
      BY DEF Idle
    <3>2. Begin(r, new)
      BY <1>8 DEF ForgotRead
    <3> HIDE DEF new
    <3> QED BY <1>8, <3>1, <3>2, <1>n DEF ForgotRead, rows
  <2>2. \A l \in LinksOf(resets, e) : resets[l].status # "NONE" /\ resets[l].email = e
    BY LinksStored, <1>0 DEF IInv
  <2> QED BY <2>1, <2>2 DEF NoRow, Relies
<1>9. CASE Invalidate(r)
  <2>1. /\ req[r].pc = "Invalidate" /\ req'[r].pc = "StoreReset" /\ req'[r].email = req[r].email
        /\ req'[r].replaces = req[r].replaces /\ invites' = invites
        /\ resets' = Closed(resets, req[r].email, "USED", r)
    BY <1>9, <1>g, <1>h DEF Invalidate
  <2>2. NoRow(r)
    BY <2>1, <1>l
  <2>3. NoRow(r)'
    <3>1. invites[r] = NoLink /\ resets[r] = NoLink /\ NoLink.status = "NONE"
      BY <2>2 DEF NoRow, NoLink
    <3> QED BY <2>1, <3>1 DEF NoRow, Closed
  <2>4. ASSUME NEW l \in req[r].replaces PROVE resets'[l].status \notin Gone
    <3>1. l \in Requests /\ resets[l].status # "NONE" /\ resets[l].email = req[r].email
      BY <2>1, <1>0 DEF Request, Relies
    <3>2. resets'[l].status # "NONE" /\ resets'[l].email = req[r].email
      BY <3>1, <1>m DEF RowKept
    <3>3. resets'[l].email = req[r].email => resets'[l].status # "OPEN"
      BY <2>1, <3>1, <1>0, ClosedKeeps DEF TypeOK
    <3> QED BY <3>2, <3>3 DEF Gone
  <2> QED BY <2>1, <2>3, <2>4, <1>0 DEF Relies
<1>10. CASE StoreReset(r)
  <2>1. /\ req[r].pc = "StoreReset" /\ req'[r].pc = "MailReset" /\ req'[r].email = req[r].email
    BY <1>10, <1>g, <1>h DEF StoreReset
  <2>2. resets'[r].status = "OPEN"
    BY <1>10, <1>0 DEF StoreReset, NewLink, TypeOK
  <2> QED BY <2>1, <2>2, <1>l, <1>0 DEF Relies
<1>11. ASSUME NEW l \in Requests, ResetRead(r, l) PROVE Relies(r)'
  <2>1. /\ req'[r].pc = "Reset" /\ req'[r].email = resets[l].email /\ req'[r].link = l
        /\ NoRow(r) /\ invites' = invites /\ resets' = resets
    <3> DEFINE new == [Idle EXCEPT !.pc = "Reset", !.email = resets[l].email, !.link = l]
    <3>1. new.pc = "Reset" /\ new.email = resets[l].email /\ new.link = l
      BY DEF Idle
    <3>2. Begin(r, new)
      BY <1>11 DEF ResetRead
    <3> HIDE DEF new
    <3> QED BY <1>11, <3>1, <3>2, <1>n DEF ResetRead, rows
  <2>2. resets[l].status = "OPEN" /\ resets[l].mailed
    BY <1>11 DEF ResetRead, ResetWorks
  <2>3. resets[l].email \in Emails
    BY <2>2 DEF IInv, StoredHasEmail
  <2> QED BY <2>1, <2>2, <2>3, <1>0 DEF NoRow, Relies
<1>12. ASSUME NEW e \in Emails, ProvisionRead(r, e) PROVE Relies(r)'
  <2>1. /\ req'[r].pc = "Provision" /\ req'[r].email = e
        /\ NoRow(r) /\ invites' = invites /\ resets' = resets
    <3> DEFINE new == [Idle EXCEPT !.pc = "Provision", !.email = e, !.role = "ADMIN"]
    <3>1. new.pc = "Provision" /\ new.email = e
      BY DEF Idle
    <3>2. Begin(r, new)
      BY <1>12 DEF ProvisionRead
    <3> HIDE DEF new
    <3> QED BY <1>12, <3>1, <3>2, <1>n DEF ProvisionRead, rows
  <2> QED BY <2>1 DEF NoRow, Relies
<1>13. CASE MailInvitation(r) \/ Accept(r) \/ AcceptFails(r) \/ Revoke(r) \/ Delete(r) \/ MailReset(r) \/ Reset(r)
            \/ Provision(r)
  <2>1. req'[r].pc = "done"
    BY <1>13, <1>h DEF MailInvitation, Accept, AcceptFails, Revoke, Delete, MailReset, Reset, Provision
  <2> QED BY <2>1, <1>l DEF Relies
<1> QED BY <1>1, <1>2, <1>3, <1>4, <1>5, <1>6, <1>7, <1>8, <1>9, <1>10, <1>11, <1>12, <1>13 DEF RequestStep
-----------------------------------------------------------------------------
(* The invariant.                                                          *)

THEOREM InitHolds == Init => IInv
<1> SUFFICES ASSUME Init PROVE IInv
  OBVIOUS
<1>1. TypeOK
  BY AccountAssumption DEF Init, TypeOK, Link, Request, NoLink, Idle, Step, Roles
<1>2. ASSUME NEW r \in Requests PROVE Relies(r) /\ Sound(invites, r) /\ Sound(resets, r)
  <2>1. req[r] = Idle /\ invites[r] = NoLink /\ resets[r] = NoLink /\ Idle.pc = "idle"
    BY DEF Init, Idle
  <2>2. Relies(r)
    BY <2>1 DEF Relies, NoRow
  <2> QED BY <2>1, <2>2 DEF Sound, NoLink, Gone
<1>3. StoredHasEmail /\ MailedIsAudited /\ AcceptedSetsPassword
  BY DEF Init, StoredHasEmail, MailedIsAudited, AcceptedSetsPassword, NoLink
<1> QED BY <1>1, <1>2, <1>3 DEF IInv

\* What a step makes of one row, besides RowKept.
RowSound(table, new, r) ==
  /\ new[r].status = "NONE" => new[r] = NoLink
  /\ \/ new[r].replaces = table[r].replaces
     \/ \A l \in new[r].replaces : l \in Requests /\ new[l].status \notin Gone
  /\ new[r].status \notin Gone => new[r].by # r
  /\ new[r].status # "NONE" => new[r].email \in Emails

LEMMA SoundKept ==
  ASSUME NEW table \in [Requests -> Link], NEW new \in [Requests -> Link], NEW r \in Requests,
         Sound(table, r), RowSound(table, new, r), \A l \in Requests : RowKept(table[l], new[l])
  PROVE  Sound(new, r)
<1>1. table[r].replaces \subseteq Requests
  BY DEF Link
<1> QED BY <1>1 DEF Sound, RowSound, RowKept

LEMMA InvitesSound ==
  ASSUME IInv, NEW r \in Requests, RequestStep(r), NEW l \in Requests
  PROVE  /\ RowSound(invites, invites', l)
         /\ invites'[l].mailed => invites'[l].audited
         /\ invites'[l].status = "ACCEPTED" => invites'[l].by \in invites'[l].spent
<1>0. /\ TypeOK /\ Relies(r) /\ Sound(invites, l) /\ req[r] \in Request
      /\ invites[l] \in Link /\ invites \in [Requests -> Link]
  BY DEF IInv, TypeOK
<1>k. /\ invites[l].status # "NONE" => invites[l].email \in Emails
      /\ invites[l].mailed => invites[l].audited
      /\ invites[l].status = "ACCEPTED" => invites[l].by \in invites[l].spent
  BY DEF IInv, StoredHasEmail, MailedIsAudited, AcceptedSetsPassword
<1>f. req[r].pc \in RowLess => invites[r].status = "NONE" /\ resets[r].status = "NONE"
  BY <1>0 DEF Relies, NoRow, NoLink
<1>s. {"RevokeOld", "CreateInvitation", "Accept", "Revoke", "Delete"} \subseteq RowLess
  BY DEF RowLess, Step
<1> DEFINE Good(row) == /\ row.status # "NONE" /\ row.email = invites[l].email /\ row.replaces = invites[l].replaces
                        /\ (row.status \notin Gone => row.by # l)
                        /\ (row.mailed => row.audited)
                        /\ (row.status = "ACCEPTED" => row.by \in row.spent)
<1>g. ASSUME invites[l].status # "NONE", Good(invites'[l])
      PROVE  /\ RowSound(invites, invites', l)
             /\ (invites'[l].mailed => invites'[l].audited)
             /\ (invites'[l].status = "ACCEPTED" => invites'[l].by \in invites'[l].spent)
  BY <1>g, <1>k DEF RowSound
<1>h. CASE invites'[l] = invites[l]
  BY <1>h, <1>0, <1>k DEF RowSound, Sound
<1>1. CASE RevokeOld(r) /\ invites'[l] # invites[l]
  <2>1. r # l \/ invites[l].status = "NONE"
    BY <1>1, <1>f, <1>s DEF RevokeOld, At
  <2>2. /\ invites'[l] = [invites[l] EXCEPT !.status = "REVOKED", !.by = r] /\ invites[l].status = "OPEN"
    BY <1>1 DEF RevokeOld, Closed
  <2>3. Good(invites'[l])
    BY <2>1, <2>2, <1>0, <1>k DEF Link
  <2> QED BY <2>2, <2>3, <1>g
<1>2. CASE CreateInvitation(r) /\ l = r
  <2>1. invites'[r] = NewLink(r) /\ req[r].email \in Emails
    BY <1>2, <1>0 DEF CreateInvitation, Relies, At
  <2>2. \A k \in req[r].replaces : k \in Requests /\ invites[k].status \notin Gone
    BY <1>2, <1>0 DEF CreateInvitation, Relies, At, Request
  <2>3. \A k \in req[r].replaces : invites'[k].status \notin Gone
    BY <1>2, <2>2, <1>f, <1>s DEF CreateInvitation, At, Gone
  <2> QED BY <1>2, <2>1, <2>2, <2>3 DEF NewLink, RowSound, Gone
<1>3. CASE (AuditInvitation(r) \/ MailInvitation(r)) /\ l = r
  <2>1. invites[l].status # "NONE" /\ (MailInvitation(r) => invites[l].audited)
    BY <1>3, <1>0 DEF AuditInvitation, MailInvitation, At, Relies
  <2>2. \/ invites'[l] = [invites[l] EXCEPT !.audited = TRUE]
        \/ invites[l].audited /\ invites'[l] = [invites[l] EXCEPT !.mailed = TRUE]
    BY <1>3, <2>1, <1>0 DEF AuditInvitation, MailInvitation
  <2>3. Good(invites'[l])
    BY <2>1, <2>2, <1>0, <1>k DEF Link, Sound
  <2> QED BY <2>1, <2>3, <1>g
<1>4. CASE (Accept(r) \/ Revoke(r) \/ Delete(r)) /\ req[r].link = l
  <2>1. invites[l].status # "NONE" /\ r # l
    BY <1>4, <1>0, <1>f, <1>s DEF Accept, Revoke, Delete, At, Relies
  <2>2. \/ invites'[l] = invites[l]
        \/ invites'[l] = [invites[l] EXCEPT !.status = "REVOKED", !.by = r]
        \/ invites'[l] = [invites[l] EXCEPT !.status = "DELETED", !.by = r]
        \/ invites'[l] = [invites[l] EXCEPT !.status = "ACCEPTED", !.by = r, !.spent = @ \cup {r}]
    BY <1>4, <1>0 DEF Accept, Revoke, Delete, Spent
  <2>3. ASSUME NEW status \in {"REVOKED", "DELETED"}, invites'[l] = [invites[l] EXCEPT !.status = status, !.by = r]
        PROVE  Good(invites'[l])
    BY <2>1, <2>3, <1>0, <1>k DEF Link
  <2>4. ASSUME invites'[l] = [invites[l] EXCEPT !.status = "ACCEPTED", !.by = r, !.spent = @ \cup {r}]
        PROVE  Good(invites'[l])
    BY <2>1, <2>4, <1>0, <1>k DEF Link
  <2>5. invites'[l] = invites[l] \/ Good(invites'[l])
    BY <2>2, <2>3, <2>4
  <2> QED BY <2>1, <2>5, <1>g, <1>h
<1>5. \/ invites'[l] = invites[l]
      \/ RevokeOld(r) /\ invites'[l] # invites[l]
      \/ CreateInvitation(r) /\ l = r
      \/ (AuditInvitation(r) \/ MailInvitation(r)) /\ l = r
      \/ (Accept(r) \/ Revoke(r) \/ Delete(r)) /\ req[r].link = l
  BY <1>0 DEF RequestStep, rows, InviteCheck, SetupRead, RevokeRead, DeleteRead, ResetRead, CheckAccount, AcceptFails,
              ForgotRead, ProvisionRead, Invalidate, StoreReset, MailReset, Reset, Provision, RevokeOld,
              CreateInvitation, AuditInvitation, MailInvitation, Accept, Revoke, Delete
<1> QED BY <1>h, <1>1, <1>2, <1>3, <1>4, <1>5

LEMMA ResetsSound ==
  ASSUME IInv, NEW r \in Requests, RequestStep(r), NEW l \in Requests
  PROVE  RowSound(resets, resets', l)
<1>0. /\ TypeOK /\ Relies(r) /\ Sound(resets, l) /\ req[r] \in Request
      /\ resets[l] \in Link /\ resets \in [Requests -> Link]
  BY DEF IInv, TypeOK
<1>k. resets[l].status # "NONE" => resets[l].email \in Emails
  BY DEF IInv, StoredHasEmail
<1>f. req[r].pc \in RowLess => resets[r].status = "NONE"
  BY <1>0 DEF Relies, NoRow, NoLink
<1>s. {"Invalidate", "StoreReset", "Reset"} \subseteq RowLess
  BY DEF RowLess, Step
<1>h. CASE resets'[l] = resets[l]
  BY <1>h, <1>0, <1>k DEF RowSound, Sound
<1>1. CASE Invalidate(r) /\ resets'[l] # resets[l]
  <2>1. resets'[l] = [resets[l] EXCEPT !.status = "USED", !.by = r] /\ resets[l].status = "OPEN"
    BY <1>1 DEF Invalidate, Closed
  <2>2. r # l
    BY <1>1, <2>1, <1>f, <1>s DEF Invalidate, At
  <2> QED BY <2>1, <2>2, <1>0, <1>k DEF RowSound, Link
<1>2. CASE StoreReset(r) /\ l = r
  <2>1. resets'[r] = NewLink(r) /\ req[r].email \in Emails
    BY <1>2, <1>0 DEF StoreReset, Relies, At
  <2>2. \A k \in req[r].replaces : k \in Requests /\ resets[k].status \notin Gone
    BY <1>2, <1>0 DEF StoreReset, Relies, At, Request
  <2>3. \A k \in req[r].replaces : resets'[k].status \notin Gone
    BY <1>2, <2>2, <1>f, <1>s DEF StoreReset, At, Gone
  <2> QED BY <1>2, <2>1, <2>2, <2>3 DEF NewLink, RowSound, Gone
<1>3. CASE MailReset(r) /\ l = r
  <2>1. resets[l].status # "NONE" /\ resets'[l] = [resets[l] EXCEPT !.mailed = TRUE]
    BY <1>3, <1>0 DEF MailReset, At, Relies
  <2> QED BY <2>1, <1>0, <1>k DEF RowSound, Link, Sound
<1>4. CASE Reset(r) /\ req[r].link = l
  <2>1. resets[l].status # "NONE" /\ r # l
    BY <1>4, <1>0, <1>f, <1>s DEF Reset, At, Relies
  <2>2. resets'[l] = [resets[l] EXCEPT !.status = "USED", !.by = r, !.spent = @ \cup {r}]
    BY <1>4, <1>0 DEF Reset, Spent
  <2> QED BY <2>1, <2>2, <1>0, <1>k DEF RowSound, Link
<1>5. \/ resets'[l] = resets[l]
      \/ Invalidate(r) /\ resets'[l] # resets[l]
      \/ StoreReset(r) /\ l = r
      \/ MailReset(r) /\ l = r
      \/ Reset(r) /\ req[r].link = l
  BY <1>0 DEF RequestStep, rows, InviteCheck, SetupRead, RevokeRead, DeleteRead, ResetRead, CheckAccount, AcceptFails,
              ForgotRead, ProvisionRead, Invalidate, StoreReset, MailReset, Reset, Provision, RevokeOld,
              CreateInvitation, AuditInvitation, MailInvitation, Accept, Revoke, Delete
<1> QED BY <1>h, <1>1, <1>2, <1>3, <1>4, <1>5

THEOREM StepKeeps == IInv /\ [Next]_vars => IInv'
<1> SUFFICES ASSUME IInv, [Next]_vars PROVE IInv'
  OBVIOUS
<1>0. /\ TypeOK /\ \A r \in Requests : Relies(r) /\ Sound(invites, r) /\ Sound(resets, r)
      /\ \A l \in Requests : invites[l] \in Link /\ resets[l] \in Link
  BY DEF IInv, TypeOK
<1>t. TypeOK'
  BY <1>0, Typing
<1>1. ASSUME NEW r \in Requests, RequestStep(r) PROVE IInv'
  <2>1. \A l \in Requests : RowKept(invites[l], invites'[l]) /\ RowKept(resets[l], resets'[l])
    BY <1>0, <1>1, InvitesKept, ResetsKept
  <2>2. \A l \in Requests : RowSound(invites, invites', l) /\ RowSound(resets, resets', l)
    BY <1>1, InvitesSound, ResetsSound
  <2>3. ASSUME NEW q \in Requests PROVE Relies(q)'
    <3>1. CASE q = r
      BY <3>1, <1>1, <1>t, SteppingRelies
    <3>2. CASE q # r
      <4>1. req'[q] = req[q]
        BY <3>2, <1>0, <1>1, OthersWait
      <4>2. NoRow(q) => NoRow(q)'
        BY <3>2, <1>0, <1>1, InvitesKept, ResetsKept DEF NoRow, NoLink
      <4> QED BY <4>1, <4>2, <2>1, <1>0, <1>t, WaitingRelies
    <3> QED BY <3>1, <3>2
  <2>4. ASSUME NEW q \in Requests PROVE Sound(invites', q) /\ Sound(resets', q)
    BY <1>0, <1>t, <2>1, <2>2, SoundKept DEF TypeOK
  <2>5. StoredHasEmail' /\ MailedIsAudited' /\ AcceptedSetsPassword'
    <3>1. StoredHasEmail'
      BY <2>2 DEF StoredHasEmail, RowSound
    <3>2. MailedIsAudited' /\ AcceptedSetsPassword'
      BY <1>1, InvitesSound DEF MailedIsAudited, AcceptedSetsPassword
    <3> QED BY <3>1, <3>2
  <2>6. \A q \in Requests : Sound(invites, q)' /\ Sound(resets, q)'
    BY <2>4 DEF Sound
  <2> QED BY <1>t, <2>3, <2>5, <2>6 DEF IInv
<1>2. ASSUME NEW l \in Requests, ExpireInvitation(l) \/ ExpireReset(l) PROVE IInv'
  <2>1. /\ req' = req
        /\ \A k \in Requests : /\ invites'[k] \in {invites[k], [invites[k] EXCEPT !.expired = TRUE]}
                               /\ resets'[k] \in {resets[k], [resets[k] EXCEPT !.expired = TRUE]}
                               /\ invites[k].status = "NONE" => invites'[k] = invites[k]
                               /\ resets[k].status = "NONE" => resets'[k] = resets[k]
    BY <1>2, <1>0 DEF ExpireInvitation, ExpireReset, InvitationWorks, ResetWorks, TypeOK
  <2>2. ASSUME NEW k \in Requests
        PROVE  /\ invites'[k].status = invites[k].status /\ invites'[k].email = invites[k].email
               /\ invites'[k].replaces = invites[k].replaces /\ invites'[k].by = invites[k].by
               /\ invites'[k].mailed = invites[k].mailed /\ invites'[k].audited = invites[k].audited
               /\ invites'[k].spent = invites[k].spent
               /\ resets'[k].status = resets[k].status /\ resets'[k].email = resets[k].email
               /\ resets'[k].replaces = resets[k].replaces /\ resets'[k].by = resets[k].by
               /\ resets'[k].mailed = resets[k].mailed /\ resets'[k].audited = resets[k].audited
    BY <2>1, <1>0 DEF Link
  <2>3. \A k \in Requests : RowKept(invites[k], invites'[k]) /\ RowKept(resets[k], resets'[k])
    BY <2>2 DEF RowKept
  <2>4. ASSUME NEW q \in Requests PROVE Relies(q)'
    <3>1. NoRow(q) => NoRow(q)'
      BY <2>1 DEF NoRow, NoLink
    <3> QED BY <3>1, <2>1, <2>3, <1>0, <1>t, WaitingRelies
  <2>5. ASSUME NEW q \in Requests PROVE Sound(invites, q)' /\ Sound(resets, q)'
    <3>1. invites[q].replaces \subseteq Requests /\ resets[q].replaces \subseteq Requests
      BY <1>0 DEF Link
    <3>2. Sound(invites, q) /\ Sound(resets, q)
      BY <1>0
    <3> QED BY <3>1, <3>2, <2>1, <2>2 DEF Sound
  <2>6. StoredHasEmail' /\ MailedIsAudited' /\ AcceptedSetsPassword'
    BY <2>2 DEF IInv, StoredHasEmail, MailedIsAudited, AcceptedSetsPassword
  <2> QED BY <1>t, <2>4, <2>5, <2>6 DEF IInv
<1>3. CASE \/ UNCHANGED vars
           \/ \E e \in Emails : Deactivate(e)
  <2>1. invites' = invites /\ resets' = resets /\ req' = req
    BY <1>3 DEF vars, Deactivate
  <2> QED BY <2>1, <1>t DEF IInv, Relies, Sound, NoRow, StoredHasEmail, MailedIsAudited, AcceptedSetsPassword
<1> QED BY <1>1, <1>2, <1>3 DEF Next

THEOREM Invariance == Spec => []IInv
BY InitHolds, StepKeeps, PTL DEF Spec

\* The types of the tables and of the requests.
THEOREM TypeCorrect == Spec => []TypeOK
<1>1. IInv => TypeOK
  BY DEF IInv
<1> QED BY <1>1, Invariance, PTL

\* A new link of an account, once stored, has put an end to every link that the
\* account had when the new one was asked for.
THEOREM NewLinkEndsOld == Spec => []OldLinksDead
<1>1. IInv => OldLinksDead
  <2> SUFFICES ASSUME IInv, NEW r \in Requests
               PROVE /\ \A l \in invites[r].replaces : ~InvitationWorks(l) /\ ListedStatus(l) # "OPEN"
                     /\ \A l \in resets[r].replaces : ~ResetWorks(l)
    BY DEF OldLinksDead
  <2> QED BY DEF IInv, Sound, InvitationWorks, ListedStatus, ResetWorks, Gone
<1> QED BY <1>1, Invariance, PTL

\* No request closes the link it has made.
THEOREM NewLinkIsOpen == Spec => []OwnLinkLives
<1>1. IInv => OwnLinkLives
  BY DEF IInv, Sound, OwnLinkLives, Gone
<1> QED BY <1>1, Invariance, PTL

\* Links that are out are on record, and accepted ones have set a password.
THEOREM LinksOnRecord == Spec => [](MailedIsAudited /\ AcceptedSetsPassword)
<1>1. IInv => MailedIsAudited /\ AcceptedSetsPassword
  BY DEF IInv
<1> QED BY <1>1, Invariance, PTL

\* Accounts become active, and active ones change, only as the two action
\* properties allow.
THEOREM AccountsKept == Spec => ActivatedByInvitation /\ ActiveKept
<1> DEFINE Activated == \A e \in Emails : ~Active(e) /\ admins'[e].status = "ACTIVE" =>
       \/ admins[e].status = "NONE" /\ req[admins'[e].password].pc = "Provision"
       \/ \E l \in Requests : /\ invites[l].email = e /\ invites[l].mailed
                              /\ invites'[l].status = "ACCEPTED"
                              /\ invites'[l].by = admins'[e].password
           Kept == \A e \in Emails : Active(e) =>
       \/ admins'[e] = [admins[e] EXCEPT !.status = admins'[e].status]
       \/ /\ admins'[e] = [admins[e] EXCEPT !.password = admins'[e].password]
          /\ \E l \in Requests : resets[l].email = e /\ resets[l].mailed /\ admins'[e].password \in resets'[l].spent
       \/ LET r == admins'[e].password IN req[r].pc = "Accept" /\ req[r].email = e /\ req[r].seen = "INACTIVE"
<1>1. IInv /\ [Next]_vars => [Activated /\ Kept]_vars
  <2> SUFFICES ASSUME IInv, [Next]_vars, ~UNCHANGED vars PROVE Activated /\ Kept
    OBVIOUS
  <2>0. /\ admins \in [Emails -> Account] /\ \A e \in Emails : admins[e] \in Account
        /\ resets \in [Requests -> Link] /\ invites \in [Requests -> Link] /\ req \in [Requests -> Request]
        /\ \A l \in Requests : resets[l] \in Link /\ invites[l] \in Link
    BY DEF IInv, TypeOK
  <2>s. ASSUME NEW e \in Emails, admins'[e] = admins[e] PROVE admins'[e] = [admins[e] EXCEPT !.status = admins'[e].status]
    BY <2>s, <2>0 DEF Account
  <2>1. CASE admins' = admins
    BY <2>1, <2>s DEF Active
  <2>2. ASSUME NEW r \in Requests, Accept(r) PROVE Activated /\ Kept
    <3> DEFINE new == [status |-> "ACTIVE", role |-> req[r].role, password |-> r]
    <3>1. /\ req[r].link \in Requests /\ req[r].email \in Emails
          /\ invites[req[r].link].email = req[r].email /\ invites[req[r].link].mailed /\ req[r].pc = "Accept"
          /\ req[r].seen \in {"NONE", "INACTIVE"}
      BY <2>2, <2>0 DEF Accept, At, IInv, Relies, Request
    <3>2. /\ invites'[req[r].link] = Spent(invites[req[r].link], "ACCEPTED", r)
          /\ admins'[req[r].email] = new /\ \A e \in Emails : e # req[r].email => admins'[e] = admins[e]
      BY <2>2, <2>0, <3>1 DEF Accept
    <3>3. invites'[req[r].link].status = "ACCEPTED" /\ invites'[req[r].link].by = r
      BY <3>1, <3>2, <2>0 DEF Spent, Link
    <3>4. req[r].seen = "NONE" => admins[req[r].email].status = "NONE"
      BY <2>2 DEF Accept, Accepts
    <3>5. Activated
      BY <3>1, <3>2, <3>3 DEF Active
    <3>6. Kept
      BY <3>1, <3>2, <3>4, <2>s DEF Active
    <3> QED BY <3>5, <3>6
  <2>3. ASSUME NEW r \in Requests, Reset(r) PROVE Activated /\ Kept
    <3>1. /\ req[r].link \in Requests /\ req[r].email \in Emails
          /\ resets[req[r].link].email = req[r].email /\ resets[req[r].link].mailed
      BY <2>3 DEF Reset, At, IInv, Relies
    <3>2. /\ resets'[req[r].link] = Spent(resets[req[r].link], "USED", r)
          /\ admins'[req[r].email] = [admins[req[r].email] EXCEPT !.password = r]
          /\ \A e \in Emails : e # req[r].email => admins'[e] = admins[e]
      BY <2>3, <2>0, <3>1 DEF Reset
    <3>3. r \in resets'[req[r].link].spent
      BY <3>1, <3>2, <2>0 DEF Spent, Link
    <3>4. /\ admins'[req[r].email].status = admins[req[r].email].status
          /\ admins'[req[r].email].password = r
      BY <3>1, <3>2, <2>0 DEF Account
    <3>5. Activated
      BY <3>2, <3>4 DEF Active
    <3>6. Kept
      BY <3>1, <3>2, <3>3, <3>4, <2>s DEF Active
    <3> QED BY <3>5, <3>6
  <2>4. ASSUME NEW r \in Requests, Provision(r) PROVE Activated /\ Kept
    <3> DEFINE new == [status |-> "ACTIVE", role |-> req[r].role, password |-> r]
    <3>1. /\ req[r].pc = "Provision"
          /\ \A e \in Emails : \/ admins'[e] = admins[e]
                               \/ admins[e].status = "NONE" /\ admins'[e] = new
      BY <2>4, <2>0 DEF Provision, At
    <3>2. Activated
      BY <3>1 DEF Active
    <3>3. Kept
      BY <3>1, <2>s DEF Active
    <3> QED BY <3>2, <3>3
  <2>5. ASSUME NEW f \in Emails, Deactivate(f) PROVE Activated /\ Kept
    <3>1. \A e \in Emails : admins'[e] \in {admins[e], [admins[e] EXCEPT !.status = "INACTIVE"]}
      BY <2>5, <2>0 DEF Deactivate
    <3>2. ASSUME NEW e \in Emails
          PROVE /\ admins'[e] = [admins[e] EXCEPT !.status = admins'[e].status]
                /\ admins'[e].status \in {admins[e].status, "INACTIVE"}
      BY <3>1, <2>0 DEF Account
    <3> QED BY <3>2 DEF Active
  <2> QED BY <2>1, <2>2, <2>3, <2>4, <2>5
          DEF Next, RequestStep, rows, InviteCheck, SetupRead, RevokeRead, DeleteRead, ResetRead, CheckAccount,
              AcceptFails, ForgotRead, ProvisionRead, RevokeOld, CreateInvitation, AuditInvitation, MailInvitation,
              Revoke, Delete, Invalidate, StoreReset, MailReset, ExpireInvitation, ExpireReset
<1> QED BY <1>1, Invariance, PTL DEF Spec, ActivatedByInvitation, ActiveKept
=============================================================================
