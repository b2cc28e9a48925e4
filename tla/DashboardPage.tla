---------------------------- MODULE DashboardPage ----------------------------
(***************************************************************************)
(* A page of the dashboard in one tab: its one resource                    *)
(* (admin/src/api/useAdminResource.ts), the Sync button of the header      *)
(* (sync/SyncProvider.tsx) and the decisions of the review page            *)
(* (pages/ReviewDetailPage.tsx), behind the session of WebSession.         *)
(* Requests are answered by the server at some moment, or fail; meanwhile  *)
(* the admin goes on, other admins decide, and sessions end.               *)
(*                                                                         *)
(* An effect of React runs with the event that causes it.  Opening and     *)
(* filling in a dialog is one step with confirming it.                     *)
(***************************************************************************)
EXTENDS WebSession

CONSTANTS
  Items,         \* review items, each with a page of its own
  Contested,     \* bound of the model: those that other admins act on, too
  Docs,          \* verified documents an item may compete with
  Beginnings,    \* what the items may be at first
  MaxDecisions   \* bound of the model: decisions under way at once

VARIABLES
  items,      \* the server: the review items
  page,       \* the key of the mounted page, or NoPage
  resource,   \* what the page has loaded
  requests,   \* its loads under way
  sync,       \* the Sync under way: what it has come to
  report,     \* the result in the header, until the page is loaded otherwise
  view,       \* the review page: busy, and what it says was done
  decisions   \* decisions sent and not answered

web == <<page, resource, requests, sync, report, view, decisions>>
vars == <<session, items, web>>

NoPage == "none"
Queue == "queue"
NoDoc == "no document"
NoKind == "no decision"

\* approve stands for the decisions that need no verified document to compete
\* with, replace for those that do; keep for those that leave the item open.
Kinds == {"approve", "replace", "keep"}

ASSUME PageAssumption ==
  /\ {NoPage, Queue} \cap Items = {} /\ NoDoc \notin Docs
  /\ Contested \subseteq Items
  /\ Beginnings \subseteq [Items -> [state : {"open"}, by : {NoKind}, existing : Docs \cup {NoDoc}]]
  /\ MaxDecisions \in Nat

\* A closed item competes with nothing any more.
Closed(kind) == [state |-> "closed", by |-> kind, existing |-> NoDoc]
Item == [state : {"open", "closed"}, by : Kinds \cup {NoKind}, existing : Docs \cup {NoDoc}]
NoItem == [state |-> "none", by |-> NoKind, existing |-> NoDoc]
NoData == [key |-> NoPage, item |-> NoItem, fresh |-> FALSE]
Data == [key : Items \cup {Queue, NoPage}, item : Item \cup {NoItem}, fresh : BOOLEAN]
Unloaded == [status |-> "none", data |-> NoData]
NoView == [busy |-> FALSE, done |-> NoKind]

Init ==
  /\ SessionInit
  /\ items \in Beginnings
  /\ page = NoPage /\ resource = Unloaded /\ requests = {}
  /\ sync = "idle" /\ report = "none" /\ view = NoView /\ decisions = {}

----------------------------------------------------------------------------
(* Loading *)

\* Variant: whatever was loaded last is shown.
ShownAnyway(r, p) == r.status # "error" /\ r.data.key \in Items

\* The item on screen stays visible while it reloads, only when it is still
\* the item in the URL.
Shown(r, p) == r.status # "error" /\ r.data.key = p /\ p \in Items

\* A decision's answer finds the content that sent it, only its page, or neither.
ContentGone(ds) == {[d EXCEPT !.mount = IF @ = "content" THEN "page" ELSE @] : d \in ds}
PageGone(ds) == {[d EXCEPT !.mount = "gone"] : d \in ds}

\* The content is mounted anew unless it was shown and still is.
Content(r, p, v, ds) ==
  IF Shown(resource, page) /\ Shown(r, p)
  THEN view' = v /\ decisions' = ds
  ELSE view' = NoView /\ decisions' = ContentGone(ds)

\* A request is sent with the token of the render that causes it.
Request(p, tracked) == [key |-> p, by |-> Served(token)', tracked |-> tracked]

\* The effect of useAdminResource runs again: the request under way is
\* aborted, what is on screen stays.
Reload(p, tracked, data) ==
  /\ resource' = [status |-> "loading", data |-> data]
  /\ requests' = {Request(p, tracked)}

\* The page is loaded otherwise than by Sync.  An aborted request has settled.
Moved ==
  /\ sync' = IF sync = "idle" THEN "idle" ELSE "moved"
  /\ report' = "none"

UnmountAll ==
  /\ page' = NoPage /\ resource' = Unloaded /\ requests' = {}
  /\ sync' = "idle" /\ report' = "none" /\ view' = NoView
  /\ decisions' = PageGone(decisions)

\* Another page, or another item on the same page.
Navigate(p) ==
  /\ status = "authenticated" /\ p # page
  /\ UNCHANGED <<session, items>>
  /\ page' = p
  /\ Moved
  /\ IF {p, page} \subseteq Items
     THEN Reload(p, FALSE, resource.data) /\ Content(resource', p, view, decisions)
     ELSE /\ Reload(p, FALSE, NoData)
          /\ view' = NoView /\ decisions' = PageGone(decisions)

\* "Try again" after an error.
Retry ==
  /\ resource.status = "error"
  /\ UNCHANGED <<session, items, page>>
  /\ Reload(page, FALSE, resource.data)
  /\ Moved
  /\ Content(resource', page, view, decisions)

----------------------------------------------------------------------------
(* Answers to loads *)

Receives(r, res, outcome) ==
  /\ requests' = requests \ {r}
  /\ resource' = res
  /\ sync' = IF r.tracked THEN outcome ELSE sync
  /\ Content(res, page, view, decisions)
  /\ UNCHANGED <<items, page, report>>

AnswerData(r) ==
  /\ Good(r.by)
  /\ r.key \in Items => items[r.key].state = "open"
  /\ LET data == [key |-> r.key, item |-> IF r.key \in Items THEN items[r.key] ELSE NoItem, fresh |-> r.tracked]
     IN Receives(r, [status |-> "success", data |-> data], "success")
  /\ UNCHANGED session

\* The item was resolved, or the server is not reached.
AnswerError(r) ==
  /\ Receives(r, [resource EXCEPT !.status = "error"], "error")
  /\ UNCHANGED session

\* 401: the session has ended.
AnswerRefused(r) ==
  /\ ~Good(r.by)
  /\ Receives(r, resource, "error")
  /\ SignOutStarts

Answer == \E r \in requests : AnswerData(r) \/ AnswerError(r) \/ AnswerRefused(r)

----------------------------------------------------------------------------
(* Sync *)

\* Variant: the reload is not reported to the header.
SyncUntracked ==
  /\ page # NoPage /\ sync = "idle"
  /\ sync' = "success"
  /\ UNCHANGED <<session, items, page, report>>
  /\ Reload(page, FALSE, [resource.data EXCEPT !.fresh = FALSE])
  /\ Content(resource', page, view, decisions)

StartSync ==
  /\ page # NoPage /\ sync = "idle"
  /\ sync' = "waiting"
  /\ UNCHANGED <<session, items, page, report>>
  /\ Reload(page, TRUE, [resource.data EXCEPT !.fresh = FALSE])
  /\ Content(resource', page, view, decisions)

\* All requests of the sync have settled: the header shows the result.  It is
\* not about a page that was loaded otherwise meanwhile.
EndSync ==
  /\ sync \in {"success", "error", "moved"}
  /\ report' = IF sync = "moved" THEN "none" ELSE sync
  /\ sync' = "idle"
  /\ UNCHANGED <<session, items, page, resource, requests, view, decisions>>

----------------------------------------------------------------------------
(* Decisions on the review page *)

Available(k, item) ==
  /\ k = "approve" => item.existing = NoDoc
  /\ k = "replace" => item.existing # NoDoc

\* Only a replacement names the document it replaces.
Competing(k, item) == IF k = "replace" THEN item.existing ELSE NoDoc

\* The page offers what the item it shows allows; one decision at a time.
Confirm(k) ==
  /\ Shown(resource, page)
  /\ ~view.busy /\ view.done = NoKind
  /\ Available(k, resource.data.item)
  /\ status = "authenticated"
  /\ Cardinality(decisions) < MaxDecisions
  /\ view' = [view EXCEPT !.busy = TRUE]
  /\ decisions' = decisions \cup
       {[item |-> page, kind |-> k, doc |-> Competing(k, resource.data.item), by |-> Served(token),
         answer |-> "none", mount |-> "content"]}
  /\ UNCHANGED <<session, items, page, resource, requests, sync, report>>

\* The server decides under its locks; what it answers may be lost.
Decide(d) ==
  LET item == items[d.item]
      allowed == item.state = "open" /\ Available(d.kind, item) /\ (d.kind = "replace" => d.doc = item.existing)
      answer == CASE ~Good(d.by) -> "refused"
                  [] Good(d.by) /\ allowed -> "ok"
                  [] OTHER -> "error"
  IN /\ d.answer = "none"
     /\ decisions' \in {(decisions \ {d}) \cup {[d EXCEPT !.answer = a]} : a \in {answer, "error"}}
     /\ items' = IF answer = "ok" /\ d.kind # "keep"
                 THEN [items EXCEPT ![d.item] = Closed(d.kind)] ELSE items
     /\ UNCHANGED <<session, page, resource, requests, sync, report, view>>

\* The request does not reach the server.
NotReached(d) ==
  /\ d.answer = "none"
  /\ decisions' = (decisions \ {d}) \cup {[d EXCEPT !.answer = "error"]}
  /\ UNCHANGED <<session, items, page, resource, requests, sync, report, view>>

\* The dialog closes and the page says what was done.
Succeeds(d) ==
  /\ d.answer = "ok" /\ d.kind # "keep"
  /\ view' = IF d.mount = "content" THEN [busy |-> FALSE, done |-> d.kind] ELSE view
  /\ decisions' = decisions \ {d}
  /\ UNCHANGED <<session, page, resource, requests, sync, report>>

\* A decision that leaves the item open reloads its page, if it is there.
Kept(d) ==
  LET v == IF d.mount = "content" THEN [view EXCEPT !.busy = FALSE] ELSE view
  IN /\ d.answer = "ok" /\ d.kind = "keep"
     /\ UNCHANGED <<session, page>>
     /\ IF d.mount = "gone"
        THEN /\ view' = v /\ decisions' = decisions \ {d}
             /\ UNCHANGED <<resource, requests, sync, report>>
        ELSE /\ Reload(page, FALSE, resource.data)
             /\ Moved
             /\ Content(resource', page, v, decisions \ {d})

\* The error is shown and nothing on the page changes; a 401 signs out.
Fails(d) ==
  /\ d.answer \in {"error", "refused"}
  /\ view' = IF d.mount = "content" THEN [view EXCEPT !.busy = FALSE] ELSE view
  /\ decisions' = decisions \ {d}
  /\ IF d.answer = "refused" THEN SignOutStarts ELSE UNCHANGED session
  /\ UNCHANGED <<page, resource, requests, sync, report>>

DecisionAnswered == \E d \in decisions : (Succeeds(d) \/ Kept(d) \/ Fails(d)) /\ UNCHANGED items

\* Another admin resolves the item, or verifies a document of its type.
Others ==
  /\ \E i \in Contested :
       /\ items[i].state = "open"
       /\ \/ items' = [items EXCEPT ![i] = Closed(NoKind)]
          \/ \E doc \in Docs : items' = [items EXCEPT ![i] = [@ EXCEPT !.existing = doc]]
  /\ UNCHANGED <<session, web>>

----------------------------------------------------------------------------
(* The session changes under the page *)

\* Pages are mounted only while the admin is authenticated.
SessionEnds == (SignedOut \/ LoadTab) /\ UnmountAll

SessionGoesOn ==
  /\ Validated \/ NotValidated \/ TimerFires \/ Submit \/ SignInFails \/ LoggedIn \/ TokenEnds
  /\ UNCHANGED web

\* A sign-in that ends while a page is open gives it another token.
SignInEnds ==
  /\ SignedIn
  /\ IF page = NoPage THEN UNCHANGED web
     ELSE /\ Reload(page, FALSE, resource.data)
          /\ Moved
          /\ Content(resource', page, view, decisions)
          /\ UNCHANGED page

UserSignsOut == status = "authenticated" /\ leaving < MaxLeaving /\ SignOutStarts /\ UNCHANGED web

----------------------------------------------------------------------------
User ==
  \/ \E p \in Items \cup {Queue} : Navigate(p)
  \/ Retry \/ StartSync
  \/ \E k \in Kinds : Confirm(k)

Server == \E d \in decisions : Decide(d) \/ NotReached(d)

Next ==
  \/ User \/ Answer \/ EndSync \/ Server \/ DecisionAnswered \/ Others
  \/ (SessionEnds \/ SessionGoesOn \/ SignInEnds \/ UserSignsOut) /\ UNCHANGED items

Spec == Init /\ [][Next]_vars

----------------------------------------------------------------------------
(* Properties *)

Decision == [item : Items, kind : Kinds, doc : Docs \cup {NoDoc}, by : Tokens,
             answer : {"none", "ok", "error", "refused"}, mount : {"content", "page", "gone"}]

PageTypeOK ==
  /\ items \in [Items -> Item]
  /\ page \in Items \cup {Queue, NoPage}
  /\ resource \in [status : {"none", "loading", "success", "error"}, data : Data]
  /\ requests \subseteq [key : Items \cup {Queue}, by : Tokens, tracked : BOOLEAN]
  /\ sync \in {"idle", "waiting", "success", "error", "moved"}
  /\ report \in {"none", "success", "error"}
  /\ view \in [busy : BOOLEAN, done : Kinds \cup {NoKind}]
  /\ decisions \subseteq Decision

\* What the page says was done was done to the item it shows, however the
\* admin moves between items while a decision is under way and whoever else
\* decides: "only when it is still the item in the URL".
SaidIsDone == view.done # NoKind => page \in Items /\ items[page].by = view.done

\* "When all of them have settled, the header shows the time or an error":
\* unless the page was changed or reloaded since, a successful sync means that
\* what is on screen was read after the button was pressed, and an error that
\* it was not.
SyncReport ==
  sync = "idle" =>
    /\ report = "success" => resource.status = "success" /\ resource.data.fresh /\ resource.data.key = page
    /\ report = "error" => resource.status # "success"

\* "Checking your session", "Syncing" and the spinner of a page stand only while
\* something is under way that ends them, also when answers are refused or do not arrive and
\* sign-outs, sign-ins and changes of the page come in between.
NothingSpins ==
  /\ status = "checking" => validating # None \/ leaving > 0
  /\ sync = "waiting" => \E r \in requests : r.tracked
  /\ resource.status = "loading" => requests # {} \/ leaving > 0
=============================================================================
