------------------------ MODULE DashboardPageProofs ------------------------
(***************************************************************************)
(* What WebSession and DashboardPage promise, for any number of tokens,    *)
(* items and decisions under way.  The argument: at most one load of the   *)
(* page is under way, it is about the page on screen, and Sync waits       *)
(* exactly while that load is its own; a decision finds its content only   *)
(* while its item is on screen, and what was decided of an item is never   *)
(* decided otherwise.                                                      *)
(***************************************************************************)
EXTENDS DashboardPage, TLAPS

\* A validation is about the provider's token, or about the cookie a sign-in
\* without a profile has left, while nothing else is known; and the cookie of
\* a sign-in is its own until its profile is there.
SessionInv ==
  /\ SessionTypeOK /\ OneSession
  /\ validating # None => validating \in {token} \cup strays /\ status = "checking"
  /\ IF signIn.pc = "profile" THEN cookie \in {None, signIn.token} ELSE signIn.token = None

\* Pages are mounted behind a session only, and what is under way on a page is
\* about it.
Mounted ==
  /\ page # NoPage => status = "authenticated"
  /\ page = NoPage => resource = Unloaded /\ requests = {} /\ sync = "idle" /\ report = "none" /\ view = NoView
  /\ \A r \in requests : r.key = page
  /\ \A r, q \in requests : r = q
  /\ requests # {} => resource.status = "loading"

\* What the Sync button has asked for is what the page waits for, or has.
Synced ==
  /\ sync = "waiting" <=> \E r \in requests : r.tracked
  /\ sync \in {"success", "error"} \/ (sync = "idle" /\ report # "none") => requests = {}
  /\ sync = "success" => resource.status = "success" /\ resource.data.fresh /\ resource.data.key = page
  /\ sync = "error" => resource.status # "success"

\* A decision finds its content only under its own item, and one that was
\* carried out is the item's last word.
Decisive ==
  /\ \A i \in Items : items[i].by # NoKind => items[i].state = "closed"
  /\ view # NoView => Shown(resource, page)
  /\ \A d \in decisions :
       /\ d.mount # "gone" => page \in Items
       /\ d.mount = "content" => d.item = page /\ Shown(resource, page)
       /\ d.answer = "ok" /\ d.kind # "keep" => items[d.item].by = d.kind

PageInv == SessionInv /\ PageTypeOK /\ Mounted /\ Synced /\ Decisive /\ SaidIsDone /\ SyncReport /\ NothingSpins

----------------------------------------------------------------------------
(* The session *)

Checked == status = "checking" => validating # None \/ leaving > 0

\* The session begins with what is stored, or with nothing.
LEMMA SessionBegins == SessionInit => SessionInv /\ Checked
  BY SessionAssumption DEF SessionInit, SessionInv, SessionTypeOK, OneSession, Checked, Tokens, None, Waiting, FormIdle

LEMMA Leaves ==
  ASSUME leaving \in 0..MaxLeaving, LeavingMore
  PROVE  leaving' \in 0..MaxLeaving /\ leaving' > 0
  BY SessionAssumption DEF LeavingMore

\* Sign-outs that begin leave everything as it was.
LEMMA SignOutStartsSound == ASSUME SessionInv, Checked, SignOutStarts PROVE SessionInv' /\ Checked' /\ leaving' > 0
  BY Leaves DEF SignOutStarts, SessionInv, SessionTypeOK, OneSession, Checked

LEMMA SignedOutSound == ASSUME SessionInv, SignedOut PROVE SessionInv' /\ Checked'
  BY SessionAssumption DEF SignedOut, SessionInv, SessionTypeOK, OneSession, Checked, None

LEMMA LoadTabSound == ASSUME SessionInv, LoadTab PROVE SessionInv' /\ Checked'
<1>1. PICK kept \in {stored, None} : Loaded(kept) /\ issued' = issued
  BY DEF LoadTab
<1>2. kept \in Tokens \cup {None}
  BY <1>1 DEF SessionInv, SessionTypeOK
<1>3. /\ signIn \in Waiting /\ strays \subseteq Tokens /\ strays' = strays \cup ({signIn.token} \ {None})
      /\ cookie' = cookie /\ signIn' = FormIdle /\ leaving' = 0
  BY <1>1 DEF Loaded, LoadTab, GivesUpSignIn, SessionInv, SessionTypeOK
<1>4. strays' \subseteq Tokens /\ (kept # None => cookie \in {None, kept} \cup strays')
  BY <1>2, <1>3 DEF Waiting, SessionInv, OneSession
<1>5. Served(kept) \in Tokens \cup {None} /\ (kept # None => Served(kept) \in {kept} \cup strays' /\ Served(kept) # None)
  BY <1>2, <1>4 DEF Served, SessionInv, SessionTypeOK
<1> QED
  BY <1>1, <1>2, <1>3, <1>4, <1>5, SessionAssumption
     DEF Loaded, SessionInv, SessionTypeOK, OneSession, Checked, Waiting, FormIdle, None

LEMMA ValidatedSound == ASSUME SessionInv, Validated PROVE SessionInv' /\ Checked' /\ status' = "authenticated"
  BY DEF Validated, Good, SessionInv, SessionTypeOK, OneSession, Checked

LEMMA NotValidatedSound == ASSUME SessionInv, NotValidated PROVE SessionInv' /\ Checked'
  BY Leaves DEF NotValidated, SessionInv, SessionTypeOK, OneSession, Checked

LEMMA TimerFiresSound == ASSUME SessionInv, Checked, TimerFires PROVE SessionInv' /\ Checked'
  BY Leaves DEF TimerFires, SessionInv, SessionTypeOK, OneSession, Checked

LEMMA SubmitSound == ASSUME SessionInv, Checked, Submit PROVE SessionInv' /\ Checked'
  BY DEF Submit, SessionInv, SessionTypeOK, OneSession, Checked, Waiting

LEMMA SignInFailsSound == ASSUME SessionInv, Checked, SignInFails PROVE SessionInv' /\ Checked'
  BY DEF SignInFails, GivesUpSignIn, SessionInv, SessionTypeOK, OneSession, Checked, Waiting, FormIdle

LEMMA LoggedInSound == ASSUME SessionInv, Checked, LoggedIn PROVE SessionInv' /\ Checked'
  BY DEF LoggedIn, SessionInv, SessionTypeOK, OneSession, Checked, Waiting

LEMMA TokenEndsSound == ASSUME SessionInv, Checked, TokenEnds PROVE SessionInv' /\ Checked'
  BY DEF TokenEnds, Good, SessionInv, SessionTypeOK, OneSession, Checked

LEMMA SignedInSound ==
  ASSUME SessionInv, SignedIn
  PROVE  SessionInv' /\ Checked' /\ status' = "authenticated" /\ Served(token)' \in Tokens
  BY DEF SignedIn, Good, Served, ValidationAborted, SessionInv, SessionTypeOK, OneSession, Checked, Waiting, FormIdle, None

LEMMA SessionUnchanged == ASSUME SessionInv, Checked, UNCHANGED session PROVE SessionInv' /\ Checked'
  BY DEF session, SessionInv, SessionTypeOK, OneSession, Checked

\* While the page is open, a session that goes on stays authenticated.
LEMMA GoesOn ==
  ASSUME SessionInv, Checked, SessionGoesOn
  PROVE  SessionInv' /\ Checked' /\ (status = "authenticated" => status' = "authenticated") /\ (leaving > 0 => leaving' > 0)
<1>1. SessionInv' /\ Checked'
  BY ValidatedSound, NotValidatedSound, TimerFiresSound, SubmitSound, SignInFailsSound, LoggedInSound, TokenEndsSound
     DEF SessionGoesOn
<1> QED
  BY <1>1, Leaves DEF SessionGoesOn, Validated, NotValidated, TimerFires, Submit, SignInFails, LoggedIn, TokenEnds,
                      SessionInv, SessionTypeOK
----------------------------------------------------------------------------
(* What is on screen *)

Keys == Items \cup {Queue}
Views == [busy : BOOLEAN, done : Kinds \cup {NoKind}]
Resources == [status : {"none", "loading", "success", "error"}, data : Data]
Requests == [key : Keys, by : Tokens, tracked : BOOLEAN]

LEMMA TypesNamed ==
  PageTypeOK <=>
    /\ items \in [Items -> Item] /\ page \in Keys \cup {NoPage} /\ resource \in Resources
    /\ requests \subseteq Requests
    /\ sync \in {"idle", "waiting", "success", "error", "moved"} /\ report \in {"none", "success", "error"}
    /\ view \in Views /\ decisions \subseteq Decision
  BY DEF PageTypeOK, Keys, Views, Resources, Requests

LEMMA Names == NoPage # Queue /\ NoPage \notin Items /\ Queue \notin Items /\ NoKind \notin Kinds
  BY PageAssumption DEF NoPage, Queue, NoKind, Kinds

\* An authenticated admin has a token to send.
LEMMA TokenThere == ASSUME SessionInv, status = "authenticated" PROVE token \in Tokens /\ Served(token) \in Tokens
  BY DEF SessionInv, SessionTypeOK, OneSession, Served

\* Decisions whose content or page has gone are the same decisions otherwise.
Same(e, d) == e.item = d.item /\ e.kind = d.kind /\ e.answer = d.answer

LEMMA ContentLeft ==
  ASSUME NEW ds \in SUBSET Decision
  PROVE  /\ ContentGone(ds) \subseteq Decision
         /\ \A e \in ContentGone(ds) : e.mount # "content" /\ \E d \in ds : Same(e, d) /\ (e.mount # "gone" => d.mount # "gone")
<1> SUFFICES ASSUME NEW e \in ContentGone(ds)
             PROVE  e \in Decision /\ e.mount # "content" /\ \E d \in ds : Same(e, d) /\ (e.mount # "gone" => d.mount # "gone")
  OBVIOUS
<1>1. PICK d \in ds : e = [d EXCEPT !.mount = IF d.mount = "content" THEN "page" ELSE d.mount]
  BY DEF ContentGone
<1> QED
  BY <1>1 DEF Decision, Same

LEMMA PageLeft ==
  ASSUME NEW ds \in SUBSET Decision
  PROVE  /\ PageGone(ds) \subseteq Decision
         /\ \A e \in PageGone(ds) : e.mount = "gone" /\ \E d \in ds : Same(e, d)
<1> SUFFICES ASSUME NEW e \in PageGone(ds)
             PROVE  e \in Decision /\ e.mount = "gone" /\ \E d \in ds : Same(e, d)
  OBVIOUS
<1>1. PICK d \in ds : e = [d EXCEPT !.mount = "gone"]
  BY DEF PageGone
<1> QED
  BY <1>1 DEF Decision, Same

\* What PageInv says of the view, the decisions and the items.
Said == Decisive /\ SaidIsDone /\ view \in Views /\ decisions \subseteq Decision

\* The content stays while its item is shown throughout; else it begins anew,
\* and what was sent from it does not find it.
LEMMA ContentSound ==
  ASSUME PageInv, NEW p \in Keys, NEW v \in Views, NEW ds \in SUBSET decisions,
         items' = items, page' = p, Content(resource', p, v, ds),
         page \in Items => p \in Items,
         Shown(resource, page) /\ Shown(resource', p) => p = page,
         v.done \in {NoKind, view.done}
  PROVE  Said'
<1>1. decisions \subseteq Decision /\ ds \subseteq Decision /\ Decisive /\ SaidIsDone
  BY DEF PageInv, PageTypeOK
<1>2. CASE Shown(resource, page) /\ Shown(resource', p)
  <2>1. view' = v /\ decisions' = ds /\ p = page
    BY <1>2 DEF Content
  <2> QED
    BY <1>1, <1>2, <2>1 DEF Said, Decisive, SaidIsDone
<1>3. CASE ~(Shown(resource, page) /\ Shown(resource', p))
  <2>1. view' = NoView /\ decisions' = ContentGone(ds)
    BY <1>3 DEF Content
  <2>2. /\ decisions' \subseteq Decision
        /\ \A e \in decisions' : e.mount # "content" /\ \E d \in ds : Same(e, d) /\ (e.mount # "gone" => d.mount # "gone")
    BY <1>1, <2>1, ContentLeft
  <2>3. NoView \in Views /\ NoView.done = NoKind
    BY DEF NoView, Views
  <2>4. ASSUME NEW e \in decisions'
        PROVE  /\ e.mount # "gone" => page' \in Items
               /\ e.mount # "content"
               /\ e.answer = "ok" /\ e.kind # "keep" => items'[e.item].by = e.kind
    BY <1>1, <2>2 DEF Decisive, Same
  <2> QED
    BY <1>1, <2>1, <2>2, <2>3, <2>4 DEF Said, Decisive, SaidIsDone
<1> QED
  BY <1>2, <1>3

\* The page is left altogether.
LEMMA PageLeftSound ==
  ASSUME PageInv, items' = items, view' = NoView, decisions' = PageGone(decisions)
  PROVE  Said'
<1>1. decisions \subseteq Decision /\ Decisive
  BY DEF PageInv, PageTypeOK
<1>2. /\ decisions' \subseteq Decision
      /\ \A e \in decisions' : e.mount = "gone" /\ \E d \in decisions : Same(e, d)
  BY <1>1, PageLeft
<1>3. NoView \in Views /\ NoView.done = NoKind
  BY DEF NoView, Views
<1>4. ASSUME NEW e \in decisions'
      PROVE  e.mount = "gone" /\ (e.answer = "ok" /\ e.kind # "keep" => items'[e.item].by = e.kind)
  BY <1>1, <1>2 DEF Decisive, Same
<1> QED
  BY <1>1, <1>2, <1>3, <1>4 DEF Said, Decisive, SaidIsDone

\* A load that is under way, or a sign-out, will end the spinner of the page.
Watched == resource.status = "loading" => requests # {} \/ leaving > 0

\* What PageInv says of the page's load and of Sync.
Loading ==
  /\ page \in Keys \cup {NoPage} /\ resource \in Resources /\ requests \subseteq Requests
  /\ sync \in {"idle", "waiting", "success", "error", "moved"} /\ report \in {"none", "success", "error"}
  /\ Mounted /\ Synced /\ SyncReport /\ Watched

LEMMA InParts == PageInv <=> SessionInv /\ Checked /\ items \in [Items -> Item] /\ Said /\ Loading
<1>1. Synced => (sync = "waiting" => \E r \in requests : r.tracked)
  BY DEF Synced
<1> QED
  BY <1>1, TypesNamed DEF PageInv, Said, Loading, NothingSpins, Checked, Watched

LEMMA InPartsNext ==
  SessionInv' /\ Checked' /\ (items \in [Items -> Item])' /\ Said' /\ Loading' => PageInv'
  BY InParts, PTL

\* The page loads for itself: Sync is not about it any more.
LEMMA ReloadSound ==
  ASSUME Loading, NEW p \in Keys, NEW data \in Data, Reload(p, FALSE, data), Moved, page' = p,
         Served(token)' \in Tokens, status' = "authenticated"
  PROVE  Loading'
<1> DEFINE r == Request(p, FALSE)
<1>1. r \in Requests /\ r.key = p /\ r.tracked = FALSE
  BY DEF Request, Requests
<1>2. requests' = {r} /\ resource' = [status |-> "loading", data |-> data]
  BY DEF Reload
<1> HIDE DEF r
<1>3. resource' \in Resources /\ resource'.status = "loading"
  BY <1>2 DEF Resources
<1>4. sync' \in {"idle", "moved"} /\ report' = "none"
  BY DEF Moved
<1> QED
  BY <1>1, <1>2, <1>3, <1>4, Names DEF Loading, Mounted, Synced, SyncReport, Watched, Keys

\* Sync loads it.
LEMMA SyncSound ==
  ASSUME Loading, page # NoPage, sync = "idle", sync' = "waiting",
         Reload(page, TRUE, [resource.data EXCEPT !.fresh = FALSE]), page' = page, report' = report,
         Served(token)' \in Tokens, status' = "authenticated"
  PROVE  Loading'
<1> DEFINE r == Request(page, TRUE)
           data == [resource.data EXCEPT !.fresh = FALSE]
<1>0. page \in Keys
  BY DEF Loading
<1>1. r \in Requests /\ r.key = page /\ r.tracked = TRUE
  BY <1>0 DEF Request, Requests
<1>2. requests' = {r} /\ resource' = [status |-> "loading", data |-> data]
  BY DEF Reload
<1>3. data \in Data
  BY DEF Loading, Resources, Data
<1> HIDE DEF r, data
<1>4. resource' \in Resources /\ resource'.status = "loading"
  BY <1>2, <1>3 DEF Resources
<1> QED
  BY <1>0, <1>1, <1>2, <1>4, Names DEF Loading, Mounted, Synced, SyncReport, Watched, Keys

\* The answer to the load under way: there is no other.
LEMMA AnsweredSound ==
  ASSUME Loading, NEW r \in requests, NEW outcome \in {"success", "error"}, resource' \in Resources,
         requests' = requests \ {r}, sync' = IF r.tracked THEN outcome ELSE sync,
         outcome = "success" /\ r.tracked =>
           resource'.status = "success" /\ resource'.data.fresh /\ resource'.data.key = page,
         outcome = "error" => resource'.status # "success", resource'.status = "loading" => leaving' > 0,
         page' = page, report' = report, status' = status
  PROVE  Loading'
<1>1. requests' = {} /\ requests = {r} /\ page # NoPage
  BY DEF Loading, Mounted
<1>2. CASE r.tracked
  <2>1. sync' = outcome
    BY <1>2
  <2> QED
    BY <1>1, <1>2, <2>1 DEF Loading, Mounted, Synced, SyncReport, Watched
<1>3. CASE ~r.tracked
  <2>1. sync' = sync /\ sync # "waiting" /\ sync \notin {"success", "error"} /\ (sync = "idle" => report = "none")
    BY <1>1, <1>3 DEF Loading, Synced
  <2> QED
    BY <1>1, <2>1 DEF Loading, Mounted, Synced, SyncReport, Watched
<1> QED
  BY <1>2, <1>3

\* Nothing about the load changes.
LEMMA LoadingUnchanged ==
  ASSUME Loading, UNCHANGED <<page, resource, requests, sync, report>>,
         page # NoPage => status' = "authenticated", page = NoPage => view' = NoView,
         leaving > 0 => leaving' > 0
  PROVE  Loading'
  BY DEF Loading, Mounted, Synced, SyncReport, Watched
----------------------------------------------------------------------------
(* The steps *)

LEMMA NavigateSound == ASSUME PageInv, NEW p \in Keys, Navigate(p) PROVE PageInv'
<1>1. /\ SessionInv /\ Checked /\ Said /\ Loading /\ items \in [Items -> Item]
  BY InParts
<1>2. /\ status = "authenticated" /\ p # page /\ UNCHANGED <<session, items>> /\ page' = p /\ Moved
  BY DEF Navigate
<1>3. SessionInv' /\ Checked' /\ Served(token)' \in Tokens /\ status' = "authenticated" /\ items' \in [Items -> Item]
  BY <1>1, <1>2, SessionUnchanged, TokenThere DEF session, Served
<1>4. CASE {p, page} \subseteq Items
  <2>1. Reload(p, FALSE, resource.data) /\ Content(resource', p, view, decisions)
    BY <1>4 DEF Navigate
  <2>2. resource.data \in Data /\ view \in Views /\ resource'.data = resource.data
    BY <1>1, <2>1 DEF Loading, Resources, Said, Reload
  <2>3. ~(Shown(resource, page) /\ Shown(resource', p))
    BY <1>2, <2>2 DEF Shown
  <2>4. Said'
    BY <1>2, <1>4, <2>1, <2>2, <2>3, ContentSound
  <2>5. Loading'
    BY <1>1, <1>2, <1>3, <2>1, <2>2, ReloadSound
  <2> QED
    BY <1>3, <2>4, <2>5, InPartsNext
<1>5. CASE ~({p, page} \subseteq Items)
  <2>1. Reload(p, FALSE, NoData) /\ view' = NoView /\ decisions' = PageGone(decisions)
    BY <1>5 DEF Navigate
  <2>2. NoData \in Data
    BY DEF NoData, Data
  <2>3. Said'
    BY <1>2, <2>1, PageLeftSound
  <2>4. Loading'
    BY <1>1, <1>2, <1>3, <2>1, <2>2, ReloadSound
  <2> QED
    BY <1>3, <2>3, <2>4, InPartsNext
<1> QED
  BY <1>4, <1>5

\* The page loads again, with what it shows left on screen meanwhile.
LEMMA ReloadedSound ==
  ASSUME PageInv, SessionInv', Checked', status' = "authenticated", page # NoPage,
         Reload(page, FALSE, resource.data), Moved, NEW v \in Views, v.done \in {NoKind, view.done},
         NEW ds \in SUBSET decisions, Content(resource', page, v, ds), UNCHANGED <<items, page>>
  PROVE  PageInv'
<1>1. Said /\ Loading /\ items \in [Items -> Item]
  BY InParts
<1>2. page \in Keys /\ resource.data \in Data /\ Served(token)' \in Tokens
  BY <1>1, TokenThere DEF Loading, Resources, SessionInv, SessionTypeOK, OneSession, Served
<1>3. Loading'
  BY <1>1, <1>2, ReloadSound
<1>4. Said'
  BY <1>2, ContentSound
<1> QED
  BY <1>1, <1>3, <1>4, InPartsNext

LEMMA Open == ASSUME PageInv, page # NoPage PROVE status = "authenticated"
  BY DEF PageInv, Mounted

LEMMA RetrySound == ASSUME PageInv, Retry PROVE PageInv'
<1>1. SessionInv /\ Checked /\ Said /\ Mounted /\ resource.status = "error"
  BY InParts DEF Loading, Retry
<1>2. page # NoPage
  BY <1>1 DEF Mounted, Unloaded
<1>3. SessionInv' /\ Checked' /\ status' = "authenticated" /\ UNCHANGED <<items, page>>
  BY <1>1, <1>2, Open, SessionUnchanged DEF Retry, session
<1>4. view \in Views
  BY <1>1 DEF Said
<1> QED
  BY <1>2, <1>3, <1>4, ReloadedSound DEF Retry

LEMMA StartSyncSound == ASSUME PageInv, StartSync PROVE PageInv'
<1>1. SessionInv /\ Checked /\ Said /\ Loading /\ items \in [Items -> Item]
  BY InParts
<1>2. page # NoPage /\ sync = "idle" /\ sync' = "waiting" /\ UNCHANGED <<session, items, page, report>>
  BY DEF StartSync
<1>3. SessionInv' /\ Checked' /\ status' = "authenticated" /\ Served(token)' \in Tokens
  BY <1>1, <1>2, Open, SessionUnchanged, TokenThere DEF session, Served
<1>4. page \in Keys /\ view \in Views
  BY <1>1, <1>2 DEF Loading, Said
<1>5. Loading'
  BY <1>1, <1>2, <1>3, SyncSound DEF StartSync
<1>6. Said'
  BY <1>2, <1>4, ContentSound DEF StartSync
<1> QED
  BY <1>1, <1>2, <1>3, <1>5, <1>6, InPartsNext

LEMMA AnswerSound ==
  ASSUME PageInv, NEW r \in requests, AnswerData(r) \/ AnswerError(r) \/ AnswerRefused(r)
  PROVE  PageInv'
<1>1. SessionInv /\ Checked /\ Said /\ Loading /\ items \in [Items -> Item]
  BY InParts
<1>2. r \in Requests /\ r.key = page /\ page \in Keys /\ resource.status = "loading" /\ resource \in Resources /\ view \in Views
  BY <1>1, Names DEF Loading, Mounted, Said, Requests
<1>3. SessionInv' /\ Checked' /\ status' = status /\ (leaving > 0 => leaving' > 0)
  BY <1>1, SessionUnchanged, SignOutStartsSound DEF AnswerData, AnswerError, AnswerRefused, session, SignOutStarts
<1>4. PICK res \in Resources, outcome \in {"success", "error"} :
        /\ Receives(r, res, outcome)
        /\ outcome = "success" => res.status = "success" /\ res.data.key = r.key /\ (res.data.fresh <=> r.tracked)
        /\ outcome = "error" => res.status # "success"
        /\ res.status = "loading" => leaving' > 0
  <2>1. CASE AnswerData(r)
    <3> DEFINE item == IF r.key \in Items THEN items[r.key] ELSE NoItem
               data == [key |-> r.key, item |-> item, fresh |-> r.tracked]
               res == [status |-> "success", data |-> data]
    <3>1. data \in Data
      BY <1>1, <1>2 DEF Data, Requests, Keys
    <3>2. res \in Resources
      BY <3>1 DEF Resources
    <3> QED
      BY <2>1, <3>2 DEF AnswerData
  <2>2. CASE AnswerError(r)
    <3> DEFINE res == [resource EXCEPT !.status = "error"]
    <3>1. res \in Resources /\ res.status = "error"
      BY <1>2 DEF Resources
    <3> QED
      BY <2>2, <3>1 DEF AnswerError
  <2>3. CASE AnswerRefused(r)
    <3>1. leaving' > 0
      BY <1>1, <2>3, SignOutStartsSound DEF AnswerRefused
    <3> QED
      BY <1>2, <2>3, <3>1 DEF AnswerRefused
  <2> QED
    BY <2>1, <2>2, <2>3
<1>5. /\ requests' = requests \ {r} /\ resource' = res /\ sync' = IF r.tracked THEN outcome ELSE sync
      /\ Content(resource', page, view, decisions) /\ UNCHANGED <<items, page, report>>
  BY <1>4 DEF Receives
<1>6. Loading'
  BY <1>1, <1>2, <1>3, <1>4, <1>5, AnsweredSound
<1>7. Said'
  BY <1>2, <1>5, ContentSound
<1> QED
  BY <1>1, <1>3, <1>5, <1>6, <1>7, InPartsNext

LEMMA SaidUnchanged ==
  ASSUME Said, UNCHANGED <<items, page, resource, view, decisions>>
  PROVE  Said'
  BY DEF Said, Decisive, SaidIsDone, Shown

LEMMA EndSyncSound == ASSUME PageInv, EndSync PROVE PageInv'
<1>1. SessionInv /\ Checked /\ Said /\ Loading /\ items \in [Items -> Item]
  BY InParts
<1>2. SessionInv' /\ Checked' /\ Said' /\ items' \in [Items -> Item]
  BY <1>1, SessionUnchanged, SaidUnchanged DEF EndSync
<1>3. Loading'
  BY <1>1 DEF EndSync, session, Loading, Mounted, Synced, SyncReport, Watched
<1> QED
  BY <1>2, <1>3, InPartsNext

\* A step of decisions leaves the page's load alone.
LEMMA DecisionStep ==
  ASSUME PageInv, SessionInv', Checked', status' = status, items' \in [Items -> Item], Said',
         page = NoPage => view' = NoView, UNCHANGED <<page, resource, requests, sync, report>>,
         leaving > 0 => leaving' > 0
  PROVE  PageInv'
<1>1. Loading'
  BY InParts, Open, LoadingUnchanged
<1> QED
  BY <1>1, InPartsNext
\* What was decided of an item stays its last word.
LEMMA ItemsDecided ==
  ASSUME Said, items \in [Items -> Item], items' \in [Items -> Item], UNCHANGED <<page, resource, view>>,
         \A i \in Items : items'[i] = items[i] \/ items[i].state = "open",
         \A i \in Items : items'[i].by # NoKind => items'[i].state = "closed",
         decisions' \subseteq Decision,
         \A e \in decisions' :
           /\ e.mount # "gone" => page \in Items
           /\ e.mount = "content" => e.item = page /\ Shown(resource, page)
           /\ e.answer = "ok" /\ e.kind # "keep" => items'[e.item].by = e.kind
  PROVE  Said'
  BY DEF Said, Decisive, SaidIsDone, Shown

LEMMA ConfirmSound == ASSUME PageInv, NEW k \in Kinds, Confirm(k) PROVE PageInv'
<1>1. SessionInv /\ Checked /\ Said /\ Loading /\ items \in [Items -> Item]
  BY InParts
<1> DEFINE d == [item |-> page, kind |-> k, doc |-> Competing(k, resource.data.item), by |-> Served(token),
                 answer |-> "none", mount |-> "content"]
<1>2. /\ Shown(resource, page) /\ page \in Items /\ status = "authenticated"
      /\ view' = [view EXCEPT !.busy = TRUE] /\ decisions' = decisions \cup {d}
      /\ UNCHANGED <<session, items, page, resource, requests, sync, report>>
  BY DEF Confirm, Shown
<1>3. d \in Decision
  <2>1. Served(token) \in Tokens
    BY <1>1, <1>2, TokenThere
  <2>2. Competing(k, resource.data.item) \in Docs \cup {NoDoc}
    BY <1>1 DEF Loading, Resources, Data, Item, NoItem, Competing
  <2> QED
    BY <1>2, <2>1, <2>2 DEF Decision
<1>4. view' \in Views /\ view'.done = view.done
  BY <1>1, <1>2 DEF Said, Views
<1>5. d.item = page /\ d.answer = "none" /\ d.mount = "content"
  OBVIOUS
<1> HIDE DEF d
<1>6. Said'
  BY <1>1, <1>2, <1>3, <1>4, <1>5 DEF Said, Decisive, SaidIsDone, Shown
<1>7. SessionInv' /\ Checked' /\ status' = status /\ (leaving > 0 => leaving' > 0)
  BY <1>1, <1>2, SessionUnchanged DEF session
<1> QED
  BY <1>1, <1>2, <1>6, <1>7, DecisionStep, Names

\* A decision is answered by the server, or not.
LEMMA DecideSound == ASSUME PageInv, NEW d \in decisions, Decide(d) PROVE PageInv'
<1>1. SessionInv /\ Checked /\ Said /\ Loading /\ items \in [Items -> Item] /\ d \in Decision
  BY InParts DEF Said
<1> DEFINE item == items[d.item]
           allowed == item.state = "open" /\ Available(d.kind, item) /\ (d.kind = "replace" => d.doc = item.existing)
           answer == CASE ~Good(d.by) -> "refused" [] Good(d.by) /\ allowed -> "ok" [] OTHER -> "error"
<1>2. PICK a \in {answer, "error"} : decisions' = (decisions \ {d}) \cup {[d EXCEPT !.answer = a]}
  BY DEF Decide
<1> DEFINE e == [d EXCEPT !.answer = a]
<1>3. /\ items' = IF answer = "ok" /\ d.kind # "keep" THEN [items EXCEPT ![d.item] = Closed(d.kind)] ELSE items
      /\ UNCHANGED <<session, page, resource, requests, sync, report, view>>
  BY DEF Decide
<1>4. answer \in {"ok", "refused", "error"} /\ (answer = "ok" => item.state = "open")
  OBVIOUS
<1>5. e \in Decision /\ Same(e, [d EXCEPT !.answer = a]) /\ e.mount = d.mount /\ e.item = d.item /\ e.kind = d.kind /\ e.answer = a
  BY <1>1, <1>4 DEF Decision, Same
<1>6. /\ Closed(d.kind) \in Item /\ Closed(d.kind).by = d.kind /\ Closed(d.kind).state = "closed"
      /\ d.item \in Items /\ d.kind \in Kinds
  BY <1>1 DEF Closed, Item, Decision
<1> HIDE DEF answer, allowed, e
<1>7. items' \in [Items -> Item]
  BY <1>1, <1>3, <1>6
<1>8. \A i \in Items : items'[i] = items[i] \/ items[i].state = "open"
  BY <1>1, <1>3, <1>4
<1>9. \A i \in Items : items'[i].by # NoKind => items'[i].state = "closed"
  BY <1>1, <1>3, <1>6 DEF Said, Decisive
<1>10. \A f \in decisions \ {d} : f.answer = "ok" /\ f.kind # "keep" => items'[f.item].by = f.kind
  <2> SUFFICES ASSUME NEW f \in decisions, f.answer = "ok", f.kind # "keep"
               PROVE  items'[f.item].by = f.kind
    OBVIOUS
  <2>1. f \in Decision /\ f.item \in Items /\ f.kind \in Kinds
    BY <1>1 DEF Said, Decision
  <2>2. items[f.item].by = f.kind /\ items[f.item].state = "closed"
    BY <1>1, <2>1, Names DEF Said, Decisive
  <2> QED
    BY <1>8, <2>1, <2>2
<1>11. e.answer = "ok" /\ e.kind # "keep" => items'[e.item].by = e.kind
  BY <1>1, <1>2, <1>3, <1>5, <1>6
<1>12. decisions' = (decisions \ {d}) \cup {e}
  BY <1>2 DEF e
<1>13. \A f \in decisions' :
         /\ f.mount # "gone" => page \in Items
         /\ f.mount = "content" => f.item = page /\ Shown(resource, page)
         /\ f.answer = "ok" /\ f.kind # "keep" => items'[f.item].by = f.kind
  BY <1>1, <1>5, <1>10, <1>11, <1>12 DEF Said, Decisive
<1>14. decisions' \subseteq Decision
  BY <1>1, <1>5, <1>12 DEF Said
<1>15. Said'
  BY <1>1, <1>3, <1>7, <1>8, <1>9, <1>13, <1>14, ItemsDecided
<1>16. SessionInv' /\ Checked' /\ status' = status /\ (leaving > 0 => leaving' > 0)
  BY <1>1, <1>3, SessionUnchanged DEF session
<1> QED
  BY <1>1, <1>3, <1>7, <1>15, <1>16, DecisionStep DEF Loading, Mounted

LEMMA NotReachedSound == ASSUME PageInv, NEW d \in decisions, NotReached(d) PROVE PageInv'
<1>1. SessionInv /\ Checked /\ Said /\ Loading /\ items \in [Items -> Item] /\ d \in Decision
  BY InParts DEF Said
<1> DEFINE e == [d EXCEPT !.answer = "error"]
<1>2. /\ decisions' = (decisions \ {d}) \cup {e}
      /\ UNCHANGED <<session, items, page, resource, requests, sync, report, view>>
  BY DEF NotReached
<1>3. e \in Decision /\ e.mount = d.mount /\ e.item = d.item /\ e.answer = "error"
  BY <1>1 DEF Decision
<1> HIDE DEF e
<1>4. Said'
  BY <1>1, <1>2, <1>3 DEF Said, Decisive, SaidIsDone, Shown
<1>5. SessionInv' /\ Checked' /\ status' = status /\ (leaving > 0 => leaving' > 0)
  BY <1>1, <1>2, SessionUnchanged DEF session
<1> QED
  BY <1>1, <1>2, <1>4, <1>5, DecisionStep DEF Loading, Mounted

\* The page says what was done of the item it shows.
LEMMA SucceedsSound == ASSUME PageInv, NEW d \in decisions, Succeeds(d), items' = items PROVE PageInv'
<1>1. SessionInv /\ Checked /\ Said /\ Loading /\ items \in [Items -> Item] /\ d \in Decision
  BY InParts DEF Said
<1>2. /\ decisions' = decisions \ {d} /\ d.answer = "ok" /\ d.kind # "keep"
      /\ UNCHANGED <<session, items, page, resource, requests, sync, report>>
      /\ view' = IF d.mount = "content" THEN [busy |-> FALSE, done |-> d.kind] ELSE view
  BY DEF Succeeds
<1>3. d.kind \in Kinds /\ items[d.item].by = d.kind
  BY <1>1, <1>2 DEF Decision, Said, Decisive
<1>4. view' \in Views /\ (d.mount = "content" => view'.done = d.kind)
  BY <1>1, <1>2, <1>3 DEF Said, Views
<1>5. /\ d.mount = "content" => d.item = page /\ Shown(resource, page) /\ page \in Items
      /\ d.mount # "content" => view' = view
  BY <1>1, <1>2 DEF Said, Decisive, Shown
<1>6. Said'
  BY <1>1, <1>2, <1>3, <1>4, <1>5 DEF Said, Decisive, SaidIsDone, Shown
<1>7. SessionInv' /\ Checked' /\ status' = status /\ (leaving > 0 => leaving' > 0)
  BY <1>1, <1>2, SessionUnchanged DEF session
<1>8. page = NoPage => view' = NoView
  BY <1>1, <1>5, Names DEF Loading, Mounted
<1> QED
  BY <1>1, <1>2, <1>6, <1>7, <1>8, DecisionStep

LEMMA KeptSound == ASSUME PageInv, NEW d \in decisions, Kept(d), items' = items PROVE PageInv'
<1>1. SessionInv /\ Checked /\ Said /\ Loading /\ items \in [Items -> Item] /\ d \in Decision
  BY InParts DEF Said
<1> DEFINE v == IF d.mount = "content" THEN [view EXCEPT !.busy = FALSE] ELSE view
<1>2. UNCHANGED <<session, items, page>>
  BY DEF Kept
<1>3. v \in Views /\ v.done = view.done
  BY <1>1 DEF Said, Views
<1>4. SessionInv' /\ Checked' /\ status' = status /\ (leaving > 0 => leaving' > 0)
  BY <1>1, <1>2, SessionUnchanged DEF session
<1>5. CASE d.mount = "gone"
  <2>1. view' = view /\ decisions' = decisions \ {d} /\ UNCHANGED <<resource, requests, sync, report>>
    BY <1>5 DEF Kept
  <2>2. Said'
    BY <1>1, <1>2, <2>1 DEF Said, Decisive, SaidIsDone, Shown
  <2> QED
    BY <1>1, <1>2, <1>4, <2>1, <2>2, DecisionStep DEF Loading, Mounted
<1>6. CASE d.mount # "gone"
  <2>1. Reload(page, FALSE, resource.data) /\ Moved /\ Content(resource', page, v, decisions \ {d})
    BY <1>6 DEF Kept
  <2>2. page \in Items /\ page # NoPage
    BY <1>1, <1>6, Names DEF Said, Decisive
  <2> HIDE DEF v
  <2>3. status' = "authenticated"
    BY <1>4, <2>2, Open
  <2> QED
    BY <1>2, <1>3, <1>4, <2>1, <2>2, <2>3, ReloadedSound
<1> QED
  BY <1>5, <1>6

LEMMA FailsSound == ASSUME PageInv, NEW d \in decisions, Fails(d), items' = items PROVE PageInv'
<1>1. SessionInv /\ Checked /\ Said /\ Loading /\ items \in [Items -> Item] /\ d \in Decision
  BY InParts DEF Said
<1>2. /\ decisions' = decisions \ {d} /\ UNCHANGED <<items, page, resource, requests, sync, report>>
      /\ view' = IF d.mount = "content" THEN [view EXCEPT !.busy = FALSE] ELSE view
  BY DEF Fails
<1>3. view' \in Views /\ view'.done = view.done /\ (d.mount # "content" => view' = view)
  BY <1>1, <1>2 DEF Said, Views
<1>4. d.mount = "content" => Shown(resource, page) /\ page \in Items
  BY <1>1 DEF Said, Decisive, Shown
<1>5. Said'
  BY <1>1, <1>2, <1>3, <1>4 DEF Said, Decisive, SaidIsDone, Shown
<1>6. SessionInv' /\ Checked' /\ status' = status /\ (leaving > 0 => leaving' > 0)
  BY <1>1, SessionUnchanged, SignOutStartsSound DEF Fails, session, SignOutStarts
<1>7. page = NoPage => view' = NoView
  BY <1>1, <1>3, <1>4, Names DEF Loading, Mounted
<1> QED
  BY <1>1, <1>2, <1>5, <1>6, <1>7, DecisionStep

LEMMA OthersSound == ASSUME PageInv, Others PROVE PageInv'
<1>1. SessionInv /\ Checked /\ Said /\ Loading /\ items \in [Items -> Item]
  BY InParts
<1>2. UNCHANGED <<session, web>>
  BY DEF Others
<1>3. PICK i \in Items, new \in Item :
        /\ items[i].state = "open" /\ items' = [items EXCEPT ![i] = new]
        /\ new.by # NoKind => new.state = "closed"
  <2>1. PICK i \in Items :
          /\ items[i].state = "open"
          /\ \/ items' = [items EXCEPT ![i] = Closed(NoKind)]
             \/ \E doc \in Docs : items' = [items EXCEPT ![i] = [items[i] EXCEPT !.existing = doc]]
    BY PageAssumption DEF Others
  <2>2. Closed(NoKind) \in Item /\ Closed(NoKind).state = "closed"
    BY DEF Closed, Item
  <2>3. ASSUME NEW doc \in Docs
        PROVE  /\ [items[i] EXCEPT !.existing = doc] \in Item
               /\ [items[i] EXCEPT !.existing = doc].by = items[i].by
    BY <1>1 DEF Item
  <2>4. items[i].by = NoKind
    BY <1>1, <2>1 DEF Said, Decisive
  <2> QED
    BY <2>1, <2>2, <2>3, <2>4
<1>4. items' \in [Items -> Item]
  BY <1>1, <1>3
<1>5. \A e \in decisions : e.answer = "ok" /\ e.kind # "keep" => items'[e.item].by = e.kind
  <2> SUFFICES ASSUME NEW e \in decisions, e.answer = "ok", e.kind # "keep"
               PROVE  items'[e.item].by = e.kind
    OBVIOUS
  <2>1. e \in Decision /\ e.item \in Items /\ e.kind \in Kinds
    BY <1>1 DEF Said, Decision
  <2>2. items[e.item].by = e.kind /\ items[e.item].state = "closed"
    BY <1>1, <2>1, Names DEF Said, Decisive
  <2> QED
    BY <1>1, <1>3, <2>1, <2>2
<1>6. Said'
  BY <1>1, <1>2, <1>3, <1>4, <1>5, ItemsDecided DEF web, Said, Decisive
<1>7. SessionInv' /\ Checked' /\ status' = status /\ (leaving > 0 => leaving' > 0)
  BY <1>1, <1>2, SessionUnchanged DEF session
<1> QED
  BY <1>1, <1>2, <1>4, <1>6, <1>7, DecisionStep DEF web, Loading, Mounted

\* The session ends and takes its pages with it.
LEMMA SessionEndsSound == ASSUME PageInv, SessionEnds, items' = items PROVE PageInv'
<1>1. SessionInv /\ Checked /\ Said /\ Loading /\ items \in [Items -> Item]
  BY InParts
<1>2. SessionInv' /\ Checked'
  BY <1>1, SignedOutSound, LoadTabSound DEF SessionEnds
<1>3. Said'
  BY PageLeftSound DEF SessionEnds, UnmountAll
<1>4. Unloaded \in Resources /\ Unloaded.status = "none"
  BY DEF Unloaded, NoData, Resources, Data
<1>5. Loading'
  BY <1>4 DEF SessionEnds, UnmountAll, Loading, Mounted, Synced, SyncReport, Watched
<1> QED
  BY <1>1, <1>2, <1>3, <1>5, InPartsNext

LEMMA SessionStays ==
  ASSUME PageInv, SessionGoesOn \/ UserSignsOut, items' = items
  PROVE  PageInv'
<1>1. SessionInv /\ Checked /\ Said /\ Loading /\ items \in [Items -> Item]
  BY InParts
<1>2. /\ SessionInv' /\ Checked' /\ (status = "authenticated" => status' = "authenticated") /\ UNCHANGED web
      /\ (leaving > 0 => leaving' > 0)
  BY <1>1, GoesOn, SignOutStartsSound DEF SessionGoesOn, UserSignsOut, SignOutStarts
<1>3. Said'
  BY <1>1, <1>2, SaidUnchanged DEF web
<1>4. Loading'
  BY <1>1, <1>2, Open, LoadingUnchanged DEF web, Loading, Mounted
<1> QED
  BY <1>1, <1>2, <1>3, <1>4, InPartsNext

LEMMA SignInEndsSound == ASSUME PageInv, SignInEnds, items' = items PROVE PageInv'
<1>1. SessionInv /\ Checked /\ Said /\ Loading /\ items \in [Items -> Item]
  BY InParts
<1>2. SessionInv' /\ Checked' /\ status' = "authenticated" /\ leaving' = leaving
  BY <1>1, SignedInSound DEF SignInEnds, SignedIn
<1>3. CASE page = NoPage
  <2>1. UNCHANGED web
    BY <1>3 DEF SignInEnds
  <2>2. Said' /\ Loading'
    BY <1>1, <1>2, <2>1, SaidUnchanged, LoadingUnchanged DEF web, Loading, Mounted
  <2> QED
    BY <1>1, <1>2, <2>2, InPartsNext
<1>4. CASE page # NoPage
  <2>1. view \in Views
    BY <1>1 DEF Said
  <2> QED
    BY <1>2, <1>4, <2>1, ReloadedSound DEF SignInEnds
<1> QED
  BY <1>3, <1>4

----------------------------------------------------------------------------
(* The specification *)

LEMMA InitSound == Init => PageInv
<1> SUFFICES ASSUME Init PROVE PageInv
  OBVIOUS
<1>1. SessionInv /\ Checked
  BY SessionBegins DEF Init
<1>2. items \in [Items -> [state : {"open"}, by : {NoKind}, existing : Docs \cup {NoDoc}]]
  BY PageAssumption DEF Init
<1>3. items \in [Items -> Item] /\ \A i \in Items : items[i].by = NoKind
  BY <1>2 DEF Item
<1>4. Unloaded \in Resources /\ NoView \in Views /\ NoView.done = NoKind
  BY DEF Unloaded, NoData, Resources, Data, NoView, Views
<1>5. Said
  BY <1>3, <1>4 DEF Init, Said, Decisive, SaidIsDone
<1>6. Loading
  BY <1>4 DEF Init, Unloaded, Loading, Mounted, Synced, SyncReport, Watched
<1> QED
  BY <1>1, <1>3, <1>5, <1>6, InParts

LEMMA NextSound == ASSUME PageInv, [Next]_vars PROVE PageInv'
<1>1. CASE User
  BY <1>1, NavigateSound, RetrySound, StartSyncSound, ConfirmSound DEF User, Keys
<1>2. CASE Answer
  BY <1>2, AnswerSound DEF Answer
<1>3. CASE EndSync
  BY <1>3, EndSyncSound
<1>4. CASE Server
  BY <1>4, DecideSound, NotReachedSound DEF Server
<1>5. CASE DecisionAnswered
  BY <1>5, SucceedsSound, KeptSound, FailsSound DEF DecisionAnswered
<1>6. CASE Others
  BY <1>6, OthersSound
<1>7. CASE (SessionEnds \/ SessionGoesOn \/ SignInEnds \/ UserSignsOut) /\ UNCHANGED items
  BY <1>7, SessionEndsSound, SessionStays, SignInEndsSound
<1>8. CASE UNCHANGED vars
  <2>1. SessionInv /\ Checked /\ Said /\ Loading /\ items \in [Items -> Item]
    BY InParts
  <2>2. UNCHANGED <<session, items, page, resource, requests, sync, report, view, decisions>> /\ status' = status /\ leaving' = leaving
    BY <1>8 DEF vars, web, session
  <2>3. SessionInv' /\ Checked' /\ Said'
    BY <2>1, <2>2, SessionUnchanged, SaidUnchanged
  <2> QED
    BY <2>1, <2>2, <2>3, DecisionStep DEF Loading, Mounted
<1> QED
  BY <1>1, <1>2, <1>3, <1>4, <1>5, <1>6, <1>7, <1>8 DEF Next

LEMMA PageHolds == Spec => []PageInv
  BY InitSound, NextSound, PTL DEF Spec

\* The types of the session and of the page.
THEOREM PageTypeCorrect == Spec => [](SessionTypeOK /\ PageTypeOK)
<1>1. PageInv => SessionTypeOK /\ PageTypeOK
  BY DEF PageInv, SessionInv
<1> QED
  BY <1>1, PageHolds, PTL

\* Whatever order a validation, a sign-in and sign-outs end in, the stored
\* token and the one of requests are the same, and the profile and the cookie
\* are of that token's session or of a sign-in that has not got its profile
\* (AuthProvider.tsx, "never leave the app half-authenticated").
THEOREM SessionsWhole == Spec => []OneSession
<1>1. PageInv => OneSession
  BY DEF PageInv, SessionInv
<1> QED
  BY <1>1, PageHolds, PTL

\* What the review page says was done was done to the item it shows, and is
\* what became of it (ReviewDetailPage.tsx).
THEOREM SaidWasDone == Spec => []SaidIsDone
<1>1. PageInv => SaidIsDone
  BY DEF PageInv
<1> QED
  BY <1>1, PageHolds, PTL

\* The header's result of a Sync is about what is on screen (SyncProvider.tsx).
THEOREM SyncTellsTruth == Spec => []SyncReport
<1>1. PageInv => SyncReport
  BY DEF PageInv
<1> QED
  BY <1>1, PageHolds, PTL

\* "Checking your session" and "Syncing" always have something under way that
\* ends them.
THEOREM SpinnersEnd == Spec => []NothingSpins
<1>1. PageInv => NothingSpins
  BY DEF PageInv
<1> QED
  BY <1>1, PageHolds, PTL

=============================================================================
