# Verification of the WhatsApp document bot

The program receives documents (passports, police slips and reports, medical certificates) over WhatsApp, reads them by
OCR, decides which client they belong to, files them in the client's folder of a storage bucket, or holds them in
`pending/` for an admin, who decides on them in a dashboard. It is a Node/Express backend (`src/src`) on PostgreSQL
(`src/prisma/schema.prisma`) and a Supabase storage bucket, and a React dashboard (`src/admin/src`).

This directory models the parts of it where the order of steps, failures or combinations of rules decide whether a
document is lost, filed twice, filed under the wrong client or left unnoticed. The models are checked by TLC on small
instances, and what matters most is proved by TLAPS for every value of the constants. Paths below are relative to the
repository's root.

1. [Inventory](#1-inventory) - 2. [Plan](#2-plan) - 3. [Modules and code](#3-modules-and-code) - 4. [Runs](#4-runs) -
5. [Fairness](#5-fairness) - 6. [Proofs](#6-proofs) - 7. [Findings](#7-findings) - 8. [Not modelled](#8-not-modelled)

## 1. Inventory

    Meta --POST /webhook--> intake --insert--> temporary_data --claim--> worker: pipeline --> clients/ + documents
                              |  upload                ^   ^                |            \--> pending/ (waits for review)
                              v                        |   |                v
                          temporary/ (bucket)          |   +--- retry --- admins: review actions, corrections, deletion
                                                       +--------------------+

Components interact through the database and the bucket only, apart from the intake's `notify()` that wakes the worker's
loops. A row of `temporary_data` is the durable job: it is inserted once per WhatsApp message, claimed and finished by the
worker, and, when it waits, decided by an admin.

### Submission worker - `services/submissionQueue.js`, `temporaryDataService.js`, `permanentStorageService.js`, `placementRecovery.js`, `clientDocumentService.js`, `documentChecksumService.js`, `utils/storageTimeout.js`
- State: `temporary_data` (status, `processing_attempts`, `processing_started_at`, the recorded placement path), `documents`,
  the bucket; per attempt, in memory, the claim and what the attempt has worked out.
- Operations: claim the oldest claimable row (read, then conditional update), renew, release at shutdown, give up after
  `maxAttempts`, find a free name, record it, copy, insert the document, undo, record the result or the failure.
- Hard: two loops per process and several processes; leases that run out under a running attempt; attempt numbers counted
  down (release) and reset (admin retry); copies and removals that land after their timeout; committed calls whose answer is lost;
  crashes between any two calls; unchecked reads before conditional writes.
- Correct when: one attempt at a time owns a row; an attempt that lost its row never writes again; one document at most
  per submission, and it has its file; a waiting row has its own file; nothing disappears without a document, a pending file, or
  a kept duplicate.

### Document pipeline and its rules - `services/documentProcessingService.js` and the pure services it calls
- State: the stage, what was read and decided so far (memory); the client's columns; the row.
- Operations: extraction, identity, WhatsApp lookup, duplicate check, reconciliation, storage, placement, record update;
  each stage may throw and then ends the attempt as FAILED or lets it go on without its result.
- Hard: decisions taken on data read several awaits earlier; score bands at their boundaries; many rules that combine
  (identity, checksum, band, flags, police date, existing verified document).
- Correct when: nothing enters a client folder without proof of whose it is and that it is readable; whatever waits in `pending/`
  says why; a client's filled-in data is never overwritten.

### WhatsApp intake - `routes/whatsapp.js`, `utils/messageIdempotency.js`, `services/temporaryStorageService.js`
- State: per process, the cache of message ids and the running handlings; `temporary/` objects; rows.
- Operations: handle each message of a delivery in turn: claim its id, download, upload, insert, complete or release; wait for another
  request's handling of the same message; answer 200 only when all is recorded.
- Hard: redeliveries during the handling, in this or another process; the bound and expiry of the cache; failures between
  upload and insert; restarts.
- Correct when: nothing is acknowledged that is not recorded; unknown objects are left only by failures; a delivery is
  acknowledged in the end.

### Admin review actions, corrections, deletion - `services/adminReviewActionService.js`, `adminCorrectionService.js`, `temporaryDataService.js`
- State: rows, documents, files; row locks of open transactions.
- Operations: approve, replace, keep as version, keep pending, remove from review (waiting rows); approve, remove, keep
  (documents in review); set client, type, police date; delete a submission.
- Hard: several admins and the worker on one item or one client; transactions that time out while the storage still
  copies; commits whose answer is lost; files removed before or after the commit.
- Correct when: one VERIFIED document per client and type; each item is decided once; a document or a waiting row that is still
  needed keeps its file; no deadlock among the row locks.

### OCR and its limiter - `services/ocrService.js`, `utils/concurrencyLimiter.js`
- State: active count, FIFO queue with wait timers. Hard: a timer and a release race for a queue entry. Correct when: never
  more than the limit run, the count is that of the running jobs, and nobody waits beside a free slot.

### Process lifecycle - `app.js`, `shutdown.js`, `createApp.js`
- State: shutting down or not, open server, worker, database. Hard: the hard deadline (8 s), the worker's stop (6 s) and
  closing connections race. Correct when: running jobs are released before the process exits, whatever hangs.

### Admin accounts - `services/adminInvitationService.js`, `passwordResetService.js`, `adminProvisioningService.js`, `routes/auth.js`, `routes/adminInvitations.js`, `middleware/`
- State: accounts, invitations, reset links and their expiry.
- Operations: invite (revoke the account's open links, store a new one, audit, mail), set up a password, revoke, delete;
  forgot password, reset; create an admin by script.
- Hard: requests read a link, hash a password for a while, and then write by id; two invitations, or an invitation and
  a setup, of one account at the same time.
- Correct when: a newer link ends the ones before it, an account is activated only by an operator or an invitation that is
  marked as accepted, and an active account's password changes only through a link of its own.

### Dates and police countdown - `utils/businessDay.js`, `utils/dateParsing.js`, `services/police*.js`
- Pure functions. Hard: days of a time zone against instants in UTC. Correct when each instant is in one day's report
  and a countdown goes down by one each day.

### Passport zone reading - `utils/mrz.js`, `services/passportExtractionService.js`, `passportAcceptanceService.js`
- Pure functions from text lines to fields, check digits and their merging with printed values.

### Dashboard reads and reports - `services/adminDashboardService.js`, `adminClientService.js`, `adminPoliceService.js`, `adminReviewService.js`, `adminReportService.js`
- State: none of their own; they work pages out of two tables by several queries at different moments.
- Hard: rows that become documents between two queries; one rule worked out in two places; pages merged from two tables.
- Correct when: what a page says is on record is so, an item that waits all the time is on its page, and the
  places agree.

### Dashboard web client - `admin/src`
- State: the session (stored token, profile, timer), the page's resource with its requests, the Sync button, the review
  page's decisions.
- Hard: sign-in, sign-out and token validation settling in any order, while the server goes by the browser's cookie; loads overtaken by later ones, aborted or refused;
  decisions answered after the admin has moved on.
- Correct when: profile, token, storage and cookie are of one session; what the page says was done was done to what it shows;
  the header's result is about what is on screen; no spinner stays.

### Scripts - `scripts/`
- One-shot operator tools.

PROJECT.json lists the hazards of these components at their lines, with the properties that cover them.

## 2. Plan

| order | module | what | state |
|---|---|---|---|
| 1 | PlacementRules | the pure decisions, as operators shared by the modules below | done |
| 2 | SubmissionWorker | claims, leases, copies, insert and undoing, call by call | done |
| 3 | DocumentPipeline | the stages of processDocument over PlacementRules, with other writers in between | done |
| 4 | WebhookIntake | deliveries, cache, upload, insert | done |
| 5 | ReviewActions | admins' requests with locks and transactions | done |
| 6 | ConcurrencyLimiter | the limit on OCR jobs, with its queue and timers | done |
| 7 | WorkerProcess | the loops, the shutdown and the next process, over ConcurrencyLimiter; liveness | done |
| 8 | CaseRecords | abstract specification: the two tables as single commits, implemented by SubmissionWorker and ReviewActions through refinement mappings | done |
| 9 | DashboardReads, BusinessCalendar, BusinessClock | pages worked out of the tables of CaseRecords by queries among its commits; days and countdowns as time passes | done |
| 10 | AdminAccounts | invitations, resets and their links, call by call | done |
| 11 | WebSession, DashboardPage | one tab of the dashboard | done |

Which module uses which: SubmissionWorker and DocumentPipeline EXTEND PlacementRules and are two views of one attempt: the first has
one choice of reading (`Readings`) and every call of the placement, the second every rule and one step per placement.
WorkerProcess EXTENDS ConcurrencyLimiter. SubmissionWorker and ReviewActions INSTANCE CaseRecords, and DashboardReads
EXTENDS it: what is shown to readers of the tables is shown against every commit that CaseRecords allows, and the two
refinements show that the worker and the admins make no others. DashboardReads and BusinessClock
EXTEND BusinessCalendar, DashboardPage EXTENDS WebSession.

What is left: the review actions together with the worker on one bucket (a retried submission may reuse the copy that an
admin's removal is about to delete); the choice among several readings of one image.

## 3. Modules and code

### PlacementRules
Operators, one per function: classification by file name and content (`ResolveDocumentType`), confidence
(`GetConfidenceBand`, `AssessDocumentConfidence`), merging of machine-readable and printed passport values, identity
(`DecideIdentity`), duplicates by checksum (`CheckClientChecksum`, `CheckSameClientOnly`), reconciliation of a column,
placement (`DecidePlacement`) and review reason. Scores are integers with the code's own thresholds;
file texts and names are replaced by what the rules distinguish in them (a type, a content score, a reason).

### SubmissionWorker
An action is one call to the database or the bucket, with the local decisions up to the next call; `pc[w]` names the
next call of worker loop `w`, `claim[w]` is the closure of `createClaim`, `work[w]` the attempt's local variables.
`rows`, `documents`, `objects` are the tables and the bucket, `late` the copies and `removals` the clean-up removals whose caller has
timed out, `clock` the time.

- `ClaimRead`, `ClaimSwap`: `claimNextSubmission`. Both calls run at one instant of the model (time does not pass while a loop
  is `Claiming`), its up to five tries are a return to `Idle`.
- `ReadDocument` ... `Decide`: the stages before placement, with one of `Readings` as their result.
- `Place`, `TryName`, `TryReuse`, `RenewForCopy`, `Copy`: `storeInClientFolder`/`holdInPending` and the free-name loop, and the
  resuming of an earlier attempt's recorded path.
- `Insert`, `CleanupRenew`, `CheckInUse`, `RemoveCopy`: the documents insert and its undoing.
- `RecordResult`, `RecordFailure`, `Discard`: the conditional final update, or giving up the result of a lost claim.
- `Crash`, `Release`, `CallFails`, `CopyFails`, `...AnswerLost`, `RemoveFails`: faults, at most `MaxFaults` of them. A removal that fails, or whose
  process dies, may still be under way (`MayLand`).
- `AdminRetry`, `LateCopyLands`, `LateRemovalLands`, `Tick`: the admin, the storage and time. A late copy lands on
  a free name only, a late removal on whatever has its name by then.

Lease starts keep their kind: an instant read from the clock, or the back-dated value written to make a row claimable
early; a back-dated value that equals an older reading to the millisecond is left out. Time does not pass a storage call's
timeout while a renewal guards it: this is what `withStorageTimeout` and `TimeoutWellBelowLease` (the check at the end of
`QUEUE_DEFAULTS`) are for. The variant `TimeUnbounded`, without that bound, is the mutant that loses a file. Two removals of one name that were given up and have not
landed count as one. Left out: client-record columns (DocumentPipeline has them), deletion of a row being processed; an exception outside
`processDocument`'s own handling acts as `Crash` does.

### DocumentPipeline
One action per stage (`stage` is `state.stage`); `seen` is what the attempt has read or decided; `row` is its row;
`candidates`, `documents`, `earlierPending` are what others may change (`Others`) between two stages. Each stage also
has its failing action; `Interrupted` cuts the attempt short and `AdminRetry` starts again.

### WebhookIntake
An action is the code between two awaits. `cache[p]` is the `Map` of a process in insertion order, `inFlight[p]` its running
handlings, `pc`/`req` a request's place in the loop over messages and its locals. `Send` is Meta posting a delivery,
`Answer` the 200 or 500. `Claim`, `Wait`, `Skip`, `Refuse`, `Download`, `Upload`, `Insert`, `Drop`, `Undo` follow `handleMessage` and
`handleMediaMessage`; `Settle` is `complete`/`release`. `Kind` stands for what the metadata, validation and size checks find. Rows are not
deleted here; object names are used again once nothing refers to them.

### ReviewActions
One request of an admin at a time: `Request` is the route's validation and first, unlocked read; then a download where
the code has one, then a transaction whose steps take the row lock, the client lock and, for a replacement, the target's
lock (a stored document: document, then client), each with the reads made under it, then the copy, the commit and the
tidying up. `rowLock`, `documentLock`, `clientLock` are the row locks; `job[a]` the request's locals. `TimesOut` is the 30 s
transaction timeout, which frees the locks while the copy goes on. A replacement takes any document
id, and looks at that document only when it has its lock, as the code does. `Worker` is the end of the processing of a received
submission: it is held for review in one step, or filed in two, the unlocked read (`FindsNoVerified`, remembered in `placing`) and, whatever
was committed since, the insert (`FiledByWorker`, with its copy, which SubmissionWorker has as a call of its own). Audit entries are written in the same transactions and left out; the name of a copy is the smallest free
number of a folder; dates are present or absent; statuses other than DUPLICATE are one. Left out: the refusal of a second
keep-pending within 60 s, comparisons of dates, copies that land late, and the unique violation on insert (it waits for the
client lock through the foreign key). `undone` and `deleted` are history variables: names removed after a
commit whose answer was lost, and files `deleteTemporaryDocument` removed in a transaction that had not ended.

### ConcurrencyLimiter
`createConcurrencyLimiter`: `active` and `waiting` are its variables, `timers` the callers whose wait timer is set, `slot[c]` says where a
caller's `run()` has got to. `Spliced` is `waiting.splice(waiting.indexOf(entry), 1)`, which takes the last of the queue when the
entry is not in it. `Enter`,
`Queue`, `Refuse` are `acquire`, `TimeOut` the timer of a caller, which fires while it is set, `Leave` is `release` with `startNextWaiting`. Each is
one turn of the event loop, so that the timer and a release cannot interleave inside it; what can go wrong is what each
leaves to the other. `Reset` is the end of the process. `peakActive` is a statistic and left out.

### WorkerProcess
EXTENDS ConcurrencyLimiter: its callers are the loops of `startSubmissionWorker`. `loop[l]` is the call a loop is in or makes
next, `job`, `attempt` and `claims` are its locals and `activeClaims`; `stop` is how far `shutdown()` and `worker.stop()` are,
`toRelease` the copy of `activeClaims` that `stop()` goes through, `row` the submissions reduced to state, owner and attempts,
`serving` the requests of the webhook that are open. `runs` numbers the processes.

- `Claim`, `ClaimNone`, `ClaimFails`, `Start`, `GiveUp`, `NeedsOcr`, `OcrBusy`, `OcrTimesOut`, `NeedsNoOcr`, `OcrEnds`, `LoadFails`, `Finish`: one
  pass of `drainSubmissionQueue`; `Sleep` and `Poll` are `sleep()` and its timer. Between `ClaimNone` and `Sleep` a notification finds
  nobody to wake.
- `Renew`, `Renewed`, `RenewFails`: a renewal of the claim moves the start of the row's lease, and the attempt learns of it with the answer, or,
  when its answer is lost or its transaction rolled back, never. In between the attempt's conditional writes and `release()` match no row:
  `Holds` is what the row says, `Owns` what such a write finds.
- `Receive`, `Record`, `NotRecorded`, `Notify`: a request of the webhook as far as the worker sees it.
- `Signal`, `LoopsSettled`, `StopTimesOut`, `Release`, `ReleaseFails`, `AllReleased`, `Exit`, `HardStop`: shutdown.js and `stop()`;
  `Crash` is a kill, `Boot` app.js. The hard deadline comes after the worker's (8 s and 6 s), so `HardStop` needs the latter to
  have passed; a second signal changes nothing and is left out.

Abstractions: the two calls of a claim are one action (SubmissionWorker has them apart); an attempt renews its claim at most once, at its end,
of the up to four times in the code (`documentProcessingService.js:281`, `placementRecovery.js:44`, `clientDocumentService.js:163`, `:173`); a download and the write that
follows it are one; the claim's entry leaves `activeClaims` together with its last write; a lease does not run out between the
claim's write and the first step after its answer; `stop()` releases its claims in any order. The number of loops and of
slots are separate constants, although both are 2 in production (`concurrency` is `MAX_CONCURRENT_OCR_JOBS`): with them equal
nobody ever waits, and the limiter is meant for more. `kept` is a history variable: what `stop()` could not hand back, because the release failed (it is
logged), because the claim's answer was still on its way and `stop()` did not find it, or because a renewal was under way or had gone wrong, so that
the release matched nothing.

### CaseRecords
The abstract specification of what the two tables go through, without locks, copies, attempts and faults: every action is
one commit. `Settle` and `FileReceived` are the ends of a processing, `Retry`, `Correct`, `FileWaiting`, `Delete`, `ApproveStored`,
`RemoveStored` and `SetDate` an admin's. What it promises is in what it leaves out: a file is filed only from a row that is
received or waits, under the client and type of that row; a verified document ends only by the one filed in its place;
only a document in review is removed. `FileReceived` may leave the row as it was, because the worker inserts the
document before it updates the row; a waiting file that is kept as a version may leave its row FAILED, as
`keepDocumentAsVersion` does with a failed row.

`ReviewActions!ImplementsRecords` and `SubmissionWorker!ImplementsRecords` are the refinements, with
`RecordedRows` and `RecordedDocuments` as mappings. Deletions are the admins' and dates are present or absent there; the
worker's mapping takes a submission for its document's id and leaves types of rows out.

### DashboardReads, BusinessCalendar, BusinessClock
DashboardReads EXTENDS CaseRecords. A page is asked for (`LoadClients`, `ListReviewQueue`), its queries see one table each at
some moment (`QueryRows`, `QueryDocuments`), and `Commit` is any step of CaseRecords in between. The rest are operators for
what the services make of the answers: `ReviewQueue` (both tables up to the end of the page, merged), `Requirements` and
`RequiredDocumentsShown` (the two ways to a client's completeness), `PoliceStatus` and `PoliceStatusShown` (the two ways to
its countdown), `MissingDocuments`, `PoliceList`. The queries of the clients themselves and the counts are left out.

BusinessCalendar counts half hours and days as integers: `DayStart` and `BusinessDateOf` follow `businessDayRange` and
`businessDateOf`, whose offset is the constant +5:30 (Colombo's own offset was another one before 2006-04-15; reports go
back to 2000). BusinessClock EXTENDS it with a clock that jumps forward from instant to instant (`TimePasses`), at which
submissions are received (`Receive`); every day's report and every slip's follow-up are looked at in each state.

### AdminAccounts
An action is one database call of a request, so everything between two calls, hashing included, is where others come in.
`invites[r]`, `resets[r]` are the links, named by the request that makes them (tokens are random); `req[r]` is a request's
locals: `link` the link it holds, `seen` the status it read. `RevokeOld`, `CreateInvitation`, `AuditInvitation`,
`MailInvitation` are an invitation, `CheckAccount` and `Accept` a setup, `Invalidate`, `StoreReset`, `MailReset` a forgotten password, `Reset` its
link, `Provision` the script. A request that fails takes no further step. `by`, `spent` and `replaces` are history.

### WebSession, DashboardPage
WebSession is `AuthProvider.tsx` in one tab: `stored` is sessionStorage, `token`, `status` and `admin` the provider's state,
`validating` the request of the effect, `timer` the expiry, `signIn` the two requests of the login form, `leaving` the
sign-outs that wait for the server (counted up to `MaxLeaving`: more of them do the same once more). `cookie` is the session
cookie of the browser, which each login sets and which the server prefers to the token that is sent (`Served`, after
`middleware/auth.js:32-37`); `issued` is the server's view of a token. An answered logout may take the cookie away or not (whether the server accepts the
logout is not told apart). Only this tab changes the cookie: other tabs of the browser are left out. `strays` is a history variable:
the sessions of sign-ins whose profile request did not come back. DashboardPage adds one mounted page with its
one resource (`resource`, `requests`), the Sync button (`sync`, `report`) and the decisions of the review page (`view`,
`decisions`, `items` on the server). A decision's answer finds the content that sent it, only its page, or neither
(`mount`). Kinds of decision are three: one that needs no competing document, one that names it, one that leaves the item
open. An effect of React runs with the event that causes it; opening, filling in and confirming a dialog are one step.

## 4. Runs

Every run finishes in less than three minutes with two workers.

| run | instance | shows |
|---|---|---|
| worker_interrupted | one passport that may be read as client A's, as B's badly, or not at all, differently in each attempt; two loops, two attempts, two faults, lease 3, clock to 6 | claims are exclusive (UniqueOwner); one document at most, whatever the attempts decided (OneDocumentPerSubmission); its file stays, unless a removal that was given up lands on it (DocumentHasFile) |
| worker_two_submissions | one file received twice, each attempt files or holds it; two loops, one fault, clock to 4 | no two owners of one object, no waiting row without its own file, nothing lost: a row called DUPLICATE duplicates a file that is kept; a lost claim stays lost; all of it comes down to the commits of CaseRecords |
| pipeline | every combination of readings (scores on the bands' bounds), client records and documents on record, left alone; and a few of each with two steps of others and one restart between any stages; every stage may fail | what is filed was proven and readable; what waits has a reason; no recorded column is overwritten |
| intake_messages | two overlapping deliveries with all kinds of messages, two processes, a cache of one entry, two faults | nothing is acknowledged unrecorded, although entries in progress are evicted; unknown objects come from faults only |
| intake_redelivery | one delivery of two files, sent again to either of two processes, one fault | a process handles a message once at a time; the delivery is acknowledged in the end |
| intake_lost_file | the same, one process | finding 1 |
| review_actions | two admins, three requests of any kind, two waiting items (any type, linked or not, an exact copy, or one still with the worker), an earlier document, two clients, one fault | no admin makes a second document of a client and type VERIFIED, whatever the worker commits between the admin's reads, and the other way round the worker's read and insert are apart; files kept; no circle of waits but with a replacement of a document in review; and, by `ImplementsRecords`, one decision per item, under what its row says, and no verified document lost |
| worker_process | two loops, one OCR slot, room for none or one to wait, one submission, three attempts, two processes, one fault, a shutdown or a kill at any step | the limiter keeps count, whichever of a timer, a release and the end of the process comes first; `stop()` leaves nothing unfinished but what it could not release, what it did not find, and what a renewal was under way for; every recorded submission is processed and every shutdown ends |
| accounts | an account that is active, inactive or none, three requests of any kind, expiry and death at any step | older links end with a newer one, none ends by its own request; activation and passwords only by a link of the account or an operator |
| dashboard | three submissions, two documents, two clients, three document types, two of them required, two commits before, between and after the queries | what is shown complete or in review is so; nothing that waits is overlooked; the two ways to one rule agree; the order of urgency |
| calendar | two submissions; the half hours around each midnight of Colombo and of UTC on nine days, those of two slips and the ones 14, 20, 21 and 22 days after | each submission is in one report; the follow-up turns at the right midnights |
| web_client | two tokens of which one may end, their cookie, the queue and two items, one decision under way and one sign-out told apart | session, page and Sync say what is so, whatever the order of answers |

Why the bounds are enough for what they show: a race needs two actors, and each run has two of them plus, where they
matter, a later attempt (`MaxAttempts` 2 or 3) or a third request. `Lease` 3 with `StorageTimeout` 1 is the smallest lease the program's own check allows, so
that the clock's 6 instants hold a lease that runs out, a takeover, and the first attempt's return. Two names per folder
make running out of names and reusing an earlier copy happen. A cache of one entry evicts on every second message. `worker_process` has one submission and two loops: the
second loop comes to it when a lease runs out, so both are at work together, and two of them are enough to fill the one
slot and its queue. `accounts` has three requests: one that makes a link, one that uses it and one that ends it. `dashboard` has
two commits, so that one item may leave a table and another enter between two queries, and a page of two of three items, whose edge they may
cross. `web_client` has two items, since what goes wrong there is one item's answer on another's page, and two tokens, a session and the next, of which one ends; other admins act on one of
the items (`Contested`), and the login form is submitted while there is a token left: without one it could only fail. Two
faults allow one failing call and one failing clean-up. `CHECK_DEADLOCK FALSE` is said everywhere because the systems end by design:
all rows are finished, all deliveries acknowledged, all requests used.

Each property has a mutant in PROJECT.json: a plausible bug in a definition that makes TLC find it violated, so none
of them holds by the shape of the model. Many mutants are the operators called *variant* in the modules (a claim
without its condition, a document inserted without renewing the claim, a read without lock, a request that is not aborted).

## 5. Fairness

Two specifications have fairness; everything else is safety.

`WebhookIntake!FairSpec`: each open request's next step happens (Node's event loop runs every settled await; calls to Meta
and to the storage have time-outs, and database calls are taken to answer), and Meta sends a delivery again while it is
not acknowledged. A failing step is never forced; `Delivered` therefore says that the finite faults of the instance delay
the acknowledgement and never prevent it.

`WorkerProcess!FairSpec`: a loop's next step happens, since the storage's calls have `storageTimeoutMs` and an OCR job
`OCR_JOB_TIMEOUT_MS` (starting the OCR engine, which the job awaits before its timer runs, and the database's calls are taken to answer);
the poll timer, the worker's stop and the hard deadline fire; leases run out, as time passes; and a process that ended is started again
(`restart: unless-stopped`, docker-compose.yml:5) until the last of the instance, which is neither stopped nor killed. Nothing is assumed
of notifications, of open requests, of `release()`, or of the orderly exit: `Processed` holds without any notification, because of the
poll, and `Exits` holds with every request and release hanging, because of the deadline.

## 6. Proofs

All theorems are of the modules' own `Spec`, for every value of the constants that satisfies the named assumptions (sets
of any size, any bounds). They assume nothing of TLC's instances.

- **SubmissionWorkerProofs, `TypeCorrect`** (`TypeOK`). `TypeOK` alone is not inductive: `release()` counts the attempt number
  down, and it stays a natural number only because an attempt in memory that still owns its row has a positive number
  (`ClaimSound`); also `documents` is finite and a place in memory is one that exists (`PlaceSound`).
- **SubmissionWorkerProofs, `ClaimsExclusive`** (`UniqueOwner`) and **`LostClaimsStayLost`** (`LostForever`, an action property). The attempt
  number alone does not tell attempts apart, since `release()` counts it down and the admin's retry sets it to 0; what does is the
  lease start together with time. The invariant `Fence` says so: a live attempt's lease start is a reading of the clock that is not in the future, and
  a loop about to claim has read an expired start or none (`Starts`); one attempt owns a row (`UniqueOwner`); and an attempt that lost its
  claim in the very instant of its last renewal is behind (`Fenced`): its row is settled, or not claimable yet, or its renewal was
  rolled back and nobody owns the row, or the next attempt has it. `NobodyRegains` says per step that no write makes the owner of a row somebody who was not. There is one lemma per effect on a row
  (`Quiet`, `Swapped`, `Renewed`, `RolledBack`, `GivenBack`, `Settled`, `TimeFenced`), and one per action that cites them.
- **SubmissionWorkerProofs, `FiledAtMostOnce`** (`OneDocumentPerSubmission`). `Filing` adds to `Fence` that every document has its
  submission's checksum, that a client folder is chosen only after a check that found nothing on record for it, and that what the
  check found stands until the insert for whoever still owns the row. So two attempts that decide on two clients, which the unique
  constraint on passport and checksum would let pass, cannot both file.
- **SubmissionWorkerProofs, `HandledIsKept`** (`NothingLost`) and **`WaitingHasFile`** (`PendingHasFile`). The invariant `Safekeeping` has two halves.
  `Remembered(w)`: what an attempt carries to its last write is so: its copy in `pending/` is there with its checksum,
  the document or the duplicate it found is on record, and what it is about to record accounts for the file. `RowTrue(s)` says the
  same of the row. They stand because of `Growing`: documents, copies in `pending/` and the recorded places of waiting rows only
  grow while the worker runs, and a clean-up belongs to a copy in a client folder.
- **SubmissionWorkerProofs, `AttemptsImplementRecords`** (`ImplementsRecords`): under the mapping of section 3 every step is one commit of CaseRecords
  or a stutter. It needs `Safekeeping` and `Filing`: the insert files a row that is still received, and the last
  write leaves a row as its attempt decided, with a document or a file that is there.
- **SubmissionWorkerProofs, `FiledHasFile`** (`DocumentHasFile`), for instances in which no file is sent twice
  (`SentOnce`), and **`CleanupSparesOwnDocument`**, for files sent any number of times; both with `StorageTimeout <= RetryDelay`, and the code's
  defaults make both 60 s (`submissionQueue.js:48`, `:51`). The storage's calls are outside any transaction, so what protects a file is time. The
  invariant `FilesSafe`: while a storage call that a renewal guards is under way, the row is the attempt's, or was released by it
  and is not claimable yet (`Guard`); only one attempt of a submission is in such a call (`OneGuarded`); an attempt that owns its row and has copied,
  has its copy (`HoldsCopy`); what a clean-up is about to remove is on no record (`Unused`; `OwnUnused` of its own submission); and objects of
  one name have one content (`ObjectsApart`). Removals that were given up are in the model of these theorems: the names such a removal has
  taken are exempt, since nothing in the code protects them (section 7). Without `SentOnce`, `DocumentHasFile` does not hold (finding 6).
- **WebhookIntakeProofs, `IntakeTypeCorrect`** (`TypeOK`, with the cache's bound), **`AcknowledgedRecorded`**
  (`AcknowledgedIsRecorded`) and **`UploadsAccountedFor`** (`NothingLeftBehind`, an action property). The invariant `Truth` joins four facts: an entry PROCESSED is of a message that is done
  (`CacheTruth`); a request still on its way to 200 has passed only messages that are done (`ProgressTruth`);
  an upload is dropped as a duplicate only of a recorded message (`DropTruth`); what is acknowledged is done (`AckTruth`). Evictions, expiries
  and crashes keep them because they only forget. For `UploadsAccountedFor`, `InHandOnly` says that a request has an object in hand only
  from its upload to the end of that message.
- **WebhookIntakeProofs, `HandledOnce`** and **`HandledOnceWithRoom`** (`OneAtATime`). The cache of message ids drops its oldest entry when it is
  full, also one whose message is being handled, and then a redelivery is handled beside it; so the property is conditional.
  `HandledOnce` is for the behaviours in which `RoomToClaim` holds: whenever a message is to be claimed there is room, or the
  oldest entry is of a finished message. The invariant `Claims` then has an entry in the cache for every handling, and none twice.
  `HandledOnceWithRoom` derives that by the pigeonhole principle when there are no more messages than entries (10 000 by default).
- **ReviewActionsProofs, `ReviewTypeCorrect`** (`TypeOK`), **`ApprovalsSerialized`** (`OneVerifiedPerType`) and **`VerifiedNeverLost`**
  (`VerifiedKept`, an action property). The invariant `Inv` adds to both a statement `Sound(a)` per request: its
  shape, the locks it holds at each step (`Locked`), and that what it read under them is still so (`Read`): there is no VERIFIED
  document of the client and type, the target of a replacement is still VERIFIED, the document approved is still in
  review. It is so although the worker reads and inserts at its own pace, because its insert waits for the client's lock (a foreign key). The lemmas `Spared`, `Undisturbed` and `OthersSound` say that a step of another request, which holds disjoint
  locks, leaves this standing; there is then one lemma per action. `ApprovalsSerialized` is about what an admin makes
  VERIFIED: that there is never a second one is not so, since the worker inserts without looking again (finding 2).
- **WorkerProcessProofs, `ProcessSlots`** (`Slots`). `LimiterInv` adds to `Slots` and the types that exactly the callers in the queue have
  a timer set. Without it a timer that fires late would take another caller out of the queue (`Spliced`); with it a caller that gives up
  waiting is in the queue and never had a slot, and a caller that leaves starts exactly the head of the queue, since somebody waits only
  while every slot is taken.
- **WorkerProcessProofs, `ProcessTypeCorrect`** (`TypeOK`) and **`AllHandedBack`** (`HandedBack`). The invariant `ProcessInv`: an owned row is
  recorded and its attempt counted (`RowsSound`, needed because `release()` counts down); each claim in `activeClaims` is of a
  loop at work on a submission (`JobsSound`); and from the time-out of `stop()` on, a running claim that holds its row is still
  in `toRelease` or in `kept` (`Handing`). What it says is bounded by what the code does: a release beside a renewal finds no row, and the property
  counts that among what `stop()` could not hand back (section 7). `NoneGains` says of each write that nobody comes to own a row by it but the loop that claims.

- **ReviewActionsProofs, `WaitingFilesKept`** (`WaitingHasFile`), **`LocksOrdered`** (`NoDeadlock`) and **`DecisionsImplementRecords`**
  (`ImplementsRecords`), over the same invariant. `RecordsInv` adds to it, per request: the row it decides on is
  locked and as it was read, client and type included (`RowHeld`); what it tidies up after its commit no longer waits (`Ended`); at which
  of its steps it may have a lock (`Holds`).
  `RowHeld` is what makes a commit one of CaseRecords; `Ended` with the names of waiting items keeps tidying and undoing off the
  files of others. For `NoDeadlock`, `WaitsFor` says who can wait for whom: row waits end at a request that waits for a client or a
  document, client waits at a replacement that waits for its target, and who has that target's lock while it waits is approving it,
  so that it is in review: these circles do occur (section 7), and the property says that there are no others.
- **ReviewActionsProofs, `StoredFilesKept`** (`DocumentHasFile` of ReviewActions). `FilesInv` adds `Owned`: a name in a client's folder that a
  request has copied to, or is about to delete for a removed document, holds a file, is on no record, and no other request has it;
  and `Unnamed`: no request has a name before its copy. Copies never overwrite, so a name is taken when it is free, and who deletes it
  later, by undoing or tidying up, deletes a file that is nobody else's. Left out are the names in `undone`: a commit that went through with its answer lost, after which the catch removes the
  copy of a document on record (`adminReviewActionService.js:441-447`). It rests on one more assumption about the beginning: two documents on record under
  one name have one content.
- **DocumentPipelineProofs, `PipelineTypeCorrect`** (`TypeOK`), **`VerifiedWasReadable`** (`VerifiedIsReadable`), **`AllNoticed`** (`NothingWaitsUnnoticed`),
  **`FiledProven`** (`FiledOnlyWithProof`) and **`RecordsKept`** (`RecordKept`), the last two action properties. They hold for every file reading,
  with any integers as scores, every client record, and every change by others between two stages; `PipelineAssumption` only says
  what form these have and that nothing has been filed of a file that has just arrived. `PipelineInv` goes with the stages: the lookups
  have been made that the stage comes after (`InOrder`); at the placement, what cleared the file for a client folder still holds, or
  there is a reason that keeps it out (`Cleared`); a document was filed with the measures of the file (`FiledAsMeasured`); and when the
  result is recorded, a file in `pending/` gets a review reason from it (`Explained`).
- **DashboardReadsProofs, `ReadsTypeCorrect`** (`ReadsInv`), **`ShownStays`** (`ShownHolds`), **`QueueWhole`** (`NothingOverlooked`), **`OneRule`** (`SameRule`) and
  **`UrgentFirst`** (`MostUrgentFirst`), under `DashboardAssumption`. `ReadsInv` adds to the types that a superseded document has a verified one of
  its client and type (`Replaced`), that what an answer says is verified still is (`Kept`), and that what waited all the while is
  in the answers, and these hold nothing that never waited (`Enclosed`). The rest is about lists: the place of an element in
  an arrangement is the number of those before it (`Places`), and grows with it (`PlaceGrows`); so an element of a
  page of both tables is within the first rows of its own table, and the merged page has it.
- **DashboardPageProofs, `PageTypeCorrect`**, **`SessionsWhole`** (`OneSession`), **`SaidWasDone`** (`SaidIsDone`), **`SyncTellsTruth`** (`SyncReport`) and
  **`SpinnersEnd`** (`NothingSpins`). `SessionInv`: a validation is about the provider's token, or the cookie of a sign-in that got no profile, and
  stands while nothing else is known of it; a sign-in that waits for its profile has set the cookie that is there.
  `PageInv` adds that a page is mounted behind a session only, with one load at a time and that of its own key (`Mounted`); that
  Sync waits exactly while a load it tracks is under way, and a success is of what is on the screen (`Synced`); that a decision finds its
  content only under its own item, and one that was carried out is the item's last word (`Decisive`).
- **AdminAccountsProofs, `TypeCorrect`** (`TypeOK`), **`NewLinkEndsOld`** (`OldLinksDead`), **`NewLinkIsOpen`** (`OwnLinkLives`), **`LinksOnRecord`**
  (`MailedIsAudited` and `AcceptedSetsPassword`) and **`AccountsKept`** (`ActivatedByInvitation` and `ActiveKept`, action properties). `IInv` joins
  to the types that a request past its revoking step has closed the links that were there before, and that no step opens a closed
  link.
- **DashboardReadsProofs, `ClockTypeCorrect`** (`TypeOK`), **`CountedOnce`** (`EachInOneReport`) and **`FollowUpTurns`** (`CountdownRuns`): linear
  arithmetic over half hours and days; the only invariant needed is that nothing is received later than the clock shows.

Checked by TLC only: `Delivered`, `Processed` and `Exits`, since liveness and ENABLED are outside the prover's reach. `NoSharedFile` of the worker is checked only, too: two submissions of one file may come to share a name (finding 6), in larger instances than the
run's. Two safety properties are proved under a hypothesis that no assumption on the constants of their runs gives, and rest on TLC's bounds
beyond it: `OneAtATime` (room in the cache) and `DocumentHasFile` of the worker (no file sent twice).
Facts by induction over data and RECURSIVE operators cannot be proved with this prover; the modules use none: where the
code sorts a list, the model says what comes out (`Listed`: the elements of a set, each before those that follow it in the order), and the proofs
reason from that.

## 7. Findings

1. `intake_lost_file`: `handleMediaMessage` removes the upload when the insert throws; after a commit whose answer was
   lost, the row stays without its file and the redelivery is taken for a duplicate (`src/src/routes/whatsapp.js:172`).
Found with stronger properties or larger instances than the runs keep, one trace of TLC each:

2. The worker reads "no verified document" of the client and type without a lock, an admin's approval of another file of the type commits, and the
   worker inserts its own as VERIFIED (`src/src/services/clientDocumentService.js:72`, `:136`; `ReviewActions`, nine states, no fault at all). Two loops
   can do the same to each other. `storagePlacementService.js:29` says a file "never automatically becomes a second
   VERIFIED document of the same type". `OneVerifiedPerType` is therefore about what admins decide.
3. `renew()` inside a transaction that is rolled back is remembered by the attempt and not by the row; the attempt then takes
   itself for stale although nobody took the submission over (`src/src/services/submissionQueue.js:125`), and the row waits for
   its lease.
4. A file held in `pending/` because its client has a verified document of the type keeps the status of its band and is
   counted as STORED, "stored in the client folder" (`src/src/services/statusMapping.js:19`).
5. `approvePending` and `replaceVerifiedDocument` decide the police date from the type read before the row lock
   (`src/src/services/adminReviewActionService.js:342`, `:511`); a correction in between files a police slip without a date, against
   "A slip without a date needs one" (`:135`).
6. A clean-up removes a file that a document refers to, against "Never remove a copy a document refers to"
   (`src/src/services/clientDocumentService.js:174`). `placementRecovery.js:10` relies on it that another submission that picked the
   same name records it too, but `placement_path` holds only the last name. One file is received twice (s1, s2), and a third, s3, another file of the client, has taken the first
   name. s1 and s2 both record the second name, s1 copies, both are interrupted; s3's insert fails and its copy is removed; s1
   and s2 start again and record the first name; s3's retry takes it again; both now find the second name, which no other row records any
   more, and take its object for their own earlier copy. s1 files it between the test and the removal of s2's clean-up. The instance (three submissions and loops, four
   faults) is beyond the runs; TLC follows this one trace of SubmissionWorker to the violation of `DocumentHasFile`.
7. A clean-up removal that timed out takes a document's file. `withStorageTimeout` gives up on a call and does not cancel it
   (`src/src/utils/storageTimeout.js:37`). The insert fails, the removal of the copy is given up on, the row becomes FAILED and keeps its
   `placement_path`; an admin retries it (`adminReviewActionService.js:927`), the attempt finds its earlier copy, reuses it and inserts the
   document; then the old removal lands (`SubmissionWorker`, `worker_interrupted`'s instance, 28 states; against the same "Never remove a copy
   a document refers to"). `DocumentHasFile` and `NoSharedFile` exempt the names such a removal took.
8. Two admins deadlock. A replacement of t1's document names d1, which is still in review: it has locked t1 and the client and waits for
   d1, whose status is only looked at with its lock (`src/src/services/adminReviewActionService.js:471`); the approval of d1 has locked d1 and waits for the
   client (`:788`). `:157` says "Lock order is always reviewed row first, then the client's users row", and `:496` gives the order row, target document,
   client, whereas the code locks the client before the target. PostgreSQL ends one of the two with an error. The review page offers
   only verified documents as targets. `NoDeadlock` says that there is no other circle (`ReviewActions`, seven states).
9. `stop()` does not hand back a job whose renewal is under way. The renewal has moved the start of the row's lease and the closure learns of it
   with the answer (`src/src/services/submissionQueue.js:118-126`), so `release()` matches no row (`:128-139`); the same after a renewal
   inside a transaction that was rolled back. The submission then waits for its lease instead of the "about retryDelayMs" of `:269`
   and the "about a minute" of `shutdown.js:9` (`WorkerProcess`, 11 states). `HandedBack` leaves such claims out.
10. The page shows one session and is served as another. `POST /auth/login` has set its cookie (`src/src/routes/auth.js:119`) when the `GET /auth/me`
   that follows fails, and the server goes by the cookie (`middleware/auth.js:32`): a page that was signed in or still being validated keeps its own token,
   and is loaded or validated again as the other session, whose profile it then shows (`WebSession`, five states), against "never
   leave the app half-authenticated" (`AuthProvider.tsx:70`). `OneSession` leaves out the cookie of a sign-in that got no profile.

Met in the dashboard's code:

- `ReviewDetailPage.tsx:412` calls `deleteTemporaryDocument`, which its imports (lines 3-26) do not name, and `open("deleteTemporary")`
  is not in the type of `open`: the deletion in that dialog always fails.
- The tick that confirms a replacement "of this specific document" (`ReviewDetailPage.tsx:481`) stays when a reload brings another
  `existingVerified` into the open dialog.
- A sync whose load is aborted by a change of the filters is reported as a success (`SyncProvider.tsx:49` leaves out aborted requests).
- A slow sign-out of an earlier session ends a newer sign-in of the same tab (`AuthProvider.tsx:49-58`).
- `InvitationsPage` keeps the last list answered, not the last asked for.
- `routes/auth.js:116-126` says that the frontend no longer reads the token of the answer; `AuthProvider.tsx:88-94` does.

Met in the accounts: a reset link is called "strictly one-time use" (`passwordResetService.js:6`), but its update is by id, so two submissions of it
that overlap both set a password; a link that is revoked while its setup hashes the password still activates the
account and is listed as accepted; two requests for one forgotten password that overlap leave two open links.

Met in the reads: a required type may be shown MISSING although something was on record all the while, when a file is filed between the two
queries (`adminClientService.js:9` says MISSING is "nothing received"); the client page loads at most 50 waiting
files, beyond which it may differ from the list; a failed row whose pending copy is kept as a version stays FAILED without a
copy and may be retried (`adminReviewActionService.js:736`).

Met in the worker's files: `DocumentHasFile` depends on a relation of two settings that nothing checks. `release()` hands a row back
after `retryDelayMs` (`submissionQueue.js:131-136`), while a storage call of the attempt that gave it back may run for
`storageTimeoutMs`. Both are 60 s; the check at `submissionQueue.js:55` compares the timeout with the lease only. With `RetryDelay` 0 and
`StorageTimeout` 1, TLC finds `DocumentHasFile` of `worker_interrupted` violated. This and finding 6 are
why the file properties are claimed for the bounds and not for every instance.

Also met: `submissionQueue.js:269` says "No new job is started after stop()", but a claim whose answer is
on its way when `stop()` is called is still processed (`shouldStop` is tested before the claim, not after it); after the time-out it is not
released either, and its lease has to run out. `ocrService.js:214` says "The whole job is bounded by timeoutMs", but
`createOcrWorker()` and `worker.terminate()` are awaited outside of that bound.
`src/Docs/14-phase-10-admin-dashboard.md:466` says only `removeFromReview` deletes
rows of `temporary_data`; `deleteTemporaryDocument` does too. A FAILED row is linked to a client when the checksum stage
throws; the link only labels it until its retry.

## 8. Not modelled

- The choice among several readings of one image and the check digits of the passport zone: what they give is an input of the pipeline.
- Which text is read as a date (`dateParsing.js`), and the calendar itself.
- Search and paging of the lists other than the review queue, the counts of the overview and of the daily report: they follow one query each.
- The other pages of the dashboard; the forms of the review page beyond what they send; other tabs, which share the browser's cookie.
- The review actions and the worker on one bucket: the file of a removed document is deleted after the commit
  (`adminReviewActionService.js:1074`), when a retried submission may have begun to reuse the copy.
- Text extraction, image handling, e-mail, HTTP parsing, rate limits, CSRF and signature checks: pure
  I/O, external libraries, stateless checks or presentation.
- Scripts: run by an operator, one at a time, outside the program.
- The database is modelled as serial single statements, row locks held to the end of a transaction, and rollback; the bucket
  as atomic uploads, copies and removals that may lose their answer. The worker's copies and clean-up removals may also land late; an admin's
  copy goes on beside its transaction, and late removals of the admins are left out.
