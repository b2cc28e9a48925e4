-------------------------- MODULE SubmissionWorker --------------------------
(***************************************************************************)
(* The background worker (submissionQueue.js) that takes received          *)
(* submissions from the table temporary_data and runs the document         *)
(* pipeline on them, down to the storage copy, the documents insert and    *)
(* the final update of the row.                                            *)
(*                                                                         *)
(* A submission's row is its durable job.  A worker claims it by a         *)
(* compare-and-swap that starts a lease, and every later write of the      *)
(* attempt is conditional on the claim: status, attempt number and lease   *)
(* start must still be the ones the attempt remembers.  Workers crash,     *)
(* outlive their leases, are released at shutdown, and lose the answers of *)
(* database and storage calls; a copy can land after the caller gave up.   *)
(*                                                                         *)
(* One action is one call to the database or to the file storage, together *)
(* with the local decisions up to the next call.  What the reading of the  *)
(* file says (type, client, confidence) is a parameter, Readings; how it   *)
(* is derived is the subject of DocumentPipeline.                          *)
(***************************************************************************)
EXTENDS PlacementRules, FiniteSets

CONSTANTS
  Submissions,      \* temporary ids, numbered in the order of created_date
  Clients,          \* passport ids of the existing clients
  Checksums,        \* SHA-256 values
  Sha,              \* [Submissions -> Checksums]: the received file
  Sender,           \* [Submissions -> senders]: the WhatsApp number
  Readings,         \* [Submissions -> SUBSET Reading]: what the pipeline may read
  Workers,          \* worker loops, over all application instances
  Lease,            \* leaseMs
  RetryDelay,       \* retryDelayMs
  StorageTimeout,   \* storageTimeoutMs
  MaxAttempts,      \* maxAttempts
  MaxNames,         \* MAX_NAME_ATTEMPTS
  MaxClock,         \* bound of the model: the last instant considered
  MaxFaults         \* bound of the model: crashes, releases and failed calls

VARIABLES
  rows,        \* temporary_data
  documents,   \* the documents table
  objects,     \* objects in clients/ and pending/ of the bucket
  late,        \* copies that timed out and may still land
  removals,    \* clean-up removals given up on, and which have taken effect since
  clock,       \* the workers' time source
  pc,          \* per worker: the call it makes next
  claim,       \* per worker: its claim (createClaim), in memory
  work,        \* per worker: what the attempt has worked out, in memory
  faults       \* how many faults have happened (counted in Next)

vars == <<rows, documents, objects, late, removals, clock, pc, claim, work, faults>>

RECEIVED_STATUS == "TEMPORARY_STORED"
PROCESSING_STATUS == CONFIDENCE_BANDS \cup {"CONFLICT", "MANUAL_REVIEW", "DUPLICATE", "FAILED"}

Reading == [client : Clients \cup {None}, type : DOCUMENT_TYPES, band : CONFIDENCE_BANDS,
            status : CONFIDENCE_BANDS \cup {"CONFLICT", "MANUAL_REVIEW"},
            blocked : BOOLEAN, reconcile : BOOLEAN]

ASSUME SubmissionsAreOrdered == Submissions \subseteq Nat \ {0}
ASSUME ShaIsChecksum == Sha \in [Submissions -> Checksums]
ASSUME ReadingsAreReadings == Readings \in [Submissions -> SUBSET Reading]
ASSUME ClientsAreNamed == None \notin Clients
ASSUME TimesAreNaturals ==
  /\ Lease \in Nat /\ RetryDelay \in Nat /\ StorageTimeout \in Nat
  /\ MaxAttempts \in Nat /\ MaxNames \in Nat
  /\ MaxClock \in Nat /\ MaxFaults \in Nat
\* The check at the end of QUEUE_DEFAULTS.
ASSUME TimeoutWellBelowLease == 2 * StorageTimeout < Lease

----------------------------------------------------------------------------
(* Lease starts.  "start" is an instant read from the clock; "early" is the *)
(* back-dated value written to make a row claimable before its lease ends.  *)
(* The two are told apart: a back-dated value that equals, to the           *)
(* millisecond, the clock reading of an older attempt is not considered.    *)

NoStart == [at |-> 0, kind |-> "null"]
Start(t) == [at |-> t, kind |-> "start"]
BackDated(t) == [at |-> t - Lease + RetryDelay, kind |-> "early"]
LeaseStart == [at : Int, kind : {"null", "start", "early"}]

(* Object names.  Every submission competes for the same names: the same    *)
(* sender file name, received in the same second.  kept: the sender's name. *)
NoPath == [area |-> "none", client |-> None, sub |-> 0, type |-> None, kept |-> FALSE, n |-> 0]
ClientPath(c, type, kept, n) ==
  [area |-> "clients", client |-> c, sub |-> 0, type |-> type, kept |-> kept, n |-> n]
PendingPath(owner, s, n) ==
  [area |-> "pending", client |-> owner, sub |-> IF owner = None THEN s ELSE 0,
   type |-> None, kept |-> FALSE, n |-> n]
Path == [area : {"none", "clients", "pending"}, client : Clients \cup {None},
         sub : Submissions \cup {0}, type : DOCUMENT_TYPES \cup {None}, kept : BOOLEAN, n : Nat]

----------------------------------------------------------------------------
Row == [status : {RECEIVED_STATUS} \cup PROCESSING_STATUS, attempts : Nat, startedAt : LeaseStart,
        placementPath : Path, pendingPath : Path, client : Clients \cup {None}]
Document == [sub : Submissions, client : Clients, type : DOCUMENT_TYPES, sha : Checksums,
             path : Path, verification : {"VERIFIED", "REVIEW_REQUIRED"}]
Object == [path : Path, sha : Checksums]
Removal == [path : Path, landed : BOOLEAN]
Claim == [sub : Submissions \cup {0}, attempt : Nat, startedAt : LeaseStart, earlier : Path]
NoReading == [client |-> None, type |-> "UNKNOWN", band |-> "UNDEFINED", status |-> "UNDEFINED",
              blocked |-> FALSE, reconcile |-> FALSE]
Work == [reading : Reading, checksum : CHECKSUM_OUTCOME, verified : BOOLEAN,
         place : {"CLIENT", "PENDING", "NONE"}, status : PROCESSING_STATUS, owner : Clients \cup {None},
         first : Nat, n : Nat, pending : Path, duplicate : BOOLEAN]

NoClaim == [sub |-> 0, attempt |-> 0, startedAt |-> NoStart, earlier |-> NoPath]
NoWork == [reading |-> NoReading, checksum |-> None, verified |-> FALSE, place |-> "NONE",
           status |-> "FAILED", owner |-> None, first |-> 0, n |-> 0, pending |-> NoPath, duplicate |-> FALSE]

\* The calls an attempt makes, by what it is about to do.
Running == {"Load", "RetryLater", "GiveUp", "Check", "Reconcile", "Decide", "Place", "Name", "Reuse",
            "Renew", "Copy", "Insert", "CleanupRenew", "InUse", "Remove", "Final", "Fail"}
Calls == Running \cup {"Idle", "Claiming", "Stale"}

Init ==
  /\ rows = [s \in Submissions |->
               [status |-> RECEIVED_STATUS, attempts |-> 0, startedAt |-> NoStart,
                placementPath |-> NoPath, pendingPath |-> NoPath, client |-> None]]
  /\ documents = {} /\ objects = {} /\ late = {} /\ removals = {}
  /\ clock = 0 /\ faults = 0
  /\ pc = [w \in Workers |-> "Idle"]
  /\ claim = [w \in Workers |-> NoClaim]
  /\ work = [w \in Workers |-> NoWork]

----------------------------------------------------------------------------
(* Claims *)

Sub(w) == claim[w].sub

\* Variant: the lease start is not compared.
OwnsByAttempt(w) ==
  /\ rows[Sub(w)].status = RECEIVED_STATUS
  /\ rows[Sub(w)].attempts = claim[w].attempt

\* where(): the row still is the one this attempt claimed.
Owns(w) ==
  LET r == rows[Sub(w)]
  IN /\ r.status = RECEIVED_STATUS
     /\ r.attempts = claim[w].attempt
     /\ r.startedAt = claim[w].startedAt

Goto(w, call) == pc' = [pc EXCEPT ![w] = call]
Goes(w, call) == Goto(w, call) /\ UNCHANGED <<claim, work>>
EndJob(w) ==
  /\ Goto(w, "Idle")
  /\ claim' = [claim EXCEPT ![w] = NoClaim]
  /\ work' = [work EXCEPT ![w] = NoWork]

Claimable(s) ==
  /\ rows[s].status = RECEIVED_STATUS
  /\ rows[s].startedAt.kind = "null" \/ rows[s].startedAt.at < clock - Lease

\* claimNextSubmission: read the oldest waiting row ...
ClaimRead(w) ==
  /\ pc[w] = "Idle"
  /\ \E s \in Submissions :
       /\ Claimable(s)
       /\ \A t \in Submissions : Claimable(t) => s <= t
       /\ claim' = [claim EXCEPT ![w] = [sub |-> s, attempt |-> rows[s].attempts,
                                         startedAt |-> rows[s].startedAt, earlier |-> rows[s].placementPath]]
  /\ Goto(w, "Claiming")
  /\ UNCHANGED <<rows, documents, objects, late, removals, clock, work>>

\* Variant: a plain update by temporary id.
ClaimUnchecked(w) ==
  /\ pc[w] = "Claiming"
  /\ rows' = [rows EXCEPT ![Sub(w)].attempts = claim[w].attempt + 1, ![Sub(w)].startedAt = Start(clock)]
  /\ claim' = [claim EXCEPT ![w].attempt = @ + 1, ![w].startedAt = Start(clock)]
  /\ Goto(w, "Load")
  /\ UNCHANGED <<documents, objects, late, removals, clock, work>>

\* ... and take it only if nobody changed it in between.
ClaimSwap(w) ==
  /\ pc[w] = "Claiming"
  /\ IF Owns(w)
     THEN /\ rows' = [rows EXCEPT ![Sub(w)].attempts = @ + 1, ![Sub(w)].startedAt = Start(clock)]
          /\ claim' = [claim EXCEPT ![w].attempt = @ + 1, ![w].startedAt = Start(clock)]
          /\ Goto(w, "Load")
          /\ UNCHANGED work
     ELSE EndJob(w) /\ UNCHANGED rows
  /\ UNCHANGED <<documents, objects, late, removals, clock>>

\* renew(): committed, it starts a fresh lease on the row and in memory.
RenewRow(w) == rows' = [rows EXCEPT ![Sub(w)].startedAt = Start(clock)]
RenewMemory(w) == claim' = [claim EXCEPT ![w].startedAt = Start(clock)]

\* ClaimLostError: nothing more is written, the result is discarded.
LosesClaim(w) ==
  /\ ~Owns(w)
  /\ Goes(w, "Stale")
  /\ UNCHANGED rows

----------------------------------------------------------------------------
(* Loading and reading the file *)

AttemptsExhausted(w) ==
  /\ pc[w] = "Load"
  /\ claim[w].attempt > MaxAttempts
  /\ Goes(w, "GiveUp")
  /\ UNCHANGED <<rows, documents, objects, late, removals, clock>>

LoadUnavailable(w) ==
  /\ pc[w] = "Load"
  /\ claim[w].attempt <= MaxAttempts
  /\ Goes(w, IF claim[w].attempt >= MaxAttempts THEN "GiveUp" ELSE "RetryLater")
  /\ UNCHANGED <<rows, documents, objects, late, removals, clock>>

\* Loaded, but not the file that was received.
LoadMismatch(w) ==
  /\ pc[w] = "Load"
  /\ claim[w].attempt <= MaxAttempts
  /\ Goes(w, "GiveUp")
  /\ UNCHANGED <<rows, documents, objects, late, removals, clock>>

\* Text extraction, classification, field extraction and identity.
ReadDocument(w) ==
  /\ pc[w] = "Load"
  /\ claim[w].attempt <= MaxAttempts
  /\ \E reading \in Readings[Sub(w)] : work' = [work EXCEPT ![w].reading = reading]
  /\ Goto(w, "Check")
  /\ UNCHANGED <<rows, documents, objects, late, removals, clock, claim>>

\* Claimable again in RetryDelay, counted from the claim.
RetryLater(w) ==
  /\ pc[w] = "RetryLater"
  /\ \/ /\ Owns(w)
        /\ rows' = [rows EXCEPT ![Sub(w)].startedAt = BackDated(claim[w].startedAt.at)]
        /\ EndJob(w)
     \/ LosesClaim(w)
  /\ UNCHANGED <<documents, objects, late, removals, clock>>

GiveUp(w) ==
  /\ pc[w] = "GiveUp"
  /\ \/ /\ Owns(w)
        /\ rows' = [rows EXCEPT ![Sub(w)].status = "FAILED"]
        /\ EndJob(w)
     \/ LosesClaim(w)
  /\ UNCHANGED <<documents, objects, late, removals, clock>>

----------------------------------------------------------------------------
(* Duplicate check, client record, placement decision *)

CheckDuplicate(w) ==
  LET c == work[w].reading.client
      outcome == IF c = None THEN None ELSE CheckClientChecksum(documents, c, Sha[Sub(w)], Sub(w))
      verified == c # None /\ \E d \in SameClient(documents, c, Sha[Sub(w)]) : d.verification = "VERIFIED"
  IN /\ pc[w] = "Check"
     /\ work' = [work EXCEPT ![w].checksum = outcome, ![w].verified = verified]
     /\ Goto(w, IF work[w].reading.reconcile /\ AllowsWrites(outcome) THEN "Reconcile" ELSE "Decide")
     /\ UNCHANGED <<rows, documents, objects, late, removals, clock, claim>>

\* The client record is written in one transaction with a renewal.
Reconcile(w) ==
  /\ pc[w] = "Reconcile"
  /\ \/ /\ Owns(w)
        /\ RenewRow(w) /\ RenewMemory(w)
        /\ Goto(w, "Decide")
        /\ UNCHANGED work
     \/ LosesClaim(w)
  /\ UNCHANGED <<documents, objects, late, removals, clock>>

\* The transaction fails after its renewal: the row is rolled back, the
\* claim's own copy of the lease start is not.  Or it commits and the answer is lost.
ReconcileFails(w) ==
  /\ pc[w] = "Reconcile"
  /\ Owns(w)
  /\ RenewRow(w) \/ UNCHANGED rows
  /\ RenewMemory(w)
  /\ Goto(w, "Fail")
  /\ UNCHANGED <<documents, objects, late, removals, clock, work>>

Decision(w) ==
  LET k == work[w]
      rd == k.reading
      identified == rd.client # None
      exists == /\ identified /\ AllowsWrites(k.checksum) /\ rd.band \in CLIENT_BANDS
                /\ HasVerifiedDocument(documents, rd.client, rd.type)
  IN DecidePlacement(rd.status, rd.band, rd.type, identified, rd.client, k.checksum,
                     rd.blocked, exists, k.verified)

Decide(w) ==
  LET d == Decision(w)
  IN /\ pc[w] = "Decide"
     /\ work' = [work EXCEPT ![w].place = d.placement, ![w].status = d.processingStatus,
                             ![w].owner = d.pendingOwner]
     /\ Goto(w, IF d.placement = "NONE" \/ d.alreadyStored THEN "Final" ELSE "Place")
     /\ UNCHANGED <<rows, documents, objects, late, removals, clock, claim>>

----------------------------------------------------------------------------
(* Copying under a free name *)

\* Variant: an earlier row counts before it has reached pending/.
FindAnyEarlier(s) ==
  \E t \in Submissions \ {s} : Sender[t] = Sender[s] /\ Sha[t] = Sha[s]

FindPendingDuplicate(s) ==
  \E t \in Submissions \ {s} :
    Sender[t] = Sender[s] /\ Sha[t] = Sha[s] /\ rows[t].pendingPath # NoPath

KeepsName(w) == work[w].reading.band = "UNCLEAR"

PathFor(w, n) ==
  IF work[w].place = "CLIENT"
  THEN ClientPath(work[w].reading.client, work[w].reading.type, KeepsName(w), n)
  ELSE PendingPath(work[w].owner, Sub(w), n)

CurrentPath(w) == PathFor(w, work[w].n)

Version(w) ==
  IF work[w].place = "PENDING" \/ KeepsName(w) THEN 1
  ELSE 1 + Cardinality({d \in documents : /\ d.client = work[w].reading.client
                                          /\ d.type = work[w].reading.type})

\* placeInPending's duplicate check, storeClientDocument's version count.
Place(w) ==
  /\ pc[w] = "Place"
  /\ IF work[w].place = "PENDING" /\ FindPendingDuplicate(Sub(w))
     THEN /\ work' = [work EXCEPT ![w].place = "NONE", ![w].status = "DUPLICATE"]
          /\ Goto(w, "Final")
     ELSE /\ work' = [work EXCEPT ![w].first = Version(w), ![w].n = Version(w)]
          /\ Goto(w, "Name")
  /\ UNCHANGED <<rows, documents, objects, late, removals, clock, claim>>

Taken(path) == \E o \in objects : o.path = path

\* exists(): next name, own earlier copy?, or copy.
TryName(w) ==
  /\ pc[w] = "Name"
  /\ Goes(w, CASE work[w].n >= work[w].first + MaxNames -> "Fail"
               [] work[w].n < work[w].first + MaxNames /\ Taken(CurrentPath(w)) -> "Reuse"
               [] OTHER -> "Renew")
  /\ UNCHANGED <<rows, documents, objects, late, removals, clock>>

\* Referred to by a document or by another submission.
Referred(path, s) ==
  \/ \E d \in documents : d.path = path
  \/ \E t \in Submissions \ {s} : rows[t].pendingPath = path \/ rows[t].placementPath = path

\* Variant: whether another record refers to the object is not asked.
IsRecordedPath(w, path) ==
  /\ path = claim[w].earlier
  /\ [path |-> path, sha |-> Sha[Sub(w)]] \in objects

IsOwnEarlierCopy(w, path) ==
  /\ path = claim[w].earlier
  /\ ~Referred(path, Sub(w))
  /\ [path |-> path, sha |-> Sha[Sub(w)]] \in objects

\* The copy is at CurrentPath(w): insert the document, or finish with a pending copy.
HasCopy(w) ==
  IF work[w].place = "CLIENT"
  THEN Goto(w, "Insert") /\ UNCHANGED work
  ELSE Goto(w, "Final") /\ work' = [work EXCEPT ![w].pending = CurrentPath(w)]

NextName(w) == work' = [work EXCEPT ![w].n = @ + 1] /\ Goto(w, "Name")

\* A taken name: reuse it if it is this submission's own copy.
TryReuse(w) ==
  /\ pc[w] = "Reuse"
  /\ IF IsOwnEarlierCopy(w, CurrentPath(w)) THEN HasCopy(w) ELSE NextName(w)
  /\ UNCHANGED <<rows, documents, objects, late, removals, clock, claim>>

\* The object can't be downloaded to compare it: not reused.
ReuseUnreadable(w) ==
  /\ pc[w] = "Reuse"
  /\ NextName(w)
  /\ UNCHANGED <<rows, documents, objects, late, removals, clock, claim>>

\* beforeCopy: renew the claim and record the name about to be used.
RenewForCopy(w) ==
  /\ pc[w] = "Renew"
  /\ \/ /\ Owns(w)
        /\ rows' = [rows EXCEPT ![Sub(w)].startedAt = Start(clock), ![Sub(w)].placementPath = CurrentPath(w)]
        /\ RenewMemory(w)
        /\ Goto(w, "Copy")
        /\ UNCHANGED work
     \/ LosesClaim(w)
  /\ UNCHANGED <<documents, objects, late, removals, clock>>

Copied(w) == [path |-> CurrentPath(w), sha |-> Sha[Sub(w)]]

Copy(w) ==
  /\ pc[w] = "Copy"
  /\ IF Taken(CurrentPath(w))
     THEN Goto(w, "Reuse") /\ UNCHANGED <<objects, work>>
     ELSE objects' = objects \cup {Copied(w)} /\ HasCopy(w)
  /\ UNCHANGED <<rows, documents, late, removals, clock, claim>>

\* Variant: the error of the copy is not looked at.
CopyErrorIgnored(w) ==
  /\ pc[w] = "Copy"
  /\ HasCopy(w)
  /\ UNCHANGED <<rows, documents, objects, late, removals, clock, claim>>

\* StorageCopyError; the copy may still land after the time limit.
CopyFails(w) ==
  /\ pc[w] = "Copy"
  /\ late' \in {late, late \cup {Copied(w)}}
  /\ Goes(w, "Fail")
  /\ UNCHANGED <<rows, documents, objects, removals, clock>>

\* A copy never overwrites an object.
LateCopyLands ==
  /\ \E c \in late :
       /\ late' = late \ {c}
       /\ objects' = IF Taken(c.path) THEN objects ELSE objects \cup {c}
  /\ UNCHANGED <<rows, documents, removals, clock, pc, claim, work>>

----------------------------------------------------------------------------
(* The documents insert, and undoing the copy when it fails *)

NewDocument(w) ==
  LET rd == work[w].reading
  IN [sub |-> Sub(w), client |-> rd.client, type |-> rd.type, sha |-> Sha[Sub(w)],
      path |-> CurrentPath(w), verification |-> VerificationStatusForBand(rd.band)]

\* Unique (passport_id, file_sha256).
ViolatesUnique(w) == SameClient(documents, work[w].reading.client, Sha[Sub(w)]) # {}

\* Variant: the document is inserted without renewing the claim.
InsertUnclaimed(w) ==
  /\ pc[w] = "Insert"
  /\ IF ViolatesUnique(w)
     THEN /\ work' = [work EXCEPT ![w].duplicate = TRUE]
          /\ Goto(w, "CleanupRenew")
          /\ UNCHANGED documents
     ELSE /\ documents' = documents \cup {NewDocument(w)}
          /\ Goto(w, "Final")
          /\ UNCHANGED work
  /\ UNCHANGED <<rows, claim, objects, late, removals, clock>>

\* One transaction with a renewal; a unique violation rolls the row back only.
Insert(w) ==
  /\ pc[w] = "Insert"
  /\ \/ /\ Owns(w) /\ ~ViolatesUnique(w)
        /\ documents' = documents \cup {NewDocument(w)}
        /\ RenewRow(w) /\ RenewMemory(w)
        /\ Goto(w, "Final")
        /\ UNCHANGED work
     \/ /\ Owns(w) /\ ViolatesUnique(w)
        /\ RenewMemory(w)
        /\ work' = [work EXCEPT ![w].duplicate = TRUE]
        /\ Goto(w, "CleanupRenew")
        /\ UNCHANGED <<rows, documents>>
     \/ LosesClaim(w) /\ UNCHANGED documents
  /\ UNCHANGED <<objects, late, removals, clock>>

\* A database error: before the renewal, after it (rolled back), or after the commit.
InsertFails(w) ==
  /\ pc[w] = "Insert"
  /\ \/ UNCHANGED <<rows, documents, claim>>
     \/ Owns(w) /\ RenewMemory(w) /\ UNCHANGED <<rows, documents>>
     \/ /\ Owns(w) /\ ~ViolatesUnique(w)
        /\ documents' = documents \cup {NewDocument(w)}
        /\ RenewRow(w) /\ RenewMemory(w)
  /\ Goto(w, "CleanupRenew")
  /\ UNCHANGED <<objects, late, removals, clock, work>>

CleanupRenew(w) ==
  /\ pc[w] = "CleanupRenew"
  /\ \/ /\ Owns(w)
        /\ RenewRow(w) /\ RenewMemory(w)
        /\ Goto(w, "InUse")
        /\ UNCHANGED work
     \/ LosesClaim(w)
  /\ UNCHANGED <<documents, objects, late, removals, clock>>

\* Never remove a copy a document refers to.
CheckInUse(w) ==
  /\ pc[w] = "InUse"
  /\ Goes(w, IF \E d \in documents : d.path = CurrentPath(w) THEN "Fail" ELSE "Remove")
  /\ UNCHANGED <<rows, documents, objects, late, removals, clock>>

Without(path) == {o \in objects : o.path # path}

RemoveCopy(w) ==
  /\ pc[w] = "Remove"
  /\ objects' = Without(CurrentPath(w))
  /\ IF work[w].duplicate
     THEN /\ work' = [work EXCEPT ![w].place = "NONE", ![w].status = "DUPLICATE"]
          /\ Goto(w, "Final")
     ELSE Goto(w, "Fail") /\ UNCHANGED work
  /\ UNCHANGED <<rows, documents, late, removals, clock, claim>>

\* A removal under way when its caller stopped waiting may still be carried out.
GivenUp(path) == [path |-> path, landed |-> FALSE]
MayLand(w) == removals' \in {removals, removals \cup {GivenUp(CurrentPath(w))}}

\* removeObject reports an error, or the removal times out: it fails, or lands later.
RemoveFails(w) ==
  /\ pc[w] = "Remove"
  /\ MayLand(w)
  /\ Goes(w, "Fail")
  /\ UNCHANGED <<rows, documents, objects, late, clock>>

\* A removal asks for nothing but the name: it takes whatever is there by now.
LateRemovalLands ==
  /\ \E r \in removals :
       /\ ~r.landed
       /\ removals' = (removals \ {r}) \cup {[path |-> r.path, landed |-> TRUE]}
       /\ objects' = Without(r.path)
  /\ UNCHANGED <<rows, documents, late, clock, pc, claim, work>>

----------------------------------------------------------------------------
(* Recording the result *)

LinkedClient(w) ==
  IF work[w].reading.client # None /\ work[w].checksum # "CROSS_CLIENT_CONFLICT"
  THEN work[w].reading.client ELSE rows[Sub(w)].client

\* updateTemporaryDocumentRecord: only what is known is written.
Recorded(w, status) ==
  rows' = [rows EXCEPT ![Sub(w)].status = status,
                       ![Sub(w)].client = LinkedClient(w),
                       ![Sub(w)].pendingPath = IF work[w].pending # NoPath THEN work[w].pending ELSE @]

RecordResult(w) ==
  /\ pc[w] = "Final"
  /\ \/ Owns(w) /\ Recorded(w, work[w].status) /\ EndJob(w)
     \/ LosesClaim(w)
  /\ UNCHANGED <<documents, objects, late, removals, clock>>

\* The update commits and its answer is lost.
ResultAnswerLost(w) ==
  /\ pc[w] = "Final"
  /\ Owns(w)
  /\ Recorded(w, work[w].status)
  /\ Goes(w, "Fail")
  /\ UNCHANGED <<documents, objects, late, removals, clock>>

RecordFailure(w) ==
  /\ pc[w] = "Fail"
  /\ \/ Owns(w) /\ Recorded(w, "FAILED") /\ EndJob(w)
     \/ LosesClaim(w)
  /\ UNCHANGED <<documents, objects, late, removals, clock>>

\* A renewal outside a transaction commits and its answer is lost: the row has
\* the new lease start, the claim keeps the old one.
RenewAnswerLost(w) ==
  /\ pc[w] \in {"Renew", "CleanupRenew"}
  /\ Owns(w)
  /\ rows' = [rows EXCEPT ![Sub(w)].startedAt = Start(clock),
                          ![Sub(w)].placementPath = IF pc[w] = "Renew" THEN CurrentPath(w) ELSE @]
  /\ Goes(w, "Fail")
  /\ UNCHANGED <<documents, objects, late, removals, clock>>

\* A read, a renewal or an update throws: the attempt goes on to record FAILED.
CallFails(w) ==
  /\ pc[w] \in {"Load", "Check", "Reconcile", "Decide", "Place", "Name", "Reuse", "Renew",
                "CleanupRenew", "InUse", "Final"}
  /\ pc[w] = "Load" => claim[w].attempt <= MaxAttempts
  /\ Goes(w, "Fail")
  /\ UNCHANGED <<rows, documents, objects, late, removals, clock>>

\* STALE_DISCARDED.
Discard(w) ==
  /\ pc[w] = "Stale"
  /\ EndJob(w)
  /\ UNCHANGED <<rows, documents, objects, late, removals, clock>>

----------------------------------------------------------------------------
(* Crashes, shutdown, the admin's retry, time *)

\* The process dies, or a failed call ends the job without a record.  A
\* storage call under way may still take effect.
Crash(w) ==
  /\ pc[w] # "Idle"
  /\ late' \in {late} \cup (IF pc[w] = "Copy" THEN {late \cup {Copied(w)}} ELSE {})
  /\ IF pc[w] = "Remove" THEN MayLand(w) ELSE UNCHANGED removals
  /\ EndJob(w)
  /\ UNCHANGED <<rows, documents, objects, clock>>

\* stop() after its timeout: release(); the attempt itself runs on for a while.
Release(w) ==
  /\ pc[w] \in Running
  /\ Owns(w)
  /\ rows' = [rows EXCEPT ![Sub(w)].attempts = @ - 1, ![Sub(w)].startedAt = BackDated(clock)]
  /\ UNCHANGED <<documents, objects, late, removals, clock, pc, claim, work>>

\* A claim is two database calls in a row: no time passes between them.
NobodyClaims == \A w \in Workers : pc[w] # "Claiming"

\* Between a renewal and the end of the storage call it guards at most
\* StorageTimeout passes (withStorageTimeout).
StorageCallPending(w) == pc[w] \in {"Copy", "InUse", "Remove"}

\* Variant: storage calls have no time limit.
TimeUnbounded == clock < MaxClock /\ NobodyClaims

TimeMayPass ==
  /\ clock < MaxClock /\ NobodyClaims
  /\ \A w \in Workers : StorageCallPending(w) => clock < claim[w].startedAt.at + StorageTimeout

Tick ==
  /\ TimeMayPass
  /\ clock' = clock + 1
  /\ UNCHANGED <<rows, documents, objects, late, removals, pc, claim, work>>

\* retryFailedSubmission; a person acts later than the instant of the failure.
AdminRetry(s) ==
  /\ rows[s].status = "FAILED" /\ rows[s].pendingPath = NoPath
  /\ rows' = [rows EXCEPT ![s].status = RECEIVED_STATUS, ![s].attempts = 0,
                          ![s].startedAt = NoStart, ![s].client = None]
  /\ TimeMayPass
  /\ clock' = clock + 1
  /\ UNCHANGED <<documents, objects, late, removals, pc, claim, work>>

\* One call of a worker that is answered.
WorkerStep(w) ==
  \/ ClaimRead(w) \/ ClaimSwap(w) \/ AttemptsExhausted(w) \/ ReadDocument(w) \/ RetryLater(w) \/ GiveUp(w)
  \/ CheckDuplicate(w) \/ Reconcile(w) \/ Decide(w)
  \/ Place(w) \/ TryName(w) \/ TryReuse(w) \/ RenewForCopy(w) \/ Copy(w)
  \/ Insert(w) \/ CleanupRenew(w) \/ CheckInUse(w) \/ RemoveCopy(w)
  \/ RecordResult(w) \/ RecordFailure(w) \/ Discard(w)

\* One thing that goes wrong.
FaultStep(w) ==
  \/ LoadUnavailable(w) \/ LoadMismatch(w) \/ CallFails(w) \/ ReconcileFails(w) \/ ReuseUnreadable(w)
  \/ CopyFails(w) \/ InsertFails(w) \/ RemoveFails(w) \/ RenewAnswerLost(w) \/ ResultAnswerLost(w)
  \/ Crash(w) \/ Release(w)

OtherStep == (\E s \in Submissions : AdminRetry(s)) \/ LateCopyLands \/ LateRemovalLands \/ Tick

Next ==
  \/ /\ (\E w \in Workers : WorkerStep(w)) \/ OtherStep
     /\ UNCHANGED faults
  \/ /\ faults < MaxFaults
     /\ faults' = faults + 1
     /\ \E w \in Workers : FaultStep(w)

Spec == Init /\ [][Next]_vars

----------------------------------------------------------------------------
(* Properties *)

TypeOK ==
  /\ rows \in [Submissions -> Row]
  /\ documents \subseteq Document
  /\ objects \subseteq Object
  /\ late \subseteq Object
  /\ removals \subseteq Removal
  /\ clock \in Nat
  /\ pc \in [Workers -> Calls]
  /\ claim \in [Workers -> Claim]
  /\ work \in [Workers -> Work]
  /\ faults \in Nat

\* An attempt: claimed and not yet given back, whether or not it still owns the row.
Live(w) == pc[w] \in Running

\* Two attempts never both pass the ownership condition of their writes on
\* one submission (submissionQueue.js: "two workers never process the same
\* submission at the same time"), although attempt numbers are counted down
\* by release() and reset by an admin's retry.
UniqueOwner ==
  \A v, w \in Workers :
    Live(v) /\ Live(w) /\ Sub(v) = Sub(w) /\ Owns(v) /\ Owns(w) => v = w

\* An attempt that lost its claim never owns the submission again.
LostForever ==
  [][\A w \in Workers :
       Live(w) /\ Live(w)' /\ ~Owns(w) => ~Owns(w)']_vars

\* However often a submission is interrupted, resumed, released or retried,
\* the worker files at most one document for it, even if a later attempt
\* identifies another client.
OneDocumentPerSubmission ==
  \A d, e \in documents : d.sub = e.sub => d = e

\* A removal that its caller had given up on took what was at the name.
TakenLate(path) == [path |-> path, landed |-> TRUE] \in removals

\* Every documents row has its file, with its checksum: a clean-up that is
\* answered never removes an object another attempt has put to use.  One that
\* times out can (storageTimeout.js does not cancel the call): no check of
\* the code protects a document from a removal that lands late.
DocumentHasFile == \A d \in documents : [path |-> d.path, sha |-> d.sha] \in objects \/ TakenLate(d.path)

\* So has every row that says its file waits in pending/.
PendingHasFile ==
  \A s \in Submissions :
    rows[s].pendingPath # NoPath => [path |-> rows[s].pendingPath, sha |-> Sha[s]] \in objects

\* No two records refer to one object, as long as no late removal has freed
\* a name that was in use.
NoSharedFile ==
  /\ \A d, e \in documents : d.path = e.path => d = e \/ TakenLate(d.path)
  /\ \A s, t \in Submissions :
       rows[s].pendingPath = rows[t].pendingPath /\ rows[s].pendingPath # NoPath => s = t

\* A submission that was recorded as handled did not lose its file: it is a
\* client's document, waits in pending/, or is a duplicate of a file that is.
NothingLost ==
  \A s \in Submissions :
    rows[s].status \notin {RECEIVED_STATUS, "FAILED"} =>
      \/ rows[s].pendingPath # NoPath
      \/ \E d \in documents : d.sub = s
      \/ /\ rows[s].status = "DUPLICATE"
         /\ \/ \E d \in documents : d.sha = Sha[s]
            \/ \E t \in Submissions \ {s} : Sha[t] = Sha[s] /\ rows[t].pendingPath # NoPath

----------------------------------------------------------------------------
(* What the readers of the two tables rely on.  A submission's document is  *)
(* known by the submission.                                                 *)

NoDate == "undated"

RecordedRows ==
  [s \in Submissions |->
    [state |-> CASE rows[s].pendingPath # NoPath -> "WAITING"
                 [] rows[s].pendingPath = NoPath /\ rows[s].status = RECEIVED_STATUS -> "RECEIVED"
                 [] rows[s].pendingPath = NoPath /\ rows[s].status = "FAILED" -> "FAILED"
                 [] OTHER -> "CLOSED",
     client |-> rows[s].client, type |-> None]]

RecordedDocuments ==
  [s \in Submissions |->
    IF \E d \in documents : d.sub = s
    THEN LET d == CHOOSE d \in documents : d.sub = s
         IN [status |-> d.verification, client |-> d.client, type |-> d.type, date |-> NoDate]
    ELSE [status |-> "NONE", client |-> None, type |-> None, date |-> NoDate]]

Records == INSTANCE CaseRecords WITH rows <- RecordedRows, documents <- RecordedDocuments,
                                     Items <- Submissions, DocIds <- Submissions,
                                     Types <- DOCUMENT_TYPES, Dates <- {}

\* However attempts overlap, crash and are retried, what they leave in the two
\* tables is a sequence of the single commits of CaseRecords: a document is
\* filed only while its submission is still to be processed, and a row that is
\* settled changes only by an admin's retry.
ImplementsRecords == Records!CaseSpec
=============================================================================
