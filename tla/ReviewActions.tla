---------------------------- MODULE ReviewActions ----------------------------
(***************************************************************************)
(* The decisions of admins on review items (adminReviewActionService.js),  *)
(* their corrections (adminCorrectionService.js) and the manual deletion   *)
(* of a submission (temporaryDataService.js).  Several admins act at once: *)
(* each request reads first without a lock, then runs one transaction that *)
(* locks rows (SELECT ... FOR UPDATE), reads again, copies a file where    *)
(* needed and commits; files are tidied up outside the transaction.  The   *)
(* worker looks for a verified document without a lock and inserts later.  *)
(*                                                                         *)
(* A name of a client folder is <<client, type, number>>; a waiting file   *)
(* has one path in pending/, known by its submission.  Meanwhile the       *)
(* worker ends the processing of other submissions.                        *)
(***************************************************************************)
EXTENDS Naturals, Sequences, FiniteSets

CONSTANTS
  Admins,
  Items,        \* submissions (rows of temporary_data)
  DocIds,       \* ids documents may get
  Clients,
  Types,        \* document types an item may have
  FolderTypes,  \* those of them with a client folder
  Contents,
  Sha,          \* Sha[i]: the file of submission i
  Beginnings,   \* what temporary_data and documents may hold at first
  MaxNames,     \* bound of the model: names of one folder
  MaxRequests,  \* bound of the model: requests of admins
  MaxFaults     \* bound of the model: faults

VARIABLES
  rows,          \* temporary_data
  documents,
  pendingFiles,  \* submissions whose file is in pending/
  folders,       \* the files of the client folders
  rowLock, documentLock, clientLock,
  job,           \* what each admin's request is doing
  placing,       \* submissions whose worker has found no verified document of their type
  requests, faults,
  undone,        \* history: names whose file was removed although its document was stored
  deleted        \* history: submissions whose files went before their transaction ended

database == <<rows, documents>>
files == <<pendingFiles, folders>>
locks == <<rowLock, documentLock, clientLock>>
vars == <<rows, documents, pendingFiles, folders, rowLock, documentLock, clientLock, job,
          placing, requests, faults, undone, deleted>>

None == "none"
PoliceSlip == "POLICE_SLIP"
Name == Clients \X FolderTypes \X (1..MaxNames)
NoName == <<None, None, 0>>

Row == [state : {"RECEIVED", "WAITING", "RESOLVED", "GONE"}, client : Clients \cup {None},
        type : Types, duplicate : BOOLEAN]
StoredDocument ==
  [status : {"REVIEW_REQUIRED", "VERIFIED", "SUPERSEDED"}, client : Clients, type : FolderTypes,
   content : Contents, name : Name, dated : BOOLEAN, from : Items \cup {None}]
NoDocument == [status |-> "NONE", client |-> None, type |-> None, content |-> None,
               name |-> NoName, dated |-> FALSE, from |-> None]
Document == StoredDocument \cup {NoDocument}

ASSUME ReviewAssumption ==
  /\ None \notin Admins \cup Items \cup DocIds \cup Clients \cup FolderTypes \cup Contents
  /\ FolderTypes \subseteq Types
  /\ Sha \in [Items -> Contents]
  /\ MaxNames \in Nat /\ MaxRequests \in Nat /\ MaxFaults \in Nat
  /\ \A b \in Beginnings :
       /\ b.rows \in [Items -> Row]
       /\ b.documents \in [DocIds -> Document]
       /\ \A d, e \in DocIds : b.documents[d].name = b.documents[e].name => b.documents[d].content = b.documents[e].content

FilingKinds == {"approve", "replace", "version"}
DocumentKinds == {"approveDocument", "removeDocument", "keepDocument", "setDate"}
RowKinds == {"keep", "remove", "delete", "setType", "assign"}
Idle == [pc |-> "idle", kind |-> None, item |-> None, document |-> None, client |-> None, type |-> None,
         date |-> FALSE, name |-> NoName, expired |-> FALSE]

Init ==
  /\ \E b \in Beginnings : rows = b.rows /\ documents = b.documents
  /\ pendingFiles = {i \in Items : rows[i].state = "WAITING"}
  /\ folders = [n \in Name |-> IF \E d \in DocIds : documents[d].name = n
                               THEN documents[CHOOSE d \in DocIds : documents[d].name = n].content
                               ELSE None]
  /\ rowLock = [i \in Items |-> None]
  /\ documentLock = [d \in DocIds |-> None]
  /\ clientLock = [c \in Clients |-> None]
  /\ job = [a \in Admins |-> Idle]
  /\ placing = {}
  /\ requests = 0 /\ faults = 0
  /\ undone = {} /\ deleted = {}

----------------------------------------------------------------------------
(* Reads *)

Waits(i) == rows[i].state = "WAITING"
Stored(d) == documents[d].status # "NONE"
InReview(d) == documents[d].status = "REVIEW_REQUIRED"

FindVerifiedOfType(client, type, except) ==
  {d \in DocIds \ {except} :
     documents[d].status = "VERIFIED" /\ documents[d].client = client /\ documents[d].type = type}
VerifiedExists(client, type) == FindVerifiedOfType(client, type, None) # {}

SameFile(client, content) ==
  \E d \in DocIds : Stored(d) /\ documents[d].client = client /\ documents[d].content = content

DuplicateMatchOf(i) == rows[i].duplicate /\ SameFile(rows[i].client, Sha[i])

ApprovalBlocked(client, type, except) ==
  \/ client = None
  \/ type \notin FolderTypes
  \/ FindVerifiedOfType(client, type, except) # {}

\* A slip needs a date, read before or given now; nothing else takes one.
PoliceDateForApproval(type, storedDate, givenDate) ==
  IF type = PoliceSlip THEN storedDate \/ givenDate ELSE ~givenDate

----------------------------------------------------------------------------
(* A request comes in: the checks before its transaction *)

Begin(a, request) ==
  /\ job[a].pc = "idle"
  /\ requests < MaxRequests
  /\ requests' = requests + 1
  /\ job' = [job EXCEPT ![a] = request]
  /\ UNCHANGED <<database, files, locks, faults, undone, deleted>>

Approve(a, i, date) ==
  /\ Waits(i) /\ ~DuplicateMatchOf(i)
  /\ ~ApprovalBlocked(rows[i].client, rows[i].type, None)
  /\ PoliceDateForApproval(rows[i].type, FALSE, date)
  /\ Begin(a, [Idle EXCEPT !.pc = "download", !.kind = "approve", !.item = i, !.date = date])

\* The page offers the client's VERIFIED document of the type; the request may
\* name any document, also one that is not on record, and is only looked at
\* under the locks.
ReplaceVerifiedDocument(a, i, d, date) ==
  /\ Waits(i) /\ ~DuplicateMatchOf(i)
  /\ rows[i].type \in FolderTypes
  /\ PoliceDateForApproval(rows[i].type, FALSE, date)
  /\ Begin(a, [Idle EXCEPT !.pc = "download", !.kind = "replace", !.item = i, !.document = d, !.date = date])

KeepDocumentAsVersion(a, i) ==
  /\ Waits(i) /\ ~DuplicateMatchOf(i)
  /\ rows[i].type \in FolderTypes
  /\ VerifiedExists(rows[i].client, rows[i].type)
  /\ Begin(a, [Idle EXCEPT !.pc = "download", !.kind = "version", !.item = i])

ApproveDocument(a, d, date) ==
  /\ InReview(d)
  /\ PoliceDateForApproval(documents[d].type, documents[d].dated, date)
  /\ Begin(a, [Idle EXCEPT !.pc = "lockDocument", !.kind = "approveDocument", !.document = d, !.date = date])

RemoveStoredDocument(a, d) ==
  /\ InReview(d)
  /\ Begin(a, [Idle EXCEPT !.pc = "lockDocument", !.kind = "removeDocument", !.document = d])

SetPoliceSubmittedDate(a, d) ==
  /\ Stored(d) /\ documents[d].type = PoliceSlip
  /\ Begin(a, [Idle EXCEPT !.pc = "lockDocument", !.kind = "setDate", !.document = d])

KeepReviewItemPending(a, i) ==
  /\ Waits(i)
  /\ Begin(a, [Idle EXCEPT !.pc = "lockRow", !.kind = "keep", !.item = i])

KeepDocumentPending(a, d) ==
  /\ InReview(d)
  /\ Begin(a, [Idle EXCEPT !.pc = "lockDocument", !.kind = "keepDocument", !.document = d])

RemoveFromReview(a, i) ==
  /\ Waits(i)
  /\ Begin(a, [Idle EXCEPT !.pc = "lockRow", !.kind = "remove", !.item = i])

\* Takes a submission in any state; one the worker still has is left out here.
DeleteTemporaryDocument(a, i) ==
  /\ rows[i].state \in {"WAITING", "RESOLVED"}
  /\ Begin(a, [Idle EXCEPT !.pc = "lockRow", !.kind = "delete", !.item = i])

SetDocumentType(a, i, type) ==
  /\ Waits(i)
  /\ Begin(a, [Idle EXCEPT !.pc = "lockRow", !.kind = "setType", !.item = i, !.type = type])

AssignClient(a, i, client) ==
  /\ Waits(i)
  /\ Begin(a, [Idle EXCEPT !.pc = "lockRow", !.kind = "assign", !.item = i, !.client = client])

Request(a) ==
  \/ \E i \in Items :
       \/ \E date \in BOOLEAN :
            Approve(a, i, date) \/ \E d \in DocIds : ReplaceVerifiedDocument(a, i, d, date)
       \/ KeepDocumentAsVersion(a, i)
       \/ KeepReviewItemPending(a, i)
       \/ RemoveFromReview(a, i)
       \/ DeleteTemporaryDocument(a, i)
       \/ \E type \in FolderTypes : SetDocumentType(a, i, type)
       \/ \E client \in Clients : AssignClient(a, i, client)
  \/ \E d \in DocIds :
       \/ \E date \in BOOLEAN : ApproveDocument(a, d, date)
       \/ RemoveStoredDocument(a, d)
       \/ KeepDocumentPending(a, d)
       \/ SetPoliceSubmittedDate(a, d)

----------------------------------------------------------------------------
(* The transaction: locks and what is read again under them *)

Unlocked(a, lock) == [x \in DOMAIN lock |-> IF lock[x] = a THEN None ELSE lock[x]]

\* Commit and rollback both end the transaction.
Release(a) ==
  /\ rowLock' = Unlocked(a, rowLock)
  /\ documentLock' = Unlocked(a, documentLock)
  /\ clientLock' = Unlocked(a, clientLock)

\* The request throws: its copy is removed before the answer is sent.
GivesUp(a) ==
  job' = [job EXCEPT ![a] = IF job[a].name = NoName THEN Idle ELSE [job[a] EXCEPT !.pc = "undo"]]

RollBack(a) == Release(a) /\ GivesUp(a) /\ UNCHANGED <<database, files, requests>>

AfterLock(kind, lock) ==
  CASE lock = "row" /\ kind \in FilingKinds \cup {"assign"} -> "lockClient"
    [] lock = "client" /\ kind = "replace" -> "lockDocument"
    [] lock = "document" /\ kind = "approveDocument" -> "lockClient"
    [] lock = "client" /\ kind \in {"approve", "version"} -> "copy"
    [] lock = "document" /\ kind = "replace" -> "copy"
    [] kind = "delete" -> "removeFiles"
    [] OTHER -> "commit"

\* The pending file is read and its checksum compared.
Download(a) ==
  /\ job[a].pc = "download"
  /\ job' = [job EXCEPT ![a] = IF job[a].item \in pendingFiles THEN [job[a] EXCEPT !.pc = "lockRow"] ELSE Idle]
  /\ UNCHANGED <<database, files, locks, requests>>

\* Variant: what was read before the lock still counts.
RowAsRead(k) ==
  /\ k.kind = "setType" => rows[k.item].type # k.type
  /\ k.kind = "assign" => rows[k.item].client # k.client

RowAsExpected(k) ==
  /\ IF k.kind = "delete" THEN rows[k.item].state \in {"WAITING", "RESOLVED"} ELSE Waits(k.item)
  /\ k.kind = "setType" => rows[k.item].type # k.type
  /\ k.kind = "assign" => rows[k.item].client # k.client

LockRow(a) ==
  LET k == job[a]
      read == IF k.kind \in FilingKinds
              THEN [k EXCEPT !.client = rows[k.item].client, !.type = rows[k.item].type] ELSE k
  IN /\ k.pc = "lockRow"
     /\ rowLock[k.item] = None
     /\ \/ /\ RowAsExpected(k)
           /\ rowLock' = [rowLock EXCEPT ![k.item] = a]
           /\ job' = [job EXCEPT ![a] = [read EXCEPT !.pc = AfterLock(k.kind, "row")]]
           /\ UNCHANGED <<database, files, documentLock, clientLock, requests>>
        \/ ~RowAsExpected(k) /\ RollBack(a)

\* Variant: the blockers are not looked at again.
ClientAsRead(k) == k.kind \in FilingKinds => ~SameFile(k.client, Sha[k.item])

ClientAsExpected(k) ==
  CASE k.kind = "approve" -> ~ApprovalBlocked(k.client, k.type, None) /\ ~SameFile(k.client, Sha[k.item])
    [] k.kind = "version" -> VerifiedExists(k.client, k.type) /\ ~SameFile(k.client, Sha[k.item])
    [] k.kind = "replace" -> k.client # None
    [] k.kind = "approveDocument" ->
         /\ ~ApprovalBlocked(k.client, k.type, k.document)
         /\ PoliceDateForApproval(k.type, documents[k.document].dated, k.date)
    [] OTHER -> TRUE

LockClient(a) ==
  LET k == job[a]
  IN /\ k.pc = "lockClient"
     /\ k.client # None => clientLock[k.client] = None
     /\ \/ /\ ClientAsExpected(k)
           /\ clientLock' = [clientLock EXCEPT ![k.client] = a]
           /\ job' = [job EXCEPT ![a].pc = AfterLock(k.kind, "client")]
           /\ UNCHANGED <<database, files, rowLock, documentLock, requests>>
        \/ ~ClientAsExpected(k) /\ RollBack(a)

DocumentAsExpected(k) ==
  CASE k.kind = "replace" ->
         k.document \in FindVerifiedOfType(k.client, k.type, None) /\ ~SameFile(k.client, Sha[k.item])
    [] k.kind = "setDate" -> Stored(k.document)
    [] OTHER -> InReview(k.document)

\* Variant: the date is set under the client's lock as well.
LockDocumentAndClient(a) ==
  LET k == job[a]
      locksClient == k.kind \in {"approveDocument", "setDate"}
      read == IF locksClient
              THEN [k EXCEPT !.client = documents[k.document].client, !.type = documents[k.document].type] ELSE k
  IN /\ k.pc = "lockDocument"
     /\ documentLock[k.document] = None
     /\ \/ /\ DocumentAsExpected(k)
           /\ documentLock' = [documentLock EXCEPT ![k.document] = a]
           /\ job' = [job EXCEPT ![a] = [read EXCEPT !.pc = IF locksClient THEN "lockClient"
                                                         ELSE AfterLock(k.kind, "document")]]
           /\ UNCHANGED <<database, files, rowLock, clientLock, requests>>
        \/ ~DocumentAsExpected(k) /\ RollBack(a)

LockDocument(a) ==
  LET k == job[a]
      read == IF k.kind = "approveDocument"
              THEN [k EXCEPT !.client = documents[k.document].client, !.type = documents[k.document].type] ELSE k
  IN /\ k.pc = "lockDocument"
     /\ documentLock[k.document] = None
     /\ \/ /\ DocumentAsExpected(k)
           /\ documentLock' = [documentLock EXCEPT ![k.document] = a]
           /\ job' = [job EXCEPT ![a] = [read EXCEPT !.pc = AfterLock(k.kind, "document")]]
           /\ UNCHANGED <<database, files, rowLock, clientLock, requests>>
        \/ ~DocumentAsExpected(k) /\ RollBack(a)

----------------------------------------------------------------------------
(* The transaction: copy, changes, commit *)

\* Variant: the number after the documents of the type, taken or not.
NumberByCount(client, type) ==
  {Cardinality({d \in DocIds : documents[d].client = client /\ documents[d].type = type}) + 1} \cap 1..MaxNames

FreeNumbers(client, type) == {n \in 1..MaxNames : folders[<<client, type, n>>] = None}
FreeName(client, type) ==
  <<client, type, CHOOSE n \in FreeNumbers(client, type) : \A m \in FreeNumbers(client, type) : n <= m>>

CanCopy(k) == k.item \in pendingFiles /\ FreeNumbers(k.client, k.type) # {}

\* Variant: the pending file is moved.
MoveFile(a) ==
  LET k == job[a]
      name == FreeName(k.client, k.type)
  IN /\ k.pc = "copy"
     /\ \/ /\ CanCopy(k)
           /\ folders' = [folders EXCEPT ![name] = Sha[k.item]]
           /\ pendingFiles' = pendingFiles \ {k.item}
           /\ job' = [job EXCEPT ![a].pc = "commit", ![a].name = name]
           /\ UNCHANGED <<database, locks, requests>>
        \/ ~CanCopy(k) /\ RollBack(a)

Copy(a) ==
  LET k == job[a]
      name == FreeName(k.client, k.type)
  IN /\ k.pc = "copy"
     /\ \/ /\ CanCopy(k)
           /\ folders' = [folders EXCEPT ![name] = Sha[k.item]]
           /\ job' = [job EXCEPT ![a].pc = "commit", ![a].name = name]
           /\ UNCHANGED <<database, pendingFiles, locks, requests>>
        \/ ~CanCopy(k) /\ RollBack(a)

\* deleteTemporaryDocument removes the files before its transaction commits.
RemoveFiles(a) ==
  /\ job[a].pc = "removeFiles"
  /\ pendingFiles' = pendingFiles \ {job[a].item}
  /\ job' = [job EXCEPT ![a].pc = "commit"]
  /\ deleted' = deleted \cup {job[a].item}
  /\ UNCHANGED <<database, folders, locks, requests>>

Filed(k) ==
  [status |-> IF k.kind = "version" THEN "REVIEW_REQUIRED" ELSE "VERIFIED", client |-> k.client, type |-> k.type,
   content |-> Sha[k.item], name |-> k.name, dated |-> k.date, from |-> k.item]

File(k, d) ==
  /\ ~Stored(d)
  /\ documents' = [e \in DocIds |->
       CASE e = d -> Filed(k)
         [] e # d /\ k.kind = "replace" /\ e = k.document -> [documents[e] EXCEPT !.status = "SUPERSEDED"]
         [] OTHER -> documents[e]]
  /\ rows' = [rows EXCEPT ![k.item].state = "RESOLVED"]

Changed(k, old) ==
  CASE k.kind = "approveDocument" -> [old EXCEPT !.status = "VERIFIED", !.dated = old.dated \/ k.date]
    [] k.kind = "removeDocument" -> NoDocument
    [] k.kind = "setDate" -> [old EXCEPT !.dated = TRUE]
    [] OTHER -> old

ChangeDocument(k) ==
  /\ documents' = [documents EXCEPT ![k.document] = Changed(k, documents[k.document])]
  /\ UNCHANGED rows

\* Deleting a row takes it out of the documents stored from it.
ChangeRow(k) ==
  /\ rows' = [rows EXCEPT ![k.item] =
       CASE k.kind \in {"remove", "delete"} -> [@ EXCEPT !.state = "GONE"]
         [] k.kind = "setType" -> [@ EXCEPT !.type = k.type]
         [] k.kind = "assign" -> [@ EXCEPT !.client = k.client]
         [] OTHER -> @]
  /\ documents' = IF k.kind \in {"remove", "delete"}
                  THEN [d \in DocIds |-> IF documents[d].from = k.item THEN [documents[d] EXCEPT !.from = None]
                                         ELSE documents[d]]
                  ELSE documents

\* A removed document's file goes too, unless another document has it.
Unshared(k) ==
  IF k.kind # "removeDocument" \/ \E d \in DocIds \ {k.document} : documents[d].name = documents[k.document].name
  THEN k.name ELSE documents[k.document].name

Committed(k) ==
  IF k.kind \in FilingKinds \cup {"remove", "removeDocument"} THEN [k EXCEPT !.pc = "tidy", !.name = Unshared(k)] ELSE Idle

Commit(a) ==
  LET k == job[a]
  IN /\ k.pc = "commit" /\ ~k.expired
     /\ \/ k.kind \in FilingKinds /\ \E d \in DocIds : File(k, d)
        \/ k.kind \in DocumentKinds /\ ChangeDocument(k)
        \/ k.kind \in RowKinds /\ ChangeRow(k)
     /\ Release(a)
     /\ job' = [job EXCEPT ![a] = Committed(k)]
     /\ UNCHANGED <<files, requests>>

\* The transaction had ended while the file was copied.
Expired(a) ==
  /\ job[a].pc = "commit" /\ job[a].expired
  /\ RollBack(a)

\* After the commit: the pending original, or the removed document's file.
Tidy(a) ==
  LET k == job[a]
  IN /\ k.pc = "tidy"
     /\ pendingFiles' = pendingFiles \ {k.item}
     /\ folders' = IF k.kind = "removeDocument" /\ k.name # NoName THEN [folders EXCEPT ![k.name] = None] ELSE folders
     /\ job' = [job EXCEPT ![a] = Idle]
     /\ UNCHANGED <<database, locks, requests>>

Undo(a) ==
  /\ job[a].pc = "undo"
  /\ folders' = [folders EXCEPT ![job[a].name] = None]
  /\ job' = [job EXCEPT ![a] = Idle]
  /\ UNCHANGED <<database, pendingFiles, locks, requests>>

Step(a) ==
  /\ \/ /\ \/ Download(a) \/ LockRow(a) \/ LockClient(a) \/ LockDocument(a)
           \/ Copy(a) \/ Commit(a) \/ Expired(a) \/ Tidy(a) \/ Undo(a)
        /\ UNCHANGED deleted
     \/ RemoveFiles(a)
  /\ UNCHANGED <<faults, undone>>

----------------------------------------------------------------------------
(* Faults *)

InTransaction == {"lockRow", "lockClient", "lockDocument", "copy", "removeFiles", "commit"}

\* The database or the storage answers with an error, or not in time.  Files
\* already removed do not come back.
Fails(a) ==
  /\ job[a].pc \in InTransaction
  /\ RollBack(a)
  /\ UNCHANGED undone

\* The transaction's time is over while the storage still copies.
TimesOut(a) ==
  /\ job[a].pc = "copy" /\ ~job[a].expired
  /\ Release(a)
  /\ job' = [job EXCEPT ![a].expired = TRUE]
  /\ UNCHANGED <<database, files, requests, undone>>

\* The commit takes place and its answer is lost: the copy is removed as if
\* nothing had been stored.
AnswerLost(a) ==
  LET k == job[a]
  IN /\ k.pc = "commit" /\ ~k.expired /\ k.kind \in FilingKinds
     /\ \E d \in DocIds : File(k, d)
     /\ undone' = undone \cup {k.name}
     /\ Release(a)
     /\ GivesUp(a)
     /\ UNCHANGED <<files, requests>>

\* removeObject never throws: the file stays behind.
RemovalFails(a) ==
  /\ job[a].pc \in {"tidy", "undo"}
  /\ job' = [job EXCEPT ![a] = Idle]
  /\ UNCHANGED <<database, files, locks, requests, undone>>

\* The process dies with the request.
Dies(a) ==
  /\ job[a].pc # "idle"
  /\ Release(a)
  /\ job' = [job EXCEPT ![a] = Idle]
  /\ UNCHANGED <<database, files, requests, undone>>

Fault(a) ==
  /\ faults < MaxFaults
  /\ faults' = faults + 1
  /\ UNCHANGED deleted
  /\ Fails(a) \/ TimesOut(a) \/ AnswerLost(a) \/ RemovalFails(a) \/ Dies(a)

----------------------------------------------------------------------------
(* The worker ends the processing of another submission *)

HeldForReview(i) ==
  /\ rows[i].state = "RECEIVED"
  /\ rows' = [rows EXCEPT ![i].state = "WAITING"]
  /\ pendingFiles' = pendingFiles \cup {i}
  /\ UNCHANGED <<documents, folders, placing>>

\* hasVerifiedDocument, read without a lock.
FindsNoVerified(i) ==
  /\ rows[i].state = "RECEIVED"
  /\ rows[i].client # None /\ rows[i].type \in FolderTypes
  /\ ~SameFile(rows[i].client, Sha[i]) /\ ~VerifiedExists(rows[i].client, rows[i].type)
  /\ placing' = placing \cup {i}
  /\ UNCHANGED <<database, files>>

\* The insert refers to the client's row and waits for its lock; it looks for
\* the same file (a unique index) and no longer for a verified document.
FiledByWorker(i, d, status, dated) ==
  LET client == rows[i].client
      type == rows[i].type
      name == FreeName(client, type)
  IN /\ rows[i].state = "RECEIVED" /\ i \in placing /\ ~Stored(d)
     /\ client # None /\ type \in FolderTypes /\ clientLock[client] = None
     /\ ~SameFile(client, Sha[i])
     /\ status = "VERIFIED" /\ type = PoliceSlip => dated
     /\ dated => type = PoliceSlip
     /\ FreeNumbers(client, type) # {}
     /\ documents' = [documents EXCEPT ![d] =
          [status |-> status, client |-> client, type |-> type, content |-> Sha[i], name |-> name,
           dated |-> dated, from |-> i]]
     /\ folders' = [folders EXCEPT ![name] = Sha[i]]
     /\ rows' = [rows EXCEPT ![i].state = "RESOLVED"]
     /\ UNCHANGED <<pendingFiles, placing>>

Worker ==
  /\ \E i \in Items :
       \/ HeldForReview(i) \/ FindsNoVerified(i)
       \/ \E d \in DocIds, status \in {"VERIFIED", "REVIEW_REQUIRED"}, dated \in BOOLEAN :
            FiledByWorker(i, d, status, dated)
  /\ UNCHANGED <<locks, job, requests, faults, undone, deleted>>

Next ==
  \/ \E a \in Admins : (Request(a) \/ Step(a) \/ Fault(a)) /\ UNCHANGED placing
  \/ Worker

Spec == Init /\ [][Next]_vars

----------------------------------------------------------------------------
(* Properties *)

Job == [pc : {"idle", "download", "tidy", "undo"} \cup InTransaction,
        kind : FilingKinds \cup DocumentKinds \cup RowKinds \cup {None},
        item : Items \cup {None}, document : DocIds \cup {None}, client : Clients \cup {None},
        type : Types \cup {None}, date : BOOLEAN, name : Name \cup {NoName}, expired : BOOLEAN]

\* Types; a lock is held by a transaction that runs (adminReviewActionService
\* "Row locks, held until the transaction ends"), and only by one that has
\* asked for that row.
TypeOK ==
  /\ rows \in [Items -> Row]
  /\ documents \in [DocIds -> Document]
  /\ pendingFiles \subseteq Items
  /\ folders \in [Name -> Contents \cup {None}]
  /\ rowLock \in [Items -> Admins \cup {None}]
  /\ documentLock \in [DocIds -> Admins \cup {None}]
  /\ clientLock \in [Clients -> Admins \cup {None}]
  /\ job \in [Admins -> Job]
  /\ placing \subseteq Items
  /\ requests \in 0..MaxRequests /\ faults \in 0..MaxFaults
  /\ undone \subseteq Name /\ deleted \subseteq Items
  /\ \A a \in Admins : job[a].pc \notin InTransaction \/ job[a].expired =>
       /\ \A i \in Items : rowLock[i] # a
       /\ \A d \in DocIds : documentLock[d] # a
       /\ \A c \in Clients : clientLock[c] # a

\* The worker files a submission in this step.
FiledNow == \E i \in Items : rows[i].state = "RECEIVED" /\ rows'[i].state = "RESOLVED"

\* lockClientRow "serializes approvals for one client, so two items of the
\* same type can't both become the client's verified document": a document an
\* admin makes VERIFIED has no other beside it, or takes the place of one,
\* whatever other admins and the worker commit between its reads.
OneVerifiedPerType ==
  [][\A d \in DocIds :
       documents[d].status # "VERIFIED" /\ documents'[d].status = "VERIFIED" /\ ~FiledNow =>
         LET others == FindVerifiedOfType(documents'[d].client, documents'[d].type, d)
         IN others = {} \/ \E e \in others : documents'[e].status = "SUPERSEDED"]_vars

\* Whatever is copied, undone, replaced, removed or cut short meanwhile, a
\* document on record keeps its own file, except under a name that was taken
\* from a stored document because the answer to its commit was lost.
DocumentHasFile ==
  \A d \in DocIds : Stored(d) /\ documents[d].name \notin undone => folders[documents[d].name] = documents[d].content

\* "The pending file is only removed after the transaction has committed": an
\* item that still waits has its file, except where a manual deletion took it
\* and then did not commit.
WaitingHasFile == \A i \in Items : Waits(i) /\ i \notin deleted => i \in pendingFiles

Holder(a) ==
  CASE job[a].pc = "lockRow" -> rowLock[job[a].item]
    [] job[a].pc = "lockClient" /\ job[a].client # None -> clientLock[job[a].client]
    [] job[a].pc = "lockDocument" -> documentLock[job[a].document]
    [] OTHER -> None

\* "Lock order is always reviewed row first, then the client's users row": no
\* admins wait for each other's locks in a circle, except where one of them
\* replaces a document that is still in review.  The review page offers none.
NoDeadlock ==
  \A S \in SUBSET Admins :
    S # {} /\ (\A a \in S : Holder(a) \in S) => \E a \in S : job[a].kind = "replace" /\ InReview(job[a].document)

\* A client with a verified document of a type keeps having one, and a
\* document once verified is never removed or returned to review: removal and
\* replacement race with approvals of the same document.
VerifiedKept ==
  [][/\ \A c \in Clients, t \in FolderTypes : VerifiedExists(c, t) => VerifiedExists(c, t)'
     /\ \A d \in DocIds : documents[d].status \in {"VERIFIED", "SUPERSEDED"} =>
          documents'[d].status \in {"VERIFIED", "SUPERSEDED"}]_vars

----------------------------------------------------------------------------
(* What the readers of the two tables rely on *)

RecordedRows ==
  [i \in Items |-> [state |-> IF rows[i].state = "RESOLVED" THEN "CLOSED" ELSE rows[i].state,
                    client |-> rows[i].client, type |-> rows[i].type]]
RecordedDocuments ==
  [d \in DocIds |-> [status |-> documents[d].status, client |-> documents[d].client, type |-> documents[d].type,
                     date |-> IF documents[d].dated THEN "known" ELSE None]]

Records == INSTANCE CaseRecords WITH rows <- RecordedRows, documents <- RecordedDocuments,
                                     Dates <- {"known"}, NoDate <- None

\* Locks, copies, faults and requests that overtake each other come down to
\* the single decisions of CaseRecords: a file is filed once, from a row that
\* waits and under what the row says at that moment; a verified document ends
\* only by the one that supersedes it; only a document in review is removed.
ImplementsRecords == Records!CaseSpec
=============================================================================
