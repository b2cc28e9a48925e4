------------------------- MODULE ReviewActionsProofs -------------------------
(***************************************************************************)
(* The types of ReviewActions, and that no admin adds a VERIFIED document  *)
(* beside another one, for any number of admins, items and requests.  The  *)
(* argument: an admin who makes a document VERIFIED holds the lock of its  *)
(* client and has looked under that lock; whoever takes VERIFIED or        *)
(* REVIEW_REQUIRED away from a document holds the lock of its client or    *)
(* the document's own.  What a request has read under its locks therefore  *)
(* stays true until its transaction ends.                                  *)
(***************************************************************************)
EXTENDS ReviewActions, WellFoundedInduction, TLAPS

\* What is known of a request by the point it has reached.
Shape(k) ==
  /\ k \in Job
  /\ k.pc = "download" => k.kind \in FilingKinds
  /\ k.pc = "lockRow" => k.kind \in FilingKinds \cup RowKinds
  /\ k.pc = "lockClient" => k.kind \in FilingKinds \cup {"assign", "approveDocument"}
  /\ k.pc = "lockDocument" => k.kind \in DocumentKinds \cup {"replace"}
  /\ k.pc = "copy" => k.kind \in FilingKinds
  /\ k.pc = "removeFiles" => k.kind = "delete"
  /\ k.pc = "undo" => k.name \in Name
  /\ k.pc = "commit" => k.kind # None
  /\ k.kind \in FilingKinds \cup RowKinds => k.item \in Items
  /\ k.kind \in DocumentKinds \cup {"replace"} => k.document \in DocIds
  /\ k.kind = "assign" => k.client \in Clients
  /\ k.kind = "setType" => k.type \in Types
  /\ k.kind \in FilingKinds /\ k.pc \in {"lockDocument", "copy", "commit"} => k.client \in Clients
  /\ k.kind \in {"approve", "version"} /\ k.pc = "lockClient" => k.client \in Clients
  /\ k.kind \in FilingKinds /\ k.pc \in {"copy", "commit"} => k.type \in FolderTypes
  /\ k.kind \in FilingKinds /\ k.pc = "commit" => k.name \in Name
  /\ k.kind = "approveDocument" /\ k.pc \in {"lockClient", "commit"} => k.client \in Clients
  /\ k.expired => k.pc \in {"copy", "commit", "undo"}

\* Only a replacement may be asked for a submission linked to no client.
Linked(k) == k.kind \in {"approve", "version"} => rows[k.item].client \in Clients

Locked(a, k) ==
  /\ k.kind \in FilingKinds /\ k.pc \in {"lockDocument", "copy", "commit"} /\ ~k.expired => clientLock[k.client] = a
  /\ k.kind = "approveDocument" /\ k.pc = "commit" => clientLock[k.client] = a
  /\ k.kind = "approveDocument" /\ k.pc \in {"lockClient", "commit"} => documentLock[k.document] = a
  /\ k.kind \in DocumentKinds /\ k.pc = "commit" => documentLock[k.document] = a

\* What was read under the locks.
Read(k) ==
  /\ k.kind = "approve" /\ k.pc \in {"copy", "commit"} /\ ~k.expired => ~VerifiedExists(k.client, k.type)
  /\ k.kind = "replace" /\ k.pc \in {"copy", "commit"} /\ ~k.expired =>
       k.document \in FindVerifiedOfType(k.client, k.type, None)
  /\ k.kind = "approveDocument" /\ k.pc \in {"lockClient", "commit"} =>
       /\ InReview(k.document)
       /\ documents[k.document].client = k.client /\ documents[k.document].type = k.type
  /\ k.kind = "approveDocument" /\ k.pc = "commit" => FindVerifiedOfType(k.client, k.type, k.document) = {}
  /\ k.kind \in {"removeDocument", "keepDocument"} /\ k.pc = "commit" => InReview(k.document)
  /\ k.kind = "setDate" /\ k.pc = "commit" => Stored(k.document)

Sound(a) == Shape(job[a]) /\ Linked(job[a]) /\ Locked(a, job[a]) /\ Read(job[a])

Inv == TypeOK /\ \A a \in Admins : Sound(a)

NoLocks(a) ==
  /\ \A i \in Items : rowLock[i] # a
  /\ \A d \in DocIds : documentLock[d] # a
  /\ \A c \in Clients : clientLock[c] # a

\* A step of somebody else leaves the request of a and its locks alone ...
Spared(a) ==
  /\ job'[a] = job[a]
  /\ \A i \in Items : rowLock'[i] = a <=> rowLock[i] = a
  /\ \A d \in DocIds : documentLock'[d] = a <=> documentLock[d] = a
  /\ \A c \in Clients : clientLock'[c] = a <=> clientLock[c] = a

LinksKept == \A i \in Items : rows[i].client \in Clients => rows'[i].client \in Clients

\* ... and what a has read under them.
Undisturbed(a) ==
  /\ LinksKept
  /\ \A d \in DocIds :
       /\ documents'[d].status = "VERIFIED" /\ clientLock[documents'[d].client] = a =>
            documents[d].status = "VERIFIED" /\ documents[d].client = documents'[d].client
            /\ documents[d].type = documents'[d].type
       /\ documents[d].status = "VERIFIED" /\ clientLock[documents[d].client] = a =>
            documents'[d].status = "VERIFIED" /\ documents'[d].client = documents[d].client
            /\ documents'[d].type = documents[d].type
       /\ InReview(d) /\ documentLock[d] = a =>
            documents'[d].status = "REVIEW_REQUIRED" /\ documents'[d].client = documents[d].client
            /\ documents'[d].type = documents[d].type
       /\ Stored(d) /\ documentLock[d] = a => documents'[d].status # "NONE"

LEMMA IdleSound ==
  ASSUME ReviewAssumption
  PROVE  Idle \in Job /\ Shape(Idle)
BY DEF Idle, Job, Shape, FilingKinds, RowKinds, DocumentKinds, InTransaction, None, NoName

LEMMA OthersSound ==
  ASSUME Inv, NEW a \in Admins, Spared(a), Undisturbed(a)
  PROVE  Sound(a)'
<1> DEFINE k == job[a]
<1>1. /\ Shape(k) /\ Linked(k) /\ Locked(a, k) /\ Read(k)
      /\ job'[a] = k
  BY DEF Inv, Sound, Spared
<1>2. Shape(job[a])'
  BY <1>1 DEF Shape
<1>3. Linked(job[a])'
  BY <1>1 DEF FilingKinds, Linked, Undisturbed, LinksKept, Shape
<1>4. Locked(a, job[a])'
  BY <1>1 DEF Locked, Spared, Shape, DocumentKinds
<1>5. Read(job[a])'
  <2>1. ASSUME NEW c \in Clients, NEW t, NEW e, clientLock[c] = a
        PROVE  FindVerifiedOfType(c, t, e)' = FindVerifiedOfType(c, t, e)
    <3>1. \A d \in DocIds : (documents'[d].status = "VERIFIED" /\ documents'[d].client = c /\ documents'[d].type = t)
                        <=> (documents[d].status = "VERIFIED" /\ documents[d].client = c /\ documents[d].type = t)
      BY <2>1 DEF Undisturbed
    <3> QED
      BY <3>1 DEF FindVerifiedOfType
  <2>2. k.client \in Clients /\ clientLock[k.client] = a =>
          /\ FindVerifiedOfType(k.client, k.type, None)' = FindVerifiedOfType(k.client, k.type, None)
          /\ FindVerifiedOfType(k.client, k.type, k.document)' = FindVerifiedOfType(k.client, k.type, k.document)
    BY <1>1, <2>1
  <2>3. k.kind \in FilingKinds /\ k.pc \in {"copy", "commit"} /\ ~k.expired =>
          k.client \in Clients /\ clientLock[k.client] = a
    BY <1>1 DEF Shape, Locked
  <2>4. k.kind = "approveDocument" /\ k.pc = "commit" => k.client \in Clients /\ clientLock[k.client] = a
    BY <1>1 DEF Shape, Locked
  <2>5. (k.kind \in DocumentKinds /\ k.pc = "commit") \/ (k.kind = "approveDocument" /\ k.pc = "lockClient") =>
          k.document \in DocIds /\ documentLock[k.document] = a
    BY <1>1 DEF Shape, Locked, DocumentKinds
  <2>6. \A d \in DocIds : documentLock[d] = a =>
          /\ documents[d].status = "REVIEW_REQUIRED" =>
                documents'[d].status = "REVIEW_REQUIRED" /\ documents'[d].client = documents[d].client
                /\ documents'[d].type = documents[d].type
          /\ documents[d].status # "NONE" => documents'[d].status # "NONE"
    BY DEF Undisturbed, InReview, Stored
  <2>7. /\ (k.kind = "approveDocument" /\ k.pc \in {"lockClient", "commit"}) =>
              /\ InReview(k.document)
              /\ documents[k.document].client = k.client /\ documents[k.document].type = k.type
        /\ (k.kind \in {"removeDocument", "keepDocument"} /\ k.pc = "commit") => InReview(k.document)
        /\ (k.kind = "setDate" /\ k.pc = "commit") => Stored(k.document)
    BY <1>1 DEF Read
  <2>8. k.kind = "approve" /\ k.pc \in {"copy", "commit"} /\ ~k.expired => FindVerifiedOfType(k.client, k.type, None)' = {}
    BY <1>1, <2>2, <2>3 DEF Read, VerifiedExists, FilingKinds
  <2>9. k.kind = "replace" /\ k.pc \in {"copy", "commit"} /\ ~k.expired =>
          k.document \in FindVerifiedOfType(k.client, k.type, None)'
    BY <1>1, <2>2, <2>3 DEF Read, FilingKinds
  <2>10. k.kind = "approveDocument" /\ k.pc \in {"lockClient", "commit"} =>
          /\ documents'[k.document].status = "REVIEW_REQUIRED"
          /\ documents'[k.document].client = k.client /\ documents'[k.document].type = k.type
    BY <2>5, <2>6, <2>7 DEF DocumentKinds, InReview, Stored
  <2>11. k.kind = "approveDocument" /\ k.pc = "commit" => FindVerifiedOfType(k.client, k.type, k.document)' = {}
    BY <1>1, <2>2, <2>4 DEF Read
  <2>12. k.kind \in {"removeDocument", "keepDocument"} /\ k.pc = "commit" =>
           documents'[k.document].status = "REVIEW_REQUIRED"
    BY <2>5, <2>6, <2>7 DEF DocumentKinds, InReview, Stored
  <2>13. k.kind = "setDate" /\ k.pc = "commit" => documents'[k.document].status # "NONE"
    BY <2>5, <2>6, <2>7 DEF DocumentKinds, InReview, Stored
  <2> QED
    BY <1>1, <2>8, <2>9, <2>10, <2>11, <2>12, <2>13 DEF Read, VerifiedExists, InReview, Stored
<1> QED
  BY <1>2, <1>3, <1>4, <1>5 DEF Sound

\* TypeOK in two parts.
DataOK ==
  /\ rows \in [Items -> Row]
  /\ documents \in [DocIds -> Document]
  /\ pendingFiles \subseteq Items
  /\ folders \in [Name -> Contents \cup {None}]
  /\ rowLock \in [Items -> Admins \cup {None}]
  /\ documentLock \in [DocIds -> Admins \cup {None}]
  /\ clientLock \in [Clients -> Admins \cup {None}]
  /\ job \in [Admins -> Job] /\ placing \subseteq Items
  /\ requests \in 0..MaxRequests /\ faults \in 0..MaxFaults
  /\ undone \subseteq Name /\ deleted \subseteq Items

LEMMA TypeOKParts ==
  TypeOK <=> DataOK /\ \A a \in Admins : job[a].pc \notin InTransaction \/ job[a].expired => NoLocks(a)
BY DEF TypeOK, DataOK, NoLocks

LEMMA Together ==
  ASSUME Inv, NEW b \in Admins,
         DataOK', Sound(b)',
         (job'[b].pc \notin InTransaction \/ job'[b].expired) => NoLocks(b)',
         \A a \in Admins \ {b} : Spared(a) /\ Undisturbed(a)
  PROVE  Inv'
<1>1. \A a \in Admins : Sound(a)'
  BY OthersSound
<1>2. ASSUME NEW a \in Admins, job'[a].pc \notin InTransaction \/ job'[a].expired
      PROVE  NoLocks(a)'
  <2>1. CASE a = b
    BY <1>2, <2>1
  <2>2. CASE a # b
    <3>1. NoLocks(a)
      BY <1>2, <2>2, TypeOKParts DEF Inv, Spared
    <3> QED
      BY <3>1, <2>2 DEF NoLocks, Spared
  <2> QED
    BY <2>1, <2>2
<1>3. TypeOK'
  BY <1>2 DEF TypeOK, DataOK, NoLocks
<1> QED
  BY <1>1, <1>3 DEF Inv

LEMMA SameDatabase ==
  ASSUME Inv, UNCHANGED database
  PROVE  \A a \in Admins : Undisturbed(a)
BY DEF Undisturbed, LinksKept, database, InReview, Stored

LEMMA Released ==
  ASSUME Inv, NEW b \in Admins, Release(b)
  PROVE  /\ rowLock' \in [Items -> Admins \cup {None}]
         /\ documentLock' \in [DocIds -> Admins \cup {None}]
         /\ clientLock' \in [Clients -> Admins \cup {None}]
         /\ NoLocks(b)'
         /\ \A a \in Admins \ {b} :
              /\ \A i \in Items : rowLock'[i] = a <=> rowLock[i] = a
              /\ \A d \in DocIds : documentLock'[d] = a <=> documentLock[d] = a
              /\ \A c \in Clients : clientLock'[c] = a <=> clientLock[c] = a
<1>1. /\ rowLock' = [i \in Items |-> IF rowLock[i] = b THEN None ELSE rowLock[i]]
      /\ documentLock' = [d \in DocIds |-> IF documentLock[d] = b THEN None ELSE documentLock[d]]
      /\ clientLock' = [c \in Clients |-> IF clientLock[c] = b THEN None ELSE clientLock[c]]
  BY DEF Release, Unlocked, Inv, TypeOK
<1>2. None \notin Admins
  BY ReviewAssumption
<1> QED
  BY <1>1, <1>2 DEF Inv, TypeOK, NoLocks

LEMMA GaveUp ==
  ASSUME Inv, NEW b \in Admins, GivesUp(b)
  PROVE  /\ job' \in [Admins -> Job]
         /\ job'[b].pc \in {"idle", "undo"}
         /\ job'[b] = Idle \/ (job'[b].kind = job[b].kind /\ job'[b].item = job[b].item)
         /\ Shape(job'[b])
         /\ \A a \in Admins \ {b} : job'[a] = job[a]
<1> DEFINE k == job[b]
           next == IF k.name = NoName THEN Idle ELSE [k EXCEPT !.pc = "undo"]
<1>1. k \in Job /\ Shape(k) /\ job \in [Admins -> Job]
  BY DEF Inv, TypeOK, Sound
<1>2. job' = [job EXCEPT ![b] = next]
  BY DEF GivesUp
<1>3. Idle \in Job /\ Shape(Idle) /\ Idle.pc = "idle"
  BY IdleSound, ReviewAssumption DEF Idle
<1>4. k.name # NoName =>
        /\ [k EXCEPT !.pc = "undo"] \in Job
        /\ [k EXCEPT !.pc = "undo"].pc = "undo"
        /\ [k EXCEPT !.pc = "undo"].kind = k.kind
        /\ [k EXCEPT !.pc = "undo"].item = k.item
        /\ Shape([k EXCEPT !.pc = "undo"])
  BY <1>1 DEF Job, Shape, FilingKinds, RowKinds, DocumentKinds
<1>5. /\ next \in Job /\ next.pc \in {"idle", "undo"}
      /\ next = Idle \/ (next.kind = k.kind /\ next.item = k.item)
      /\ Shape(next)
  BY <1>3, <1>4
<1> HIDE DEF next
<1> QED
  BY <1>1, <1>2, <1>5

LEMMA GivesUpSound ==
  ASSUME Inv, NEW b \in Admins, Release(b), GivesUp(b),
         LinksKept, \A a \in Admins \ {b} : Undisturbed(a), placing' \subseteq Items,
         rows' \in [Items -> Row], documents' \in [DocIds -> Document],
         pendingFiles' \subseteq Items, folders' \in [Name -> Contents \cup {None}],
         requests' \in 0..MaxRequests, faults' \in 0..MaxFaults,
         undone' \subseteq Name, deleted' \subseteq Items
  PROVE  Inv'
<1>1. DataOK' /\ NoLocks(b)' /\ \A a \in Admins \ {b} : Spared(a)
  BY GaveUp, Released DEF DataOK, Spared
<1>2. Shape(job'[b]) /\ job'[b].pc \in {"idle", "undo"}
  BY GaveUp
<1>3. Linked(job[b])'
  <2>1. CASE job'[b] = Idle
    BY <2>1 DEF Linked, Idle, FilingKinds, None
  <2>2. CASE job'[b].kind = job[b].kind /\ job'[b].item = job[b].item
    BY <2>2 DEF FilingKinds, Inv, Sound, Shape, Linked, LinksKept
  <2> QED
    BY <2>1, <2>2, GaveUp
<1>4. Sound(b)'
  BY <1>2, <1>3 DEF Sound, Shape, Locked, Read
<1> QED
  BY <1>1, <1>4, Together

LEMMA RollBackSound ==
  ASSUME Inv, NEW b \in Admins, RollBack(b), faults' \in 0..MaxFaults, undone' = undone, deleted' = deleted, placing' = placing
  PROVE  Inv'
BY SameDatabase, GivesUpSound DEF RollBack, Inv, TypeOK, database, files, LinksKept

\* A step of b that takes at most one lock and changes neither documents nor rows.
LEMMA QuietStep ==
  ASSUME Inv, NEW b \in Admins, UNCHANGED database, DataOK',
         \A a \in Admins \ {b} : Spared(a), Sound(b)',
         (job'[b].pc \notin InTransaction \/ job'[b].expired) => NoLocks(b)'
  PROVE  Inv'
BY SameDatabase, Together

----------------------------------------------------------------------------
(* A request comes in *)

LEMMA BeginSound ==
  ASSUME Inv, NEW a \in Admins, NEW k \in Job, Begin(a, k), placing' = placing, Shape(k), Linked(k), k.expired = FALSE,
         k.pc \in {"download", "lockRow", "lockDocument"}, k.kind \in FilingKinds => k.pc = "download"
  PROVE  Inv'
<1>1. job \in [Admins -> Job] /\ job' = [job EXCEPT ![a] = k] /\ UNCHANGED <<database, files, locks, faults, undone, deleted>>
  BY DEF Begin, Inv, TypeOK
<1>2. job'[a] = k /\ \A b \in Admins \ {a} : job'[b] = job[b]
  BY <1>1
<1>3. NoLocks(a)
  BY TypeOKParts DEF Begin, Inv, InTransaction
<1>4. DataOK'
  BY <1>1, ReviewAssumption DEF DataOK, Inv, TypeOK, database, files, locks, Begin
<1>5. \A b \in Admins \ {a} : Spared(b)
  BY <1>1, <1>2 DEF Spared, locks
<1>6. NoLocks(a)'
  BY <1>1, <1>3 DEF NoLocks, locks
<1>7. Sound(a)'
  BY <1>1, <1>2 DEF Sound, Shape, Linked, Locked, Read, database, FilingKinds
<1> QED
  BY <1>1, <1>4, <1>5, <1>6, <1>7, QuietStep

LEMMA RequestSound ==
  ASSUME Inv, NEW a \in Admins, Request(a), placing' = placing
  PROVE  Inv'
<1>1. /\ Idle \in Job /\ Items \cap {None} = {}
      /\ rows \in [Items -> Row] /\ documents \in [DocIds -> Document]
  BY IdleSound, ReviewAssumption DEF Inv, TypeOK
<1>2. ASSUME NEW i \in Items, NEW date \in BOOLEAN, Approve(a, i, date)
      PROVE  Inv'
  <2> DEFINE k == [Idle EXCEPT !.pc = "download", !.kind = "approve", !.item = i, !.date = date]
  <2>1. k \in Job /\ Shape(k) /\ k.expired = FALSE /\ k.pc = "download" /\ k.kind = "approve" /\ k.item = i
    BY <1>1 DEF Idle, Job, Shape, FilingKinds, RowKinds, DocumentKinds
  <2>2. Linked(k)
    BY <1>1, <1>2, <2>1 DEF Linked, Approve, ApprovalBlocked, Row
  <2>3. Begin(a, k)
    BY <1>2 DEF Approve
  <2> QED
    BY <2>1, <2>2, <2>3, BeginSound
<1>3. ASSUME NEW i \in Items, NEW d \in DocIds, NEW date \in BOOLEAN, ReplaceVerifiedDocument(a, i, d, date)
      PROVE  Inv'
  <2> DEFINE k == [Idle EXCEPT !.pc = "download", !.kind = "replace", !.item = i, !.document = d, !.date = date]
  <2>1. k \in Job /\ Shape(k) /\ k.expired = FALSE /\ k.pc = "download" /\ k.kind = "replace" /\ k.item = i
    BY <1>1 DEF Idle, Job, Shape, FilingKinds, RowKinds, DocumentKinds
  <2>2. Linked(k)
    BY <1>1, <1>3, <2>1 DEF Linked
  <2>3. Begin(a, k)
    BY <1>3 DEF ReplaceVerifiedDocument
  <2> QED
    BY <2>1, <2>2, <2>3, BeginSound
<1>4. ASSUME NEW i \in Items, KeepDocumentAsVersion(a, i)
      PROVE  Inv'
  <2> DEFINE k == [Idle EXCEPT !.pc = "download", !.kind = "version", !.item = i]
  <2>1. k \in Job /\ Shape(k) /\ k.expired = FALSE /\ k.pc = "download" /\ k.kind = "version" /\ k.item = i
    BY <1>1 DEF Idle, Job, Shape, FilingKinds, RowKinds, DocumentKinds
  <2>2. Linked(k)
    BY <1>1, <1>4, <2>1
    DEF Linked, KeepDocumentAsVersion, VerifiedExists, FindVerifiedOfType, Document, StoredDocument, NoDocument
  <2>3. Begin(a, k)
    BY <1>4 DEF KeepDocumentAsVersion
  <2> QED
    BY <2>1, <2>2, <2>3, BeginSound
<1>5. ASSUME NEW k \in Job, Begin(a, k), Shape(k), k.pc = "lockRow", k.kind \in RowKinds, k.expired = FALSE
      PROVE  Inv'
  <2>1. k.kind \notin FilingKinds
    BY <1>5 DEF FilingKinds, RowKinds
  <2> QED
    BY <1>5, <2>1, BeginSound DEF FilingKinds, Linked
<1>6. ASSUME NEW k \in Job, Begin(a, k), Shape(k), k.pc = "lockDocument", k.kind \in DocumentKinds, k.expired = FALSE
      PROVE  Inv'
  <2>1. k.kind \notin FilingKinds
    BY <1>6 DEF FilingKinds, DocumentKinds
  <2> QED
    BY <1>6, <2>1, BeginSound DEF FilingKinds, Linked
<1>7. ASSUME NEW i \in Items, KeepReviewItemPending(a, i)
      PROVE  Inv'
  <2> DEFINE k == [Idle EXCEPT !.pc = "lockRow", !.kind = "keep", !.item = i]
  <2>1. k \in Job /\ k.pc = "lockRow" /\ k.kind \in RowKinds /\ k.item = i /\ k.expired = FALSE
    BY <1>1 DEF Idle, Job, RowKinds, InTransaction
  <2>2. Shape(k)
    BY <1>1, <2>1 DEF Idle, Shape, FilingKinds, RowKinds, DocumentKinds
  <2> QED
    BY <2>1, <2>2, <1>5, <1>7 DEF KeepReviewItemPending
<1>8. ASSUME NEW i \in Items, RemoveFromReview(a, i)
      PROVE  Inv'
  <2> DEFINE k == [Idle EXCEPT !.pc = "lockRow", !.kind = "remove", !.item = i]
  <2>1. k \in Job /\ k.pc = "lockRow" /\ k.kind \in RowKinds /\ k.item = i /\ k.expired = FALSE
    BY <1>1 DEF Idle, Job, RowKinds, InTransaction
  <2>2. Shape(k)
    BY <1>1, <2>1 DEF Idle, Shape, FilingKinds, RowKinds, DocumentKinds
  <2> QED
    BY <2>1, <2>2, <1>5, <1>8 DEF RemoveFromReview
<1>9. ASSUME NEW i \in Items, DeleteTemporaryDocument(a, i)
      PROVE  Inv'
  <2> DEFINE k == [Idle EXCEPT !.pc = "lockRow", !.kind = "delete", !.item = i]
  <2>1. k \in Job /\ k.pc = "lockRow" /\ k.kind \in RowKinds /\ k.item = i /\ k.expired = FALSE
    BY <1>1 DEF Idle, Job, RowKinds, InTransaction
  <2>2. Shape(k)
    BY <1>1, <2>1 DEF Idle, Shape, FilingKinds, RowKinds, DocumentKinds
  <2> QED
    BY <2>1, <2>2, <1>5, <1>9 DEF DeleteTemporaryDocument
<1>10. ASSUME NEW i \in Items, NEW type \in FolderTypes, SetDocumentType(a, i, type)
      PROVE  Inv'
  <2> DEFINE k == [Idle EXCEPT !.pc = "lockRow", !.kind = "setType", !.item = i, !.type = type]
  <2>1. k \in Job /\ k.pc = "lockRow" /\ k.kind \in RowKinds /\ k.item = i /\ k.expired = FALSE
    BY <1>1, ReviewAssumption DEF Idle, Job, RowKinds, InTransaction
  <2>2. Shape(k)
    BY <1>1, <2>1, ReviewAssumption DEF Idle, Shape, FilingKinds, RowKinds, DocumentKinds
  <2> QED
    BY <2>1, <2>2, <1>5, <1>10 DEF SetDocumentType
<1>11. ASSUME NEW i \in Items, NEW client \in Clients, AssignClient(a, i, client)
      PROVE  Inv'
  <2> DEFINE k == [Idle EXCEPT !.pc = "lockRow", !.kind = "assign", !.item = i, !.client = client]
  <2>1. k \in Job /\ k.pc = "lockRow" /\ k.kind \in RowKinds /\ k.item = i /\ k.expired = FALSE
    BY <1>1 DEF Idle, Job, RowKinds, InTransaction
  <2>2. Shape(k)
    BY <1>1, <2>1 DEF Idle, Shape, FilingKinds, RowKinds, DocumentKinds
  <2> QED
    BY <2>1, <2>2, <1>5, <1>11 DEF AssignClient
<1>12. ASSUME NEW d \in DocIds, NEW date \in BOOLEAN, ApproveDocument(a, d, date)
      PROVE  Inv'
  <2> DEFINE k == [Idle EXCEPT !.pc = "lockDocument", !.kind = "approveDocument", !.document = d, !.date = date]
  <2>1. k \in Job /\ k.pc = "lockDocument" /\ k.kind \in DocumentKinds /\ k.document = d /\ k.expired = FALSE
    BY <1>1 DEF Idle, Job, DocumentKinds, InTransaction
  <2>2. Shape(k)
    BY <1>1, <2>1 DEF Idle, Shape, FilingKinds, RowKinds, DocumentKinds
  <2> QED
    BY <2>1, <2>2, <1>6, <1>12 DEF ApproveDocument
<1>13. ASSUME NEW d \in DocIds, RemoveStoredDocument(a, d)
      PROVE  Inv'
  <2> DEFINE k == [Idle EXCEPT !.pc = "lockDocument", !.kind = "removeDocument", !.document = d]
  <2>1. k \in Job /\ k.pc = "lockDocument" /\ k.kind \in DocumentKinds /\ k.document = d /\ k.expired = FALSE
    BY <1>1 DEF Idle, Job, DocumentKinds, InTransaction
  <2>2. Shape(k)
    BY <1>1, <2>1 DEF Idle, Shape, FilingKinds, RowKinds, DocumentKinds
  <2> QED
    BY <2>1, <2>2, <1>6, <1>13 DEF RemoveStoredDocument
<1>14. ASSUME NEW d \in DocIds, KeepDocumentPending(a, d)
      PROVE  Inv'
  <2> DEFINE k == [Idle EXCEPT !.pc = "lockDocument", !.kind = "keepDocument", !.document = d]
  <2>1. k \in Job /\ k.pc = "lockDocument" /\ k.kind \in DocumentKinds /\ k.document = d /\ k.expired = FALSE
    BY <1>1 DEF Idle, Job, DocumentKinds, InTransaction
  <2>2. Shape(k)
    BY <1>1, <2>1 DEF Idle, Shape, FilingKinds, RowKinds, DocumentKinds
  <2> QED
    BY <2>1, <2>2, <1>6, <1>14 DEF KeepDocumentPending
<1>15. ASSUME NEW d \in DocIds, SetPoliceSubmittedDate(a, d)
      PROVE  Inv'
  <2> DEFINE k == [Idle EXCEPT !.pc = "lockDocument", !.kind = "setDate", !.document = d]
  <2>1. k \in Job /\ k.pc = "lockDocument" /\ k.kind \in DocumentKinds /\ k.document = d /\ k.expired = FALSE
    BY <1>1 DEF Idle, Job, DocumentKinds, InTransaction
  <2>2. Shape(k)
    BY <1>1, <2>1 DEF Idle, Shape, FilingKinds, RowKinds, DocumentKinds
  <2> QED
    BY <2>1, <2>2, <1>6, <1>15 DEF SetPoliceSubmittedDate
<1> QED
  BY <1>2, <1>3, <1>4, <1>7, <1>8, <1>9, <1>10, <1>11, <1>12, <1>13, <1>14, <1>15 DEF Request

----------------------------------------------------------------------------
(* The steps before the commit *)

\* A step that keeps the database and the locks.
LEMMA LockFreeStep ==
  ASSUME Inv, NEW a \in Admins, UNCHANGED <<database, locks>>,
         job' \in [Admins -> Job], \A b \in Admins \ {a} : job'[b] = job[b], Sound(a)',
         pendingFiles' \subseteq Items, folders' \in [Name -> Contents \cup {None}],
         requests' = requests, faults' \in 0..MaxFaults, undone' \subseteq Name, deleted' \subseteq Items, placing' = placing,
         (job'[a].pc \notin InTransaction \/ job'[a].expired) => NoLocks(a)
  PROVE  Inv'
<1>1. DataOK' /\ \A b \in Admins \ {a} : Spared(b)
  BY DEF DataOK, Inv, TypeOK, database, locks, Spared
<1>2. NoLocks(a) => NoLocks(a)'
  BY DEF NoLocks, locks
<1> QED
  BY <1>1, <1>2, QuietStep

LEMMA IdleIsSound ==
  ASSUME Inv, NEW a \in Admins, job' = [job EXCEPT ![a] = Idle]
  PROVE  /\ job' \in [Admins -> Job] /\ job'[a] = Idle
         /\ \A b \in Admins \ {a} : job'[b] = job[b]
         /\ Sound(a)'
<1>1. /\ job' \in [Admins -> Job] /\ job'[a] = Idle
      /\ \A b \in Admins \ {a} : job'[b] = job[b]
  BY IdleSound, ReviewAssumption DEF Inv, TypeOK
<1>2. Shape(job'[a]) /\ Idle.pc = "idle" /\ Idle.kind = None
  BY <1>1, IdleSound, ReviewAssumption DEF Idle
<1> QED
  BY <1>1, <1>2 DEF Sound, Shape, Linked, Locked, Read, None, FilingKinds, DocumentKinds

\* A request that holds no lock ends.
LEMMA EndSound ==
  ASSUME Inv, NEW a \in Admins, job[a].pc \in {"download", "tidy", "undo"}, job' = [job EXCEPT ![a] = Idle],
         UNCHANGED <<database, locks>>,
         pendingFiles' \subseteq Items, folders' \in [Name -> Contents \cup {None}],
         requests' = requests, faults' \in 0..MaxFaults, undone' \subseteq Name, deleted' \subseteq Items, placing' = placing
  PROVE  Inv'
<1>1. NoLocks(a)
  BY TypeOKParts DEF Inv, InTransaction
<1> QED
  BY <1>1, IdleIsSound, LockFreeStep

LEMMA DownloadSound ==
  ASSUME Inv, NEW a \in Admins, Download(a), UNCHANGED <<faults, undone, deleted, placing>>
  PROVE  Inv'
<1>1. CASE job[a].item \in pendingFiles
  <2> DEFINE k == job[a]
             next == [k EXCEPT !.pc = "lockRow"]
  <2>1. job' = [job EXCEPT ![a] = next] /\ job \in [Admins -> Job] /\ k \in Job /\ Sound(a) /\ k.pc = "download"
    BY <1>1 DEF Download, Inv, TypeOK
  <2>2. /\ next \in Job /\ next.pc = "lockRow" /\ next.kind = k.kind /\ next.item = k.item /\ next.expired = k.expired
        /\ Shape(next) /\ next.kind \in FilingKinds /\ ~next.expired
    BY <2>1 DEF Job, Sound, Shape, InTransaction, FilingKinds, RowKinds, DocumentKinds
  <2> HIDE DEF next
  <2>3. job'[a] = next /\ job' \in [Admins -> Job] /\ \A b \in Admins \ {a} : job'[b] = job[b]
    BY <2>1, <2>2
  <2>4. Linked(job[a])'
    BY <2>1, <2>2, <2>3 DEF Sound, Linked, Download, database
  <2>5. Sound(a)'
    BY <2>2, <2>3, <2>4 DEF Sound, Shape, Locked, Read, FilingKinds, DocumentKinds
  <2>6. next.pc \in InTransaction
    BY <2>2 DEF InTransaction
  <2> QED
    BY <2>2, <2>3, <2>5, <2>6, LockFreeStep DEF Download, files, Inv, TypeOK
<1>2. CASE job[a].item \notin pendingFiles
  BY <1>2, EndSound DEF Download, files, Inv, TypeOK
<1> QED
  BY <1>1, <1>2

LEMMA EndingsSound ==
  ASSUME Inv, NEW a \in Admins, faults' \in 0..MaxFaults, UNCHANGED <<undone, deleted, placing>>,
         Tidy(a) \/ Undo(a) \/ RemovalFails(a)
  PROVE  Inv'
<1>1. /\ pendingFiles \subseteq Items /\ folders \in [Name -> Contents \cup {None}]
      /\ undone \subseteq Name /\ deleted \subseteq Items
  BY DEF Inv, TypeOK
<1>2. CASE Tidy(a)
  <2>1. folders' \in [Name -> Contents \cup {None}] /\ pendingFiles' \subseteq Items
    BY <1>1, <1>2 DEF Tidy
  <2> QED
    BY <1>1, <1>2, <2>1, EndSound DEF Tidy
<1>3. CASE Undo(a)
  <2>1. folders' \in [Name -> Contents \cup {None}] /\ pendingFiles' \subseteq Items
    BY <1>1, <1>3 DEF Undo
  <2> QED
    BY <1>1, <1>3, <2>1, EndSound DEF Undo
<1>4. CASE RemovalFails(a)
  BY <1>1, <1>4, EndSound DEF RemovalFails, files, locks
<1> QED
  BY <1>2, <1>3, <1>4

LEMMA DiesSound ==
  ASSUME Inv, NEW a \in Admins, Dies(a), faults' \in 0..MaxFaults, UNCHANGED <<deleted, placing>>
  PROVE  Inv'
<1>1. DataOK' /\ NoLocks(a)' /\ \A b \in Admins \ {a} : Spared(b)
  BY Released, IdleIsSound DEF Dies, DataOK, Inv, TypeOK, database, files, Spared
<1> QED
  BY <1>1, IdleIsSound, QuietStep DEF Dies

LEMMA LockRowSound ==
  ASSUME Inv, NEW a \in Admins, LockRow(a), UNCHANGED <<faults, undone, deleted, placing>>
  PROVE  Inv'
<1> DEFINE k == job[a]
           read == IF k.kind \in FilingKinds
                   THEN [k EXCEPT !.client = rows[k.item].client, !.type = rows[k.item].type] ELSE k
           next == [read EXCEPT !.pc = AfterLock(k.kind, "row")]
<1>1. /\ job \in [Admins -> Job] /\ k \in Job /\ Shape(k) /\ Linked(k) /\ k.pc = "lockRow"
      /\ rows \in [Items -> Row] /\ rowLock \in [Items -> Admins \cup {None}]
  BY DEF Inv, TypeOK, Sound, LockRow
<1>2. k.item \in Items /\ k.kind \in FilingKinds \cup RowKinds /\ rowLock[k.item] = None /\ ~k.expired
  BY <1>1 DEF Shape, LockRow
<1>3. CASE RollBack(a)
  BY <1>3, RollBackSound DEF Inv, TypeOK
<1>4. CASE /\ rowLock' = [rowLock EXCEPT ![k.item] = a]
           /\ job' = [job EXCEPT ![a] = next]
           /\ UNCHANGED <<database, files, documentLock, clientLock, requests>>
  <2>1. AfterLock(k.kind, "row") = IF k.kind \in FilingKinds \cup {"assign"} THEN "lockClient"
                                   ELSE IF k.kind = "delete" THEN "removeFiles" ELSE "commit"
    BY <1>2 DEF AfterLock, FilingKinds, RowKinds
  <2>2. /\ read \in Job /\ read.kind = k.kind /\ read.item = k.item /\ read.document = k.document
        /\ read.expired = k.expired /\ read.name = k.name
        /\ k.kind \in {"approve", "version"} => read.client \in Clients
        /\ k.kind \notin FilingKinds => read.client = k.client /\ read.type = k.type
    <3> HIDE DEF k
    <3>1. k.kind \in {"approve", "version"} => rows[k.item].client \in Clients
      BY <1>1 DEF Linked
    <3>2. rows[k.item].client \in Clients \cup {None} /\ rows[k.item].type \in Types
      BY <1>1, <1>2 DEF Row
    <3>3. CASE k.kind \in FilingKinds
      <4>1. read = [k EXCEPT !.client = rows[k.item].client, !.type = rows[k.item].type]
        BY <3>3
      <4> HIDE DEF read
      <4>2. QED
        BY <1>1, <3>1, <3>2, <3>3, <4>1 DEF Job
    <3>4. CASE k.kind \notin FilingKinds
      <4>1. read = k
        BY <3>4
      <4>2. k.kind \notin {"approve", "version"}
        BY <3>4 DEF FilingKinds
      <4> HIDE DEF read
      <4>3. QED
        BY <1>1, <3>4, <4>1, <4>2
    <3>5. QED
      BY <3>3, <3>4
  <2> HIDE DEF read
  <2>3. /\ next \in Job /\ next.pc = AfterLock(k.kind, "row") /\ next.kind = k.kind /\ next.item = k.item
        /\ next.document = read.document /\ next.client = read.client /\ next.type = read.type /\ next.name = read.name
        /\ next.expired = read.expired
    BY <2>1, <2>2 DEF Job, InTransaction
  <2> HIDE DEF next
  <2>4. Shape(next)
    BY <1>1, <1>2, <2>1, <2>2, <2>3 DEF Shape, FilingKinds, RowKinds, DocumentKinds, None
  <2>5. job'[a] = next /\ job' \in [Admins -> Job] /\ \A b \in Admins \ {a} : job'[b] = job[b]
    BY <1>1, <1>4, <2>3
  <2>6. Linked(job[a])'
    BY <1>1, <1>4, <2>3, <2>5 DEF Linked, database
  <2>7. Locked(a, job[a])'
    BY <2>1, <2>3, <2>5, <1>2 DEF Locked, FilingKinds, RowKinds, DocumentKinds
  <2>8. Read(job[a])'
    BY <2>1, <2>3, <2>5, <1>2 DEF Read, FilingKinds, RowKinds, DocumentKinds
  <2>9. Sound(a)'
    BY <2>4, <2>5, <2>6, <2>7, <2>8 DEF Sound, Shape
  <2>10. DataOK'
    BY <1>1, <1>2, <1>4, <2>5 DEF DataOK, Inv, TypeOK, database, files
  <2>11. \A b \in Admins \ {a} : Spared(b)
    BY <1>1, <1>2, <1>4, <2>5, ReviewAssumption DEF Spared
  <2>12. next.pc \in InTransaction /\ ~next.expired
    BY <1>2, <2>1, <2>2, <2>3 DEF InTransaction
  <2> QED
    BY <1>4, <2>5, <2>9, <2>10, <2>11, <2>12, QuietStep
<1> QED
  BY <1>3, <1>4 DEF LockRow

LEMMA LockClientSound ==
  ASSUME Inv, NEW a \in Admins, LockClient(a), UNCHANGED <<faults, undone, deleted, placing>>
  PROVE  Inv'
<1> DEFINE k == job[a]
           next == [k EXCEPT !.pc = AfterLock(k.kind, "client")]
<1>1. /\ job \in [Admins -> Job] /\ k \in Job /\ Shape(k) /\ Linked(k) /\ Locked(a, k) /\ Read(k) /\ k.pc = "lockClient"
      /\ documents \in [DocIds -> Document] /\ clientLock \in [Clients -> Admins \cup {None}]
  BY DEF Inv, TypeOK, Sound, LockClient
<1>2. /\ k.kind \in FilingKinds \cup {"assign", "approveDocument"} /\ ~k.expired
      /\ k.kind # "replace" => k.client \in Clients
      /\ k.client \in Clients \cup {None} /\ (k.client # None => clientLock[k.client] = None)
  BY <1>1 DEF Shape, LockClient, FilingKinds, RowKinds, Job
<1>3. CASE RollBack(a)
  BY <1>3, RollBackSound DEF Inv, TypeOK
<1>4. CASE /\ ClientAsExpected(k)
           /\ clientLock' = [clientLock EXCEPT ![k.client] = a]
           /\ job' = [job EXCEPT ![a] = next]
           /\ UNCHANGED <<database, files, rowLock, documentLock, requests>>
  <2>0. k.client \in Clients /\ clientLock[k.client] = None
    BY <1>2, <1>4, ReviewAssumption DEF ClientAsExpected
  <2>1. AfterLock(k.kind, "client") = IF k.kind = "replace" THEN "lockDocument"
                                      ELSE IF k.kind \in FilingKinds THEN "copy" ELSE "commit"
    BY <1>2 DEF AfterLock, FilingKinds
  <2>2. /\ next \in Job /\ next.pc = AfterLock(k.kind, "client") /\ next.kind = k.kind /\ next.item = k.item
        /\ next.document = k.document /\ next.client = k.client /\ next.type = k.type /\ next.name = k.name
        /\ next.expired = k.expired
    BY <1>1, <2>1 DEF Job, InTransaction
  <2> HIDE DEF next
  <2>3. k.kind \in {"approve", "version"} => k.type \in FolderTypes
    <3>1. CASE k.kind = "approve"
      BY <1>4, <3>1 DEF ClientAsExpected, ApprovalBlocked
    <3>2. CASE k.kind = "version"
      BY <1>1, <1>4, <3>2
      DEF ClientAsExpected, VerifiedExists, FindVerifiedOfType, Document, StoredDocument, NoDocument
    <3> QED
      BY <3>1, <3>2
  <2>4. Shape(next)
    BY <1>1, <1>2, <2>0, <2>1, <2>2, <2>3 DEF Shape, FilingKinds, RowKinds, DocumentKinds, None
  <2>5. job'[a] = next /\ job' \in [Admins -> Job] /\ \A b \in Admins \ {a} : job'[b] = job[b]
    BY <1>1, <1>4, <2>2
  <2>6. Linked(job[a])'
    BY <1>1, <1>4, <2>2, <2>5 DEF Linked, database
  <2>7. Locked(a, job[a])'
    BY <1>1, <1>2, <2>0, <1>4, <2>1, <2>2, <2>5 DEF Locked, FilingKinds, DocumentKinds
  <2>8. Read(job[a])'
    <3>1. k.kind = "approve" => ~VerifiedExists(k.client, k.type)
      BY <1>4 DEF ClientAsExpected, ApprovalBlocked, VerifiedExists
    <3>2. k.kind = "approveDocument" => FindVerifiedOfType(k.client, k.type, k.document) = {}
      BY <1>4 DEF ClientAsExpected, ApprovalBlocked
    <3>3. k.kind = "approveDocument" =>
             /\ InReview(k.document)
             /\ documents[k.document].client = k.client /\ documents[k.document].type = k.type
      BY <1>1 DEF Read
    <3>4. documents' = documents
      BY <1>4 DEF database
    <3>5. next.kind = k.kind /\ (next.kind = "replace" => next.pc = "lockDocument")
      BY <2>1, <2>2
    <3>6. next.kind \notin {"removeDocument", "keepDocument", "setDate"}
      BY <1>2, <2>2 DEF FilingKinds
    <3> QED
      BY <2>2, <2>5, <3>1, <3>2, <3>3, <3>4, <3>5, <3>6 DEF Read, VerifiedExists, FindVerifiedOfType, InReview
  <2>9. Sound(a)'
    BY <2>4, <2>5, <2>6, <2>7, <2>8 DEF Sound, Shape
  <2>10. DataOK'
    BY <1>1, <1>2, <2>0, <1>4, <2>5 DEF DataOK, Inv, TypeOK, database, files
  <2>11. \A b \in Admins \ {a} : Spared(b)
    BY <1>1, <1>2, <2>0, <1>4, <2>5, ReviewAssumption DEF Spared
  <2>12. next.pc \in InTransaction /\ ~next.expired
    BY <1>2, <2>1, <2>2 DEF InTransaction
  <2> QED
    BY <1>4, <2>5, <2>9, <2>10, <2>11, <2>12, QuietStep
<1> QED
  BY <1>3, <1>4 DEF LockClient

LEMMA LockDocumentSound ==
  ASSUME Inv, NEW a \in Admins, LockDocument(a), UNCHANGED <<faults, undone, deleted, placing>>
  PROVE  Inv'
<1> DEFINE k == job[a]
           read == IF k.kind = "approveDocument"
                   THEN [k EXCEPT !.client = documents[k.document].client, !.type = documents[k.document].type] ELSE k
           next == [read EXCEPT !.pc = AfterLock(k.kind, "document")]
<1>1. /\ job \in [Admins -> Job] /\ k \in Job /\ Shape(k) /\ Linked(k) /\ Locked(a, k) /\ k.pc = "lockDocument"
      /\ documents \in [DocIds -> Document] /\ documentLock \in [DocIds -> Admins \cup {None}]
  BY DEF Inv, TypeOK, Sound, LockDocument
<1>2. k.document \in DocIds /\ k.kind \in DocumentKinds \cup {"replace"} /\ documentLock[k.document] = None /\ ~k.expired
  BY <1>1 DEF Shape, LockDocument
<1>3. CASE RollBack(a)
  BY <1>3, RollBackSound DEF Inv, TypeOK
<1>4. CASE /\ DocumentAsExpected(k)
           /\ documentLock' = [documentLock EXCEPT ![k.document] = a]
           /\ job' = [job EXCEPT ![a] = next]
           /\ UNCHANGED <<database, files, rowLock, clientLock, requests>>
  <2>1. AfterLock(k.kind, "document") = IF k.kind = "approveDocument" THEN "lockClient"
                                        ELSE IF k.kind = "replace" THEN "copy" ELSE "commit"
    BY <1>2 DEF AfterLock, DocumentKinds
  <2>2. k.kind = "approveDocument" =>
          documents[k.document].client \in Clients /\ documents[k.document].type \in FolderTypes
    BY <1>1, <1>2, <1>4 DEF DocumentAsExpected, InReview, Document, StoredDocument, NoDocument
  <2>3. /\ read \in Job /\ read.kind = k.kind /\ read.item = k.item /\ read.document = k.document
        /\ read.expired = k.expired /\ read.name = k.name
        /\ k.kind = "approveDocument" => read.client = documents[k.document].client /\ read.type = documents[k.document].type
        /\ k.kind # "approveDocument" => read.client = k.client /\ read.type = k.type
    <3>1. FolderTypes \subseteq Types
      BY ReviewAssumption
    <3>2. CASE k.kind = "approveDocument"
      <4> DEFINE c == documents[k.document].client
                 t == documents[k.document].type
      <4>1. c \in Clients \cup {None} /\ t \in Types \cup {None}
        BY <2>2, <3>1, <3>2
      <4>2. read = [k EXCEPT !.client = c, !.type = t]
        BY <3>2
      <4> HIDE DEF read, c, t
      <4>3. read \in Job /\ read.kind = k.kind /\ read.item = k.item /\ read.document = k.document
            /\ read.expired = k.expired /\ read.name = k.name /\ read.client = c /\ read.type = t
        BY <1>1, <4>1, <4>2 DEF Job
      <4> QED
        BY <3>2, <4>3 DEF c, t
    <3>3. CASE k.kind # "approveDocument"
      BY <1>1, <3>3
    <3> QED
      BY <3>2, <3>3
  <2> HIDE DEF read
  <2>4. /\ next \in Job /\ next.pc = AfterLock(k.kind, "document") /\ next.kind = k.kind /\ next.item = k.item
        /\ next.document = read.document /\ next.client = read.client /\ next.type = read.type /\ next.name = read.name
        /\ next.expired = read.expired
    BY <2>1, <2>3 DEF Job, InTransaction
  <2> HIDE DEF next
  <2>5. k.kind = "replace" => k.client \in Clients /\ k.type \in FolderTypes /\ k.document \in FindVerifiedOfType(k.client, k.type, None)
    <3>1. k.kind = "replace" => k.document \in FindVerifiedOfType(k.client, k.type, None)
      BY <1>4 DEF DocumentAsExpected
    <3> QED
      BY <1>1, <3>1 DEF FindVerifiedOfType, Document, StoredDocument, NoDocument
  <2>6. Shape(next)
    BY <1>1, <1>2, <2>1, <2>2, <2>3, <2>4, <2>5 DEF Shape, FilingKinds, RowKinds, DocumentKinds, None
  <2>7. job'[a] = next /\ job' \in [Admins -> Job] /\ \A b \in Admins \ {a} : job'[b] = job[b]
    BY <1>1, <1>4, <2>4
  <2>8. Linked(job[a])'
    BY <1>1, <1>4, <2>3, <2>4, <2>7 DEF Linked, database
  <2>9. Locked(a, job[a])'
    BY <1>1, <1>2, <1>4, <2>1, <2>3, <2>4, <2>7 DEF Locked, FilingKinds, DocumentKinds
  <2>10. Read(job[a])'
    <3>1. k.kind \in {"approveDocument", "removeDocument", "keepDocument"} => InReview(k.document)
      BY <1>4 DEF DocumentAsExpected
    <3>2. k.kind = "setDate" => Stored(k.document)
      BY <1>4 DEF DocumentAsExpected
    <3>3. documents' = documents
      BY <1>4 DEF database
    <3>4. next.kind # "approve" /\ (next.kind = "approveDocument" => next.pc = "lockClient")
      BY <1>2, <2>1, <2>3, <2>4 DEF DocumentKinds
    <3> QED
      BY <2>3, <2>4, <2>5, <2>7, <3>1, <3>2, <3>3, <3>4 DEF Read, FindVerifiedOfType, InReview, Stored
  <2>11. Sound(a)'
    BY <2>6, <2>7, <2>8, <2>9, <2>10 DEF Sound, Shape
  <2>12. DataOK'
    BY <1>1, <1>2, <1>4, <2>7 DEF DataOK, Inv, TypeOK, database, files
  <2>13. \A b \in Admins \ {a} : Spared(b)
    BY <1>1, <1>2, <1>4, <2>7, ReviewAssumption DEF Spared
  <2>14. next.pc \in InTransaction /\ ~next.expired
    BY <1>2, <2>1, <2>3, <2>4 DEF InTransaction
  <2> QED
    BY <1>4, <2>7, <2>11, <2>12, <2>13, <2>14, QuietStep
<1> QED
  BY <1>3, <1>4 DEF LockDocument

\* A request moves on in its transaction with what it has locked and read.
LEMMA MoveOn ==
  ASSUME Inv, NEW a \in Admins, job[a].pc = "copy",
         job'[a] \in Job, job'[a].pc \in {"copy", "commit"}, job'[a].kind = job[a].kind, job'[a].item = job[a].item,
         job'[a].document = job[a].document, job'[a].client = job[a].client, job'[a].type = job[a].type,
         job'[a].pc = "commit" => job'[a].name \in Name,
         \/ job'[a].expired
         \/ job'[a].expired = job[a].expired /\ UNCHANGED locks,
         UNCHANGED database
  PROVE  Sound(a)'
<1> DEFINE k == job[a]
           next == job'[a]
<1>1. Shape(k) /\ Linked(k) /\ Locked(a, k) /\ Read(k) /\ k.kind \in FilingKinds
  BY DEF Inv, Sound, Shape
<1>2. Shape(next)
  BY <1>1 DEF Shape, FilingKinds, RowKinds, DocumentKinds, None
<1>3. Linked(job[a])'
  BY <1>1 DEF Linked, database
<1>4. Locked(a, job[a])'
  BY <1>1 DEF Locked, FilingKinds, DocumentKinds, locks
<1>5. Read(job[a])'
  <2>1. next.kind \in FilingKinds /\ (~next.expired => ~k.expired)
    BY <1>1
  <2>2. next.kind = "approve" /\ ~next.expired => ~VerifiedExists(next.client, next.type)
    BY <1>1, <2>1 DEF Read
  <2>3. next.kind = "replace" /\ ~next.expired => next.document \in FindVerifiedOfType(next.client, next.type, None)
    BY <1>1, <2>1 DEF Read
  <2>4. documents' = documents
    BY DEF database
  <2> QED
    BY <2>1, <2>2, <2>3, <2>4 DEF Read, VerifiedExists, FindVerifiedOfType, FilingKinds
<1> QED
  BY <1>2, <1>3, <1>4, <1>5 DEF Sound, Shape

LEMMA LeastNumber ==
  ASSUME NEW F \in SUBSET Nat, F # {}
  PROVE  \E n \in F : \A m \in F : n <= m
<1> DEFINE Less == {ss \in Nat \X Nat : ss[1] < ss[2]}
<1>1. \A m, n \in Nat : m < n => <<m, n>> \in Less
  OBVIOUS
<1>2. IsWellFoundedOn(Less, Nat)
  BY NatLessThanWellFounded DEF OpToRel
<1> HIDE DEF Less
<1>3. PICK n \in F : \A m \in F : <<m, n>> \notin Less
  BY <1>2, WFMin
<1>4. ASSUME NEW m \in F
      PROVE  n <= m
  <2>1. m \in Nat /\ n \in Nat /\ ~(m < n)
    BY <1>1, <1>3
  <2> QED
    BY <2>1
<1> QED
  BY <1>3, <1>4

LEMMA FreeNameIsName ==
  ASSUME NEW client \in Clients, NEW type \in FolderTypes, FreeNumbers(client, type) # {}
  PROVE  FreeName(client, type) \in Name
<1> DEFINE F == FreeNumbers(client, type)
           n == CHOOSE n \in F : \A m \in F : n <= m
<1>1. F \in SUBSET Nat /\ F \subseteq 1..MaxNames
  BY ReviewAssumption DEF FreeNumbers
<1>2. FreeName(client, type) = <<client, type, n>>
  BY DEF FreeName
<1>3. F # {}
  OBVIOUS
<1> HIDE DEF F
<1>4. \E m \in F : \A l \in F : m <= l
  BY <1>1, <1>3, LeastNumber
<1>5. n \in F
  BY <1>4
<1> HIDE DEF n
<1>6. n \in 1..MaxNames
  BY <1>1, <1>5
<1> QED
  BY <1>2, <1>6 DEF Name

LEMMA CopySound ==
  ASSUME Inv, NEW a \in Admins, Copy(a), UNCHANGED <<faults, undone, deleted, placing>>
  PROVE  Inv'
<1> DEFINE k == job[a]
           name == FreeName(k.client, k.type)
           next == [k EXCEPT !.pc = "commit", !.name = name]
<1>1. /\ job \in [Admins -> Job] /\ k \in Job /\ Shape(k) /\ k.pc = "copy" /\ k.kind \in FilingKinds
      /\ k.client \in Clients /\ k.type \in FolderTypes /\ k.item \in Items
      /\ folders \in [Name -> Contents \cup {None}] /\ Sha \in [Items -> Contents]
  BY ReviewAssumption DEF Inv, TypeOK, Sound, Shape, Copy
<1>2. CASE RollBack(a)
  BY <1>2, RollBackSound DEF Inv, TypeOK
<1>3. CASE /\ CanCopy(k)
           /\ folders' = [folders EXCEPT ![name] = Sha[k.item]]
           /\ job' = [job EXCEPT ![a].pc = "commit", ![a].name = name]
           /\ UNCHANGED <<database, pendingFiles, locks, requests>>
  <2>2. name \in Name
    BY <1>1, <1>3, FreeNameIsName DEF CanCopy
  <2> HIDE DEF name
  <2>3. job' = [job EXCEPT ![a] = next]
    BY <1>3
  <2>4. /\ next \in Job /\ next.pc = "commit" /\ next.name = name /\ next.kind = k.kind /\ next.item = k.item
        /\ next.document = k.document /\ next.client = k.client /\ next.type = k.type /\ next.expired = k.expired
    BY <1>1, <2>2 DEF Job, InTransaction
  <2> HIDE DEF next
  <2>5. job'[a] = next /\ job' \in [Admins -> Job] /\ \A b \in Admins \ {a} : job'[b] = job[b]
    BY <1>1, <2>3, <2>4
  <2>6. Sound(a)'
    BY <1>1, <1>3, <2>2, <2>4, <2>5, MoveOn
  <2>7. next.expired => NoLocks(a)
    BY <2>4, TypeOKParts DEF Inv
  <2>8. folders' \in [Name -> Contents \cup {None}]
    BY <1>1, <1>3
  <2>9. next.pc \in InTransaction
    BY <2>4 DEF InTransaction
  <2> QED
    BY <1>3, <2>5, <2>6, <2>7, <2>8, <2>9, LockFreeStep DEF Inv, TypeOK
<1> QED
  BY <1>2, <1>3 DEF Copy

LEMMA TimesOutSound ==
  ASSUME Inv, NEW a \in Admins, TimesOut(a), faults' \in 0..MaxFaults, UNCHANGED <<deleted, placing>>
  PROVE  Inv'
<1> DEFINE k == job[a]
           next == [k EXCEPT !.expired = TRUE]
<1>1. job \in [Admins -> Job] /\ k \in Job /\ k.pc = "copy"
  BY DEF Inv, TypeOK, TimesOut
<1>2. job' = [job EXCEPT ![a] = next]
  BY DEF TimesOut
<1>3. /\ next \in Job /\ next.pc = "copy" /\ next.name = k.name /\ next.kind = k.kind /\ next.item = k.item
      /\ next.document = k.document /\ next.client = k.client /\ next.type = k.type /\ next.expired
  BY <1>1 DEF Job
<1> HIDE DEF next
<1>4. job'[a] = next /\ job' \in [Admins -> Job] /\ \A b \in Admins \ {a} : job'[b] = job[b]
  BY <1>1, <1>2, <1>3
<1>5. Sound(a)'
  BY <1>1, <1>3, <1>4, MoveOn DEF TimesOut
<1>6. DataOK' /\ NoLocks(a)' /\ \A b \in Admins \ {a} : Spared(b)
  BY Released, <1>4 DEF TimesOut, DataOK, Inv, TypeOK, database, files, Spared
<1> QED
  BY <1>5, <1>6, QuietStep DEF TimesOut

LEMMA RemoveFilesSound ==
  ASSUME Inv, NEW a \in Admins, RemoveFiles(a), UNCHANGED <<faults, undone, placing>>
  PROVE  Inv'
<1> DEFINE k == job[a]
           next == [k EXCEPT !.pc = "commit"]
<1>1. job \in [Admins -> Job] /\ k \in Job /\ Shape(k) /\ k.pc = "removeFiles" /\ k.kind = "delete" /\ k.item \in Items
  BY DEF Inv, TypeOK, RemoveFiles, Sound, Shape, RowKinds
<1>2. job' = [job EXCEPT ![a] = next]
  BY DEF RemoveFiles
<1>3. /\ next \in Job /\ next.pc = "commit" /\ next.kind = "delete" /\ next.item = k.item /\ next.expired = k.expired
      /\ Shape(next) /\ ~next.expired
  BY <1>1 DEF Job, Shape, InTransaction, FilingKinds, RowKinds, DocumentKinds, None
<1> HIDE DEF next
<1>4. job'[a] = next /\ job' \in [Admins -> Job] /\ \A b \in Admins \ {a} : job'[b] = job[b]
  BY <1>1, <1>2, <1>3
<1>5. Sound(a)'
  BY <1>3, <1>4 DEF Sound, Shape, Linked, Locked, Read, FilingKinds, DocumentKinds
<1>6. next.pc \in InTransaction
  BY <1>3 DEF InTransaction
<1> QED
  BY <1>1, <1>3, <1>4, <1>5, <1>6, LockFreeStep DEF RemoveFiles, Inv, TypeOK


----------------------------------------------------------------------------
(* Commits *)

\* The step of VerifiedKept.
Kept ==
  /\ \A c \in Clients, t \in FolderTypes : VerifiedExists(c, t) => VerifiedExists(c, t)'
  /\ \A d \in DocIds : documents[d].status \in {"VERIFIED", "SUPERSEDED"} =>
       documents'[d].status \in {"VERIFIED", "SUPERSEDED"}

\* The step of OneVerifiedPerType.
OneByOne ==
  \A d \in DocIds :
    documents[d].status # "VERIFIED" /\ documents'[d].status = "VERIFIED" /\ ~FiledNow =>
      LET others == FindVerifiedOfType(documents'[d].client, documents'[d].type, d)
      IN others = {} \/ \E e \in others : documents'[e].status = "SUPERSEDED"

LEMMA NoneAdded ==
  ASSUME \A d \in DocIds : documents'[d].status = "VERIFIED" => documents[d].status = "VERIFIED"
  PROVE  OneByOne
BY DEF OneByOne

LEMMA KeptIfVerifiedStay ==
  ASSUME \A d \in DocIds :
           /\ documents[d].status = "VERIFIED" =>
                /\ documents'[d].status = "VERIFIED"
                /\ documents'[d].client = documents[d].client /\ documents'[d].type = documents[d].type
           /\ documents[d].status = "SUPERSEDED" => documents'[d].status = "SUPERSEDED"
  PROVE  Kept
BY DEF Kept, VerifiedExists, FindVerifiedOfType

LEMMA FileSound ==
  ASSUME Inv, NEW a \in Admins, job[a].pc = "commit", ~job[a].expired, job[a].kind \in FilingKinds,
         NEW d \in DocIds, File(job[a], d)
  PROVE  /\ rows' \in [Items -> Row] /\ documents' \in [DocIds -> Document]
         /\ LinksKept /\ \A b \in Admins \ {a} : Undisturbed(b)
         /\ Kept /\ OneByOne
<1> DEFINE k == job[a]
<1>1. /\ k \in Job /\ k.item \in Items /\ k.client \in Clients /\ k.type \in FolderTypes /\ k.name \in Name
      /\ clientLock[k.client] = a
      /\ k.kind = "approve" => ~VerifiedExists(k.client, k.type)
      /\ k.kind = "replace" => k.document \in FindVerifiedOfType(k.client, k.type, None)
      /\ documents \in [DocIds -> Document] /\ rows \in [Items -> Row] /\ Sha \in [Items -> Contents]
  <2>1. Shape(k) /\ Locked(a, k) /\ Read(k) /\ k \in Job /\ documents \in [DocIds -> Document] /\ rows \in [Items -> Row]
    BY DEF Inv, Sound, TypeOK
  <2> HIDE DEF k
  <2>2. k.pc = "commit" /\ ~k.expired /\ k.kind \in FilingKinds
    BY DEF k
  <2> QED
    BY <2>1, <2>2, ReviewAssumption DEF Shape, Locked, Read, FilingKinds
<1>2. /\ documents[d].status = "NONE"
      /\ documents' = [e \in DocIds |->
           CASE e = d -> Filed(k)
             [] e # d /\ k.kind = "replace" /\ e = k.document -> [documents[e] EXCEPT !.status = "SUPERSEDED"]
             [] OTHER -> documents[e]]
      /\ rows' = [rows EXCEPT ![k.item].state = "RESOLVED"]
  BY DEF File, Stored
<1> DEFINE filed == Filed(k)
<1>3. /\ filed \in StoredDocument /\ filed.client = k.client /\ filed.type = k.type
      /\ filed.status = IF k.kind = "version" THEN "REVIEW_REQUIRED" ELSE "VERIFIED"
  BY <1>1 DEF Filed, StoredDocument, Job
<1> HIDE DEF filed
<1>4. /\ documents'[d] = filed
      /\ \A e \in DocIds \ {d} :
           documents'[e] = IF k.kind = "replace" /\ e = k.document
                           THEN [documents[e] EXCEPT !.status = "SUPERSEDED"] ELSE documents[e]
  BY <1>2 DEF filed
<1>5. rows' \in [Items -> Row] /\ LinksKept
  <2> DEFINE row == [rows[k.item] EXCEPT !.state = "RESOLVED"]
  <2>1. rows' = [rows EXCEPT ![k.item] = row] /\ row \in Row /\ row.client = rows[k.item].client
    BY <1>1, <1>2 DEF Row
  <2> HIDE DEF row
  <2> QED
    BY <1>1, <2>1 DEF LinksKept
<1>6. k.kind = "replace" => /\ k.document \in DocIds \ {d} /\ documents[k.document].status = "VERIFIED"
                            /\ documents[k.document].client = k.client /\ documents[k.document].type = k.type
  BY <1>1, <1>2 DEF FindVerifiedOfType
<1>7. ASSUME NEW e \in DocIds \ {d}
      PROVE  /\ documents'[e] \in Document
             /\ documents'[e].client = documents[e].client /\ documents'[e].type = documents[e].type
             /\ documents'[e].status = IF k.kind = "replace" /\ e = k.document THEN "SUPERSEDED" ELSE documents[e].status
  <2>1. CASE k.kind = "replace" /\ e = k.document
    <3>1. documents[e] \in StoredDocument
      BY <1>1, <1>6, <2>1 DEF Document, NoDocument
    <3> DEFINE old == documents[e]
               new == [old EXCEPT !.status = "SUPERSEDED"]
    <3>2. new \in StoredDocument /\ new.client = old.client /\ new.type = old.type /\ new.status = "SUPERSEDED"
      BY <3>1 DEF StoredDocument
    <3>3. documents'[e] = new
      BY <1>4, <2>1
    <3> HIDE DEF new
    <3> QED
      BY <2>1, <3>2, <3>3 DEF Document
  <2>2. CASE ~(k.kind = "replace" /\ e = k.document)
    BY <1>1, <1>4, <2>2
  <2> QED
    BY <2>1, <2>2
<1>8. documents' \in [DocIds -> Document]
  <2>1. \A e \in DocIds : documents'[e] \in Document
    BY <1>3, <1>4, <1>7 DEF Document
  <2> QED
    BY <1>2, <2>1
<1>9. OneByOne
  <2>1. CASE k.kind = "version"
    BY <1>3, <1>4, <1>7, <2>1, NoneAdded
  <2>2. CASE k.kind # "version"
    <3>1. ASSUME NEW e \in DocIds, documents[e].status # "VERIFIED", documents'[e].status = "VERIFIED"
          PROVE  e = d
      BY <1>7, <3>1
    <3>2. documents'[d].client = k.client /\ documents'[d].type = k.type
      BY <1>3, <1>4
    <3>3. FindVerifiedOfType(k.client, k.type, d) = FindVerifiedOfType(k.client, k.type, None)
      BY <1>2, ReviewAssumption DEF FindVerifiedOfType
    <3>4. k.kind = "approve" => FindVerifiedOfType(k.client, k.type, None) = {}
      BY <1>1 DEF VerifiedExists
    <3>5. k.kind = "replace" => /\ k.document \in FindVerifiedOfType(k.client, k.type, None)
                                /\ documents'[k.document].status = "SUPERSEDED"
      BY <1>1, <1>6, <1>7
    <3> QED
      BY <2>2, <3>1, <3>2, <3>3, <3>4, <3>5 DEF OneByOne, FilingKinds
  <2> QED
    BY <2>1, <2>2
<1>10. ASSUME NEW b \in Admins \ {a}
       PROVE  Undisturbed(b)
  BY <1>1, <1>2, <1>3, <1>4, <1>5, <1>6, <1>7 DEF Undisturbed, InReview, Stored
<1>11. Kept
  <2>1. CASE k.kind = "replace"
    <3>1. filed.status = "VERIFIED"
      BY <1>3, <2>1
    <3>2. ASSUME NEW c \in Clients, NEW t \in FolderTypes, VerifiedExists(c, t)
          PROVE  VerifiedExists(c, t)'
      <4>1. PICK e \in DocIds \ {None} :
              documents[e].status = "VERIFIED" /\ documents[e].client = c /\ documents[e].type = t
        BY <3>2 DEF VerifiedExists, FindVerifiedOfType
      <4>2. e # d /\ d # None
        BY <1>2, <4>1, ReviewAssumption
      <4>3. CASE e = k.document
        <5>1. documents'[d].status = "VERIFIED" /\ documents'[d].client = c /\ documents'[d].type = t
          BY <1>3, <1>4, <1>6, <2>1, <3>1, <4>1, <4>3
        <5> QED
          BY <4>2, <5>1 DEF VerifiedExists, FindVerifiedOfType
      <4>4. CASE e # k.document
        <5>1. documents'[e].status = "VERIFIED" /\ documents'[e].client = c /\ documents'[e].type = t
          BY <1>7, <4>1, <4>2, <4>4
        <5> QED
          BY <4>1, <5>1 DEF VerifiedExists, FindVerifiedOfType
      <4> QED
        BY <4>3, <4>4
    <3>3. \A e \in DocIds : documents[e].status \in {"VERIFIED", "SUPERSEDED"} =>
                              documents'[e].status \in {"VERIFIED", "SUPERSEDED"}
      BY <1>2, <1>7
    <3> QED
      BY <3>2, <3>3 DEF Kept
  <2>2. CASE k.kind # "replace"
    BY <1>2, <1>7, <2>2, KeptIfVerifiedStay
  <2> QED
    BY <2>1, <2>2
<1> QED
  BY <1>5, <1>8, <1>9, <1>10, <1>11

LEMMA ChangeDocumentSound ==
  ASSUME Inv, NEW a \in Admins, job[a].pc = "commit", job[a].kind \in DocumentKinds, ChangeDocument(job[a])
  PROVE  /\ rows' \in [Items -> Row] /\ documents' \in [DocIds -> Document]
         /\ LinksKept /\ \A b \in Admins \ {a} : Undisturbed(b)
         /\ Kept /\ OneByOne
<1> DEFINE k == job[a]
           old == documents[k.document]
           new == Changed(k, old)
<1>1. /\ k.kind \in DocumentKinds /\ k.document \in DocIds /\ documentLock[k.document] = a
      /\ documents \in [DocIds -> Document] /\ rows \in [Items -> Row] /\ k \in Job
      /\ k.kind \in {"approveDocument", "removeDocument", "keepDocument"} => old.status = "REVIEW_REQUIRED"
      /\ k.kind = "setDate" => old.status # "NONE"
      /\ k.kind = "approveDocument" =>
           /\ clientLock[k.client] = a /\ old.client = k.client /\ old.type = k.type
           /\ FindVerifiedOfType(k.client, k.type, k.document) = {}
  <2>1. Shape(k) /\ Locked(a, k) /\ Read(k) /\ k \in Job /\ documents \in [DocIds -> Document] /\ rows \in [Items -> Row]
        /\ k.pc = "commit" /\ k.kind \in DocumentKinds
    BY DEF Inv, Sound, TypeOK
  <2> HIDE DEF k
  <2> QED
    BY <2>1 DEF Shape, Locked, Read, DocumentKinds, InReview, Stored
<1>2. documents' = [documents EXCEPT ![k.document] = new] /\ rows' = rows
  BY DEF ChangeDocument
<1>3. old \in StoredDocument
  <2>1. old.status # "NONE" /\ old \in Document
    BY <1>1 DEF DocumentKinds
  <2> QED
    BY <2>1 DEF Document, NoDocument
<1>4. /\ new \in Document
      /\ k.kind = "approveDocument" => new.status = "VERIFIED" /\ new.client = old.client /\ new.type = old.type
      /\ k.kind = "removeDocument" => new.status = "NONE"
      /\ k.kind \in {"keepDocument", "setDate"} =>
           new.status = old.status /\ new.client = old.client /\ new.type = old.type
  <2>1. CASE k.kind = "approveDocument"
    <3> DEFINE dated == old.dated \/ k.date
    <3>1. dated \in BOOLEAN
      OBVIOUS
    <3>2. new = [old EXCEPT !.status = "VERIFIED", !.dated = dated]
      BY <2>1 DEF Changed
    <3> HIDE DEF dated
    <3> QED
      BY <1>3, <2>1, <3>1, <3>2 DEF Document, StoredDocument
  <2>2. CASE k.kind = "removeDocument"
    <3>1. new = NoDocument
      BY <2>2 DEF Changed
    <3> QED
      BY <2>2, <3>1 DEF Document, NoDocument
  <2>3. CASE k.kind = "setDate"
    <3>1. new = [old EXCEPT !.dated = TRUE]
      BY <2>3 DEF Changed
    <3> QED
      BY <1>3, <2>3, <3>1 DEF Document, StoredDocument
  <2>4. CASE k.kind = "keepDocument"
    <3>1. new = old
      BY <2>4 DEF Changed
    <3> QED
      BY <1>3, <2>4, <3>1 DEF Document
  <2> QED
    BY <1>1, <2>1, <2>2, <2>3, <2>4 DEF DocumentKinds
<1> HIDE DEF new
<1>5. documents'[k.document] = new /\ \A e \in DocIds \ {k.document} : documents'[e] = documents[e]
  BY <1>1, <1>2
<1>6. rows' \in [Items -> Row] /\ documents' \in [DocIds -> Document] /\ LinksKept
  BY <1>1, <1>2, <1>4 DEF LinksKept
<1>7. OneByOne
  <2>1. CASE k.kind = "approveDocument"
    <3>1. \A e \in DocIds : documents[e].status # "VERIFIED" /\ documents'[e].status = "VERIFIED" => e = k.document
      BY <1>5
    <3>2. FindVerifiedOfType(documents'[k.document].client, documents'[k.document].type, k.document) = {}
      BY <1>1, <1>4, <1>5, <2>1
    <3> QED
      BY <3>1, <3>2 DEF OneByOne
  <2>2. CASE k.kind \in {"removeDocument", "keepDocument", "setDate"}
    BY <1>4, <1>5, <2>2, NoneAdded
  <2> QED
    BY <1>1, <2>1, <2>2 DEF DocumentKinds
<1>8. ASSUME NEW b \in Admins \ {a}
      PROVE  Undisturbed(b)
  <2>1. documentLock[k.document] # b
    BY <1>1
  <2>2. k.kind = "approveDocument" => clientLock[new.client] # b /\ old.status # "VERIFIED"
    BY <1>1, <1>4
  <2>3. k.kind \in {"removeDocument", "keepDocument"} => old.status # "VERIFIED"
    BY <1>1
  <2>4. k.kind \in {"approveDocument", "removeDocument", "keepDocument", "setDate"}
    BY <1>1 DEF DocumentKinds
  <2> QED
    BY <1>4, <1>5, <1>6, <2>1, <2>2, <2>3, <2>4 DEF Undisturbed, InReview, Stored
<1>9. Kept
  <2>1. k.kind \in {"approveDocument", "removeDocument", "keepDocument", "setDate"}
    BY <1>1 DEF DocumentKinds
  <2> QED
    BY <1>1, <1>4, <1>5, <2>1, KeptIfVerifiedStay
<1> QED
  BY <1>6, <1>7, <1>8, <1>9

LEMMA ChangeRowSound ==
  ASSUME Inv, NEW a \in Admins, job[a].kind \in RowKinds, ChangeRow(job[a])
  PROVE  /\ rows' \in [Items -> Row] /\ documents' \in [DocIds -> Document]
         /\ LinksKept /\ \A b \in Admins \ {a} : Undisturbed(b)
         /\ Kept /\ OneByOne
<1> DEFINE k == job[a]
           old == rows[k.item]
           new == CASE k.kind \in {"remove", "delete"} -> [old EXCEPT !.state = "GONE"]
                    [] k.kind = "setType" -> [old EXCEPT !.type = k.type]
                    [] k.kind = "assign" -> [old EXCEPT !.client = k.client]
                    [] OTHER -> old
<1>1. /\ k.kind \in RowKinds /\ k.item \in Items /\ old \in Row /\ rows \in [Items -> Row]
      /\ documents \in [DocIds -> Document]
      /\ k.kind = "setType" => k.type \in Types
      /\ k.kind = "assign" => k.client \in Clients
  BY DEF Inv, Sound, TypeOK, Shape
<1>2. rows' = [rows EXCEPT ![k.item] = new]
  BY DEF ChangeRow
<1>3. new \in Row /\ (old.client \in Clients => new.client \in Clients)
  BY <1>1 DEF Row, RowKinds
<1>4. \A d \in DocIds :
        documents'[d] = IF k.kind \in {"remove", "delete"} /\ documents[d].from = k.item
                        THEN [documents[d] EXCEPT !.from = None] ELSE documents[d]
  BY DEF ChangeRow
<1>5. \A d \in DocIds :
        /\ documents'[d] \in Document
        /\ documents'[d].status = documents[d].status /\ documents'[d].client = documents[d].client
        /\ documents'[d].type = documents[d].type
  <2> SUFFICES ASSUME NEW d \in DocIds
               PROVE  /\ documents'[d] \in Document
                      /\ documents'[d].status = documents[d].status /\ documents'[d].client = documents[d].client
                      /\ documents'[d].type = documents[d].type
    OBVIOUS
  <2>1. CASE documents[d].from = k.item
    <3>1. documents[d] \in StoredDocument
      BY <1>1, <2>1, ReviewAssumption DEF Document, NoDocument
    <3> DEFINE cut == [documents[d] EXCEPT !.from = None]
    <3>2. cut \in Document /\ cut.status = documents[d].status /\ cut.client = documents[d].client
          /\ cut.type = documents[d].type
      BY <3>1 DEF Document, StoredDocument
    <3>3. documents'[d] = cut \/ documents'[d] = documents[d]
      BY <1>4
    <3> HIDE DEF cut
    <3> QED
      BY <1>1, <3>2, <3>3
  <2>2. CASE documents[d].from # k.item
    BY <1>1, <1>4, <2>2
  <2> QED
    BY <2>1, <2>2
<1>6. documents' = [d \in DocIds |-> documents'[d]]
  BY <1>1 DEF ChangeRow
<1> HIDE DEF new
<1>7. rows' \in [Items -> Row] /\ documents' \in [DocIds -> Document] /\ LinksKept
  BY <1>1, <1>2, <1>3, <1>5, <1>6 DEF LinksKept
<1>8. Kept /\ OneByOne
  BY <1>5, KeptIfVerifiedStay, NoneAdded
<1> QED
  BY <1>1, <1>5, <1>7, <1>8 DEF Undisturbed, InReview, Stored

LEMMA CommitSound ==
  ASSUME Inv, NEW a \in Admins, Commit(a), UNCHANGED <<faults, undone, deleted, placing>>
  PROVE  Inv'
<1> DEFINE k == job[a]
           next == Committed(k)
<1>1. /\ k.pc = "commit" /\ ~k.expired /\ Release(a) /\ job' = [job EXCEPT ![a] = next]
      /\ UNCHANGED <<files, requests>>
      /\ \/ k.kind \in FilingKinds /\ \E d \in DocIds : File(k, d)
         \/ k.kind \in DocumentKinds /\ ChangeDocument(k)
         \/ k.kind \in RowKinds /\ ChangeRow(k)
  BY DEF Commit
<1>2. /\ rows' \in [Items -> Row] /\ documents' \in [DocIds -> Document]
      /\ LinksKept /\ \A b \in Admins \ {a} : Undisturbed(b)
  BY <1>1, FileSound, ChangeDocumentSound, ChangeRowSound
<1>3. /\ job \in [Admins -> Job] /\ k \in Job /\ Shape(k) /\ Linked(k) /\ documents \in [DocIds -> Document]
  BY DEF Inv, Sound, TypeOK
<1>4. next = Idle \/ /\ next \in Job /\ next.pc = "tidy" /\ next.kind = k.kind /\ next.item = k.item /\ Shape(next)
  <2>1. CASE k.kind \in FilingKinds \cup {"remove", "removeDocument"}
    <3> DEFINE name == Unshared(k)
    <3>1. name \in Name \cup {NoName}
      <4>1. k.kind = "removeDocument" => k.document \in DocIds /\ documents[k.document].name \in Name \cup {NoName}
        BY <1>3 DEF Shape, DocumentKinds, Document, StoredDocument, NoDocument
      <4>2. k.name \in Name \cup {NoName}
        BY <1>3 DEF Job
      <4> QED
        BY <4>1, <4>2 DEF Unshared
    <3>2. next = [k EXCEPT !.pc = "tidy", !.name = name]
      BY <2>1 DEF Committed
    <3> HIDE DEF name, next
    <3>3. /\ next \in Job /\ next.pc = "tidy" /\ next.kind = k.kind /\ next.item = k.item /\ next.document = k.document
          /\ next.expired = k.expired
      BY <1>3, <3>1, <3>2 DEF Job
    <3> QED
      BY <1>1, <1>3, <2>1, <3>3 DEF Shape, FilingKinds, RowKinds, DocumentKinds
  <2>2. CASE k.kind \notin FilingKinds \cup {"remove", "removeDocument"}
    BY <2>2 DEF Committed
  <2> QED
    BY <2>1, <2>2
<1> HIDE DEF next
<1>5. /\ job'[a] = next /\ next \in Job /\ Shape(next) /\ job' \in [Admins -> Job]
      /\ \A b \in Admins \ {a} : job'[b] = job[b]
  BY <1>1, <1>3, <1>4, IdleSound, ReviewAssumption
<1>6. Linked(job[a])'
  <2>1. CASE next = Idle
    BY <1>5, <2>1 DEF Linked, Idle, FilingKinds, None
  <2>2. CASE next.kind = k.kind /\ next.item = k.item
    BY <1>2, <1>3, <1>5, <2>2 DEF FilingKinds, Linked, LinksKept, Shape
  <2> QED
    BY <1>4, <2>1, <2>2
<1>7. next.pc \in {"idle", "tidy"}
  BY <1>4 DEF Idle
<1>8. Sound(a)'
  BY <1>5, <1>6, <1>7 DEF Sound, Shape, Locked, Read
<1>9. DataOK' /\ NoLocks(a)' /\ \A b \in Admins \ {a} : Spared(b)
  BY <1>1, <1>2, <1>5, Released DEF DataOK, Inv, TypeOK, files, Spared
<1> QED
  BY <1>2, <1>8, <1>9, Together

LEMMA AnswerLostSound ==
  ASSUME Inv, NEW a \in Admins, AnswerLost(a), faults' \in 0..MaxFaults, UNCHANGED <<deleted, placing>>
  PROVE  Inv'
<1> DEFINE k == job[a]
<1>1. PICK d \in DocIds : File(k, d)
  BY DEF AnswerLost
<1>2. k.pc = "commit" /\ ~k.expired /\ k.kind \in FilingKinds /\ Release(a) /\ GivesUp(a) /\ UNCHANGED <<files, requests>>
      /\ undone' = undone \cup {k.name}
  BY DEF AnswerLost
<1>3. /\ rows' \in [Items -> Row] /\ documents' \in [DocIds -> Document]
      /\ LinksKept /\ \A b \in Admins \ {a} : Undisturbed(b)
  BY <1>1, <1>2, FileSound
<1>4. k.name \in Name
  BY <1>2 DEF Inv, Sound, Shape
<1> QED
  BY <1>2, <1>3, <1>4, GivesUpSound DEF files, Inv, TypeOK

----------------------------------------------------------------------------
(* The worker, and the result *)

LEMMA FiledByWorkerSound ==
  ASSUME Inv, NEW i \in Items, NEW d \in DocIds, NEW status \in {"VERIFIED", "REVIEW_REQUIRED"}, NEW dated \in BOOLEAN,
         FiledByWorker(i, d, status, dated)
  PROVE  /\ rows' \in [Items -> Row] /\ documents' \in [DocIds -> Document]
         /\ pendingFiles' \subseteq Items /\ folders' \in [Name -> Contents \cup {None}]
         /\ \A a \in Admins : Undisturbed(a)
         /\ Kept /\ OneByOne
<1> DEFINE client == rows[i].client
           type == rows[i].type
           name == FreeName(client, type)
           filed == [status |-> status, client |-> client, type |-> type, content |-> Sha[i], name |-> name,
                     dated |-> dated, from |-> i]
           row == [rows[i] EXCEPT !.state = "RESOLVED"]
<1>1. /\ rows \in [Items -> Row] /\ documents \in [DocIds -> Document] /\ pendingFiles \subseteq Items
      /\ folders \in [Name -> Contents \cup {None}] /\ Sha \in [Items -> Contents]
  BY ReviewAssumption DEF Inv, TypeOK
<1>2. /\ ~Stored(d) /\ client \in Clients /\ type \in FolderTypes /\ clientLock[client] = None
      /\ FreeNumbers(client, type) # {}
      /\ documents' = [documents EXCEPT ![d] = filed]
      /\ folders' = [folders EXCEPT ![name] = Sha[i]]
      /\ rows' = [rows EXCEPT ![i] = row]
      /\ UNCHANGED pendingFiles
  BY <1>1 DEF FiledByWorker, Row
<1>3. name \in Name
  BY <1>2, FreeNameIsName
<1> HIDE DEF name
<1>4. filed \in Document /\ filed.status = status /\ filed.client = client /\ filed.type = type
  BY <1>1, <1>2, <1>3 DEF Document, StoredDocument
<1>5. row \in Row /\ row.client = client
  BY <1>1 DEF Row
<1> HIDE DEF filed, row
<1>6. documents'[d] = filed /\ \A e \in DocIds \ {d} : documents'[e] = documents[e]
  BY <1>1, <1>2
<1>7. /\ rows' \in [Items -> Row] /\ documents' \in [DocIds -> Document]
      /\ pendingFiles' \subseteq Items /\ folders' \in [Name -> Contents \cup {None}]
      /\ LinksKept
  BY <1>1, <1>2, <1>4, <1>5 DEF LinksKept
<1>9. OneByOne
  <2>1. FiledNow
    <3>1. rows[i].state = "RECEIVED" /\ rows' = [rows EXCEPT ![i].state = "RESOLVED"]
      BY DEF FiledByWorker
    <3> QED
      BY <1>1, <3>1 DEF FiledNow
  <2> QED
    BY <2>1 DEF OneByOne
<1>10. ASSUME NEW a \in Admins
       PROVE  Undisturbed(a)
  BY <1>2, <1>4, <1>6, <1>7, ReviewAssumption DEF Undisturbed, InReview, Stored
<1>11. Kept
  BY <1>2, <1>6, KeptIfVerifiedStay DEF Stored
<1> QED
  BY <1>7, <1>9, <1>10, <1>11

LEMMA WorkerSound ==
  ASSUME Inv, Worker
  PROVE  Inv'
<1>1. UNCHANGED <<locks, job, requests, faults, undone, deleted>>
  BY DEF Worker
<1>2. /\ rows' \in [Items -> Row] /\ documents' \in [DocIds -> Document]
      /\ pendingFiles' \subseteq Items /\ folders' \in [Name -> Contents \cup {None}]
      /\ placing' \subseteq Items /\ \A a \in Admins : Undisturbed(a)
  <2>1. ASSUME NEW i \in Items, HeldForReview(i)
        PROVE  /\ rows' \in [Items -> Row] /\ documents' \in [DocIds -> Document]
               /\ pendingFiles' \subseteq Items /\ folders' \in [Name -> Contents \cup {None}]
               /\ placing' \subseteq Items /\ \A a \in Admins : Undisturbed(a)
    <3> DEFINE row == [rows[i] EXCEPT !.state = "WAITING"]
    <3>1. /\ rows \in [Items -> Row] /\ documents \in [DocIds -> Document] /\ pendingFiles \subseteq Items
          /\ folders \in [Name -> Contents \cup {None}]
      BY DEF Inv, TypeOK
    <3>2. /\ rows' = [rows EXCEPT ![i] = row] /\ row \in Row /\ row.client = rows[i].client
          /\ documents' = documents /\ folders' = folders /\ pendingFiles' = pendingFiles \cup {i}
      BY <2>1, <3>1 DEF HeldForReview, Row
    <3> HIDE DEF row
    <3>3. rows' \in [Items -> Row] /\ LinksKept
      BY <3>1, <3>2 DEF LinksKept
    <3>4. placing' \subseteq Items
      BY <2>1 DEF HeldForReview, Inv, TypeOK
    <3> QED
      BY <3>1, <3>2, <3>3, <3>4 DEF Undisturbed, InReview, Stored
  <2>2. ASSUME NEW i \in Items, FindsNoVerified(i)
        PROVE  UNCHANGED <<database, files>> /\ placing' \subseteq Items
    BY <2>2 DEF FindsNoVerified, Inv, TypeOK
  <2>3. ASSUME NEW i \in Items, NEW d \in DocIds, NEW status, NEW dated, FiledByWorker(i, d, status, dated)
        PROVE  placing' \subseteq Items
    BY <2>3 DEF FiledByWorker, Inv, TypeOK
  <2>4. CASE UNCHANGED <<database, files>> /\ placing' \subseteq Items
    BY <2>4, SameDatabase DEF database, files, Inv, TypeOK
  <2>5. CASE \E i \in Items : HeldForReview(i)
    BY <2>1, <2>5
  <2>6. CASE \E i \in Items, d \in DocIds, status \in {"VERIFIED", "REVIEW_REQUIRED"}, dated \in BOOLEAN :
               FiledByWorker(i, d, status, dated)
    BY <2>3, <2>6, FiledByWorkerSound
  <2> QED
    BY <2>2, <2>4, <2>5, <2>6 DEF Worker
<1>3. \A a \in Admins : Spared(a)
  BY <1>1 DEF locks, Spared
<1>4. \A a \in Admins : Sound(a)'
  BY <1>2, <1>3, OthersSound
<1>5. TypeOK'
  BY <1>1, <1>2 DEF Inv, TypeOK, locks
<1> QED
  BY <1>2, <1>4, <1>5 DEF Inv

LEMMA InitSound == Init => Inv
<1> SUFFICES ASSUME Init PROVE Inv
  OBVIOUS
<1>1. PICK b \in Beginnings : rows = b.rows /\ documents = b.documents
  BY DEF Init
<1>2. rows \in [Items -> Row] /\ documents \in [DocIds -> Document]
  BY <1>1, ReviewAssumption
<1>3. \A d \in DocIds : documents[d].content \in Contents \cup {None}
  BY <1>2 DEF Document, StoredDocument, NoDocument
<1>4. folders \in [Name -> Contents \cup {None}]
  <2>1. ASSUME NEW n \in Name, \E d \in DocIds : documents[d].name = n
        PROVE  documents[CHOOSE d \in DocIds : documents[d].name = n].content \in Contents \cup {None}
    <3>1. (CHOOSE d \in DocIds : documents[d].name = n) \in DocIds
      BY <2>1
    <3> QED
      BY <1>3, <3>1
  <2> QED
    BY <2>1 DEF Init
<1>5. job = [a \in Admins |-> Idle] /\ Idle \in Job /\ Shape(Idle)
  BY IdleSound, ReviewAssumption DEF Init
<1>6. TypeOK
  BY <1>2, <1>4, <1>5, ReviewAssumption DEF Init, TypeOK
<1>7. ASSUME NEW a \in Admins
      PROVE  Sound(a)
  <2>1. job[a] = Idle /\ Idle.pc = "idle" /\ Idle.kind = None
    BY <1>5 DEF Idle
  <2> QED
    BY <1>5, <2>1 DEF Sound, Linked, Locked, Read, FilingKinds, DocumentKinds, None
<1> QED
  BY <1>2, <1>6, <1>7 DEF Inv

LEMMA NextSound == Inv /\ [Next]_vars => Inv'
<1> SUFFICES ASSUME Inv, [Next]_vars PROVE Inv'
  OBVIOUS
<1>1. ASSUME NEW a \in Admins, Step(a), UNCHANGED placing
      PROVE  Inv'
  <2>1. UNCHANGED <<faults, undone, placing>>
    BY <1>1 DEF Step
  <2>2. CASE RemoveFiles(a)
    BY <2>1, <2>2, RemoveFilesSound
  <2>3. CASE UNCHANGED deleted /\ (Tidy(a) \/ Undo(a))
    BY <2>1, <2>3, EndingsSound DEF Inv, TypeOK
  <2>4. CASE UNCHANGED deleted /\ Expired(a)
    BY <2>1, <2>4, RollBackSound DEF Expired, Inv, TypeOK
  <2>5. CASE UNCHANGED deleted /\ (Download(a) \/ LockRow(a) \/ LockClient(a) \/ LockDocument(a) \/ Copy(a) \/ Commit(a))
    BY <2>1, <2>5, DownloadSound, LockRowSound, LockClientSound, LockDocumentSound, CopySound, CommitSound
  <2> QED
    BY <1>1, <2>2, <2>3, <2>4, <2>5 DEF Step
<1>2. ASSUME NEW a \in Admins, Fault(a), UNCHANGED placing
      PROVE  Inv'
  <2>1. faults' \in 0..MaxFaults /\ UNCHANGED <<deleted, placing>>
    BY <1>2, ReviewAssumption DEF Fault, Inv, TypeOK
  <2>2. CASE Fails(a)
    BY <2>1, <2>2, RollBackSound DEF Fails
  <2>3. CASE TimesOut(a)
    BY <2>1, <2>3, TimesOutSound
  <2>4. CASE AnswerLost(a)
    BY <2>1, <2>4, AnswerLostSound
  <2>5. CASE RemovalFails(a)
    BY <2>1, <2>5, EndingsSound DEF RemovalFails
  <2>6. CASE Dies(a)
    BY <2>1, <2>6, DiesSound
  <2> QED
    BY <1>2, <2>2, <2>3, <2>4, <2>5, <2>6 DEF Fault
<1>3. CASE UNCHANGED vars
  BY <1>3 DEF vars, Inv, TypeOK, Sound, Shape, Linked, Locked, Read,
     VerifiedExists, FindVerifiedOfType, InReview, Stored
<1> QED
  BY <1>1, <1>2, <1>3, RequestSound, WorkerSound DEF Next

LEMMA NextKept == Inv /\ [Next]_vars => Kept /\ OneByOne
<1> SUFFICES ASSUME Inv, [Next]_vars PROVE Kept /\ OneByOne
  OBVIOUS
<1>1. CASE UNCHANGED documents
  BY <1>1, KeptIfVerifiedStay, NoneAdded
<1>2. ASSUME NEW a \in Admins, Commit(a)
      PROVE  Kept /\ OneByOne
  <2>1. /\ job[a].pc = "commit" /\ ~job[a].expired
        /\ \/ job[a].kind \in FilingKinds /\ \E d \in DocIds : File(job[a], d)
           \/ job[a].kind \in DocumentKinds /\ ChangeDocument(job[a])
           \/ job[a].kind \in RowKinds /\ ChangeRow(job[a])
    BY <1>2 DEF Commit
  <2> QED
    BY <2>1, FileSound, ChangeDocumentSound, ChangeRowSound
<1>3. ASSUME NEW a \in Admins, AnswerLost(a)
      PROVE  Kept /\ OneByOne
  <2>1. job[a].pc = "commit" /\ ~job[a].expired /\ job[a].kind \in FilingKinds /\ \E d \in DocIds : File(job[a], d)
    BY <1>3 DEF AnswerLost
  <2> QED
    BY <2>1, FileSound
<1>4. ASSUME NEW a \in Admins, Step(a)
      PROVE  Commit(a) \/ UNCHANGED documents
  BY <1>4 DEF Step, RemoveFiles, Download, LockRow, LockClient, LockDocument, Copy, Expired, Tidy, Undo, RollBack, database
<1>5. ASSUME NEW a \in Admins, Fault(a)
      PROVE  AnswerLost(a) \/ UNCHANGED documents
  BY <1>5 DEF Fault, Fails, TimesOut, RemovalFails, Dies, RollBack, database
<1>6. ASSUME NEW a \in Admins, Request(a)
      PROVE  UNCHANGED documents
  BY <1>6 DEF Request, Begin, database, Approve, ReplaceVerifiedDocument, KeepDocumentAsVersion, ApproveDocument,
     RemoveStoredDocument, SetPoliceSubmittedDate, KeepReviewItemPending, KeepDocumentPending, RemoveFromReview,
     DeleteTemporaryDocument, SetDocumentType, AssignClient
<1>7. ASSUME Worker
      PROVE  Kept /\ OneByOne
  BY <1>1, <1>7, FiledByWorkerSound DEF Worker, HeldForReview, FindsNoVerified, database
<1>8. UNCHANGED vars => UNCHANGED documents
  BY DEF vars
<1> QED
  BY <1>1, <1>2, <1>3, <1>4, <1>5, <1>6, <1>7, <1>8 DEF Next

\* Types of every state, and that only running transactions hold row locks,
\* whatever fails, times out or dies (runs: review_actions).
THEOREM ReviewTypeCorrect == Spec => []TypeOK
<1>1. Inv => TypeOK
  BY DEF Inv
<1> QED
  BY InitSound, NextSound, <1>1, PTL DEF Spec

\* A document an admin makes VERIFIED has no other one of its client and type
\* beside it, or takes the place of one: lockClientRow serializes approvals and
\* replacements, and the worker's insert waits for its lock.
THEOREM ApprovalsSerialized == Spec => OneVerifiedPerType
<1>1. Inv /\ [Next]_vars => [OneByOne]_vars
  BY NextKept
<1>2. OneByOne <=> (\A d \in DocIds :
        documents[d].status # "VERIFIED" /\ documents'[d].status = "VERIFIED" /\ ~FiledNow =>
          LET others == FindVerifiedOfType(documents'[d].client, documents'[d].type, d)
          IN others = {} \/ \E e \in others : documents'[e].status = "SUPERSEDED")
  BY DEF OneByOne
<1> QED
  BY InitSound, NextSound, <1>1, <1>2, PTL DEF Spec, OneVerifiedPerType

\* A verified document is never lost to a race of decisions: a client keeps a
\* VERIFIED document of each type it had one of, and what was verified is only
\* ever superseded (runs: review_actions).
THEOREM VerifiedNeverLost == Spec => VerifiedKept
<1>1. Inv /\ [Next]_vars => [Kept]_vars
  BY NextKept
<1>2. Kept <=> (/\ \A c \in Clients, t \in FolderTypes : VerifiedExists(c, t) => VerifiedExists(c, t)'
               /\ \A d \in DocIds : documents[d].status \in {"VERIFIED", "SUPERSEDED"} =>
                    documents'[d].status \in {"VERIFIED", "SUPERSEDED"})
  BY DEF Kept
<1> QED
  BY InitSound, NextSound, <1>1, <1>2, PTL DEF Spec, VerifiedKept

----------------------------------------------------------------------------
(***************************************************************************)
(* The second part, over the invariant above: the admins' requests         *)
(* implement CaseRecords, a waiting item has its file, and the row locks   *)
(* are never waited for in a circle.  The argument: a decision on a        *)
(* waiting file holds its row from the read that the decision rests on to  *)
(* the commit, and what holds a lock while it waits for another one is of  *)
(* few kinds.                                                              *)
(***************************************************************************)

UnderRow == {"lockClient", "lockDocument", "copy", "removeFiles", "commit"}

\* The row that a decision is about, as read under its lock.
RowHeld(a, k) ==
  k.kind \in FilingKinds \cup RowKinds /\ k.pc \in UnderRow /\ ~k.expired =>
    /\ rowLock[k.item] = a
    /\ rows[k.item].state \in {"WAITING", "RESOLVED"}
    /\ k.kind # "delete" => Waits(k.item)
    /\ k.kind \in FilingKinds => rows[k.item].client = k.client /\ rows[k.item].type = k.type

Decided(i) == rows[i].state \in {"RESOLVED", "GONE"}

\* What is tidied up after a commit no longer waits.
Ended(k) == k.pc = "tidy" /\ k.item # None => Decided(k.item)

\* At which steps a request has which locks.
Holds(a, k) ==
  /\ \A i \in Items : rowLock[i] = a => k.pc \in UnderRow /\ k.kind \in FilingKinds \cup RowKinds
  /\ \A c \in Clients : clientLock[c] = a =>
       k.pc \in {"lockDocument", "copy", "commit"} /\ (k.pc = "lockDocument" => k.kind = "replace")
  /\ \A d \in DocIds : documentLock[d] = a =>
       /\ k.pc \in {"lockClient", "copy", "commit"}
       /\ k.pc = "lockClient" => k.kind = "approveDocument" /\ k.document = d

\* A decision on a document is about no item.
Target(k) == k.kind \in DocumentKinds => k.item = None

Steady(a) == RowHeld(a, job[a]) /\ Ended(job[a]) /\ Holds(a, job[a]) /\ Target(job[a])

RecordsInv == Inv /\ WaitingHasFile /\ \A a \in Admins : Steady(a)

----------------------------------------------------------------------------
(* What a step of one admin leaves to the others *)

LEMMA RequestFrame ==
  ASSUME NEW a \in Admins, Request(a)
  PROVE  \E k : Begin(a, k)
BY DEF Request, Approve, ReplaceVerifiedDocument, KeepDocumentAsVersion, ApproveDocument,
   RemoveStoredDocument, SetPoliceSubmittedDate, KeepReviewItemPending, KeepDocumentPending, RemoveFromReview,
   DeleteTemporaryDocument, SetDocumentType, AssignClient

LEMMA JobFrame ==
  ASSUME Inv, NEW a \in Admins, Request(a) \/ Step(a) \/ Fault(a)
  PROVE  \E k : job' = [job EXCEPT ![a] = k]
<1>1. CASE Request(a)
  BY <1>1, RequestFrame DEF Begin
<1>2. CASE Step(a)
  <2> DEFINE k == job[a]
  <2>1. job \in [Admins -> Job]
    BY DEF Inv, TypeOK
  <2>2. CASE Download(a) \/ Tidy(a) \/ Undo(a) \/ Commit(a)
    BY <2>2 DEF Download, Tidy, Undo, Commit
  <2>3. CASE Expired(a) \/ RollBack(a)
    BY <2>3 DEF Expired, RollBack, GivesUp
  <2>4. CASE LockRow(a) \/ LockDocument(a)
    BY <2>3, <2>4 DEF LockRow, LockDocument
  <2>5. CASE LockClient(a)
    <3>1. CASE job' = [job EXCEPT ![a].pc = AfterLock(k.kind, "client")]
      BY <2>1, <3>1
    <3> QED
      BY <2>3, <2>5, <3>1 DEF LockClient
  <2>6. CASE Copy(a)
    <3> DEFINE name == FreeName(k.client, k.type)
    <3>1. CASE job' = [job EXCEPT ![a].pc = "commit", ![a].name = name]
      BY <2>1, <3>1
    <3> QED
      BY <2>3, <2>6, <3>1 DEF Copy
  <2>7. CASE RemoveFiles(a)
    <3>1. job' = [job EXCEPT ![a].pc = "commit"]
      BY <2>7 DEF RemoveFiles
    <3> QED
      BY <2>1, <3>1
  <2> QED
    BY <1>2, <2>2, <2>3, <2>4, <2>5, <2>6, <2>7 DEF Step
<1>3. CASE Fault(a)
  <2>1. CASE TimesOut(a)
    <3>1. job' = [job EXCEPT ![a].expired = TRUE] /\ job \in [Admins -> Job]
      BY <2>1 DEF TimesOut, Inv, TypeOK
    <3> QED
      BY <3>1
  <2> QED
    BY <1>3, <2>1 DEF Fault, Fails, RollBack, GivesUp, AnswerLost, RemovalFails, Dies
<1> QED
  BY <1>1, <1>2, <1>3

\* A lock is taken when it is free; a transaction's end gives all of its locks
\* back; nothing else is done to them.
Takes(a) ==
  \/ /\ UNCHANGED <<documentLock, clientLock>>
     /\ \E i \in Items : rowLock[i] = None /\ rowLock' = [rowLock EXCEPT ![i] = a]
  \/ /\ UNCHANGED <<rowLock, clientLock>>
     /\ \E d \in DocIds : documentLock[d] = None /\ documentLock' = [documentLock EXCEPT ![d] = a]
  \/ /\ UNCHANGED <<rowLock, documentLock>>
     /\ \E c \in Clients : clientLock[c] = None /\ clientLock' = [clientLock EXCEPT ![c] = a]

LEMMA LocksFrame ==
  ASSUME Inv, NEW a \in Admins, Request(a) \/ Step(a) \/ Fault(a)
  PROVE  UNCHANGED locks \/ Release(a) \/ Takes(a)
<1> DEFINE k == job[a]
<1>1. Shape(k)
  BY DEF Inv, Sound
<1>2. CASE Request(a)
  BY <1>2, RequestFrame DEF Begin
<1>3. CASE LockRow(a)
  <2>1. k.item \in Items /\ rowLock[k.item] = None
    BY <1>1, <1>3 DEF LockRow, Shape
  <2> QED
    BY <1>3, <2>1 DEF LockRow, RollBack, Takes
<1>4. CASE LockClient(a)
  <2>1. ClientAsExpected(k) => k.client \in Clients /\ clientLock[k.client] = None
    <3>1. k.kind = "replace" /\ ClientAsExpected(k) => k.client # None
      BY DEF ClientAsExpected
    <3> QED
      BY <1>1, <1>4, <3>1, ReviewAssumption DEF LockClient, Shape, FilingKinds, Job
  <2> QED
    BY <1>4, <2>1 DEF LockClient, RollBack, Takes
<1>5. CASE LockDocument(a)
  <2>1. k.document \in DocIds /\ documentLock[k.document] = None
    BY <1>1, <1>5 DEF LockDocument, Shape
  <2> QED
    BY <1>5, <2>1 DEF LockDocument, RollBack, Takes
<1>6. CASE Download(a) \/ Copy(a) \/ Commit(a) \/ Expired(a) \/ Tidy(a) \/ Undo(a) \/ RemoveFiles(a)
  BY <1>6 DEF Download, Copy, Commit, Expired, Tidy, Undo, RemoveFiles, RollBack
<1>7. CASE Fault(a)
  BY <1>7 DEF Fault, Fails, TimesOut, AnswerLost, RemovalFails, Dies, RollBack
<1> QED
  BY <1>2, <1>3, <1>4, <1>5, <1>6, <1>7 DEF Step

LEMMA OthersSpared ==
  ASSUME Inv, NEW a \in Admins, Request(a) \/ Step(a) \/ Fault(a)
  PROVE  \A b \in Admins \ {a} : Spared(b)
<1>1. job \in [Admins -> Job] /\ rowLock \in [Items -> Admins \cup {None}]
      /\ documentLock \in [DocIds -> Admins \cup {None}] /\ clientLock \in [Clients -> Admins \cup {None}]
      /\ None \notin Admins
  BY ReviewAssumption DEF Inv, TypeOK
<1>2. \A b \in Admins \ {a} : job'[b] = job[b]
  BY <1>1, JobFrame
<1>3. CASE UNCHANGED locks
  BY <1>2, <1>3 DEF Spared, locks
<1>4. CASE Release(a)
  BY <1>2, <1>4, Released DEF Spared
<1>5. CASE Takes(a)
  BY <1>1, <1>2, <1>5 DEF Takes, Spared
<1> QED
  BY <1>3, <1>4, <1>5, LocksFrame

----------------------------------------------------------------------------
(* What a step does to the rows, and what is left of them under a lock *)

\* The only row that a request changes is the one of its own decision.
Decides(a) ==
  /\ job[a].pc = "commit" /\ ~job[a].expired
  /\ job[a].kind \in FilingKinds \cup RowKinds
  /\ \E new \in Row :
       /\ rows' = [rows EXCEPT ![job[a].item] = new]
       /\ Decided(job[a].item) => new.state \in {"RESOLVED", "GONE"}
       /\ job[a].kind \in FilingKinds \cup {"remove", "delete"} => new.state \in {"RESOLVED", "GONE"}

\* Which commits there are.
LEMMA CommitCases ==
  ASSUME NEW a \in Admins, Commit(a) \/ AnswerLost(a)
  PROVE  /\ job[a].pc = "commit" /\ ~job[a].expired
         /\ \/ job[a].kind \in FilingKinds /\ \E d \in DocIds : File(job[a], d)
            \/ job[a].kind \in DocumentKinds /\ ChangeDocument(job[a])
            \/ job[a].kind \in RowKinds /\ ChangeRow(job[a])
BY DEF Commit, AnswerLost

LEMMA OtherwiseUnchanged ==
  ASSUME NEW a \in Admins, Request(a) \/ Step(a) \/ Fault(a), ~Commit(a), ~AnswerLost(a)
  PROVE  UNCHANGED database
<1>1. CASE Request(a)
  BY <1>1, RequestFrame DEF Begin
<1>2. CASE Step(a)
  BY <1>2 DEF Step, RemoveFiles, Download, LockRow, LockClient, LockDocument, Copy, Expired, Tidy, Undo, RollBack
<1>3. CASE Fault(a)
  BY <1>3 DEF Fault, Fails, TimesOut, RemovalFails, Dies, RollBack
<1> QED
  BY <1>1, <1>2, <1>3

LEMMA RowsFrame ==
  ASSUME Inv, NEW a \in Admins, Steady(a), Request(a) \/ Step(a) \/ Fault(a)
  PROVE  UNCHANGED rows \/ Decides(a)
<1> DEFINE k == job[a]
           old == rows[k.item]
<1>1. CASE ~Commit(a) /\ ~AnswerLost(a)
  BY <1>1, OtherwiseUnchanged DEF database
<1>2. CASE Commit(a) \/ AnswerLost(a)
  <2>1. /\ k.pc = "commit" /\ ~k.expired
        /\ \/ k.kind \in FilingKinds /\ \E d \in DocIds : File(k, d)
           \/ k.kind \in DocumentKinds /\ ChangeDocument(k)
           \/ k.kind \in RowKinds /\ ChangeRow(k)
    BY <1>2, CommitCases
  <2>2. /\ rows \in [Items -> Row] /\ Shape(k) /\ k \in Job
        /\ RowHeld(a, k)
    BY DEF Inv, TypeOK, Sound, Steady
  <2>3. CASE k.kind \in FilingKinds /\ \E d \in DocIds : File(k, d)
    <3> DEFINE new == [old EXCEPT !.state = "RESOLVED"]
    <3>1. k.item \in Items /\ old \in Row
      BY <2>2, <2>3 DEF Shape
    <3>2. new \in Row /\ new.state = "RESOLVED"
      BY <3>1 DEF Row
    <3>3. rows' = [rows EXCEPT ![k.item] = new]
      BY <2>2, <2>3, <3>1 DEF File
    <3> HIDE DEF new
    <3> QED
      BY <2>1, <2>3, <3>2, <3>3 DEF Decides
  <2>4. CASE k.kind \in DocumentKinds /\ ChangeDocument(k)
    BY <2>4 DEF ChangeDocument
  <2>5. CASE k.kind \in RowKinds /\ ChangeRow(k)
    <3>1. /\ k.item \in Items /\ old \in Row
          /\ k.kind # "delete" => old.state = "WAITING"
          /\ k.kind = "assign" => k.client \in Clients
          /\ k.kind = "setType" => k.type \in Types
      BY <2>1, <2>2, <2>5 DEF Shape, RowHeld, UnderRow, Waits
    <3> DEFINE new == CASE k.kind \in {"remove", "delete"} -> [old EXCEPT !.state = "GONE"]
                        [] k.kind = "setType" -> [old EXCEPT !.type = k.type]
                        [] k.kind = "assign" -> [old EXCEPT !.client = k.client]
                        [] OTHER -> old
    <3>2. rows' = [rows EXCEPT ![k.item] = new]
      BY <2>2, <2>5, <3>1 DEF ChangeRow
    <3>3. /\ new \in Row
          /\ k.kind \in {"remove", "delete"} => new.state = "GONE"
          /\ k.kind \notin {"remove", "delete"} => new.state = "WAITING"
      BY <2>5, <3>1 DEF Row, RowKinds
    <3> HIDE DEF new
    <3> QED
      BY <2>1, <2>5, <3>1, <3>2, <3>3 DEF Decides, Decided, FilingKinds, RowKinds
  <2> QED
    BY <2>1, <2>3, <2>4, <2>5
<1> QED
  BY <1>1, <1>2

RowsStay(b) ==
  /\ \A i \in Items : rowLock[i] = b /\ rows[i].state # "RECEIVED" => rows'[i] = rows[i]
  /\ \A i \in Items : Decided(i) => Decided(i)'

LEMMA OthersRowsStay ==
  ASSUME Inv, NEW a \in Admins, Steady(a), Request(a) \/ Step(a) \/ Fault(a)
  PROVE  \A b \in Admins \ {a} : RowsStay(b)
<1>1. CASE UNCHANGED rows
  BY <1>1 DEF RowsStay, Decided
<1>2. CASE Decides(a)
  <2> DEFINE k == job[a]
  <2>1. /\ k.item \in Items /\ rowLock[k.item] = a /\ rows \in [Items -> Row]
    BY <1>2 DEF Decides, Inv, TypeOK, Sound, Shape, Steady, RowHeld, UnderRow
  <2>2. PICK new \in Row : /\ rows' = [rows EXCEPT ![k.item] = new]
                           /\ Decided(k.item) => new.state \in {"RESOLVED", "GONE"}
    BY <1>2 DEF Decides
  <2> QED
    BY <2>1, <2>2 DEF RowsStay, Decided
<1> QED
  BY <1>1, <1>2, RowsFrame

\* A worker's step and another admin's keep what a request rests on.
LEMMA StaysSteady ==
  ASSUME Inv, NEW b \in Admins, Steady(b), Spared(b), RowsStay(b), Kept
  PROVE  Steady(b)'
<1> DEFINE k == job[b]
<1>1. Shape(k) /\ RowHeld(b, k) /\ Ended(k) /\ Holds(b, k) /\ Target(k) /\ job'[b] = k /\ k \in Job
  BY DEF Inv, TypeOK, Sound, Steady, Spared
<1>2. k.kind \in FilingKinds \cup RowKinds => k.item \in Items
  BY <1>1 DEF Shape
<1>3. RowHeld(b, job[b])'
  BY <1>1, <1>2 DEF RowHeld, RowsStay, Spared, Waits
<1>4. Ended(job[b])'
  BY <1>1 DEF Ended, RowsStay, Job, Decided
<1>5. Holds(b, job[b])'
  BY <1>1 DEF Holds, Spared
<1>6. k.kind = "replace" => k.document \in DocIds
  BY <1>1 DEF Shape
<1>7. Target(job[b])'
  BY <1>1, <1>6 DEF Target, Kept
<1> QED
  BY <1>3, <1>4, <1>5, <1>7 DEF Steady

----------------------------------------------------------------------------
(* A request's own steps *)

LEMMA AtRest ==
  ASSUME Inv, NEW a \in Admins, NoLocks(a)', job'[a].pc # "tidy", Target(job[a])',
         job'[a].pc \in UnderRow => job'[a].kind \notin FilingKinds \cup RowKinds
  PROVE  Steady(a)'
BY DEF Steady, RowHeld, Ended, Holds, NoLocks

LEMMA IdleAtRest ==
  ASSUME Inv, NEW a \in Admins, NoLocks(a)', job' = [job EXCEPT ![a] = Idle]
  PROVE  Steady(a)'
<1>1. job'[a].pc = "idle" /\ job'[a].kind = None
  BY DEF Inv, TypeOK, Idle
<1> QED
  BY <1>1, AtRest DEF UnderRow, Target, None, DocumentKinds

\* A request begins before its locks.
Begins(a) ==
  \E k : /\ Begin(a, k) /\ k.pc \in {"download", "lockRow", "lockDocument"}
         /\ k.pc = "lockDocument" => k.kind \in DocumentKinds
         /\ k.kind \in DocumentKinds => k.item = None

LEMMA RequestSteady ==
  ASSUME Inv, NEW a \in Admins, Request(a)
  PROVE  Steady(a)'
<1>1. Begins(a)
  <2>1. ASSUME NEW i \in Items, NEW date \in BOOLEAN, NEW d \in DocIds, ReplaceVerifiedDocument(a, i, d, date)
        PROVE  Begins(a)
    <3> DEFINE k == [Idle EXCEPT !.pc = "download", !.kind = "replace", !.item = i, !.document = d, !.date = date]
    <3>1. k.pc = "download" /\ k.kind = "replace" /\ Begin(a, k)
      BY <2>1 DEF ReplaceVerifiedDocument, Idle
    <3> HIDE DEF k
    <3> QED
      BY <3>1 DEF Begins, DocumentKinds
  <2>2. ASSUME NEW i \in Items, NEW date \in BOOLEAN, Approve(a, i, date)
        PROVE  Begins(a)
    <3> DEFINE k == [Idle EXCEPT !.pc = "download", !.kind = "approve", !.item = i, !.date = date]
    <3>1. k.pc = "download" /\ k.kind = "approve" /\ Begin(a, k)
      BY <2>2 DEF Approve, Idle
    <3> HIDE DEF k
    <3> QED
      BY <3>1 DEF Begins, DocumentKinds
  <2>3. ASSUME NEW i \in Items, KeepDocumentAsVersion(a, i)
        PROVE  Begins(a)
    <3> DEFINE k == [Idle EXCEPT !.pc = "download", !.kind = "version", !.item = i]
    <3>1. k.pc = "download" /\ k.kind = "version" /\ Begin(a, k)
      BY <2>3 DEF KeepDocumentAsVersion, Idle
    <3> HIDE DEF k
    <3> QED
      BY <3>1 DEF Begins, DocumentKinds
  <2>4. ASSUME NEW i \in Items, KeepReviewItemPending(a, i)
        PROVE  Begins(a)
    <3> DEFINE k == [Idle EXCEPT !.pc = "lockRow", !.kind = "keep", !.item = i]
    <3>1. k.pc = "lockRow" /\ k.kind = "keep" /\ Begin(a, k)
      BY <2>4 DEF KeepReviewItemPending, Idle
    <3> HIDE DEF k
    <3> QED
      BY <3>1 DEF Begins, DocumentKinds
  <2>5. ASSUME NEW i \in Items, RemoveFromReview(a, i)
        PROVE  Begins(a)
    <3> DEFINE k == [Idle EXCEPT !.pc = "lockRow", !.kind = "remove", !.item = i]
    <3>1. k.pc = "lockRow" /\ k.kind = "remove" /\ Begin(a, k)
      BY <2>5 DEF RemoveFromReview, Idle
    <3> HIDE DEF k
    <3> QED
      BY <3>1 DEF Begins, DocumentKinds
  <2>6. ASSUME NEW i \in Items, DeleteTemporaryDocument(a, i)
        PROVE  Begins(a)
    <3> DEFINE k == [Idle EXCEPT !.pc = "lockRow", !.kind = "delete", !.item = i]
    <3>1. k.pc = "lockRow" /\ k.kind = "delete" /\ Begin(a, k)
      BY <2>6 DEF DeleteTemporaryDocument, Idle
    <3> HIDE DEF k
    <3> QED
      BY <3>1 DEF Begins, DocumentKinds
  <2>7. ASSUME NEW i \in Items, NEW type \in FolderTypes, SetDocumentType(a, i, type)
        PROVE  Begins(a)
    <3> DEFINE k == [Idle EXCEPT !.pc = "lockRow", !.kind = "setType", !.item = i, !.type = type]
    <3>1. k.pc = "lockRow" /\ k.kind = "setType" /\ Begin(a, k)
      BY <2>7 DEF SetDocumentType, Idle
    <3> HIDE DEF k
    <3> QED
      BY <3>1 DEF Begins, DocumentKinds
  <2>8. ASSUME NEW i \in Items, NEW client \in Clients, AssignClient(a, i, client)
        PROVE  Begins(a)
    <3> DEFINE k == [Idle EXCEPT !.pc = "lockRow", !.kind = "assign", !.item = i, !.client = client]
    <3>1. k.pc = "lockRow" /\ k.kind = "assign" /\ Begin(a, k)
      BY <2>8 DEF AssignClient, Idle
    <3> HIDE DEF k
    <3> QED
      BY <3>1 DEF Begins, DocumentKinds
  <2>9. ASSUME NEW d \in DocIds, NEW date \in BOOLEAN, ApproveDocument(a, d, date)
        PROVE  Begins(a)
    <3> DEFINE k == [Idle EXCEPT !.pc = "lockDocument", !.kind = "approveDocument", !.document = d, !.date = date]
    <3>1. k.pc = "lockDocument" /\ k.kind = "approveDocument" /\ k.item = None /\ Begin(a, k)
      BY <2>9 DEF ApproveDocument, Idle
    <3> HIDE DEF k
    <3> QED
      BY <3>1 DEF Begins, DocumentKinds
  <2>10. ASSUME NEW d \in DocIds, RemoveStoredDocument(a, d)
         PROVE  Begins(a)
    <3> DEFINE k == [Idle EXCEPT !.pc = "lockDocument", !.kind = "removeDocument", !.document = d]
    <3>1. k.pc = "lockDocument" /\ k.kind = "removeDocument" /\ k.item = None /\ Begin(a, k)
      BY <2>10 DEF RemoveStoredDocument, Idle
    <3> HIDE DEF k
    <3> QED
      BY <3>1 DEF Begins, DocumentKinds
  <2>11. ASSUME NEW d \in DocIds, KeepDocumentPending(a, d)
         PROVE  Begins(a)
    <3> DEFINE k == [Idle EXCEPT !.pc = "lockDocument", !.kind = "keepDocument", !.document = d]
    <3>1. k.pc = "lockDocument" /\ k.kind = "keepDocument" /\ k.item = None /\ Begin(a, k)
      BY <2>11 DEF KeepDocumentPending, Idle
    <3> HIDE DEF k
    <3> QED
      BY <3>1 DEF Begins, DocumentKinds
  <2>12. ASSUME NEW d \in DocIds, SetPoliceSubmittedDate(a, d)
         PROVE  Begins(a)
    <3> DEFINE k == [Idle EXCEPT !.pc = "lockDocument", !.kind = "setDate", !.document = d]
    <3>1. k.pc = "lockDocument" /\ k.kind = "setDate" /\ k.item = None /\ Begin(a, k)
      BY <2>12 DEF SetPoliceSubmittedDate, Idle
    <3> HIDE DEF k
    <3> QED
      BY <3>1 DEF Begins, DocumentKinds
  <2> QED
    BY <2>1, <2>2, <2>3, <2>4, <2>5, <2>6, <2>7, <2>8, <2>9, <2>10, <2>11, <2>12 DEF Request
<1>2. PICK k : /\ Begin(a, k) /\ k.pc \in {"download", "lockRow", "lockDocument"}
               /\ k.pc = "lockDocument" => k.kind \in DocumentKinds
               /\ k.kind \in DocumentKinds => k.item = None
  BY <1>1 DEF Begins, DocumentKinds
<1>3. job'[a] = k /\ job[a].pc = "idle" /\ UNCHANGED <<database, locks>>
  BY <1>2 DEF Begin, Inv, TypeOK
<1>4. NoLocks(a)'
  BY <1>3, TypeOKParts DEF Inv, InTransaction, NoLocks, locks
<1>5. /\ Target(job[a])' /\ job'[a].pc # "tidy"
      /\ job'[a].pc \in UnderRow => job'[a].kind \notin FilingKinds \cup RowKinds
  <2>1. /\ job'[a].pc # "tidy"
        /\ job'[a].pc \in UnderRow => job'[a].kind \notin FilingKinds \cup RowKinds
    BY <1>2, <1>3 DEF UnderRow, FilingKinds, RowKinds, DocumentKinds
  <2> QED
    BY <1>2, <1>3, <2>1 DEF Target
<1> QED
  BY <1>4, <1>5, AtRest

LEMMA RollBackSteady ==
  ASSUME Inv, NEW a \in Admins, Steady(a), Release(a), GivesUp(a), Kept
  PROVE  Steady(a)'
<1> DEFINE k == job[a]
           next == [k EXCEPT !.pc = "undo"]
<1>1. /\ job' = [job EXCEPT ![a] = IF k.name = NoName THEN Idle ELSE next]
      /\ job \in [Admins -> Job] /\ k \in Job /\ Shape(k) /\ Target(k)
  BY DEF GivesUp, Inv, TypeOK, Sound, Steady
<1>2. NoLocks(a)'
  BY Released
<1>3. CASE k.name = NoName
  BY <1>1, <1>2, <1>3, IdleAtRest
<1>4. CASE k.name # NoName
  <2>1. next.pc = "undo" /\ next.kind = k.kind /\ next.document = k.document /\ next.item = k.item
    BY <1>1 DEF Job
  <2> HIDE DEF next
  <2>2. job'[a] = next
    BY <1>1, <1>4
  <2>3. Target(job[a])'
    BY <1>1, <2>1, <2>2 DEF Target, Kept, Shape
  <2> QED
    BY <1>2, <2>1, <2>2, <2>3, AtRest DEF UnderRow
<1> QED
  BY <1>3, <1>4

LEMMA EndSteady ==
  ASSUME Inv, NEW a \in Admins, Steady(a), Kept,
         \/ Download(a) \/ Tidy(a) \/ Undo(a)
         \/ RemovalFails(a) \/ Dies(a)
  PROVE  Steady(a)'
<1> DEFINE k == job[a]
           next == [k EXCEPT !.pc = "lockRow"]
<1>1. job \in [Admins -> Job] /\ k \in Job /\ Shape(k) /\ Target(k)
  BY DEF Inv, TypeOK, Sound, Steady
<1>2. NoLocks(a)'
  <2>1. CASE Dies(a)
    BY <2>1, Released DEF Dies
  <2>2. CASE Download(a) \/ Tidy(a) \/ Undo(a) \/ RemovalFails(a)
    BY <2>2, TypeOKParts DEF Download, Tidy, Undo, RemovalFails, Inv, InTransaction, NoLocks, locks
  <2> QED
    BY <2>1, <2>2
<1>3. CASE job' = [job EXCEPT ![a] = Idle]
  BY <1>2, <1>3, IdleAtRest
<1>4. CASE job' = [job EXCEPT ![a] = next]
  <2>1. next.pc = "lockRow" /\ next.kind = k.kind /\ next.document = k.document /\ next.item = k.item
    BY <1>1 DEF Job
  <2> HIDE DEF next
  <2>2. job'[a] = next
    BY <1>1, <1>4
  <2>3. Target(job[a])'
    BY <1>1, <2>1, <2>2 DEF Target, Kept, Shape
  <2> QED
    BY <1>2, <2>1, <2>2, <2>3, AtRest DEF UnderRow
<1> QED
  BY <1>3, <1>4 DEF Download, Tidy, Undo, RemovalFails, Dies

\* A step within the transaction that changes no lock and no table.
LEMMA StepsOn ==
  ASSUME Inv, NEW a \in Admins, Steady(a), UNCHANGED <<database, locks>>,
         job[a].pc \in {"copy", "removeFiles"}, job[a].kind \in FilingKinds \cup RowKinds,
         job'[a].pc = "commit", job'[a].kind = job[a].kind, job'[a].item = job[a].item,
         job'[a].document = job[a].document, job'[a].client = job[a].client, job'[a].type = job[a].type,
         job'[a].expired = job[a].expired
  PROVE  Steady(a)'
<1> DEFINE k == job[a]
<1>1. /\ UNCHANGED <<rows, documents, rowLock, documentLock, clientLock>>
      /\ RowHeld(a, k) /\ Holds(a, k) /\ Target(k)
  BY DEF database, locks, Steady
<1>2. RowHeld(a, job[a])'
  BY <1>1 DEF RowHeld, UnderRow, Waits
<1>3. Holds(a, job[a])'
  BY <1>1 DEF Holds, UnderRow
<1>4. Ended(job[a])' /\ Target(job[a])'
  BY <1>1 DEF Ended, Target
<1> QED
  BY <1>2, <1>3, <1>4 DEF Steady

LEMMA CopySteady ==
  ASSUME Inv, NEW a \in Admins, Steady(a), Kept, Copy(a) \/ RemoveFiles(a) \/ TimesOut(a)
  PROVE  Steady(a)'
<1> DEFINE k == job[a]
           name == FreeName(k.client, k.type)
           copied == [k EXCEPT !.pc = "commit", !.name = name]
           removed == [k EXCEPT !.pc = "commit"]
           late == [k EXCEPT !.expired = TRUE]
<1>1. job \in [Admins -> Job] /\ k \in Job /\ Shape(k) /\ Target(k)
  BY DEF Inv, TypeOK, Sound, Steady
<1>2. CASE RollBack(a)
  BY <1>2, RollBackSteady DEF RollBack
<1>3. CASE /\ k.pc = "copy" /\ UNCHANGED <<database, locks>>
           /\ job' = [job EXCEPT ![a].pc = "commit", ![a].name = name]
  <2> HIDE DEF name
  <2>1. job' = [job EXCEPT ![a] = copied]
    BY <1>3
  <2>2. /\ copied.pc = "commit" /\ copied.kind = k.kind /\ copied.item = k.item
        /\ copied.document = k.document /\ copied.client = k.client /\ copied.type = k.type /\ copied.expired = k.expired
    BY <1>1 DEF Job
  <2> HIDE DEF copied
  <2>3. job'[a] = copied /\ k.kind \in FilingKinds
    BY <1>1, <1>3, <2>1 DEF Shape
  <2> QED
    BY <1>3, <2>2, <2>3, StepsOn
<1>4. CASE RemoveFiles(a)
  <2>1. job' = [job EXCEPT ![a] = removed] /\ k.pc = "removeFiles" /\ UNCHANGED <<database, locks>>
    BY <1>4 DEF RemoveFiles
  <2>2. /\ removed.pc = "commit" /\ removed.kind = k.kind /\ removed.item = k.item
        /\ removed.document = k.document /\ removed.client = k.client /\ removed.type = k.type
        /\ removed.expired = k.expired
    BY <1>1 DEF Job
  <2> HIDE DEF removed
  <2>3. job'[a] = removed /\ k.kind \in RowKinds
    BY <1>1, <2>1 DEF Shape, RowKinds
  <2> QED
    BY <2>1, <2>2, <2>3, StepsOn
<1>5. CASE TimesOut(a)
  <2>1. job' = [job EXCEPT ![a] = late] /\ k.pc = "copy" /\ Release(a) /\ documents' = documents
    BY <1>5 DEF TimesOut, database
  <2>2. late.pc = "copy" /\ late.kind = k.kind /\ late.document = k.document /\ late.item = k.item /\ late.expired
    BY <1>1, <2>1 DEF Job
  <2> HIDE DEF late
  <2>3. job'[a] = late /\ NoLocks(a)'
    BY <1>1, <2>1, Released
  <2> QED
    BY <1>1, <2>1, <2>2, <2>3 DEF Steady, RowHeld, Ended, Holds, Target, NoLocks
<1> QED
  BY <1>2, <1>3, <1>4, <1>5 DEF Copy

LEMMA LockRowSteady ==
  ASSUME Inv, NEW a \in Admins, Steady(a), Kept, LockRow(a)
  PROVE  Steady(a)'
<1> DEFINE k == job[a]
           read == IF k.kind \in FilingKinds
                   THEN [k EXCEPT !.client = rows[k.item].client, !.type = rows[k.item].type] ELSE k
           next == [read EXCEPT !.pc = AfterLock(k.kind, "row")]
<1>1. /\ job \in [Admins -> Job] /\ k \in Job /\ Shape(k) /\ Holds(a, k) /\ Target(k) /\ k.pc = "lockRow"
      /\ rowLock \in [Items -> Admins \cup {None}]
  BY DEF Inv, TypeOK, Sound, LockRow, Steady
<1>2. k.item \in Items /\ k.kind \in FilingKinds \cup RowKinds /\ ~k.expired
  BY <1>1 DEF Shape
<1>3. CASE RollBack(a)
  BY <1>3, RollBackSteady DEF RollBack
<1>4. CASE /\ RowAsExpected(k)
           /\ rowLock' = [rowLock EXCEPT ![k.item] = a]
           /\ job' = [job EXCEPT ![a] = next]
           /\ UNCHANGED <<database, files, documentLock, clientLock, requests>>
  <2>1. AfterLock(k.kind, "row") \in {"lockClient", "removeFiles", "commit"}
    BY <1>2 DEF AfterLock, FilingKinds, RowKinds
  <2>2. /\ read.kind = k.kind /\ read.item = k.item /\ read.document = k.document /\ read.expired = k.expired
        /\ k.kind \in FilingKinds => read.client = rows[k.item].client /\ read.type = rows[k.item].type
        /\ read \in [pc : {k.pc}, kind : {k.kind}, item : {k.item}, document : {k.document}, client : {read.client},
                     type : {read.type}, date : {k.date}, name : {k.name}, expired : {k.expired}]
    BY <1>1 DEF Job
  <2> HIDE DEF read
  <2>3. /\ next.pc = AfterLock(k.kind, "row") /\ next.kind = k.kind /\ next.item = k.item
        /\ next.document = read.document /\ next.client = read.client /\ next.type = read.type
        /\ next.expired = read.expired
    BY <2>2
  <2> HIDE DEF next
  <2>4. job'[a] = next /\ rowLock'[k.item] = a
        /\ UNCHANGED <<rows, documents, documentLock, clientLock>>
    BY <1>1, <1>2, <1>4 DEF database
  <2>5. RowHeld(a, job[a])'
    BY <1>4, <2>2, <2>3, <2>4 DEF RowHeld, RowAsExpected, Waits
  <2>6. Holds(a, job[a])'
    BY <1>1, <1>2, <2>1, <2>3, <2>4 DEF Holds, UnderRow
  <2>7. Ended(job[a])' /\ Target(job[a])'
    BY <1>1, <2>1, <2>2, <2>3, <2>4 DEF Ended, Target
  <2> QED
    BY <2>5, <2>6, <2>7 DEF Steady
<1> QED
  BY <1>3, <1>4 DEF LockRow

LEMMA LockClientSteady ==
  ASSUME Inv, NEW a \in Admins, Steady(a), Kept, LockClient(a)
  PROVE  Steady(a)'
<1> DEFINE k == job[a]
           next == [k EXCEPT !.pc = AfterLock(k.kind, "client")]
<1>1. /\ job \in [Admins -> Job] /\ k \in Job /\ Shape(k) /\ RowHeld(a, k) /\ Holds(a, k) /\ Target(k)
      /\ Locked(a, k) /\ k.pc = "lockClient"
      /\ clientLock \in [Clients -> Admins \cup {None}]
  BY DEF Inv, TypeOK, Sound, LockClient, Steady
<1>2. k.kind \in FilingKinds \cup {"assign", "approveDocument"} /\ ~k.expired
  BY <1>1 DEF Shape
<1>3. CASE RollBack(a)
  BY <1>3, RollBackSteady DEF RollBack
<1>4. CASE /\ clientLock' = [clientLock EXCEPT ![k.client] = a]
           /\ job' = [job EXCEPT ![a] = next]
           /\ UNCHANGED <<database, files, rowLock, documentLock, requests>>
  <2>1. AfterLock(k.kind, "client") = IF k.kind = "replace" THEN "lockDocument"
                                      ELSE IF k.kind \in FilingKinds THEN "copy" ELSE "commit"
    BY <1>2 DEF AfterLock, FilingKinds
  <2>2. /\ next.pc = AfterLock(k.kind, "client") /\ next.kind = k.kind /\ next.item = k.item
        /\ next.document = k.document /\ next.client = k.client /\ next.type = k.type
        /\ next.expired = k.expired
    BY <1>1 DEF Job
  <2> HIDE DEF next
  <2>3. job'[a] = next /\ UNCHANGED <<rows, documents, rowLock, documentLock>>
    BY <1>1, <1>4 DEF database
  <2>4. RowHeld(a, job[a])'
    BY <1>1, <2>2, <2>3 DEF RowHeld, UnderRow, Waits
  <2>5. Holds(a, job[a])'
    <3>1. \A i \in Items : rowLock[i] = a => k.kind \in FilingKinds \cup RowKinds
      BY <1>1 DEF Holds
    <3>2. \A d \in DocIds : documentLock[d] = a => k.kind = "approveDocument"
      BY <1>1 DEF Holds
    <3>3. next.pc \in {"lockDocument", "copy", "commit"} /\ (next.pc = "lockDocument" => next.kind = "replace")
          /\ (k.kind = "approveDocument" => next.pc = "commit")
      BY <1>2, <2>1, <2>2 DEF FilingKinds
    <3> QED
      BY <2>2, <2>3, <3>1, <3>2, <3>3 DEF Holds, UnderRow
  <2>6. Ended(job[a])' /\ Target(job[a])'
    BY <1>1, <2>1, <2>2, <2>3 DEF Ended, Target
  <2> QED
    BY <2>4, <2>5, <2>6 DEF Steady
<1> QED
  BY <1>3, <1>4 DEF LockClient

LEMMA LockDocumentSteady ==
  ASSUME Inv, NEW a \in Admins, Steady(a), Kept, LockDocument(a)
  PROVE  Steady(a)'
<1> DEFINE k == job[a]
           read == IF k.kind = "approveDocument"
                   THEN [k EXCEPT !.client = documents[k.document].client, !.type = documents[k.document].type] ELSE k
           next == [read EXCEPT !.pc = AfterLock(k.kind, "document")]
<1>1. /\ job \in [Admins -> Job] /\ k \in Job /\ Shape(k) /\ RowHeld(a, k) /\ Holds(a, k) /\ Target(k)
      /\ k.pc = "lockDocument"
      /\ documentLock \in [DocIds -> Admins \cup {None}]
  BY DEF Inv, TypeOK, Sound, LockDocument, Steady
<1>2. k.document \in DocIds /\ k.kind \in DocumentKinds \cup {"replace"} /\ ~k.expired
  BY <1>1 DEF Shape
<1>3. CASE RollBack(a)
  BY <1>3, RollBackSteady DEF RollBack
<1>4. CASE /\ documentLock' = [documentLock EXCEPT ![k.document] = a]
           /\ job' = [job EXCEPT ![a] = next]
           /\ UNCHANGED <<database, files, rowLock, clientLock, requests>>
  <2>1. AfterLock(k.kind, "document") = IF k.kind = "approveDocument" THEN "lockClient"
                                        ELSE IF k.kind = "replace" THEN "copy" ELSE "commit"
    BY <1>2 DEF AfterLock, DocumentKinds
  <2>2. /\ read.kind = k.kind /\ read.item = k.item /\ read.document = k.document /\ read.expired = k.expired
        /\ k.kind # "approveDocument" => read.client = k.client /\ read.type = k.type
        /\ read \in [pc : {k.pc}, kind : {k.kind}, item : {k.item}, document : {k.document}, client : {read.client},
                     type : {read.type}, date : {k.date}, name : {k.name}, expired : {k.expired}]
    BY <1>1 DEF Job
  <2> HIDE DEF read
  <2>3. /\ next.pc = AfterLock(k.kind, "document") /\ next.kind = k.kind /\ next.item = k.item
        /\ next.document = read.document /\ next.client = read.client /\ next.type = read.type
        /\ next.expired = read.expired
    BY <2>2
  <2> HIDE DEF next
  <2>4. job'[a] = next /\ UNCHANGED <<rows, documents, rowLock, clientLock>>
    BY <1>1, <1>4 DEF database
  <2>5. RowHeld(a, job[a])'
    BY <1>1, <2>2, <2>3, <2>4 DEF RowHeld, UnderRow, Waits, FilingKinds, RowKinds
  <2>6. Holds(a, job[a])'
    <3>1. /\ \A i \in Items : rowLock[i] = a => k.kind \in FilingKinds \cup RowKinds
          /\ \A c \in Clients : clientLock[c] = a => k.kind = "replace"
          /\ \A d \in DocIds : documentLock[d] # a
      BY <1>1 DEF Holds
    <3>2. /\ next.pc \in {"lockClient", "copy", "commit"} /\ (next.pc = "lockClient" => next.kind = "approveDocument")
          /\ k.kind = "replace" => next.pc = "copy"
          /\ \A d \in DocIds : documentLock'[d] = a => d = k.document
      BY <1>1, <1>2, <1>4, <2>1, <2>3, <3>1 DEF DocumentKinds
    <3> QED
      BY <2>2, <2>3, <2>4, <3>1, <3>2 DEF Holds, UnderRow
  <2>7. Ended(job[a])' /\ Target(job[a])'
    BY <1>1, <2>1, <2>2, <2>3, <2>4 DEF Ended, Target
  <2> QED
    BY <2>5, <2>6, <2>7 DEF Steady
<1> QED
  BY <1>3, <1>4 DEF LockDocument

LEMMA CommitSteady ==
  ASSUME Inv, NEW a \in Admins, Steady(a), Kept, Commit(a)
  PROVE  Steady(a)'
<1> DEFINE k == job[a]
           next == [k EXCEPT !.pc = "tidy", !.name = Unshared(k)]
<1>1. /\ job \in [Admins -> Job] /\ k \in Job /\ Shape(k) /\ Target(k) /\ rows \in [Items -> Row]
      /\ k.pc = "commit" /\ NoLocks(a)'
      /\ job' = [job EXCEPT ![a] = Committed(k)]
  BY Released DEF Inv, TypeOK, Sound, Steady, Commit
<1>2. CASE Committed(k) = Idle
  BY <1>1, <1>2, IdleAtRest
<1>3. CASE k.kind \in FilingKinds \cup {"remove", "removeDocument"} /\ job' = [job EXCEPT ![a] = next]
  <2>1. next.pc = "tidy" /\ next.kind = k.kind /\ next.item = k.item /\ next.document = k.document
    BY <1>1 DEF Job
  <2> HIDE DEF next
  <2>2. job'[a] = next
    BY <1>1, <1>3
  <2>3. k.kind \in FilingKinds \cup {"remove"} => rows'[k.item].state \in {"RESOLVED", "GONE"}
    <3>1. CASE k.kind \in FilingKinds
      <4>1. \E d \in DocIds : File(k, d)
        BY <3>1 DEF Commit, FilingKinds, DocumentKinds, RowKinds
      <4>2. rows' = [rows EXCEPT ![k.item].state = "RESOLVED"] /\ k.item \in Items
        BY <1>1, <3>1, <4>1 DEF File, Shape
      <4> DEFINE new == [rows[k.item] EXCEPT !.state = "RESOLVED"]
      <4>3. rows'[k.item] = new /\ new.state = "RESOLVED"
        BY <1>1, <4>2 DEF Row
      <4> QED
        BY <4>3
    <3>2. CASE k.kind = "remove"
      <4>1. ChangeRow(k) /\ k.item \in Items
        BY <1>1, <3>2 DEF Commit, FilingKinds, DocumentKinds, RowKinds, Shape
      <4> DEFINE old == rows[k.item]
                 new == [old EXCEPT !.state = "GONE"]
      <4>2. rows' = [rows EXCEPT ![k.item] = new] /\ old \in Row
        BY <1>1, <3>2, <4>1 DEF ChangeRow
      <4>3. rows'[k.item] = new /\ new.state = "GONE"
        BY <1>1, <4>1, <4>2 DEF Row
      <4> QED
        BY <4>3
    <3> QED
      BY <3>1, <3>2
  <2>4. k.kind = "removeDocument" => k.item = None
    BY <1>1 DEF Target, DocumentKinds
  <2>5. Ended(job[a])'
    BY <1>3, <2>1, <2>2, <2>3, <2>4 DEF Ended, Decided
  <2>6. Target(job[a])'
    BY <1>1, <2>1, <2>2 DEF Target, Kept, Shape
  <2> QED
    BY <1>1, <2>1, <2>2, <2>5, <2>6 DEF Steady, RowHeld, Holds, NoLocks, UnderRow
<1> QED
  BY <1>1, <1>2, <1>3 DEF Committed

LEMMA AdminSteady ==
  ASSUME Inv, NEW a \in Admins, Steady(a), Kept, Request(a) \/ Step(a) \/ Fault(a)
  PROVE  Steady(a)'
<1>1. CASE Step(a)
  <2>1. CASE Expired(a)
    BY <2>1, RollBackSteady DEF Expired, RollBack
  <2> QED
    BY <1>1, <2>1, EndSteady, LockRowSteady, LockClientSteady, LockDocumentSteady, CopySteady, CommitSteady DEF Step
<1>2. CASE Fault(a)
  <2>1. CASE Fails(a) \/ AnswerLost(a)
    BY <2>1, RollBackSteady DEF Fails, AnswerLost, RollBack
  <2> QED
    BY <1>2, <2>1, EndSteady, CopySteady DEF Fault
<1> QED
  BY <1>1, <1>2, RequestSteady

----------------------------------------------------------------------------
(* The files of the waiting items *)

\* Only a deletion takes the file of an item that waits.
LEMMA FilesFrame ==
  ASSUME Inv, NEW a \in Admins, Steady(a), Request(a) \/ Step(a) \/ Fault(a)
  PROVE  /\ deleted \subseteq deleted'
         /\ \A i \in pendingFiles \ pendingFiles' : i \in deleted' \/ Decided(i)
<1>1. CASE Request(a) \/ Fault(a)
  <2>1. UNCHANGED <<pendingFiles, deleted>>
    BY <1>1, RequestFrame DEF Begin, files, Fault, Fails, RollBack, TimesOut, AnswerLost, RemovalFails, Dies
  <2> QED
    BY <2>1
<1>2. CASE Tidy(a) /\ UNCHANGED deleted
  <2>1. pendingFiles' = pendingFiles \ {job[a].item} /\ Ended(job[a]) /\ job[a].pc = "tidy"
        /\ pendingFiles \subseteq Items /\ None \notin Items
    BY <1>2, ReviewAssumption DEF Tidy, Steady, Inv, TypeOK
  <2> QED
    BY <1>2, <2>1 DEF Ended
<1>3. CASE RemoveFiles(a)
  BY <1>3 DEF RemoveFiles
<1>4. CASE UNCHANGED deleted /\ Step(a) /\ ~Tidy(a) /\ ~RemoveFiles(a)
  BY <1>4 DEF Step, Download, LockRow, LockClient, LockDocument, Copy, Commit, Expired, Undo, RollBack, files
<1> QED
  BY <1>1, <1>2, <1>3, <1>4 DEF Step

LEMMA AdminWaiting ==
  ASSUME Inv, WaitingHasFile, NEW a \in Admins, Steady(a), Request(a) \/ Step(a) \/ Fault(a)
  PROVE  WaitingHasFile'
<1>1. \A i \in Items : Waits(i)' => Waits(i)
  <2>1. CASE UNCHANGED rows
    BY <2>1 DEF Waits
  <2>2. CASE Decides(a)
    <3> DEFINE k == job[a]
    <3>1. /\ k.item \in Items /\ rows \in [Items -> Row]
          /\ rows[k.item].state = "WAITING" \/ Decided(k.item)
      BY <2>2 DEF Decides, Inv, TypeOK, Sound, Shape, Steady, RowHeld, UnderRow, Waits, Decided
    <3>2. PICK new \in Row : /\ rows' = [rows EXCEPT ![k.item] = new]
                             /\ Decided(k.item) => new.state \in {"RESOLVED", "GONE"}
      BY <2>2 DEF Decides
    <3> QED
      BY <3>1, <3>2 DEF Waits
  <2> QED
    BY <2>1, <2>2, RowsFrame
<1> QED
  BY <1>1, FilesFrame DEF WaitingHasFile, Waits, Decided

----------------------------------------------------------------------------
(* The worker *)

LEMMA WorkerFrame ==
  ASSUME Inv, WaitingHasFile, Worker
  PROVE  /\ \A a \in Admins : Spared(a) /\ RowsStay(a)
         /\ WaitingHasFile'
<1>1. UNCHANGED <<locks, job, deleted>> /\ rows \in [Items -> Row]
  BY DEF Worker, Inv, TypeOK
<1>2. \A a \in Admins : Spared(a)
  BY <1>1 DEF locks, Spared
<1>3. CASE \E i \in Items : FindsNoVerified(i)
  <2>1. UNCHANGED <<rows, pendingFiles>>
    BY <1>3 DEF FindsNoVerified, database, files
  <2> QED
    BY <1>1, <1>2, <2>1 DEF RowsStay, Decided, WaitingHasFile, Waits
<1>4. CASE ~\E i \in Items : FindsNoVerified(i)
  <2>1. PICK i \in Items, state \in {"WAITING", "RESOLVED"} :
          /\ rows[i].state = "RECEIVED"
          /\ rows' = [rows EXCEPT ![i].state = state]
          /\ pendingFiles' = IF state = "WAITING" THEN pendingFiles \cup {i} ELSE pendingFiles
    BY <1>4 DEF Worker, HeldForReview, FiledByWorker
  <2>2. /\ rows'[i].state = state
        /\ \A j \in Items \ {i} : rows'[j] = rows[j]
    BY <1>1, <2>1 DEF Row
  <2>3. \A a \in Admins : RowsStay(a)
    BY <2>1, <2>2 DEF RowsStay, Decided
  <2>4. WaitingHasFile'
    BY <1>1, <2>1, <2>2 DEF WaitingHasFile, Waits
  <2> QED
    BY <1>2, <2>3, <2>4
<1> QED
  BY <1>3, <1>4

LEMMA RecordsInit == Init => RecordsInv
<1> SUFFICES ASSUME Init PROVE RecordsInv
  OBVIOUS
<1>1. Inv
  BY InitSound
<1>2. WaitingHasFile
  BY DEF Init, WaitingHasFile, Waits
<1>3. ASSUME NEW a \in Admins
      PROVE  Steady(a)
  <2>1. job[a] = Idle /\ Idle.pc = "idle" /\ Idle.kind = None
    BY DEF Init, Idle
  <2> QED
    BY <2>1, ReviewAssumption DEF Init, Steady, RowHeld, Ended, Holds, Target, FilingKinds, RowKinds, DocumentKinds, None
<1> QED
  BY <1>1, <1>2, <1>3 DEF RecordsInv

LEMMA RecordsNext == RecordsInv /\ [Next]_vars => RecordsInv'
<1> SUFFICES ASSUME RecordsInv, [Next]_vars PROVE RecordsInv'
  OBVIOUS
<1>1. Inv /\ Inv' /\ WaitingHasFile /\ Kept /\ \A a \in Admins : Steady(a)
  BY NextSound, NextKept DEF RecordsInv
<1>2. ASSUME NEW a \in Admins, Request(a) \/ Step(a) \/ Fault(a)
      PROVE  RecordsInv'
  <2>1. \A b \in Admins \ {a} : Steady(b)'
    BY <1>1, <1>2, OthersSpared, OthersRowsStay, StaysSteady
  <2> QED
    BY <1>1, <1>2, <2>1, AdminSteady, AdminWaiting DEF RecordsInv
<1>3. CASE Worker
  BY <1>1, <1>3, WorkerFrame, StaysSteady DEF RecordsInv
<1>4. CASE UNCHANGED vars
  <2>1. \A a \in Admins : Spared(a) /\ RowsStay(a)
    BY <1>4 DEF vars, Spared, RowsStay, Decided
  <2>2. WaitingHasFile'
    BY <1>1, <1>4 DEF vars, WaitingHasFile, Waits
  <2> QED
    BY <1>1, <2>1, <2>2, StaysSteady DEF RecordsInv
<1> QED
  BY <1>2, <1>3, <1>4 DEF Next

\* An item that waits keeps its file in pending/, whatever is copied, undone,
\* decided or cut short meanwhile; only a manual deletion takes it before its
\* transaction ends (adminReviewActionService.js, temporaryDataService.js).
THEOREM WaitingFilesKept == Spec => []WaitingHasFile
<1>1. RecordsInv => WaitingHasFile
  BY DEF RecordsInv
<1> QED
  BY RecordsInit, RecordsNext, <1>1, PTL DEF Spec

----------------------------------------------------------------------------
(* Waiting for locks *)

Waiting(a) == job[a].pc \in {"lockRow", "lockClient", "lockDocument"}

\* Who waits for a row lock waits for a request that has its row, and so waits
\* itself for a client or a document, if at all; who waits for a client waits
\* for a replacement that waits for its target; and who has a target's lock
\* and waits approves that document, which is then in review.
LEMMA WaitsFor ==
  ASSUME RecordsInv, NEW a \in Admins, NEW b \in Admins, Holder(a) = b, Waiting(b)
  PROVE  /\ job[a].pc = "lockRow" => job[b].pc \in {"lockClient", "lockDocument"}
         /\ job[a].pc = "lockClient" => job[b].pc = "lockDocument" /\ job[b].kind = "replace"
         /\ job[a].pc = "lockDocument" => job[b].pc = "lockClient" /\ InReview(job[a].document)
<1>1. Shape(job[a]) /\ Holds(b, job[b]) /\ Read(job[b]) /\ b # None
  BY ReviewAssumption DEF RecordsInv, Inv, Sound, Steady
<1>2. CASE job[a].pc = "lockRow"
  <2>1. job[a].item \in Items /\ rowLock[job[a].item] = b
    BY <1>1, <1>2 DEF Shape, Holder
  <2> QED
    BY <1>1, <1>2, <2>1 DEF Holds, UnderRow, Waiting
<1>3. CASE job[a].pc = "lockClient"
  <2>1. job[a].client # None /\ clientLock[job[a].client] = b
    BY <1>1, <1>3 DEF Holder
  <2>2. job[a].client \in Clients
    BY <1>1, <2>1 DEF Shape, Job
  <2> QED
    BY <1>1, <1>3, <2>1, <2>2 DEF Holds, Waiting
<1>4. CASE job[a].pc = "lockDocument"
  <2>1. job[a].document \in DocIds /\ documentLock[job[a].document] = b
    BY <1>1, <1>4 DEF Shape, Holder
  <2>2. job[b].pc = "lockClient" /\ job[b].kind = "approveDocument" /\ job[b].document = job[a].document
    BY <1>1, <2>1 DEF Holds, Waiting
  <2> QED
    BY <1>1, <1>4, <2>2 DEF Read
<1> QED
  BY <1>1, <1>2, <1>3, <1>4

LEMMA HolderWaits ==
  ASSUME NEW a \in Admins, Holder(a) \in Admins
  PROVE  Waiting(a)
BY ReviewAssumption DEF Holder, Waiting

\* Requests wait for each other's row locks in a circle only where one of them
\* replaces a document that is still in review: a replacement locks its target
\* after the client, which "Lock order is always reviewed row first, then the
\* client's users row" (adminReviewActionService.js) leaves out.
THEOREM LocksOrdered == Spec => []NoDeadlock
<1>1. RecordsInv => NoDeadlock
  <2> SUFFICES ASSUME RecordsInv, NEW S \in SUBSET Admins, S # {}, \A a \in S : Holder(a) \in S
               PROVE  \E a \in S : job[a].kind = "replace" /\ InReview(job[a].document)
    BY DEF NoDeadlock
  <2>1. \A a \in S : a \in Admins /\ Waiting(a) /\ Holder(a) \in Admins /\ Waiting(Holder(a))
    BY HolderWaits
  <2>2. CASE \E a \in S : job[a].pc = "lockClient"
    <3>1. PICK a \in S : job[a].pc = "lockClient"
      BY <2>2
    <3> DEFINE b == Holder(a)
    <3>2. a \in Admins /\ b \in S /\ b \in Admins /\ Waiting(b) /\ Holder(b) \in Admins /\ Waiting(Holder(b))
      BY <2>1
    <3>3. job[b].pc = "lockDocument" /\ job[b].kind = "replace"
      BY <3>1, <3>2, WaitsFor
    <3>4. InReview(job[b].document)
      BY <3>2, <3>3, WaitsFor
    <3> QED
      BY <3>2, <3>3, <3>4
  <2>3. CASE \A a \in S : job[a].pc # "lockClient"
    <3>1. \A a \in S : job[a].pc # "lockDocument"
      BY <2>1, <2>3, WaitsFor
    <3>2. \A a \in S : job[a].pc # "lockRow"
      BY <2>1, <2>3, <3>1, WaitsFor
    <3> QED
      BY <2>1, <2>3, <3>1, <3>2 DEF Waiting
  <2> QED
    BY <2>2, <2>3
<1> QED
  BY RecordsInit, RecordsNext, <1>1, PTL DEF Spec

----------------------------------------------------------------------------
(* Every commit is one of CaseRecords *)

RecordedRow(r) ==
  [state |-> IF r.state = "RESOLVED" THEN "CLOSED" ELSE r.state, client |-> r.client, type |-> r.type]
RecordedDocument(x) ==
  [status |-> x.status, client |-> x.client, type |-> x.type, date |-> IF x.dated THEN "known" ELSE None]

LEMMA RecordedValues ==
  /\ \A r \in Row : RecordedRow(r) \in Records!Row
  /\ \A x \in Document : RecordedDocument(x) \in Records!Document
  /\ \A x \in Document : x.status = "NONE" => RecordedDocument(x) = Records!NoDocument
<1>1. \A r \in Row : RecordedRow(r) \in Records!Row
  BY DEF Row, RecordedRow, Records!Row, Records!RowStates
<1>2. RecordedDocument(NoDocument) = Records!NoDocument
  BY DEF NoDocument, RecordedDocument, Records!NoDocument
<1>3. \A x \in StoredDocument : x.status # "NONE" /\ RecordedDocument(x) \in Records!StoredDocument
  <2>1. FolderTypes \subseteq Types
    BY ReviewAssumption
  <2> QED
    BY <2>1 DEF StoredDocument, RecordedDocument, Records!StoredDocument
<1> QED
  BY <1>1, <1>2, <1>3 DEF Document, Records!Document

LEMMA RecordedTables ==
  ASSUME Inv
  PROVE  /\ RecordedRows = [i \in Items |-> RecordedRow(rows[i])]
         /\ RecordedDocuments = [d \in DocIds |-> RecordedDocument(documents[d])]
         /\ RecordedRows' = [i \in Items |-> RecordedRow(rows'[i])]
         /\ RecordedDocuments' = [d \in DocIds |-> RecordedDocument(documents'[d])]
         /\ \A i \in Items : rows[i] \in Row
         /\ \A d \in DocIds : documents[d] \in Document
BY DEF RecordedRows, RecordedDocuments, RecordedRow, RecordedDocument, Inv, TypeOK

LEMMA RowChanges ==
  ASSUME Inv, NEW i \in Items, NEW new, rows' = [rows EXCEPT ![i] = new]
  PROVE  RecordedRows' = [RecordedRows EXCEPT ![i] = RecordedRow(new)]
<1>1. \A j \in Items : rows'[j] = IF j = i THEN new ELSE rows[j]
  BY DEF Inv, TypeOK
<1> QED
  BY <1>1, RecordedTables

LEMMA DocumentChanges ==
  ASSUME Inv, NEW d \in DocIds, NEW new, documents' = [documents EXCEPT ![d] = new]
  PROVE  RecordedDocuments' = [RecordedDocuments EXCEPT ![d] = RecordedDocument(new)]
<1>1. \A e \in DocIds : documents'[e] = IF e = d THEN new ELSE documents[e]
  BY DEF Inv, TypeOK
<1> QED
  BY <1>1, RecordedTables

LEMMA SameRecords ==
  /\ UNCHANGED rows => UNCHANGED RecordedRows
  /\ UNCHANGED documents => UNCHANGED RecordedDocuments
BY DEF RecordedRows, RecordedDocuments

LEMMA RecordsBegin == Init => Records!CaseInit
<1> SUFFICES ASSUME Init PROVE Records!CaseInit
  OBVIOUS
<1>1. Inv
  BY InitSound
<1> QED
  BY <1>1, RecordedTables, RecordedValues DEF Records!CaseInit

LEMMA HeldImplements ==
  ASSUME Inv, NEW i \in Items, HeldForReview(i)
  PROVE  Records!Settle(i)
<1> DEFINE new == [rows[i] EXCEPT !.state = "WAITING"]
<1>1. /\ rows[i] \in Row /\ rows[i].state = "RECEIVED" /\ rows' = [rows EXCEPT ![i] = new] /\ UNCHANGED documents
  BY RecordedTables DEF HeldForReview
<1>2. RecordedRow(new) \in Records!Settled /\ RecordedRows[i].state = "RECEIVED"
  BY <1>1, RecordedTables DEF RecordedRow, Row, Records!Settled
<1> HIDE DEF new
<1>3. RecordedRows' = [RecordedRows EXCEPT ![i] = RecordedRow(new)]
  BY <1>1, RowChanges
<1> QED
  BY <1>1, <1>2, <1>3, SameRecords DEF Records!Settle

LEMMA FiledImplements ==
  ASSUME Inv, NEW i \in Items, NEW d \in DocIds, NEW status \in {"VERIFIED", "REVIEW_REQUIRED"}, NEW dated \in BOOLEAN,
         FiledByWorker(i, d, status, dated)
  PROVE  Records!FileReceived(i, d)
<1> DEFINE row == [rows[i] EXCEPT !.state = "RESOLVED"]
           name == FreeName(rows[i].client, rows[i].type)
           new == [status |-> status, client |-> rows[i].client, type |-> rows[i].type, content |-> Sha[i], name |-> name,
                   dated |-> dated, from |-> i]
<1>1. /\ rows[i] \in Row /\ rows[i].state = "RECEIVED" /\ rows' = [rows EXCEPT ![i] = row]
      /\ documents' = [documents EXCEPT ![d] = new]
      /\ documents[d] \in Document /\ documents[d].status = "NONE"
      /\ rows[i].client # None /\ rows[i].type \in FolderTypes /\ FolderTypes \subseteq Types
  BY RecordedTables, ReviewAssumption DEF FiledByWorker, Stored
<1>2. /\ RecordedRow(row) = [state |-> "CLOSED", client |-> rows[i].client, type |-> rows[i].type]
      /\ RecordedRows[i].state = "RECEIVED"
      /\ RecordedDocuments[d] = Records!NoDocument
  BY <1>1, RecordedTables, RecordedValues DEF RecordedRow, Row
<1> HIDE DEF name
<1>3. /\ RecordedDocument(new) \in Records!Filed
      /\ RecordedDocument(new).client = rows[i].client /\ RecordedDocument(new).type = rows[i].type
  BY <1>1 DEF RecordedDocument, Records!Filed, Row
<1> HIDE DEF new, row
<1>4. /\ RecordedRows' = [RecordedRows EXCEPT ![i] = RecordedRow(row)]
      /\ RecordedDocuments' = [RecordedDocuments EXCEPT ![d] = RecordedDocument(new)]
  BY <1>1, RowChanges, DocumentChanges
<1>5. RecordedDocuments'[d] = RecordedDocument(new)
  BY <1>4, RecordedTables
<1> QED
  BY <1>2, <1>3, <1>4, <1>5 DEF Records!FileReceived

LEMMA FileImplements ==
  ASSUME Inv, NEW a \in Admins, Steady(a), job[a].pc = "commit", ~job[a].expired, job[a].kind \in FilingKinds,
         NEW d \in DocIds, File(job[a], d)
  PROVE  Records!FileWaiting(job[a].item, d)
<1> DEFINE k == job[a]
           i == k.item
           row == [rows[i] EXCEPT !.state = "RESOLVED"]
           new == Filed(k)
           target == documents[k.document]
           old == [target EXCEPT !.status = "SUPERSEDED"]
<1>1. /\ k \in Job /\ i \in Items /\ k.client \in Clients /\ k.type \in FolderTypes /\ FolderTypes \subseteq Types
      /\ rows[i].state = "WAITING" /\ rows[i].client = k.client /\ rows[i].type = k.type
      /\ k.kind = "replace" => k.document \in FindVerifiedOfType(k.client, k.type, None)
  <2>1. Shape(k) /\ Read(k) /\ RowHeld(a, k) /\ k \in Job
    BY DEF Inv, TypeOK, Sound, Steady
  <2> HIDE DEF k
  <2>2. k.pc = "commit" /\ ~k.expired /\ k.kind \in FilingKinds
    BY DEF k
  <2> QED
    BY <2>1, <2>2, ReviewAssumption DEF Shape, Read, RowHeld, UnderRow, FilingKinds, Waits
<1>2. /\ rows[i] \in Row /\ documents[d] \in Document /\ documents[d].status = "NONE"
      /\ rows' = [rows EXCEPT ![i] = row]
      /\ documents' = [e \in DocIds |->
           CASE e = d -> new
             [] e # d /\ k.kind = "replace" /\ e = k.document -> [documents[e] EXCEPT !.status = "SUPERSEDED"]
             [] OTHER -> documents[e]]
  BY <1>1, RecordedTables DEF File, Stored
<1>3. /\ RecordedRow(row) = [RecordedRow(rows[i]) EXCEPT !.state = "CLOSED"]
      /\ RecordedRow(rows[i]).state = "WAITING"
      /\ RecordedRow(rows[i]).client = k.client /\ RecordedRow(rows[i]).type = k.type
  BY <1>1, <1>2 DEF RecordedRow, Row
<1> HIDE DEF row
<1>4. RecordedRows' = [RecordedRows EXCEPT ![i] = [@ EXCEPT !.state = "CLOSED"]] /\ RecordedRows[i] = RecordedRow(rows[i])
  <2>1. RecordedRows' = [RecordedRows EXCEPT ![i] = RecordedRow(row)]
    BY <1>1, <1>2, RowChanges
  <2>2. RecordedRows[i] = RecordedRow(rows[i])
    BY <1>1, RecordedTables
  <2> QED
    BY <1>3, <2>1, <2>2
<1>5. Records!Moves(i, "WAITING", "CLOSED") /\ RecordedRows[i].state = "WAITING"
  BY <1>3, <1>4 DEF Records!Moves
<1>6. RecordedDocuments[d] = Records!NoDocument
  BY <1>2, RecordedTables, RecordedValues
<1>7. RecordedDocument(new) \in Records!AsCopied(i, IF k.kind = "version" THEN "REVIEW_REQUIRED" ELSE "VERIFIED")
  <2>1. /\ new.status = IF k.kind = "version" THEN "REVIEW_REQUIRED" ELSE "VERIFIED"
        /\ new.client = k.client /\ new.type = k.type /\ new.dated = k.date
    BY DEF Filed
  <2> HIDE DEF new
  <2>2. RecordedDocument(new) = [status |-> IF k.kind = "version" THEN "REVIEW_REQUIRED" ELSE "VERIFIED",
                                 client |-> k.client, type |-> k.type, date |-> IF k.date THEN "known" ELSE None]
    BY <2>1 DEF RecordedDocument
  <2> QED
    BY <1>1, <1>3, <1>4, <2>2 DEF Records!AsCopied, Records!Filed
<1> HIDE DEF new
<1>8. CASE k.kind # "replace"
  <2>1. documents' = [documents EXCEPT ![d] = new]
    BY <1>2, <1>8 DEF Inv, TypeOK
  <2>2. RecordedDocuments' = [RecordedDocuments EXCEPT ![d] = RecordedDocument(new)]
    BY <2>1, DocumentChanges
  <2> DEFINE status == IF k.kind = "version" THEN "REVIEW_REQUIRED" ELSE "VERIFIED"
             filed == {[RecordedDocuments EXCEPT ![d] = copied] : copied \in Records!AsCopied(i, status)}
  <2>3. RecordedDocuments' \in filed
    BY <1>7, <2>2
  <2>4. CASE k.kind = "version"
    BY <1>5, <1>6, <2>3, <2>4 DEF Records!FileWaiting
  <2>5. CASE k.kind = "approve"
    <3>1. status = "VERIFIED"
      BY <2>5
    <3>2. RecordedDocuments' \in {[RecordedDocuments EXCEPT ![d] = copied] : copied \in Records!AsCopied(i, "VERIFIED")}
      BY <2>3, <3>1
    <3>3. RecordedDocuments' \in {[RecordedDocuments EXCEPT ![d] = copied] : copied \in Records!AsCopied(i, "VERIFIED")}
                       \cup {[RecordedDocuments EXCEPT ![d] = copied, ![e] = [@ EXCEPT !.status = "SUPERSEDED"]] :
                               copied \in Records!AsCopied(i, "VERIFIED"), e \in Records!Supersedable(i)}
      BY <3>2
    <3> HIDE DEF filed
    <3> QED
      BY <1>5, <1>6, <3>3 DEF Records!FileWaiting
  <2> QED
    BY <1>8, <2>4, <2>5 DEF FilingKinds
<1>9. CASE k.kind = "replace"
  <2> DEFINE e == k.document
  <2>1. e \in DocIds /\ e # d /\ target \in Document /\ target.status = "VERIFIED"
        /\ target.client = k.client /\ target.type = k.type
    BY <1>1, <1>2, <1>9, RecordedTables DEF FindVerifiedOfType
  <2>2. RecordedDocument(old) = [RecordedDocument(target) EXCEPT !.status = "SUPERSEDED"]
        /\ RecordedDocument(target).status = "VERIFIED" /\ RecordedDocument(target).client = k.client
        /\ RecordedDocument(target).type = k.type
    BY <2>1 DEF RecordedDocument, Document, StoredDocument, NoDocument
  <2>3. \A f \in DocIds : documents'[f] = IF f = d THEN new ELSE IF f = e THEN old ELSE documents[f]
    BY <1>2, <1>9, <2>1
  <2> HIDE DEF old, target
  <2>4. \A f \in DocIds : RecordedDocuments'[f] = IF f = d THEN RecordedDocument(new)
                                                 ELSE IF f = e THEN RecordedDocument(old) ELSE RecordedDocuments[f]
    BY <2>3, RecordedTables
  <2>5. RecordedDocuments[e] = RecordedDocument(target)
    BY <2>1, RecordedTables DEF target
  <2>6. e \in Records!Supersedable(i)
    BY <1>3, <1>4, <2>1, <2>2, <2>5 DEF Records!Supersedable
  <2>7. RecordedDocuments' = [RecordedDocuments EXCEPT ![d] = RecordedDocument(new), ![e] = [@ EXCEPT !.status = "SUPERSEDED"]]
    BY <2>1, <2>2, <2>4, <2>5, RecordedTables
  <2>8. RecordedDocument(new) \in Records!AsCopied(i, "VERIFIED")
    BY <1>7, <1>9
  <2> DEFINE After(copied, superseded) ==
               [RecordedDocuments EXCEPT ![d] = copied, ![superseded] = [@ EXCEPT !.status = "SUPERSEDED"]]
  <2>9. RecordedDocuments' \in {After(copied, superseded) :
                                 copied \in Records!AsCopied(i, "VERIFIED"), superseded \in Records!Supersedable(i)}
    <3>1. RecordedDocuments' = After(RecordedDocument(new), e)
      BY <2>7
    <3> HIDE DEF After
    <3> QED
      BY <2>6, <2>8, <3>1
  <2> QED
    BY <1>5, <1>6, <2>9 DEF Records!FileWaiting
<1> QED
  BY <1>8, <1>9

LEMMA ChangeDocumentImplements ==
  ASSUME Inv, NEW a \in Admins, job[a].pc = "commit", job[a].kind \in DocumentKinds, ChangeDocument(job[a])
  PROVE  \/ UNCHANGED <<RecordedRows, RecordedDocuments>>
         \/ \E d \in DocIds : Records!ApproveStored(d) \/ Records!RemoveStored(d) \/ Records!SetDate(d)
<1> DEFINE k == job[a]
           d == k.document
           old == documents[d]
           new == Changed(k, old)
<1>1. /\ k \in Job /\ d \in DocIds /\ old \in Document
      /\ k.kind \in {"approveDocument", "removeDocument"} => old.status = "REVIEW_REQUIRED"
      /\ k.kind = "setDate" => old.status # "NONE"
      /\ documents' = [documents EXCEPT ![d] = new] /\ UNCHANGED rows
  BY RecordedTables DEF Inv, TypeOK, Sound, Shape, Read, InReview, Stored, DocumentKinds, ChangeDocument
<1>2. /\ RecordedDocuments[d] = RecordedDocument(old) /\ UNCHANGED RecordedRows
  BY <1>1, RecordedTables, SameRecords
<1>3. CASE k.kind = "approveDocument"
  <2>1. old \in StoredDocument
    BY <1>1, <1>3 DEF Document, NoDocument
  <2> DEFINE shown == IF old.dated \/ k.date THEN "known" ELSE None
  <2>2. new = [old EXCEPT !.status = "VERIFIED", !.dated = old.dated \/ k.date]
    BY <1>3 DEF Changed
  <2>3. RecordedDocument(new) = [RecordedDocument(old) EXCEPT !.status = "VERIFIED", !.date = shown]
        /\ RecordedDocument(old).status = "REVIEW_REQUIRED"
        /\ shown \in {"known", RecordedDocument(old).date}
    <3>1. old.dated \in BOOLEAN /\ k.date \in BOOLEAN
      BY <1>1, <2>1 DEF StoredDocument, Job
    <3>2. /\ new.status = "VERIFIED" /\ new.client = old.client /\ new.type = old.type
          /\ new.dated = (old.dated \/ k.date) /\ old.status = "REVIEW_REQUIRED"
      BY <1>1, <1>3, <2>1, <2>2 DEF StoredDocument
    <3>3. shown \in {"known", IF old.dated THEN "known" ELSE None} /\ shown = IF new.dated THEN "known" ELSE None
      BY <3>1, <3>2
    <3> HIDE DEF new, shown
    <3>4. RecordedDocument(new) = [RecordedDocument(old) EXCEPT !.status = "VERIFIED", !.date = shown]
      <4> DEFINE half == [RecordedDocument(old) EXCEPT !.status = "VERIFIED"]
      <4>1. half = [status |-> "VERIFIED", client |-> old.client, type |-> old.type,
                    date |-> IF old.dated THEN "known" ELSE None]
        BY DEF RecordedDocument
      <4> HIDE DEF half
      <4>2. [half EXCEPT !.date = shown] = [status |-> "VERIFIED", client |-> old.client, type |-> old.type, date |-> shown]
        BY <4>1
      <4>3. RecordedDocument(new) = [half EXCEPT !.date = shown]
        BY <3>2, <3>3, <4>2 DEF RecordedDocument
      <4> QED
        BY <4>3 DEF half
    <3>5. RecordedDocument(old).status = "REVIEW_REQUIRED" /\ shown \in {"known", RecordedDocument(old).date}
      BY <3>2, <3>3 DEF RecordedDocument
    <3> QED
      BY <3>4, <3>5
  <2> HIDE DEF shown, new
  <2>4. RecordedDocuments' = [RecordedDocuments EXCEPT ![d] = [@ EXCEPT !.status = "VERIFIED", !.date = shown]]
    <3>1. RecordedDocuments' = [RecordedDocuments EXCEPT ![d] = RecordedDocument(new)]
      BY <1>1, DocumentChanges
    <3> QED
      BY <1>2, <2>3, <3>1
  <2>5. Records!ApproveStored(d)
    BY <1>2, <2>3, <2>4 DEF Records!ApproveStored
  <2> QED
    BY <1>1, <2>5
<1>4. CASE k.kind = "removeDocument"
  <2>1. new = NoDocument
    BY <1>4 DEF Changed
  <2>2. RecordedDocument(new) = Records!NoDocument /\ RecordedDocument(old).status = "REVIEW_REQUIRED"
    BY <1>1, <1>4, <2>1, RecordedValues DEF Document, NoDocument, RecordedDocument
  <2> HIDE DEF new
  <2>3. RecordedDocuments' = [RecordedDocuments EXCEPT ![d] = Records!NoDocument]
    <3>1. RecordedDocuments' = [RecordedDocuments EXCEPT ![d] = RecordedDocument(new)]
      BY <1>1, DocumentChanges
    <3> QED
      BY <2>2, <3>1
  <2>4. Records!RemoveStored(d)
    BY <1>2, <2>2, <2>3 DEF Records!RemoveStored
  <2> QED
    BY <1>1, <2>4
<1>5. CASE k.kind = "setDate"
  <2>1. old \in StoredDocument /\ old.status # "NONE"
    BY <1>1, <1>5 DEF Document, NoDocument
  <2>2. new = [old EXCEPT !.dated = TRUE]
    BY <1>5 DEF Changed
  <2>3. RecordedDocument(new) = [RecordedDocument(old) EXCEPT !.date = "known"]
        /\ RecordedDocument(old) # Records!NoDocument
    BY <2>1, <2>2 DEF RecordedDocument, StoredDocument, Records!NoDocument
  <2> HIDE DEF new
  <2>4. RecordedDocuments' = [RecordedDocuments EXCEPT ![d] = [@ EXCEPT !.date = "known"]]
    <3>1. RecordedDocuments' = [RecordedDocuments EXCEPT ![d] = RecordedDocument(new)]
      BY <1>1, DocumentChanges
    <3> QED
      BY <1>2, <2>3, <3>1
  <2>5. Records!SetDate(d)
    BY <1>2, <2>3, <2>4 DEF Records!SetDate
  <2> QED
    BY <1>1, <2>5
<1>6. CASE k.kind = "keepDocument"
  <2>1. new = old
    BY <1>6 DEF Changed
  <2>2. documents' = documents
    BY <1>1, <2>1 DEF Inv, TypeOK
  <2> QED
    BY <1>2, <2>2, SameRecords
<1> QED
  BY <1>3, <1>4, <1>5, <1>6 DEF DocumentKinds

LEMMA ChangeRowImplements ==
  ASSUME Inv, NEW a \in Admins, Steady(a), job[a].pc = "commit", ~job[a].expired, job[a].kind \in RowKinds, ChangeRow(job[a])
  PROVE  \/ UNCHANGED <<RecordedRows, RecordedDocuments>>
         \/ \E i \in Items : Records!Correct(i) \/ Records!Delete(i)
<1> DEFINE k == job[a]
           i == k.item
           old == rows[i]
           new == CASE k.kind \in {"remove", "delete"} -> [old EXCEPT !.state = "GONE"]
                    [] k.kind = "setType" -> [old EXCEPT !.type = k.type]
                    [] k.kind = "assign" -> [old EXCEPT !.client = k.client]
                    [] OTHER -> old
<1>1. /\ i \in Items /\ old \in Row /\ old.state \in {"WAITING", "RESOLVED"}
      /\ k.kind # "delete" => old.state = "WAITING"
      /\ k.kind = "assign" => k.client \in Clients
      /\ k.kind = "setType" => k.type \in Types
      /\ rows' = [rows EXCEPT ![i] = new]
  BY RecordedTables DEF Inv, TypeOK, Sound, Shape, Steady, RowHeld, UnderRow, Waits, ChangeRow
<1>2. UNCHANGED RecordedDocuments
  <2>1. \A d \in DocIds : documents'[d] = documents[d] \/ documents'[d] = [documents[d] EXCEPT !.from = None]
    BY DEF ChangeRow
  <2>2. ASSUME NEW d \in DocIds
        PROVE  RecordedDocument(documents'[d]) = RecordedDocument(documents[d])
    <3> DEFINE x == documents[d]
               y == [x EXCEPT !.from = None]
    <3>1. y.status = x.status /\ y.client = x.client /\ y.type = x.type /\ y.dated = x.dated
      BY RecordedTables DEF Document, StoredDocument, NoDocument
    <3>2. RecordedDocument(y) = RecordedDocument(x)
      BY <3>1 DEF RecordedDocument
    <3> QED
      BY <2>1, <3>2
  <2> QED
    BY <2>2, RecordedTables
<1>3. RecordedRows[i] = RecordedRow(old)
  BY <1>1, RecordedTables
<1>4. CASE k.kind \in {"remove", "delete"}
  <2>1. RecordedRow(new) = [RecordedRow(old) EXCEPT !.state = "GONE"] /\ RecordedRow(old).state # "GONE"
    BY <1>1, <1>4 DEF RecordedRow, Row
  <2> HIDE DEF new
  <2>2. RecordedRows' = [RecordedRows EXCEPT ![i] = [@ EXCEPT !.state = "GONE"]]
    <3>1. RecordedRows' = [RecordedRows EXCEPT ![i] = RecordedRow(new)]
      BY <1>1, RowChanges
    <3> QED
      BY <1>3, <2>1, <3>1
  <2>3. Records!Delete(i)
    BY <1>2, <1>3, <2>1, <2>2 DEF Records!Delete
  <2> QED
    BY <1>1, <2>3
<1>5. CASE k.kind = "setType"
  <2>1. RecordedRow(new) = [RecordedRow(old) EXCEPT !.type = k.type] /\ RecordedRow(old).state = "WAITING"
    BY <1>1, <1>5 DEF RecordedRow, Row
  <2> HIDE DEF new
  <2>2. RecordedRows' = [RecordedRows EXCEPT ![i] = [@ EXCEPT !.type = k.type]]
    <3>1. RecordedRows' = [RecordedRows EXCEPT ![i] = RecordedRow(new)]
      BY <1>1, RowChanges
    <3> QED
      BY <1>3, <2>1, <3>1
  <2>3. Records!Correct(i)
    BY <1>1, <1>2, <1>3, <1>5, <2>1, <2>2 DEF Records!Correct
  <2> QED
    BY <1>1, <2>3
<1>6. CASE k.kind = "assign"
  <2>1. RecordedRow(new) = [RecordedRow(old) EXCEPT !.client = k.client] /\ RecordedRow(old).state = "WAITING"
    BY <1>1, <1>6 DEF RecordedRow, Row
  <2> HIDE DEF new
  <2>2. RecordedRows' = [RecordedRows EXCEPT ![i] = [@ EXCEPT !.client = k.client]]
    <3>1. RecordedRows' = [RecordedRows EXCEPT ![i] = RecordedRow(new)]
      BY <1>1, RowChanges
    <3> QED
      BY <1>3, <2>1, <3>1
  <2>3. Records!Correct(i)
    BY <1>1, <1>2, <1>3, <1>6, <2>1, <2>2 DEF Records!Correct
  <2> QED
    BY <1>1, <2>3
<1>7. CASE k.kind = "keep"
  <2>1. new = old
    BY <1>7
  <2>2. rows' = rows
    BY <1>1, <2>1 DEF Inv, TypeOK
  <2> QED
    BY <1>2, <2>2, SameRecords
<1> QED
  BY <1>4, <1>5, <1>6, <1>7 DEF RowKinds

\* Locks, copies, faults and requests that overtake each other come down to the
\* single commits of CaseRecords: a file is filed once, from a row that waits and
\* under what its row says at that moment, and a verified document ends only by
\* the one that supersedes it (adminReviewActionService.js).
THEOREM DecisionsImplementRecords == Spec => ImplementsRecords
<1>1. RecordsInv /\ [Next]_vars => [UNCHANGED Records!caseVars \/ Records!CaseNext]_(Records!caseVars)
  <2> SUFFICES ASSUME RecordsInv, [Next]_vars
               PROVE  UNCHANGED <<RecordedRows, RecordedDocuments>> \/ Records!CaseNext
    BY DEF Records!caseVars
  <2>1. Inv /\ \A a \in Admins : Steady(a)
    BY DEF RecordsInv
  <2>2. ASSUME NEW a \in Admins, Commit(a) \/ AnswerLost(a)
        PROVE  UNCHANGED <<RecordedRows, RecordedDocuments>> \/ Records!CaseNext
    <3>1. /\ job[a].pc = "commit" /\ ~job[a].expired
          /\ \/ job[a].kind \in FilingKinds /\ \E d \in DocIds : File(job[a], d)
             \/ job[a].kind \in DocumentKinds /\ ChangeDocument(job[a])
             \/ job[a].kind \in RowKinds /\ ChangeRow(job[a])
      BY <2>2, CommitCases
    <3>2. job[a].kind \in FilingKinds => job[a].item \in Items
      BY <2>1 DEF Inv, Sound, Shape
    <3> QED
      BY <2>1, <3>1, <3>2, FileImplements, ChangeDocumentImplements, ChangeRowImplements DEF Records!CaseNext
  <2>3. ASSUME NEW a \in Admins, Request(a) \/ Step(a) \/ Fault(a), ~Commit(a), ~AnswerLost(a)
        PROVE  UNCHANGED <<RecordedRows, RecordedDocuments>>
    BY <2>3, OtherwiseUnchanged, SameRecords DEF database
  <2>4. CASE Worker
    <3>1. ASSUME NEW i \in Items, FindsNoVerified(i)
          PROVE  UNCHANGED <<RecordedRows, RecordedDocuments>>
      BY <3>1, SameRecords DEF FindsNoVerified, database
    <3> QED
      BY <2>1, <2>4, <3>1, HeldImplements, FiledImplements DEF Worker, Records!CaseNext
  <2>5. CASE UNCHANGED vars
    BY <2>5, SameRecords DEF vars
  <2> QED
    BY <2>2, <2>3, <2>4, <2>5 DEF Next
<1> QED
  BY RecordsBegin, RecordsInit, RecordsNext, <1>1, PTL DEF Spec, ImplementsRecords, Records!CaseSpec

----------------------------------------------------------------------------
(***************************************************************************)
(* The third part: the files of the stored documents under the requests.   *)
(* The argument: a name in a client's folder is taken only when it is free *)
(* (uploads and copies never overwrite), a request that has copied is the  *)
(* only one to know its copy's name until the commit, and a removed        *)
(* document's name is known to its removal alone.                          *)
(***************************************************************************)

Early == {"idle", "download", "lockRow", "lockClient", "lockDocument", "copy", "removeFiles"}

\* The request has copied to n, or is about to delete the file of a removed document.
Has(a, n) ==
  /\ job[a].name = n
  /\ job[a].pc \in {"commit", "undo"} \/ (job[a].pc = "tidy" /\ job[a].kind = "removeDocument")

NotOnRecord(n) == \A d \in DocIds : documents[d].name # n

Alone(a, n) ==
  /\ folders[n] # None
  /\ NotOnRecord(n)
  /\ \A b \in Admins \ {a} : ~Has(b, n)
  /\ job[a].pc # "tidy" => folders[n] = Sha[job[a].item]

Owned == \A a \in Admins : \A n \in Name \ undone : Has(a, n) => Alone(a, n)
Unnamed == \A a \in Admins : job[a].pc \in Early => job[a].name = NoName

FilesInv == Inv /\ DocumentHasFile /\ Owned /\ Unnamed

----------------------------------------------------------------------------
(* Names *)

LEMMA NoNameIsNone == NoName \notin Name
<1>1. ASSUME NoName \in Name PROVE FALSE
  <2>1. NoName[1] \in Clients
    BY <1>1 DEF Name
  <2> QED
    BY <2>1, ReviewAssumption DEF NoName
<1> QED
  BY <1>1

LEMMA DocumentNames ==
  ASSUME Inv, NEW d \in DocIds
  PROVE  /\ Stored(d) => documents[d].name \in Name /\ documents[d].content \in Contents
         /\ ~Stored(d) => documents[d].name = NoName
         /\ documents[d] \in Document
<1>1. documents[d] \in Document
  BY DEF Inv, TypeOK
<1> QED
  BY <1>1 DEF Stored, Document, StoredDocument, NoDocument

\* A free name is nobody's, unless it was taken from a stored document.
LEMMA FreeIsNobodys ==
  ASSUME FilesInv, NEW n \in Name \ undone, folders[n] = None
  PROVE  NotOnRecord(n) /\ \A a \in Admins : ~Has(a, n)
<1>1. ASSUME NEW d \in DocIds, documents[d].name = n PROVE FALSE
  BY <1>1, NoNameIsNone, DocumentNames, ReviewAssumption DEF FilesInv, DocumentHasFile
<1>2. \A a \in Admins : ~Has(a, n)
  BY DEF FilesInv, Owned, Alone
<1> QED
  BY <1>1, <1>2 DEF NotOnRecord

LEMMA FreeNameIsFree ==
  ASSUME NEW client \in Clients, NEW type \in FolderTypes, FreeNumbers(client, type) # {}
  PROVE  folders[FreeName(client, type)] = None /\ FreeName(client, type) \in Name
<1> DEFINE F == FreeNumbers(client, type)
           n == CHOOSE n \in F : \A m \in F : n <= m
<1>1. F \in SUBSET Nat
  BY ReviewAssumption DEF FreeNumbers
<1>2. \E x \in F : \A m \in F : x <= m
  <2> HIDE DEF F
  <2> QED
    BY <1>1, LeastNumber DEF F
<1>3. n \in F
  <2> HIDE DEF F
  <2> QED
    BY <1>2
<1>4. folders[<<client, type, n>>] = None
  <2> HIDE DEF n
  <2> QED
    BY <1>3 DEF FreeNumbers
<1> QED
  BY <1>4, FreeNameIsName DEF FreeName

----------------------------------------------------------------------------
(* What steps do to names *)

Others(a) == \A b \in Admins \ {a} : job'[b] = job[b]

\* Whoever has a name after the step had it before.
Keeps(a) ==
  \A n \in Name : Has(a, n)' =>
    Has(a, n) /\ job'[a].item = job[a].item /\ (job'[a].pc # "tidy" => job[a].pc # "tidy")
StartsUnnamed(a) == job'[a].pc \in Early => job'[a].name = NoName

\* No document comes on record or changes its file.
NothingFiled ==
  \A d \in DocIds :
    /\ Stored(d)' => Stored(d) /\ documents'[d].name = documents[d].name /\ documents'[d].content = documents[d].content
    /\ documents'[d].name \in Name => documents'[d].name = documents[d].name

LEMMA OthersKeep ==
  ASSUME FilesInv, NEW a \in Admins, Others(a)
  PROVE  \A b \in Admins \ {a} : Keeps(b) /\ StartsUnnamed(b)
BY DEF Others, Keeps, StartsUnnamed, Has, FilesInv, Unnamed

LEMMA QuietFiles ==
  ASSUME FilesInv, Inv', UNCHANGED folders, undone \subseteq undone', NothingFiled,
         \A a \in Admins : Keeps(a) /\ StartsUnnamed(a)
  PROVE  FilesInv'
<1>1. DocumentHasFile'
  BY DEF FilesInv, DocumentHasFile, NothingFiled
<1>2. Owned'
  <2> SUFFICES ASSUME NEW a \in Admins, NEW n \in Name \ undone', Has(a, n)' PROVE Alone(a, n)'
    BY DEF Owned
  <2>1. Alone(a, n) /\ job'[a].item = job[a].item /\ (job'[a].pc # "tidy" => job[a].pc # "tidy")
    BY DEF Keeps, FilesInv, Owned
  <2>2. NotOnRecord(n)'
    BY <2>1 DEF NotOnRecord, NothingFiled, Alone
  <2>3. \A b \in Admins \ {a} : ~Has(b, n)'
    BY <2>1 DEF Alone, Keeps
  <2> QED
    BY <2>1, <2>2, <2>3 DEF Alone
<1>3. Unnamed'
  BY DEF Unnamed, StartsUnnamed
<1> QED
  BY <1>1, <1>2, <1>3 DEF FilesInv

LEMMA QuietStepOfOne ==
  ASSUME FilesInv, Inv', NEW a \in Admins, Others(a), Keeps(a), StartsUnnamed(a),
         UNCHANGED folders, undone \subseteq undone', NothingFiled
  PROVE  FilesInv'
BY OthersKeep, QuietFiles

\* A document comes on record, under a name that nobody else has unless it was
\* taken from a stored document.
LEMMA Recorded ==
  ASSUME FilesInv, Inv', NEW n \in Name, NEW d \in DocIds,
         documents'[d].name = n, n \in undone' \/ documents'[d].content = folders'[n],
         \A e \in DocIds \ {d} : documents'[e].name = documents[e].name /\ documents'[e].content = documents[e].content
                                 /\ (Stored(e)' => Stored(e)),
         \A m \in Name \ {n} : folders'[m] = folders[m],
         n \in undone \/ NotOnRecord(n),
         undone \subseteq undone',
         \A a \in Admins : Keeps(a) /\ StartsUnnamed(a) /\ (Has(a, n)' => n \in undone')
  PROVE  FilesInv'
<1>1. DocumentHasFile'
  <2> SUFFICES ASSUME NEW e \in DocIds, Stored(e)', documents'[e].name \notin undone'
               PROVE  folders'[documents'[e].name] = documents'[e].content
    BY DEF DocumentHasFile
  <2>1. CASE e = d
    BY <2>1
  <2>2. CASE e # d
    <3>1. Stored(e) /\ documents'[e].name = documents[e].name /\ documents'[e].content = documents[e].content
      BY <2>2
    <3>2. documents[e].name # n /\ documents[e].name \in Name
      BY <3>1, DocumentNames DEF NotOnRecord, FilesInv
    <3> QED
      BY <3>1, <3>2 DEF FilesInv, DocumentHasFile
  <2> QED
    BY <2>1, <2>2
<1>2. Owned'
  <2> SUFFICES ASSUME NEW a \in Admins, NEW m \in Name \ undone', Has(a, m)' PROVE Alone(a, m)'
    BY DEF Owned
  <2>1. m # n
    OBVIOUS
  <2>2. Alone(a, m) /\ job'[a].item = job[a].item /\ (job'[a].pc # "tidy" => job[a].pc # "tidy")
    BY DEF Keeps, FilesInv, Owned
  <2>3. NotOnRecord(m)'
    BY <2>1, <2>2 DEF NotOnRecord, Alone
  <2>4. \A b \in Admins \ {a} : ~Has(b, m)'
    BY <2>2 DEF Alone, Keeps
  <2> QED
    BY <2>1, <2>2, <2>3, <2>4 DEF Alone
<1>3. Unnamed'
  BY DEF Unnamed, StartsUnnamed
<1> QED
  BY <1>1, <1>2, <1>3 DEF FilesInv

\* A copy is made under a free name.
LEMMA Copied ==
  ASSUME FilesInv, Inv', NEW a \in Admins, Others(a), NEW n \in Name, folders[n] = None,
         job[a].item \in Items, folders' = [folders EXCEPT ![n] = Sha[job[a].item]],
         job'[a].item = job[a].item, job'[a].name = n, job'[a].pc = "commit",
         UNCHANGED <<documents, undone>>
  PROVE  FilesInv'
<1>1. \A m \in Name : folders'[m] = IF m = n THEN Sha[job[a].item] ELSE folders[m]
  BY DEF FilesInv, Inv, TypeOK
<1>2. n \notin undone => NotOnRecord(n) /\ \A b \in Admins : ~Has(b, n)
  BY FreeIsNobodys
<1>3. DocumentHasFile'
  <2> SUFFICES ASSUME NEW e \in DocIds, Stored(e), documents[e].name \notin undone
               PROVE  folders'[documents[e].name] = documents[e].content
    BY DEF DocumentHasFile, Stored
  <2>1. documents[e].name \in Name /\ documents[e].name # n
    BY <1>2, DocumentNames DEF NotOnRecord, FilesInv
  <2> QED
    BY <1>1, <2>1 DEF FilesInv, DocumentHasFile
<1>4. Owned'
  <2> SUFFICES ASSUME NEW b \in Admins, NEW m \in Name \ undone', Has(b, m)' PROVE Alone(b, m)'
    BY DEF Owned
  <2>1. Sha[job[a].item] # None
    BY ReviewAssumption
  <2>2. CASE b = a
    <3>1. m = n
      BY <2>2 DEF Has
    <3>2. \A c \in Admins \ {a} : ~Has(c, n)'
      BY <1>2, <3>1 DEF Has, Others
    <3> QED
      BY <1>1, <1>2, <2>1, <2>2, <3>1, <3>2 DEF Alone, NotOnRecord
  <2>3. CASE b # a
    <3>1. Has(b, m) /\ job'[b] = job[b]
      BY <2>3 DEF Has, Others
    <3>2. Alone(b, m) /\ m # n
      BY <1>2, <3>1 DEF FilesInv, Owned
    <3>3. \A c \in Admins \ {b} : ~Has(c, m)'
      BY <3>2 DEF Alone, Has, Others
    <3> QED
      BY <1>1, <3>1, <3>2, <3>3 DEF Alone, NotOnRecord
  <2> QED
    BY <2>2, <2>3
<1>5. Unnamed'
  BY DEF Unnamed, Others, FilesInv, Early
<1> QED
  BY <1>3, <1>4, <1>5 DEF FilesInv

\* A document is removed, and its removal alone knows the name of its file.
LEMMA Forgotten ==
  ASSUME FilesInv, Inv', NEW a \in Admins, Others(a), NEW d \in DocIds, Stored(d), documents'[d] = NoDocument,
         \A e \in DocIds \ {d} : documents'[e] = documents[e] /\ documents[e].name # documents[d].name,
         job'[a].pc = "tidy", job'[a].name = documents[d].name,
         UNCHANGED <<folders, undone>>
  PROVE  FilesInv'
<1> DEFINE n == documents[d].name
<1>1. n \in Name /\ documents[d].content \in Contents /\ documents'[d].name = NoName /\ ~Stored(d)' /\ n # NoName
  BY DocumentNames, NoNameIsNone DEF FilesInv, NoDocument, Stored
<1>2. n \notin undone => folders[n] # None /\ \A b \in Admins : ~Has(b, n)
  BY <1>1, ReviewAssumption DEF FilesInv, DocumentHasFile, Owned, Alone, NotOnRecord
<1>3. DocumentHasFile'
  BY <1>1 DEF FilesInv, DocumentHasFile, Stored
<1>4. Owned'
  <2> SUFFICES ASSUME NEW b \in Admins, NEW m \in Name \ undone', Has(b, m)' PROVE Alone(b, m)'
    BY DEF Owned
  <2>1. CASE b = a
    <3>1. m = n
      BY <2>1 DEF Has
    <3>2. \A c \in Admins \ {a} : ~Has(c, m)'
      BY <1>2, <3>1 DEF Has, Others
    <3>3. NotOnRecord(m)'
      BY <1>1, <3>1 DEF NotOnRecord
    <3> QED
      BY <1>2, <2>1, <3>1, <3>2, <3>3 DEF Alone
  <2>2. CASE b # a
    <3>1. Has(b, m) /\ job'[b] = job[b]
      BY <2>2 DEF Has, Others
    <3>2. Alone(b, m) /\ m # n
      BY <1>2, <3>1 DEF FilesInv, Owned
    <3>3. \A c \in Admins \ {b} : ~Has(c, m)'
      BY <3>2 DEF Alone, Has, Others
    <3>4. NotOnRecord(m)'
      BY <1>1, <3>2, NoNameIsNone DEF NotOnRecord, Alone
    <3> QED
      BY <3>1, <3>2, <3>3, <3>4 DEF Alone
  <2> QED
    BY <2>1, <2>2
<1>5. Unnamed'
  BY DEF Unnamed, Others, FilesInv, Early
<1> QED
  BY <1>3, <1>4, <1>5 DEF FilesInv

\* The file of a copy that is undone, or of a removed document, goes.
LEMMA Deleted ==
  ASSUME FilesInv, Inv', NEW a \in Admins, Others(a), NEW n \in Name, Has(a, n),
         folders' = [folders EXCEPT ![n] = None], job'[a] = Idle, UNCHANGED <<documents, undone>>
  PROVE  FilesInv'
<1>1. \A m \in Name : folders'[m] = IF m = n THEN None ELSE folders[m]
  BY DEF FilesInv, Inv, TypeOK
<1>2. n \notin undone => NotOnRecord(n) /\ \A b \in Admins \ {a} : ~Has(b, n)
  BY DEF FilesInv, Owned, Alone
<1>3. DocumentHasFile'
  <2> SUFFICES ASSUME NEW e \in DocIds, Stored(e), documents[e].name \notin undone
               PROVE  folders'[documents[e].name] = documents[e].content
    BY DEF DocumentHasFile, Stored
  <2>1. documents[e].name \in Name /\ documents[e].name # n
    BY <1>2, DocumentNames DEF NotOnRecord, FilesInv
  <2> QED
    BY <1>1, <2>1 DEF FilesInv, DocumentHasFile
<1>4. job'[a].pc = "idle" /\ job'[a].name = NoName
  BY DEF Idle
<1>5. Owned'
  <2> SUFFICES ASSUME NEW b \in Admins, NEW m \in Name \ undone', Has(b, m)' PROVE Alone(b, m)'
    BY DEF Owned
  <2>1. b # a
    BY <1>4 DEF Has
  <2>2. Has(b, m) /\ job'[b] = job[b]
    BY <2>1 DEF Has, Others
  <2>3. Alone(b, m) /\ m # n
    BY <1>2, <2>1, <2>2 DEF FilesInv, Owned
  <2>4. \A c \in Admins \ {b} : ~Has(c, m)'
    BY <1>4, <2>3 DEF Alone, Has, Others
  <2> QED
    BY <1>1, <2>2, <2>3, <2>4 DEF Alone, NotOnRecord
<1>6. Unnamed'
  BY <1>4 DEF Unnamed, Others, FilesInv
<1> QED
  BY <1>3, <1>5, <1>6 DEF FilesInv

----------------------------------------------------------------------------
(* One step of a request *)

LEMMA RequestUnnamed ==
  ASSUME Inv, NEW a \in Admins, Request(a)
  PROVE  job'[a].name = NoName
<1>1. job \in [Admins -> Job]
  BY DEF Inv, TypeOK
<1>2. \A k : Begin(a, k) => job'[a] = k
  BY <1>1 DEF Begin
<1>3. ASSUME NEW i \in Items, NEW date \in BOOLEAN, Approve(a, i, date)
      PROVE  job'[a].name = NoName
  <2> DEFINE k == [Idle EXCEPT !.pc = "download", !.kind = "approve", !.item = i, !.date = date]
  <2>1. k.name = NoName
    BY DEF Idle
  <2>2. Begin(a, k)
    BY <1>3 DEF Approve
  <2> HIDE DEF k
  <2> QED
    BY <1>2, <2>1, <2>2
<1>4. ASSUME NEW i \in Items, NEW d \in DocIds, NEW date \in BOOLEAN, ReplaceVerifiedDocument(a, i, d, date)
      PROVE  job'[a].name = NoName
  <2> DEFINE k == [Idle EXCEPT !.pc = "download", !.kind = "replace", !.item = i, !.document = d, !.date = date]
  <2>1. k.name = NoName
    BY DEF Idle
  <2>2. Begin(a, k)
    BY <1>4 DEF ReplaceVerifiedDocument
  <2> HIDE DEF k
  <2> QED
    BY <1>2, <2>1, <2>2
<1>5. ASSUME NEW i \in Items, KeepDocumentAsVersion(a, i)
      PROVE  job'[a].name = NoName
  <2> DEFINE k == [Idle EXCEPT !.pc = "download", !.kind = "version", !.item = i]
  <2>1. k.name = NoName
    BY DEF Idle
  <2>2. Begin(a, k)
    BY <1>5 DEF KeepDocumentAsVersion
  <2> HIDE DEF k
  <2> QED
    BY <1>2, <2>1, <2>2
<1>6. ASSUME NEW i \in Items, KeepReviewItemPending(a, i)
      PROVE  job'[a].name = NoName
  <2> DEFINE k == [Idle EXCEPT !.pc = "lockRow", !.kind = "keep", !.item = i]
  <2>1. k.name = NoName
    BY DEF Idle
  <2>2. Begin(a, k)
    BY <1>6 DEF KeepReviewItemPending
  <2> HIDE DEF k
  <2> QED
    BY <1>2, <2>1, <2>2
<1>7. ASSUME NEW i \in Items, RemoveFromReview(a, i)
      PROVE  job'[a].name = NoName
  <2> DEFINE k == [Idle EXCEPT !.pc = "lockRow", !.kind = "remove", !.item = i]
  <2>1. k.name = NoName
    BY DEF Idle
  <2>2. Begin(a, k)
    BY <1>7 DEF RemoveFromReview
  <2> HIDE DEF k
  <2> QED
    BY <1>2, <2>1, <2>2
<1>8. ASSUME NEW i \in Items, DeleteTemporaryDocument(a, i)
      PROVE  job'[a].name = NoName
  <2> DEFINE k == [Idle EXCEPT !.pc = "lockRow", !.kind = "delete", !.item = i]
  <2>1. k.name = NoName
    BY DEF Idle
  <2>2. Begin(a, k)
    BY <1>8 DEF DeleteTemporaryDocument
  <2> HIDE DEF k
  <2> QED
    BY <1>2, <2>1, <2>2
<1>9. ASSUME NEW i \in Items, NEW type \in FolderTypes, SetDocumentType(a, i, type)
      PROVE  job'[a].name = NoName
  <2> DEFINE k == [Idle EXCEPT !.pc = "lockRow", !.kind = "setType", !.item = i, !.type = type]
  <2>1. k.name = NoName
    BY DEF Idle
  <2>2. Begin(a, k)
    BY <1>9 DEF SetDocumentType
  <2> HIDE DEF k
  <2> QED
    BY <1>2, <2>1, <2>2
<1>10. ASSUME NEW i \in Items, NEW client \in Clients, AssignClient(a, i, client)
      PROVE  job'[a].name = NoName
  <2> DEFINE k == [Idle EXCEPT !.pc = "lockRow", !.kind = "assign", !.item = i, !.client = client]
  <2>1. k.name = NoName
    BY DEF Idle
  <2>2. Begin(a, k)
    BY <1>10 DEF AssignClient
  <2> HIDE DEF k
  <2> QED
    BY <1>2, <2>1, <2>2
<1>11. ASSUME NEW d \in DocIds, NEW date \in BOOLEAN, ApproveDocument(a, d, date)
      PROVE  job'[a].name = NoName
  <2> DEFINE k == [Idle EXCEPT !.pc = "lockDocument", !.kind = "approveDocument", !.document = d, !.date = date]
  <2>1. k.name = NoName
    BY DEF Idle
  <2>2. Begin(a, k)
    BY <1>11 DEF ApproveDocument
  <2> HIDE DEF k
  <2> QED
    BY <1>2, <2>1, <2>2
<1>12. ASSUME NEW d \in DocIds, RemoveStoredDocument(a, d)
      PROVE  job'[a].name = NoName
  <2> DEFINE k == [Idle EXCEPT !.pc = "lockDocument", !.kind = "removeDocument", !.document = d]
  <2>1. k.name = NoName
    BY DEF Idle
  <2>2. Begin(a, k)
    BY <1>12 DEF RemoveStoredDocument
  <2> HIDE DEF k
  <2> QED
    BY <1>2, <2>1, <2>2
<1>13. ASSUME NEW d \in DocIds, KeepDocumentPending(a, d)
      PROVE  job'[a].name = NoName
  <2> DEFINE k == [Idle EXCEPT !.pc = "lockDocument", !.kind = "keepDocument", !.document = d]
  <2>1. k.name = NoName
    BY DEF Idle
  <2>2. Begin(a, k)
    BY <1>13 DEF KeepDocumentPending
  <2> HIDE DEF k
  <2> QED
    BY <1>2, <2>1, <2>2
<1>14. ASSUME NEW d \in DocIds, SetPoliceSubmittedDate(a, d)
      PROVE  job'[a].name = NoName
  <2> DEFINE k == [Idle EXCEPT !.pc = "lockDocument", !.kind = "setDate", !.document = d]
  <2>1. k.name = NoName
    BY DEF Idle
  <2>2. Begin(a, k)
    BY <1>14 DEF SetPoliceSubmittedDate
  <2> HIDE DEF k
  <2> QED
    BY <1>2, <2>1, <2>2
<1> QED
  BY <1>3, <1>4, <1>5, <1>6, <1>7, <1>8, <1>9, <1>10, <1>11, <1>12, <1>13, <1>14 DEF Request

LEMMA UnnamedKeeps ==
  ASSUME NEW a \in Admins, job'[a].name = NoName
  PROVE  Keeps(a) /\ StartsUnnamed(a)
BY NoNameIsNone DEF Keeps, StartsUnnamed, Has

LEMMA IdleKeeps ==
  ASSUME Inv, NEW a \in Admins, job' = [job EXCEPT ![a] = Idle]
  PROVE  Keeps(a) /\ StartsUnnamed(a)
<1>1. job'[a].name = NoName
  BY DEF Inv, TypeOK, Idle
<1> QED
  BY <1>1, UnnamedKeeps

\* Who gives up after its copy has its name and goes to remove it.
LEMMA GivingUpKeeps ==
  ASSUME FilesInv, NEW a \in Admins, job[a].pc \in InTransaction, GivesUp(a)
  PROVE  Keeps(a) /\ StartsUnnamed(a)
<1> DEFINE k == job[a]
           next == [k EXCEPT !.pc = "undo"]
<1>1. job \in [Admins -> Job] /\ k \in Job
  BY DEF FilesInv, Inv, TypeOK
<1>2. CASE k.name = NoName
  <2>1. job' = [job EXCEPT ![a] = Idle]
    BY <1>2 DEF GivesUp
  <2> QED
    BY <2>1, IdleKeeps DEF FilesInv
<1>3. CASE k.name # NoName
  <2>1. k.pc = "commit"
    BY <1>3 DEF FilesInv, Unnamed, Early, InTransaction
  <2>2. job'[a] = next
    BY <1>1, <1>3 DEF GivesUp
  <2>3. next.pc = "undo" /\ next.name = k.name /\ next.item = k.item
    BY <1>1 DEF Job
  <2> HIDE DEF next
  <2> QED
    BY <2>1, <2>2, <2>3 DEF Keeps, StartsUnnamed, Has, Early
<1> QED
  BY <1>2, <1>3

\* Before its copy a request has no name.
LEMMA EarlyKeeps ==
  ASSUME FilesInv, NEW a \in Admins, job[a].pc \in Early, job'[a].name = job[a].name
  PROVE  Keeps(a) /\ StartsUnnamed(a)
BY UnnamedKeeps DEF FilesInv, Unnamed

LEMMA SameDocuments ==
  ASSUME UNCHANGED documents
  PROVE  NothingFiled
BY DEF NothingFiled, Stored

LEMMA LockFiles ==
  ASSUME Inv, NEW a \in Admins, LockRow(a) \/ LockClient(a) \/ LockDocument(a), ~RollBack(a)
  PROVE  job'[a].name = job[a].name /\ job[a].pc \in Early /\ UNCHANGED <<database, files>>
<1> DEFINE k == job[a]
<1>1. job \in [Admins -> Job] /\ k \in Job
  BY DEF Inv, TypeOK
<1>2. CASE LockRow(a)
  <2> DEFINE read == IF k.kind \in FilingKinds
                     THEN [k EXCEPT !.client = rows[k.item].client, !.type = rows[k.item].type] ELSE k
             pc == AfterLock(k.kind, "row")
  <2>1. job' = [job EXCEPT ![a] = [read EXCEPT !.pc = pc]] /\ UNCHANGED <<database, files>> /\ k.pc = "lockRow"
    BY <1>2 DEF LockRow
  <2>2. [read EXCEPT !.pc = pc].name = k.name
    <3> HIDE DEF pc
    <3> QED
      BY <1>1 DEF Job
  <2> HIDE DEF read, pc
  <2> QED
    BY <1>1, <2>1, <2>2 DEF Early
<1>3. CASE LockClient(a)
  <2> DEFINE pc == AfterLock(k.kind, "client")
  <2>1. job' = [job EXCEPT ![a].pc = pc] /\ UNCHANGED <<database, files>> /\ k.pc = "lockClient"
    BY <1>3 DEF LockClient
  <2> HIDE DEF pc
  <2> QED
    BY <1>1, <2>1 DEF Early, Job
<1>4. CASE LockDocument(a)
  <2> DEFINE read == IF k.kind = "approveDocument"
                     THEN [k EXCEPT !.client = documents[k.document].client, !.type = documents[k.document].type] ELSE k
             pc == AfterLock(k.kind, "document")
  <2>1. job' = [job EXCEPT ![a] = [read EXCEPT !.pc = pc]] /\ UNCHANGED <<database, files>> /\ k.pc = "lockDocument"
    BY <1>4 DEF LockDocument
  <2>2. [read EXCEPT !.pc = pc].name = k.name
    <3> HIDE DEF pc
    <3> QED
      BY <1>1 DEF Job
  <2> HIDE DEF read, pc
  <2> QED
    BY <1>1, <2>1, <2>2 DEF Early
<1> QED
  BY <1>2, <1>3, <1>4

----------------------------------------------------------------------------
(* Commits *)

LEMMA FileFiles ==
  ASSUME FilesInv, Inv', NEW a \in Admins, Others(a), job[a].pc = "commit", job[a].kind \in FilingKinds,
         NEW d \in DocIds, File(job[a], d), UNCHANGED folders, undone \subseteq undone',
         Keeps(a), StartsUnnamed(a), NEW n \in Name, n = job[a].name, Has(a, n)' => n \in undone'
  PROVE  FilesInv'
<1> DEFINE k == job[a]
<1>1. /\ Has(a, n) /\ ~Stored(d)
      /\ n \notin undone => Alone(a, n) /\ folders[n] = Sha[k.item]
  BY DEF File, Has, FilesInv, Owned, Alone
<1>2. Filed(k).name = n /\ Filed(k).content = Sha[k.item]
  BY DEF Filed
<1>3. documents'[d] = Filed(k)
  BY DEF File
<1>4. \A e \in DocIds \ {d} : documents'[e].name = documents[e].name /\ documents'[e].content = documents[e].content
                              /\ (Stored(e)' => Stored(e))
  <2> SUFFICES ASSUME NEW e \in DocIds \ {d}
               PROVE  documents'[e].name = documents[e].name /\ documents'[e].content = documents[e].content
                      /\ (Stored(e)' => Stored(e))
    OBVIOUS
  <2> DEFINE old == documents[e]
             over == [old EXCEPT !.status = "SUPERSEDED"]
  <2>1. documents'[e] = old \/ (documents'[e] = over /\ k.kind = "replace" /\ e = k.document)
    BY DEF File
  <2>2. CASE documents'[e] = old
    BY <2>2 DEF Stored
  <2>3. CASE documents'[e] = over /\ k.kind = "replace" /\ e = k.document
    <3>1. old \in Document
      BY DocumentNames DEF FilesInv
    <3>2. over.name = old.name /\ over.content = old.content
      BY <3>1 DEF Document, StoredDocument, NoDocument
    <3>3. Stored(e)
      <4>1. Inv /\ Inv'
        BY DEF FilesInv
      <4>2. CASE old = NoDocument
        <5>1. over \in Document /\ over.status = "SUPERSEDED" /\ over.name = NoName
          BY <2>3, <3>2, <4>1, <4>2 DEF Inv, TypeOK, NoDocument
        <5> QED
          BY <5>1, NoNameIsNone DEF Document, StoredDocument, NoDocument
      <4> QED
        BY <3>1, <4>2 DEF Document, StoredDocument, Stored
    <3> QED
      BY <2>3, <3>2, <3>3
  <2> QED
    BY <2>1, <2>2, <2>3
<1>5. n \in undone \/ NotOnRecord(n)
  BY <1>1 DEF Alone
<1>6. \A b \in Admins : Keeps(b) /\ StartsUnnamed(b)
  BY OthersKeep
<1>7. \A b \in Admins : Has(b, n)' => n \in undone'
  <2>1. \A b \in Admins \ {a} : Has(b, n)' => Has(b, n)
    BY DEF Has, Others
  <2> QED
    BY <1>1, <2>1 DEF Alone
<1>8. n \in undone' \/ documents'[d].content = folders'[n]
  BY <1>1, <1>2, <1>3
<1>9. documents'[d].name = n /\ \A m \in Name \ {n} : folders'[m] = folders[m]
  BY <1>2, <1>3
<1> QED
  BY <1>1, <1>4, <1>5, <1>6, <1>7, <1>8, <1>9, Recorded

\* Approving, dating and keeping leave a document its file; a removed one's
\* goes, unless another document has it.
LEMMA ChangeDocumentFiles ==
  ASSUME FilesInv, Inv', NEW a \in Admins, Others(a), job[a].pc = "commit", job[a].kind \in DocumentKinds,
         ChangeDocument(job[a]), job' = [job EXCEPT ![a] = Committed(job[a])], UNCHANGED <<folders, undone>>
  PROVE  FilesInv'
<1> DEFINE k == job[a]
           d == k.document
           old == documents[d]
           new == Changed(k, old)
           next == Committed(k)
<1>1. /\ k \in Job /\ job'[a] = next /\ d \in DocIds /\ old \in Document
      /\ k.kind \in {"approveDocument", "removeDocument"} => Stored(d)
      /\ documents'[d] = new /\ \A e \in DocIds \ {d} : documents'[e] = documents[e]
  BY DEF FilesInv, Inv, TypeOK, Sound, Shape, Read, InReview, Stored, ChangeDocument
<1>2. CASE k.kind # "removeDocument"
  <2>1. next = Idle
    BY <1>2 DEF Committed, FilingKinds, DocumentKinds
  <2>2. /\ new.name = old.name /\ new.content = old.content
        /\ new.status # "NONE" => old.status # "NONE"
    <3>1. CASE k.kind = "approveDocument"
      <4>1. new = [old EXCEPT !.status = "VERIFIED", !.dated = old.dated \/ k.date]
        BY <3>1 DEF Changed
      <4>2. old.status # "NONE"
        BY <1>1, <3>1 DEF Stored
      <4> QED
        BY <1>1, <4>1, <4>2 DEF Document, StoredDocument, NoDocument
    <3>2. CASE k.kind = "setDate"
      <4>1. new = [old EXCEPT !.dated = TRUE]
        BY <3>2 DEF Changed
      <4> QED
        BY <1>1, <4>1 DEF Document, StoredDocument, NoDocument
    <3>3. CASE k.kind = "keepDocument"
      BY <3>3 DEF Changed
    <3> QED
      BY <1>2, <3>1, <3>2, <3>3 DEF DocumentKinds
  <2> HIDE DEF new
  <2>3. NothingFiled
    BY <1>1, <2>2 DEF NothingFiled, Stored
  <2>4. Keeps(a) /\ StartsUnnamed(a)
    BY <2>1, IdleKeeps DEF FilesInv
  <2> QED
    BY <2>3, <2>4, QuietStepOfOne
<1>3. CASE k.kind = "removeDocument"
  <2>1. new = NoDocument /\ Stored(d) /\ next = [k EXCEPT !.pc = "tidy", !.name = Unshared(k)]
    BY <1>1, <1>3 DEF Changed, Committed
  <2> DEFINE name == Unshared(k)
  <2>2. next.pc = "tidy" /\ next.name = name /\ next.item = k.item
    <3> HIDE DEF name, new
    <3>1. k \in Job /\ next = [k EXCEPT !.pc = "tidy", !.name = name]
      BY <1>1, <2>1 DEF name
    <3> HIDE DEF next
    <3> QED
      BY <3>1 DEF Job
  <2> HIDE DEF next, name, new
  <2>3. CASE \E e \in DocIds \ {d} : documents[e].name = old.name
    <3>1. name = k.name
      BY <2>3 DEF name, Unshared
    <3>2. Keeps(a) /\ StartsUnnamed(a)
      BY <1>1, <2>2, <3>1 DEF Keeps, StartsUnnamed, Has, Early
    <3>3. NothingFiled
      BY <1>1, <2>1, NoNameIsNone DEF NothingFiled, Stored, NoDocument
    <3> QED
      BY <3>2, <3>3, QuietStepOfOne
  <2>4. CASE ~\E e \in DocIds \ {d} : documents[e].name = old.name
    <3>1. name = old.name
      BY <1>3, <2>4 DEF name, Unshared
    <3> QED
      BY <1>1, <2>1, <2>2, <2>4, <3>1, Forgotten
  <2> QED
    BY <2>3, <2>4
<1> QED
  BY <1>2, <1>3

\* Decisions on a waiting row leave the documents their files.
LEMMA ChangeRowFiles ==
  ASSUME FilesInv, Inv', NEW a \in Admins, Others(a), job[a].pc = "commit", job[a].kind \in RowKinds,
         ChangeRow(job[a]), job' = [job EXCEPT ![a] = Committed(job[a])], UNCHANGED <<folders, undone>>
  PROVE  FilesInv'
<1> DEFINE k == job[a]
           next == Committed(k)
<1>1. k \in Job /\ job'[a] = next
  BY DEF FilesInv, Inv, TypeOK
<1>2. next = Idle \/ (k.kind = "remove" /\ next = [k EXCEPT !.pc = "tidy", !.name = Unshared(k)])
  BY DEF Committed, FilingKinds, RowKinds
<1>3. Keeps(a) /\ StartsUnnamed(a)
  <2>1. CASE next = Idle
    BY <2>1, IdleKeeps DEF FilesInv
  <2>2. CASE k.kind = "remove" /\ next = [k EXCEPT !.pc = "tidy", !.name = Unshared(k)]
    <3> DEFINE name == Unshared(k)
    <3>1. next.pc = "tidy" /\ next.kind = "remove"
      <4> HIDE DEF name
      <4> QED
        BY <1>1, <2>2 DEF Job
    <3> HIDE DEF next
    <3> QED
      BY <1>1, <3>1 DEF Keeps, StartsUnnamed, Has, Early
  <2> QED
    BY <1>2, <2>1, <2>2
<1>4. NothingFiled
  <2>1. ASSUME NEW e \in DocIds
        PROVE  /\ documents'[e].name = documents[e].name /\ documents'[e].content = documents[e].content
               /\ documents'[e].status = documents[e].status
    <3> DEFINE old == documents[e]
               new == [old EXCEPT !.from = None]
    <3>1. documents'[e] = old \/ documents'[e] = new
      BY DEF ChangeRow
    <3>2. new.name = old.name /\ new.content = old.content /\ new.status = old.status
      BY DocumentNames DEF FilesInv, Document, StoredDocument, NoDocument
    <3> HIDE DEF new
    <3> QED
      BY <3>1, <3>2
  <2> QED
    BY <2>1 DEF NothingFiled, Stored
<1> QED
  BY <1>3, <1>4, QuietStepOfOne

----------------------------------------------------------------------------
(* Every step *)

LEMMA RollBackFiles ==
  ASSUME FilesInv, Inv', NEW a \in Admins, Others(a), job[a].pc \in InTransaction, RollBack(a), undone' = undone
  PROVE  FilesInv'
<1>1. GivesUp(a) /\ UNCHANGED folders /\ NothingFiled
  BY SameDocuments DEF RollBack, database, files
<1> QED
  BY <1>1, GivingUpKeeps, QuietStepOfOne

LEMMA CommitFiles ==
  ASSUME FilesInv, Inv', NEW a \in Admins, Others(a), Commit(a), undone' = undone
  PROVE  FilesInv'
<1> DEFINE k == job[a]
           next == Committed(k)
<1>1. /\ k \in Job /\ Shape(k) /\ k.pc = "commit" /\ UNCHANGED folders
      /\ job' = [job EXCEPT ![a] = next] /\ job'[a] = next
  BY DEF FilesInv, Inv, TypeOK, Sound, Commit, files
<1>2. ASSUME k.kind \in FilingKinds, NEW d \in DocIds, File(k, d) PROVE FilesInv'
  <2>1. next = [k EXCEPT !.pc = "tidy", !.name = Unshared(k)]
    BY <1>2 DEF Committed
  <2> DEFINE name == Unshared(k)
  <2>2. next.pc = "tidy" /\ next.kind # "removeDocument"
    <3> HIDE DEF name
    <3> QED
      BY <1>1, <1>2, <2>1 DEF Job, FilingKinds
  <2> HIDE DEF next
  <2>3. Keeps(a) /\ StartsUnnamed(a) /\ \A n : ~Has(a, n)'
    BY <1>1, <2>2 DEF Keeps, StartsUnnamed, Has, Early
  <2>4. k.name \in Name
    BY <1>1, <1>2 DEF Shape
  <2>5. PICK n \in Name : n = k.name
    BY <2>4
  <2> QED
    BY <1>1, <1>2, <2>3, <2>5, FileFiles
<1>3. ASSUME k.kind \in DocumentKinds, ChangeDocument(k) PROVE FilesInv'
  BY <1>1, <1>3, ChangeDocumentFiles
<1>4. ASSUME k.kind \in RowKinds, ChangeRow(k) PROVE FilesInv'
  BY <1>1, <1>4, ChangeRowFiles
<1> QED
  BY <1>2, <1>3, <1>4, CommitCases

LEMMA AnswerLostFiles ==
  ASSUME FilesInv, Inv', NEW a \in Admins, Others(a), AnswerLost(a)
  PROVE  FilesInv'
<1> DEFINE k == job[a]
<1>1. /\ Shape(k) /\ k.pc = "commit" /\ k.kind \in FilingKinds /\ undone' = undone \cup {k.name}
      /\ GivesUp(a) /\ UNCHANGED folders
  BY DEF FilesInv, Inv, Sound, AnswerLost, files
<1>2. PICK d \in DocIds : File(k, d)
  BY DEF AnswerLost
<1>3. Keeps(a) /\ StartsUnnamed(a)
  BY <1>1, GivingUpKeeps DEF InTransaction
<1>4. k.name \in Name
  BY <1>1 DEF Shape
<1>5. PICK n \in Name : n = k.name
  BY <1>4
<1> QED
  BY <1>1, <1>2, <1>3, <1>5, FileFiles

LEMMA CopyFiles ==
  ASSUME FilesInv, Inv', NEW a \in Admins, Others(a), Copy(a), undone' = undone
  PROVE  FilesInv'
<1> DEFINE k == job[a]
<1>1. k \in Job /\ Shape(k) /\ k.pc = "copy" /\ k.item \in Items /\ job \in [Admins -> Job] /\ k.client \in Clients /\ k.type \in FolderTypes
  <2>1. Shape(k) /\ k.pc = "copy" /\ job \in [Admins -> Job]
    BY DEF FilesInv, Inv, TypeOK, Sound, Copy
  <2> QED
    BY <2>1 DEF Shape
<1>2. CASE RollBack(a)
  BY <1>1, <1>2, RollBackFiles DEF InTransaction
<1>3. CASE ~RollBack(a)
  <2> DEFINE name == FreeName(k.client, k.type)
  <2>1. /\ CanCopy(k) /\ folders' = [folders EXCEPT ![name] = Sha[k.item]] /\ UNCHANGED documents
        /\ job' = [job EXCEPT ![a].pc = "commit", ![a].name = name]
    BY <1>3 DEF Copy, database
  <2>2. folders[name] = None /\ name \in Name
    BY <1>1, <2>1, FreeNameIsFree DEF CanCopy
  <2>3. PICK n \in Name : n = name
    BY <2>2
  <2> HIDE DEF name
  <2>4. job'[a].pc = "commit" /\ job'[a].name = n /\ job'[a].item = k.item
    BY <1>1, <2>1, <2>3 DEF Job
  <2> QED
    BY <1>1, <2>1, <2>2, <2>3, <2>4, Copied
<1> QED
  BY <1>2, <1>3

LEMMA TidyFiles ==
  ASSUME FilesInv, Inv', NEW a \in Admins, Others(a), Tidy(a) \/ Undo(a), undone' = undone
  PROVE  FilesInv'
<1> DEFINE k == job[a]
<1>1. k \in Job /\ Shape(k) /\ job' = [job EXCEPT ![a] = Idle] /\ job'[a] = Idle /\ UNCHANGED documents
  BY DEF FilesInv, Inv, TypeOK, Sound, Tidy, Undo, database
<1>2. CASE UNCHANGED folders
  BY <1>1, <1>2, IdleKeeps, SameDocuments, QuietStepOfOne DEF FilesInv
<1>3. CASE ~UNCHANGED folders
  <2>1. folders' = [folders EXCEPT ![k.name] = None] /\ k.name \in Name /\ Has(a, k.name)
    <3>1. CASE Tidy(a)
      <4>1. k.pc = "tidy" /\ k.kind = "removeDocument" /\ k.name # NoName /\ folders' = [folders EXCEPT ![k.name] = None]
        BY <1>3, <3>1 DEF Tidy
      <4> QED
        BY <1>1, <4>1 DEF Has, Job
    <3>2. CASE Undo(a)
      BY <1>1, <3>2 DEF Undo, Has, Shape
    <3> QED
      BY <3>1, <3>2
  <2>2. PICK n \in Name : n = k.name
    BY <2>1
  <2> QED
    BY <1>1, <2>1, <2>2, Deleted
<1> QED
  BY <1>2, <1>3

LEMMA AdminFiles ==
  ASSUME FilesInv, Inv', NEW a \in Admins, Request(a) \/ Step(a) \/ Fault(a)
  PROVE  FilesInv'
<1> DEFINE k == job[a]
<1>1. Others(a) /\ Inv /\ job \in [Admins -> Job] /\ k \in Job
  BY OthersSpared DEF Spared, Others, FilesInv, Inv, TypeOK
<1>2. CASE Request(a)
  BY <1>1, <1>2, RequestFrame, RequestUnnamed, UnnamedKeeps, SameDocuments, QuietStepOfOne DEF Begin, database, files
<1>3. CASE Step(a)
  <2>1. undone' = undone
    BY <1>3 DEF Step
  <2>2. CASE Download(a)
    <3>1. job'[a].name = k.name \/ job' = [job EXCEPT ![a] = Idle]
      BY <1>1, <2>2 DEF Download, Job
    <3>2. Keeps(a) /\ StartsUnnamed(a)
      BY <1>1, <2>2, <3>1, EarlyKeeps, IdleKeeps DEF Download, Early
    <3> QED
      BY <1>1, <2>1, <2>2, <3>2, SameDocuments, QuietStepOfOne DEF Download, database, files
  <2>3. CASE LockRow(a) \/ LockClient(a) \/ LockDocument(a)
    <3>1. CASE RollBack(a)
      BY <1>1, <2>1, <2>3, <3>1, RollBackFiles DEF LockRow, LockClient, LockDocument, InTransaction
    <3>2. CASE ~RollBack(a)
      BY <1>1, <2>1, <2>3, <3>2, LockFiles, EarlyKeeps, SameDocuments, QuietStepOfOne DEF database, files
    <3> QED
      BY <3>1, <3>2
  <2>4. CASE Copy(a)
    BY <1>1, <2>1, <2>4, CopyFiles
  <2>5. CASE Commit(a)
    BY <1>1, <2>1, <2>5, CommitFiles
  <2>6. CASE Expired(a)
    BY <1>1, <2>1, <2>6, RollBackFiles DEF Expired, InTransaction
  <2>7. CASE Tidy(a) \/ Undo(a)
    BY <1>1, <2>1, <2>7, TidyFiles
  <2>8. CASE RemoveFiles(a)
    <3>1. job' = [job EXCEPT ![a].pc = "commit"] /\ k.pc = "removeFiles" /\ UNCHANGED <<documents, folders>>
      BY <2>8 DEF RemoveFiles, database
    <3>2. job'[a].name = k.name
      BY <1>1, <3>1 DEF Job
    <3> QED
      BY <1>1, <2>1, <3>1, <3>2, EarlyKeeps, SameDocuments, QuietStepOfOne DEF Early
  <2> QED
    BY <1>3, <2>2, <2>3, <2>4, <2>5, <2>6, <2>7, <2>8 DEF Step
<1>4. CASE Fault(a)
  <2>1. CASE Fails(a)
    BY <1>1, <2>1, RollBackFiles DEF Fails
  <2>2. CASE TimesOut(a)
    <3>1. job' = [job EXCEPT ![a].expired = TRUE] /\ k.pc = "copy" /\ UNCHANGED <<documents, folders, undone>>
      BY <2>2 DEF TimesOut, database, files
    <3>2. job'[a].name = k.name
      BY <1>1, <3>1 DEF Job
    <3> QED
      BY <1>1, <3>1, <3>2, EarlyKeeps, SameDocuments, QuietStepOfOne DEF Early
  <2>3. CASE AnswerLost(a)
    BY <1>1, <2>3, AnswerLostFiles
  <2>4. CASE RemovalFails(a) \/ Dies(a)
    BY <1>1, <2>4, IdleKeeps, SameDocuments, QuietStepOfOne DEF RemovalFails, Dies, database, files
  <2> QED
    BY <1>4, <2>1, <2>2, <2>3, <2>4 DEF Fault
<1> QED
  BY <1>2, <1>3, <1>4

LEMMA WorkerFiles ==
  ASSUME FilesInv, Inv', Worker
  PROVE  FilesInv'
<1>1. /\ UNCHANGED job /\ undone' = undone
      /\ \A a \in Admins : Keeps(a) /\ StartsUnnamed(a) /\ \A n : Has(a, n)' <=> Has(a, n)
  BY DEF Worker, Keeps, StartsUnnamed, Has, FilesInv, Unnamed
<1>2. ASSUME NEW i \in Items, HeldForReview(i) PROVE FilesInv'
  BY <1>1, <1>2, SameDocuments, QuietFiles DEF HeldForReview
<1>3. ASSUME NEW i \in Items, FindsNoVerified(i) PROVE FilesInv'
  BY <1>1, <1>3, SameDocuments, QuietFiles DEF FindsNoVerified, database, files
<1>4. ASSUME NEW i \in Items, NEW d \in DocIds, NEW status \in {"VERIFIED", "REVIEW_REQUIRED"}, NEW dated \in BOOLEAN,
             FiledByWorker(i, d, status, dated)
      PROVE  FilesInv'
  <2> DEFINE client == rows[i].client
             type == rows[i].type
             name == FreeName(client, type)
             new == [status |-> status, client |-> client, type |-> type, content |-> Sha[i], name |-> name,
                     dated |-> dated, from |-> i]
  <2>1. /\ client \in Clients /\ type \in FolderTypes /\ FreeNumbers(client, type) # {}
        /\ documents' = [documents EXCEPT ![d] = new] /\ folders' = [folders EXCEPT ![name] = Sha[i]]
    <3>1. rows[i] \in Row
      BY DEF FilesInv, Inv, TypeOK
    <3> QED
      BY <1>4, <3>1 DEF FiledByWorker, Row
  <2>2. folders[name] = None /\ name \in Name
    BY <2>1, FreeNameIsFree
  <2>3. PICK n \in Name : n = name
    BY <2>2
  <2> HIDE DEF name
  <2>4. new.name = n /\ new.content = Sha[i]
    BY <2>3
  <2> HIDE DEF new
  <2>5. /\ documents'[d] = new /\ \A e \in DocIds \ {d} : documents'[e] = documents[e]
        /\ folders'[n] = Sha[i] /\ \A m \in Name \ {n} : folders'[m] = folders[m]
    BY <2>1, <2>3 DEF FilesInv, Inv, TypeOK
  <2>6. n \notin undone => NotOnRecord(n) /\ \A a \in Admins : ~Has(a, n)
    BY <2>2, <2>3, FreeIsNobodys
  <2>7. \A e \in DocIds \ {d} : documents'[e].name = documents[e].name /\ documents'[e].content = documents[e].content
                                /\ (Stored(e)' => Stored(e))
    BY <2>5 DEF Stored
  <2>8. \A a \in Admins : Keeps(a) /\ StartsUnnamed(a) /\ (Has(a, n)' => n \in undone')
    BY <1>1, <2>6
  <2> QED
    BY <1>1, <2>4, <2>5, <2>6, <2>7, <2>8, Recorded
<1> QED
  BY <1>2, <1>3, <1>4 DEF Worker

LEMMA FilesInit == Init => FilesInv
<1> SUFFICES ASSUME Init PROVE FilesInv
  OBVIOUS
<1>1. Inv
  BY InitSound
<1>2. \A a \in Admins : job[a].pc = "idle" /\ job[a].name = NoName
  BY DEF Init, Idle
<1>3. DocumentHasFile
  <2> SUFFICES ASSUME NEW d \in DocIds, Stored(d) PROVE folders[documents[d].name] = documents[d].content
    BY DEF DocumentHasFile
  <2>1. PICK b \in Beginnings : documents = b.documents
    BY DEF Init
  <2>2. \A e \in DocIds : documents[e].name = documents[d].name => documents[e].content = documents[d].content
    BY <2>1, ReviewAssumption
  <2> DEFINE n == documents[d].name
             e == CHOOSE f \in DocIds : documents[f].name = n
  <2>3. n \in Name
    BY <1>1, DocumentNames
  <2>4. folders[n] = documents[e].content
    BY <2>3 DEF Init
  <2>5. e \in DocIds /\ documents[e].name = n
    OBVIOUS
  <2> HIDE DEF e
  <2> QED
    BY <2>2, <2>4, <2>5
<1> QED
  BY <1>1, <1>2, <1>3 DEF FilesInv, Owned, Unnamed, Has

LEMMA FilesNext == FilesInv /\ [Next]_vars => FilesInv'
<1> SUFFICES ASSUME FilesInv, [Next]_vars PROVE FilesInv'
  OBVIOUS
<1>1. Inv'
  BY NextSound DEF FilesInv
<1>2. CASE UNCHANGED vars
  <2>1. NothingFiled /\ \A a \in Admins : Keeps(a) /\ StartsUnnamed(a)
    BY <1>2, SameDocuments DEF vars, Keeps, StartsUnnamed, Has, FilesInv, Unnamed
  <2> QED
    BY <1>1, <1>2, <2>1, QuietFiles DEF vars
<1> QED
  BY <1>1, <1>2, AdminFiles, WorkerFiles DEF Next

\* A stored document keeps its own file, whatever other requests and the worker
\* copy, undo, replace, remove or cut short meanwhile.  Left out are documents
\* filed by a request that lost the answer to its own commit, whose file the
\* request's catch removes (adminReviewActionService.js:441-447), and names used
\* again after that.
THEOREM StoredFilesKept == Spec => []DocumentHasFile
<1>1. FilesInv => DocumentHasFile
  BY DEF FilesInv
<1> QED
  BY FilesInit, FilesNext, <1>1, PTL DEF Spec
=============================================================================
