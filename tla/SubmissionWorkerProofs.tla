----------------------- MODULE SubmissionWorkerProofs -----------------------
(***************************************************************************)
(* Theorems about SubmissionWorker, for every number of submissions,       *)
(* workers, leases, faults and readings: the types; that claims exclude    *)
(* each other and are not regained; that a submission is filed once and    *)
(* never lost; that the attempts implement the commits of CaseRecords; and *)
(* when a document keeps its file.                                         *)
(***************************************************************************)
EXTENDS SubmissionWorker, FiniteSetTheorems, TLAPS

USE SubmissionsAreOrdered, ShaIsChecksum, ReadingsAreReadings, ClientsAreNamed, TimesAreNaturals

\* What the type invariant rests on: a claim names a submission and counts its
\* attempt, and a document is only inserted for an identified client.
ClaimSound ==
  \A w \in Workers :
    /\ pc[w] \notin {"Idle"} => Sub(w) \in Submissions
    /\ pc[w] \in Running => claim[w].attempt > 0

PlaceSound ==
  \A w \in Workers :
    /\ pc[w] \in {"Place", "Name", "Reuse", "Renew", "Copy", "Insert"} =>
         (work[w].place = "CLIENT" => work[w].reading.client # None)
    /\ pc[w] = "Insert" => work[w].place = "CLIENT"

TypeInv == TypeOK /\ IsFiniteSet(documents) /\ ClaimSound /\ PlaceSound

----------------------------------------------------------------------------
LEMMA NoneTyped == NoPath \in Path /\ NoStart \in LeaseStart /\ NoClaim \in Claim /\ NoWork \in Work
  BY DEF NoPath, Path, NoStart, LeaseStart, NoClaim, Claim, NoWork, Work, NoReading, Reading, None,
         DOCUMENT_TYPES, CONFIDENCE_BANDS, CHECKSUM_OUTCOME, PROCESSING_STATUS

LEMMA StartTyped ==
  ASSUME NEW t \in Int PROVE Start(t) \in LeaseStart /\ BackDated(t) \in LeaseStart
  BY DEF Start, BackDated, LeaseStart

LEMMA PathTyped ==
  ASSUME TypeInv, NEW w \in Workers, pc[w] # "Idle" PROVE CurrentPath(w) \in Path
  <1>1. work[w] \in Work /\ Sub(w) \in Submissions
    BY DEF TypeInv, TypeOK, ClaimSound
  <1>2. /\ work[w].reading.client \in Clients \cup {None} /\ work[w].reading.type \in DOCUMENT_TYPES
        /\ work[w].owner \in Clients \cup {None} /\ work[w].n \in Nat
    BY <1>1 DEF Work, Reading
  <1>3. QED
    BY <1>1, <1>2 DEF CurrentPath, PathFor, ClientPath, PendingPath, Path, KeepsName

\* The decision is a placement, with a status a row may have.
LEMMA DecisionTyped ==
  ASSUME NEW status \in PROCESSING_STATUS, NEW band, NEW type, NEW identified \in BOOLEAN,
         NEW owner \in Clients \cup {None}, NEW checksum, NEW blocked, NEW exists, NEW dup
  PROVE  LET d == DecidePlacement(status, band, type, identified, owner, checksum, blocked, exists, dup)
         IN /\ d.placement \in {"CLIENT", "PENDING", "NONE"}
            /\ d.processingStatus \in PROCESSING_STATUS
            /\ d.pendingOwner \in Clients \cup {None}
            /\ d.placement = "CLIENT" /\ ~d.alreadyStored =>
                 /\ identified
                 /\ checksum \notin {"ALREADY_STORED", "DUPLICATE", "CROSS_CLIENT_CONFLICT"}
  BY DEF DecidePlacement, PlacementIs, PROCESSING_STATUS, CONFIDENCE_BANDS

----------------------------------------------------------------------------
(* Type correctness *)

LEMMA InitTyped == Init => TypeInv
  <1> SUFFICES ASSUME Init PROVE TypeInv
    OBVIOUS
  <1>1. TypeOK
    <2>1. rows \in [Submissions -> Row]
      BY NoneTyped DEF Init, Row, RECEIVED_STATUS
    <2>2. pc \in [Workers -> Calls] /\ claim \in [Workers -> Claim] /\ work \in [Workers -> Work]
      BY NoneTyped DEF Init, Calls
    <2>3. QED
      BY <2>1, <2>2 DEF Init, TypeOK
  <1>2. IsFiniteSet(documents)
    BY FS_EmptySet DEF Init
  <1>3. ClaimSound /\ PlaceSound
    BY DEF Init, ClaimSound, PlaceSound, Running
  <1>4. QED
    BY <1>1, <1>2, <1>3 DEF TypeInv

\* A step that only moves a worker on keeps the types.
LEMMA GoesTyped ==
  ASSUME TypeInv, NEW w \in Workers, NEW call \in Running \cup {"Stale"}, pc[w] # "Idle",
         call \in Running => pc[w] \in Running,
         call \notin {"Place", "Name", "Reuse", "Renew", "Copy", "Insert"} \/ pc[w] \in {"Name", "Reuse", "Renew"},
         call # "Insert",
         UNCHANGED <<rows, documents, objects, late, removals, clock>>, faults' \in Nat, Goes(w, call)
  PROVE  TypeInv'
  <1>1. TypeOK'
    BY DEF TypeInv, TypeOK, Goes, Goto, Calls
  <1>2. ClaimSound'
    BY DEF TypeInv, TypeOK, ClaimSound, Goes, Goto, Sub, Running
  <1>3. PlaceSound'
    BY DEF TypeInv, TypeOK, PlaceSound, Goes, Goto
  <1>4. QED
    BY <1>1, <1>2, <1>3 DEF TypeInv

\* The end of a job keeps the types of the worker's memory.
LEMMA EndJobTyped ==
  ASSUME TypeInv, NEW w \in Workers, EndJob(w)
  PROVE  /\ pc' \in [Workers -> Calls] /\ claim' \in [Workers -> Claim] /\ work' \in [Workers -> Work]
         /\ ClaimSound' /\ PlaceSound'
  <1>1. pc' \in [Workers -> Calls] /\ claim' \in [Workers -> Claim] /\ work' \in [Workers -> Work]
    BY NoneTyped DEF TypeInv, TypeOK, EndJob, Goto, Calls
  <1>2. ClaimSound'
    BY DEF TypeInv, TypeOK, ClaimSound, EndJob, Goto, Sub, Running
  <1>3. PlaceSound'
    BY DEF TypeInv, TypeOK, PlaceSound, EndJob, Goto
  <1>4. QED
    BY <1>1, <1>2, <1>3

\* The memory of a worker that changes its work only.
LEMMA WorkTyped ==
  ASSUME TypeInv, NEW w \in Workers, NEW call \in Running, pc[w] \in Running,
         NEW k \in Work, work' = [work EXCEPT ![w] = k], Goto(w, call), UNCHANGED claim,
         call \in {"Place", "Name", "Reuse", "Renew", "Copy", "Insert"} /\ k.place = "CLIENT" =>
           k.reading.client # None,
         call = "Insert" => k.place = "CLIENT"
  PROVE  /\ pc' \in [Workers -> Calls] /\ claim' \in [Workers -> Claim] /\ work' \in [Workers -> Work]
         /\ ClaimSound' /\ PlaceSound'
  <1>1. pc' \in [Workers -> Calls] /\ claim' \in [Workers -> Claim] /\ work' \in [Workers -> Work]
    BY DEF TypeInv, TypeOK, Goto, Calls
  <1>2. ClaimSound'
    BY DEF TypeInv, TypeOK, ClaimSound, Goto, Sub, Running
  <1>3. PlaceSound'
    BY DEF TypeInv, TypeOK, PlaceSound, Goto
  <1>4. QED
    BY <1>1, <1>2, <1>3

\* A renewal in memory, and the move to a call that follows one.
LEMMA RenewMemoryTyped ==
  ASSUME TypeInv, NEW w \in Workers, NEW call \in Running, pc[w] \in Running,
         RenewMemory(w), Goto(w, call), work' \in [Workers -> Work],
         \A v \in Workers : work'[v].place = work[v].place /\ work'[v].reading = work[v].reading,
         call \in {"Place", "Name", "Reuse", "Renew", "Copy"} => pc[w] = "Renew",
         call # "Insert"
  PROVE  /\ pc' \in [Workers -> Calls] /\ claim' \in [Workers -> Claim]
         /\ ClaimSound' /\ PlaceSound'
  <1>1. Start(clock) \in LeaseStart
    BY StartTyped DEF TypeInv, TypeOK
  <1>2. claim[w] \in Claim
    BY DEF TypeInv, TypeOK
  <1>3. claim' \in [Workers -> Claim]
    BY <1>1, <1>2 DEF TypeInv, TypeOK, RenewMemory, Claim
  <1>4. pc' \in [Workers -> Calls]
    BY DEF TypeInv, TypeOK, Goto, Calls
  <1>5. \A v \in Workers : claim'[v].sub = claim[v].sub /\ claim'[v].attempt = claim[v].attempt
    BY DEF TypeInv, TypeOK, RenewMemory, Claim
  <1>6. ClaimSound'
    BY <1>5 DEF TypeInv, TypeOK, ClaimSound, Goto, Sub, Running
  <1>7. PlaceSound'
    BY DEF TypeInv, TypeOK, PlaceSound, Goto
  <1>8. QED
    BY <1>3, <1>4, <1>6, <1>7

\* The rows after an update of one of them.
LEMMA RowsTyped ==
  ASSUME TypeInv, NEW s \in Submissions, NEW r \in Row, rows' = [rows EXCEPT ![s] = r]
  PROVE  rows' \in [Submissions -> Row]
  BY DEF TypeInv, TypeOK

LEMMA RenewRowTyped ==
  ASSUME TypeInv, NEW w \in Workers, RenewRow(w)
  PROVE  rows' \in [Submissions -> Row]
  <1>1. Start(clock) \in LeaseStart
    BY StartTyped DEF TypeInv, TypeOK
  <1>2. QED
    BY <1>1 DEF TypeInv, TypeOK, RenewRow, Row

LEMMA RecordedTyped ==
  ASSUME TypeInv, NEW w \in Workers, pc[w] \in Running, NEW status \in PROCESSING_STATUS, Recorded(w, status)
  PROVE  rows' \in [Submissions -> Row]
  <1>1. Sub(w) \in Submissions /\ work[w] \in Work /\ rows[Sub(w)] \in Row
    BY DEF TypeInv, TypeOK, ClaimSound, Running
  <1>2. LinkedClient(w) \in Clients \cup {None}
    BY <1>1 DEF LinkedClient, Work, Reading, Row
  <1>3. work[w].pending \in Path
    BY <1>1 DEF Work
  <1>4. QED
    BY <1>1, <1>2, <1>3 DEF TypeInv, TypeOK, Recorded, Row

LEMMA LosesClaimTyped ==
  ASSUME TypeInv, NEW w \in Workers, pc[w] \in Running, LosesClaim(w),
         UNCHANGED <<documents, objects, late, removals, clock>>, faults' \in Nat
  PROVE  TypeInv'
  <1>1. TypeOK'
    BY DEF TypeInv, TypeOK, LosesClaim, Goes, Goto, Calls
  <1>2. ClaimSound'
    BY DEF TypeInv, TypeOK, ClaimSound, LosesClaim, Goes, Goto, Sub, Running
  <1>3. PlaceSound'
    BY DEF TypeInv, TypeOK, PlaceSound, LosesClaim, Goes, Goto
  <1>4. QED
    BY <1>1, <1>2, <1>3 DEF TypeInv, LosesClaim

\* Documents and objects a worker writes have their types.
LEMMA CopiedTyped ==
  ASSUME TypeInv, NEW w \in Workers, pc[w] # "Idle"
  PROVE  Copied(w) \in Object
  BY PathTyped DEF TypeInv, TypeOK, ClaimSound, Copied, Object

LEMMA MayLandTyped ==
  ASSUME TypeInv, NEW w \in Workers, pc[w] # "Idle", MayLand(w)
  PROVE  removals' \subseteq Removal
  <1>1. GivenUp(CurrentPath(w)) \in Removal
    BY PathTyped DEF GivenUp, Removal
  <1>2. QED
    BY <1>1 DEF TypeInv, TypeOK, MayLand

LEMMA NewDocumentTyped ==
  ASSUME TypeInv, NEW w \in Workers, pc[w] = "Insert"
  PROVE  NewDocument(w) \in Document
  <1>1. Sub(w) \in Submissions /\ work[w] \in Work /\ CurrentPath(w) \in Path
    BY PathTyped DEF TypeInv, TypeOK, ClaimSound
  <1>2. work[w].reading.client \in Clients /\ work[w].reading.type \in DOCUMENT_TYPES
    BY <1>1 DEF TypeInv, PlaceSound, Work, Reading
  <1>3. QED
    BY <1>1, <1>2 DEF NewDocument, Document, VerificationStatusForBand

\* The first candidate name has a version number.
LEMMA VersionTyped ==
  ASSUME TypeInv, NEW w \in Workers PROVE Version(w) \in Nat
  <1> DEFINE Same == {d \in documents : d.client = work[w].reading.client /\ d.type = work[w].reading.type}
  <1>1. IsFiniteSet(Same)
    BY FS_Subset DEF TypeInv
  <1>2. Cardinality(Same) \in Nat
    BY <1>1, FS_CardinalityType
  <1>3. QED
    BY <1>2 DEF Version

\* Every step of a worker, answered or failed, keeps the types.
LEMMA ClaimingTyped ==
  ASSUME TypeInv, NEW w \in Workers, ClaimRead(w) \/ ClaimSwap(w), faults' \in Nat
  PROVE  TypeInv'
  <1>1. CASE ClaimRead(w)
    <2>1. PICK s \in Submissions :
            claim' = [claim EXCEPT ![w] = [sub |-> s, attempt |-> rows[s].attempts,
                                           startedAt |-> rows[s].startedAt, earlier |-> rows[s].placementPath]]
      BY <1>1 DEF ClaimRead
    <2>2. rows[s] \in Row
      BY DEF TypeInv, TypeOK
    <2>3. claim' \in [Workers -> Claim]
      BY <2>1, <2>2 DEF TypeInv, TypeOK, Claim, Row
    <2>4. TypeOK'
      BY <1>1, <2>3 DEF TypeInv, TypeOK, ClaimRead, Goto, Calls
    <2>5. ClaimSound'
      BY <1>1, <2>1 DEF TypeInv, TypeOK, ClaimRead, ClaimSound, Goto, Sub, Running
    <2>6. PlaceSound'
      BY <1>1 DEF TypeInv, TypeOK, ClaimRead, PlaceSound, Goto
    <2>7. QED
      BY <1>1, <2>4, <2>5, <2>6 DEF TypeInv, ClaimRead
  <1>2. CASE ClaimSwap(w) /\ Owns(w)
    <2>1. Start(clock) \in LeaseStart /\ claim[w] \in Claim /\ Sub(w) \in Submissions /\ rows[Sub(w)] \in Row
      BY <1>2, StartTyped DEF TypeInv, TypeOK, ClaimSound, ClaimSwap
    <2>2. rows' \in [Submissions -> Row]
      BY <1>2, <2>1 DEF TypeInv, TypeOK, ClaimSwap, Row
    <2>3. claim' \in [Workers -> Claim]
      BY <1>2, <2>1 DEF TypeInv, TypeOK, ClaimSwap, Claim
    <2>4. TypeOK'
      BY <1>2, <2>2, <2>3 DEF TypeInv, TypeOK, ClaimSwap, Goto, Calls, Running
    <2>5. claim'[w].sub = claim[w].sub /\ claim'[w].attempt > 0 /\ \A v \in Workers \ {w} : claim'[v] = claim[v]
      BY <1>2, <2>1 DEF TypeInv, TypeOK, ClaimSwap, Claim
    <2>6. ClaimSound'
      BY <1>2, <2>1, <2>5 DEF TypeInv, TypeOK, ClaimSwap, ClaimSound, Goto, Sub, Running
    <2>7. PlaceSound'
      BY <1>2 DEF TypeInv, TypeOK, ClaimSwap, PlaceSound, Goto
    <2>8. QED
      BY <1>2, <2>4, <2>6, <2>7 DEF TypeInv, ClaimSwap
  <1>3. CASE ClaimSwap(w) /\ ~Owns(w)
    BY <1>3, EndJobTyped DEF TypeInv, TypeOK, ClaimSwap
  <1>4. QED
    BY <1>1, <1>2, <1>3

LEMMA PipelineTyped ==
  ASSUME TypeInv, NEW w \in Workers, faults' \in Nat,
         \/ AttemptsExhausted(w) \/ LoadUnavailable(w) \/ LoadMismatch(w) \/ ReadDocument(w)
         \/ RetryLater(w) \/ GiveUp(w) \/ CheckDuplicate(w) \/ Reconcile(w) \/ ReconcileFails(w)
         \/ Decide(w) \/ Place(w)
  PROVE  TypeInv'
  <1> USE DEF Running
  <1>1. CASE AttemptsExhausted(w) \/ LoadUnavailable(w) \/ LoadMismatch(w)
    BY <1>1, GoesTyped DEF AttemptsExhausted, LoadUnavailable, LoadMismatch
  <1>2. CASE ReadDocument(w)
    <2>0. Sub(w) \in Submissions /\ work[w] \in Work
      BY <1>2 DEF TypeInv, TypeOK, ClaimSound, ReadDocument
    <2>1. PICK rd \in Readings[Sub(w)] : work' = [work EXCEPT ![w].reading = rd]
      BY <1>2 DEF ReadDocument
    <2>2. rd \in Reading
      BY <2>0, <2>1
    <2>3. [work[w] EXCEPT !.reading = rd] \in Work
      BY <2>0, <2>2 DEF Work
    <2>4. work' = [work EXCEPT ![w] = [work[w] EXCEPT !.reading = rd]]
      BY <2>1
    <2>5. QED
      BY <1>2, <2>3, <2>4, WorkTyped DEF TypeInv, TypeOK, ReadDocument
  <1>3. CASE RetryLater(w)
    <2>1. CASE Owns(w) /\ EndJob(w)
      <3>1. claim[w] \in Claim
        BY DEF TypeInv, TypeOK
      <3>2. BackDated(claim[w].startedAt.at) \in LeaseStart
        BY <3>1, StartTyped DEF Claim, LeaseStart
      <3>3. rows' = [rows EXCEPT ![Sub(w)].startedAt = BackDated(claim[w].startedAt.at)]
        BY <1>3, <2>1 DEF RetryLater, LosesClaim
      <3>4. rows' \in [Submissions -> Row]
        BY <3>2, <3>3 DEF TypeInv, TypeOK, Row
      <3>5. QED
        BY <1>3, <2>1, <3>4, EndJobTyped DEF TypeInv, TypeOK, RetryLater
    <2>2. QED
      BY <1>3, <2>1, LosesClaimTyped DEF RetryLater
  <1>4. CASE GiveUp(w)
    <2>1. CASE Owns(w) /\ EndJob(w)
      <3>1. rows' \in [Submissions -> Row]
        BY <1>4, <2>1 DEF TypeInv, TypeOK, GiveUp, LosesClaim, Row, PROCESSING_STATUS
      <3>2. QED
        BY <1>4, <2>1, <3>1, EndJobTyped DEF TypeInv, TypeOK, GiveUp
    <2>2. QED
      BY <1>4, <2>1, LosesClaimTyped DEF GiveUp
  <1>5. CASE CheckDuplicate(w)
    <2> DEFINE c == work[w].reading.client
               outcome == IF c = None THEN None ELSE CheckClientChecksum(documents, c, Sha[Sub(w)], Sub(w))
               verified == c # None /\ \E d \in SameClient(documents, c, Sha[Sub(w)]) : d.verification = "VERIFIED"
               k == [work[w] EXCEPT !.checksum = outcome, !.verified = verified]
    <2>1. work[w] \in Work
      BY DEF TypeInv, TypeOK
    <2>2. outcome \in CHECKSUM_OUTCOME
      BY DEF CheckClientChecksum, CHECKSUM_OUTCOME
    <2>3. k \in Work
      BY <2>1, <2>2 DEF Work
    <2>4. work' = [work EXCEPT ![w] = k]
      BY <1>5 DEF CheckDuplicate
    <2>5. PICK call \in {"Reconcile", "Decide"} : Goto(w, call)
      BY <1>5 DEF CheckDuplicate
    <2>6. pc[w] \in Running /\ UNCHANGED <<rows, documents, objects, late, removals, clock, claim>>
      BY <1>5 DEF CheckDuplicate
    <2> HIDE DEF k
    <2>7. QED
      BY <2>3, <2>4, <2>5, <2>6, WorkTyped DEF TypeInv, TypeOK
  <1>6. CASE Reconcile(w)
    <2>1. CASE Owns(w) /\ RenewRow(w) /\ RenewMemory(w)
      BY <1>6, <2>1, RenewRowTyped, RenewMemoryTyped DEF TypeInv, TypeOK, Reconcile, LosesClaim
    <2>2. QED
      BY <1>6, <2>1, LosesClaimTyped DEF Reconcile
  <1>7. CASE ReconcileFails(w)
    BY <1>7, RenewRowTyped, RenewMemoryTyped DEF TypeInv, TypeOK, ReconcileFails
  <1>8. CASE Decide(w)
    <2> DEFINE d == Decision(w)
               k == [work[w] EXCEPT !.place = d.placement, !.status = d.processingStatus, !.owner = d.pendingOwner]
    <2>1. work[w] \in Work
      BY DEF TypeInv, TypeOK
    <2>2. /\ work[w].reading.status \in PROCESSING_STATUS
          /\ work[w].reading.client \in Clients \cup {None}
      BY <2>1 DEF Work, Reading, PROCESSING_STATUS
    <2>3. /\ d.placement \in {"CLIENT", "PENDING", "NONE"} /\ d.processingStatus \in PROCESSING_STATUS
          /\ d.pendingOwner \in Clients \cup {None}
          /\ d.placement = "CLIENT" /\ ~d.alreadyStored => work[w].reading.client # None
      <3> DEFINE identified == work[w].reading.client # None
                 exists == /\ identified /\ AllowsWrites(work[w].checksum) /\ work[w].reading.band \in CLIENT_BANDS
                           /\ HasVerifiedDocument(documents, work[w].reading.client, work[w].reading.type)
      <3>1. d = DecidePlacement(work[w].reading.status, work[w].reading.band, work[w].reading.type, identified,
                                work[w].reading.client, work[w].checksum, work[w].reading.blocked,
                                exists, work[w].verified)
        BY DEF Decision
      <3>2. identified \in BOOLEAN /\ (identified => work[w].reading.client # None)
        OBVIOUS
      <3> HIDE DEF identified, exists, d
      <3>3. QED
        BY <2>2, <3>1, <3>2, DecisionTyped
    <2>4. k \in Work
      BY <2>1, <2>3 DEF Work
    <2>5. work' = [work EXCEPT ![w] = k]
      BY <1>8 DEF Decide
    <2>6. k.place = d.placement /\ k.reading = work[w].reading
      BY <2>1 DEF Work
    <2>7. PICK call \in {"Final", "Place"} :
            Goto(w, call) /\ (call = "Place" => d.placement # "NONE" /\ ~d.alreadyStored)
      BY <1>8 DEF Decide
    <2>8. pc[w] \in Running /\ UNCHANGED <<rows, documents, objects, late, removals, clock, claim>>
      BY <1>8 DEF Decide
    <2> HIDE DEF k, d
    <2>9. QED
      BY <2>3, <2>4, <2>5, <2>6, <2>7, <2>8, WorkTyped DEF TypeInv, TypeOK
  <1>9. CASE Place(w)
    <2>1. work[w] \in Work /\ Version(w) \in Nat
      BY VersionTyped DEF TypeInv, TypeOK
    <2>2. CASE work[w].place = "PENDING" /\ FindPendingDuplicate(Sub(w))
      <3> DEFINE k == [work[w] EXCEPT !.place = "NONE", !.status = "DUPLICATE"]
      <3>1. k \in Work
        BY <2>1 DEF Work, PROCESSING_STATUS
      <3>2. work' = [work EXCEPT ![w] = k] /\ Goto(w, "Final") /\ pc[w] \in Running
            /\ UNCHANGED <<rows, documents, objects, late, removals, clock, claim>>
        BY <1>9, <2>2 DEF Place
      <3> HIDE DEF k
      <3>3. QED
        BY <3>1, <3>2, WorkTyped DEF TypeInv, TypeOK
    <2>3. CASE ~(work[w].place = "PENDING" /\ FindPendingDuplicate(Sub(w)))
      <3> DEFINE k == [work[w] EXCEPT !.first = Version(w), !.n = Version(w)]
      <3>1. k \in Work /\ k.place = work[w].place /\ k.reading = work[w].reading
        BY <2>1 DEF Work
      <3>2. work' = [work EXCEPT ![w] = k] /\ Goto(w, "Name") /\ pc[w] = "Place"
        BY <1>9, <2>3 DEF Place
      <3>3. k.place = "CLIENT" => k.reading.client # None
        BY <3>1, <3>2 DEF TypeInv, PlaceSound
      <3>4. QED
        BY <1>9, <3>1, <3>2, <3>3, WorkTyped DEF TypeInv, TypeOK, Place
    <2>4. QED
      BY <2>2, <2>3
  <1>10. QED
    BY <1>1, <1>2, <1>3, <1>4, <1>5, <1>6, <1>7, <1>8, <1>9

LEMMA HasCopyTyped ==
  ASSUME TypeInv, NEW w \in Workers, pc[w] \in {"Reuse", "Copy"}, HasCopy(w), UNCHANGED claim
  PROVE  /\ pc' \in [Workers -> Calls] /\ claim' \in [Workers -> Claim] /\ work' \in [Workers -> Work]
         /\ ClaimSound' /\ PlaceSound'
  <1> USE DEF Running
  <1>1. work[w] \in Work /\ CurrentPath(w) \in Path
    BY PathTyped DEF TypeInv, TypeOK
  <1>2. CASE work[w].place = "CLIENT"
    <2>1. work' = [work EXCEPT ![w] = work[w]] /\ Goto(w, "Insert")
      BY <1>2 DEF HasCopy, TypeInv, TypeOK
    <2>2. work[w].reading.client # None
      BY <1>2 DEF TypeInv, PlaceSound
    <2>3. QED
      BY <1>1, <1>2, <2>1, <2>2, WorkTyped
  <1>3. CASE work[w].place # "CLIENT"
    <2> DEFINE k == [work[w] EXCEPT !.pending = CurrentPath(w)]
    <2>1. k \in Work
      BY <1>1 DEF Work
    <2>2. work' = [work EXCEPT ![w] = k] /\ Goto(w, "Final")
      BY <1>3 DEF HasCopy
    <2> HIDE DEF k
    <2>3. QED
      BY <2>1, <2>2, WorkTyped
  <1>4. QED
    BY <1>2, <1>3

LEMMA NextNameTyped ==
  ASSUME TypeInv, NEW w \in Workers, pc[w] = "Reuse", NextName(w), UNCHANGED claim
  PROVE  /\ pc' \in [Workers -> Calls] /\ claim' \in [Workers -> Claim] /\ work' \in [Workers -> Work]
         /\ ClaimSound' /\ PlaceSound'
  <1> DEFINE k == [work[w] EXCEPT !.n = @ + 1]
  <1>1. work[w] \in Work
    BY DEF TypeInv, TypeOK
  <1>2. k \in Work /\ k.place = work[w].place /\ k.reading = work[w].reading
    BY <1>1 DEF Work
  <1>3. work' = [work EXCEPT ![w] = k] /\ Goto(w, "Name")
    BY DEF NextName
  <1>4. work[w].place = "CLIENT" => work[w].reading.client # None
    BY DEF TypeInv, PlaceSound
  <1> HIDE DEF k
  <1>5. QED
    BY <1>2, <1>3, <1>4, WorkTyped DEF Running

LEMMA CopyingTyped ==
  ASSUME TypeInv, NEW w \in Workers, faults' \in Nat,
         \/ TryName(w) \/ TryReuse(w) \/ ReuseUnreadable(w) \/ RenewForCopy(w) \/ RenewAnswerLost(w)
         \/ Copy(w) \/ CopyFails(w)
  PROVE  TypeInv'
  <1> USE DEF Running
  <1>1. CASE TryName(w)
    <2>1. PICK call \in {"Fail", "Reuse", "Renew"} : Goes(w, call)
      BY <1>1 DEF TryName
    <2>2. pc[w] = "Name" /\ UNCHANGED <<rows, documents, objects, late, removals, clock>>
      BY <1>1 DEF TryName
    <2>3. QED
      BY <2>1, <2>2, GoesTyped
  <1>2. CASE TryReuse(w) \/ ReuseUnreadable(w)
    BY <1>2, HasCopyTyped, NextNameTyped DEF TypeInv, TypeOK, TryReuse, ReuseUnreadable
  <1>3. CASE RenewForCopy(w)
    <2>1. CASE Owns(w) /\ RenewMemory(w)
      <3>1. Start(clock) \in LeaseStart /\ CurrentPath(w) \in Path
        BY <1>3, StartTyped, PathTyped DEF TypeInv, TypeOK, RenewForCopy
      <3>2. rows' = [rows EXCEPT ![Sub(w)].startedAt = Start(clock), ![Sub(w)].placementPath = CurrentPath(w)]
        BY <1>3, <2>1 DEF RenewForCopy, LosesClaim
      <3>3. rows' \in [Submissions -> Row]
        BY <3>1, <3>2 DEF TypeInv, TypeOK, Row
      <3>4. QED
        BY <1>3, <2>1, <3>3, RenewMemoryTyped DEF TypeInv, TypeOK, RenewForCopy, LosesClaim
    <2>2. QED
      BY <1>3, <2>1, LosesClaimTyped DEF RenewForCopy
  <1>4. CASE RenewAnswerLost(w)
    <2>1. Start(clock) \in LeaseStart /\ CurrentPath(w) \in Path
      BY <1>4, StartTyped, PathTyped DEF TypeInv, TypeOK, RenewAnswerLost
    <2>2. rows' \in [Submissions -> Row]
      <3> DEFINE r == rows[Sub(w)]
                 path == IF pc[w] = "Renew" THEN CurrentPath(w) ELSE r.placementPath
      <3>1. Sub(w) \in Submissions /\ r \in Row
        BY <1>4 DEF TypeInv, TypeOK, ClaimSound, RenewAnswerLost
      <3>2. path \in Path
        BY <2>1, <3>1 DEF Row
      <3>3. rows' = [rows EXCEPT ![Sub(w)].startedAt = Start(clock), ![Sub(w)].placementPath = path]
        BY <1>4, <3>1 DEF RenewAnswerLost, TypeInv, TypeOK, Row
      <3> HIDE DEF path
      <3>4. QED
        BY <2>1, <3>2, <3>3 DEF TypeInv, TypeOK, Row
    <2>3. Goto(w, "Fail") /\ UNCHANGED <<claim, work, documents, objects, late, removals, clock>> /\ pc[w] \in Running
      BY <1>4 DEF RenewAnswerLost, Goes
    <2>4. TypeOK'
      BY <2>2, <2>3 DEF TypeInv, TypeOK, Goto, Calls
    <2>5. ClaimSound'
      BY <2>3 DEF TypeInv, TypeOK, ClaimSound, Goto, Sub
    <2>6. PlaceSound'
      BY <2>3 DEF TypeInv, TypeOK, PlaceSound, Goto
    <2>7. QED
      BY <2>3, <2>4, <2>5, <2>6 DEF TypeInv
  <1>5. CASE Copy(w)
    <2>1. CASE Taken(CurrentPath(w))
      <3>1. work' = [work EXCEPT ![w] = work[w]] /\ Goto(w, "Reuse") /\ UNCHANGED claim /\ pc[w] = "Copy"
        BY <1>5, <2>1 DEF Copy, TypeInv, TypeOK
      <3>2. work[w] \in Work /\ (work[w].place = "CLIENT" => work[w].reading.client # None)
        BY <3>1 DEF TypeInv, TypeOK, PlaceSound
      <3>3. QED
        BY <1>5, <2>1, <3>1, <3>2, WorkTyped DEF TypeInv, TypeOK, Copy
    <2>2. CASE ~Taken(CurrentPath(w))
      BY <1>5, <2>2, HasCopyTyped, CopiedTyped DEF TypeInv, TypeOK, Copy
    <2>3. QED
      BY <2>1, <2>2
  <1>6. CASE CopyFails(w)
    <2>1. late' \subseteq Object
      BY <1>6, CopiedTyped DEF TypeInv, TypeOK, CopyFails
    <2>2. Goto(w, "Fail") /\ UNCHANGED <<claim, work, rows, documents, objects, removals, clock>> /\ pc[w] \in Running
      BY <1>6 DEF CopyFails, Goes
    <2>3. TypeOK'
      BY <2>1, <2>2 DEF TypeInv, TypeOK, Goto, Calls
    <2>4. ClaimSound'
      BY <2>2 DEF TypeInv, TypeOK, ClaimSound, Goto, Sub
    <2>5. PlaceSound'
      BY <2>2 DEF TypeInv, TypeOK, PlaceSound, Goto
    <2>6. QED
      BY <2>2, <2>3, <2>4, <2>5 DEF TypeInv
  <1>7. QED
    BY <1>1, <1>2, <1>3, <1>4, <1>5, <1>6

LEMMA InsertingTyped ==
  ASSUME TypeInv, NEW w \in Workers, faults' \in Nat,
         \/ Insert(w) \/ InsertFails(w) \/ CleanupRenew(w) \/ CheckInUse(w) \/ RemoveCopy(w) \/ RemoveFails(w)
  PROVE  TypeInv'
  <1> USE DEF Running
  <1>0. ASSUME documents' = documents \cup {NewDocument(w)}, pc[w] = "Insert"
        PROVE  documents' \subseteq Document /\ IsFiniteSet(documents')
    BY <1>0, NewDocumentTyped, FS_AddElement DEF TypeInv, TypeOK
  <1>1. CASE Insert(w)
    <2>1. CASE Owns(w) /\ ~ViolatesUnique(w)
      <3>1. /\ documents' = documents \cup {NewDocument(w)} /\ RenewRow(w) /\ RenewMemory(w) /\ Goto(w, "Final")
            /\ UNCHANGED <<work, objects, late, removals, clock>> /\ pc[w] = "Insert"
        BY <1>1, <2>1 DEF Insert, LosesClaim
      <3>2. QED
        BY <1>0, <3>1, RenewRowTyped, RenewMemoryTyped DEF TypeInv, TypeOK
    <2>2. CASE Owns(w) /\ ViolatesUnique(w)
      <3>1. /\ RenewMemory(w) /\ work' = [work EXCEPT ![w].duplicate = TRUE] /\ Goto(w, "CleanupRenew")
            /\ UNCHANGED <<rows, documents, objects, late, removals, clock>> /\ pc[w] = "Insert"
        BY <1>1, <2>2 DEF Insert, LosesClaim
      <3>2. work' \in [Workers -> Work]
        <4> DEFINE k == [work[w] EXCEPT !.duplicate = TRUE]
        <4>1. k \in Work
          BY DEF TypeInv, TypeOK, Work
        <4>2. work' = [work EXCEPT ![w] = k]
          BY <3>1 DEF TypeInv, TypeOK
        <4> HIDE DEF k
        <4>3. QED
          BY <4>1, <4>2 DEF TypeInv, TypeOK
      <3>3. \A v \in Workers : work'[v].place = work[v].place /\ work'[v].reading = work[v].reading
        BY <3>1 DEF TypeInv, TypeOK, Work
      <3>4. QED
        BY <3>1, <3>2, <3>3, RenewMemoryTyped DEF TypeInv, TypeOK
    <2>3. CASE LosesClaim(w)
      BY <1>1, <2>3, LosesClaimTyped DEF Insert, LosesClaim
    <2>4. QED
      BY <1>1, <2>1, <2>2, <2>3 DEF Insert
  <1>2. CASE InsertFails(w)
    <2>0. Goto(w, "CleanupRenew") /\ UNCHANGED <<objects, late, removals, clock, work>> /\ pc[w] = "Insert"
      BY <1>2 DEF InsertFails
    <2>1. CASE UNCHANGED <<rows, documents, claim>>
      <3>1. Goes(w, "CleanupRenew")
        BY <2>0, <2>1 DEF Goes
      <3>2. QED
        BY <2>0, <2>1, <3>1, GoesTyped
    <2>2. CASE RenewMemory(w) /\ UNCHANGED <<rows, documents>>
      BY <2>0, <2>2, RenewMemoryTyped DEF TypeInv, TypeOK
    <2>3. CASE documents' = documents \cup {NewDocument(w)} /\ RenewRow(w) /\ RenewMemory(w)
      BY <1>0, <2>0, <2>3, RenewRowTyped, RenewMemoryTyped DEF TypeInv, TypeOK
    <2>4. QED
      BY <1>2, <2>1, <2>2, <2>3 DEF InsertFails
  <1>3. CASE CleanupRenew(w)
    <2>1. CASE Owns(w) /\ RenewRow(w) /\ RenewMemory(w)
      BY <1>3, <2>1, RenewRowTyped, RenewMemoryTyped DEF TypeInv, TypeOK, CleanupRenew, LosesClaim
    <2>2. QED
      BY <1>3, <2>1, LosesClaimTyped DEF CleanupRenew
  <1>4. CASE CheckInUse(w)
    <2>1. PICK call \in {"Fail", "Remove"} : Goes(w, call)
      BY <1>4 DEF CheckInUse
    <2>2. QED
      BY <1>4, <2>1, GoesTyped DEF CheckInUse
  <1>5. CASE RemoveCopy(w)
    <2>0. objects' \subseteq Object
      BY <1>5 DEF TypeInv, TypeOK, RemoveCopy, Without
    <2> DEFINE k == IF work[w].duplicate THEN [work[w] EXCEPT !.place = "NONE", !.status = "DUPLICATE"] ELSE work[w]
    <2>1. work[w] \in Work
      BY DEF TypeInv, TypeOK
    <2>2. k \in Work
      BY <2>1 DEF Work, PROCESSING_STATUS
    <2>3. work' = [work EXCEPT ![w] = k]
      BY <1>5 DEF RemoveCopy, TypeInv, TypeOK
    <2>4. PICK call \in {"Final", "Fail"} : Goto(w, call)
      BY <1>5 DEF RemoveCopy
    <2>5. pc[w] \in Running /\ UNCHANGED <<rows, documents, late, removals, clock, claim>>
      BY <1>5 DEF RemoveCopy
    <2> HIDE DEF k
    <2>6. QED
      BY <2>0, <2>2, <2>3, <2>4, <2>5, WorkTyped DEF TypeInv, TypeOK
  <1>6. CASE RemoveFails(w)
    <2>1. removals' \subseteq Removal
      BY <1>6, MayLandTyped DEF RemoveFails
    <2>2. Goto(w, "Fail") /\ UNCHANGED <<claim, work, rows, documents, objects, late, clock>> /\ pc[w] \in Running
      BY <1>6 DEF RemoveFails, Goes
    <2>3. TypeOK'
      BY <2>1, <2>2 DEF TypeInv, TypeOK, Goto, Calls
    <2>4. ClaimSound'
      BY <2>2 DEF TypeInv, TypeOK, ClaimSound, Goto, Sub
    <2>5. PlaceSound'
      BY <2>2 DEF TypeInv, TypeOK, PlaceSound, Goto
    <2>6. QED
      BY <2>2, <2>3, <2>4, <2>5 DEF TypeInv
  <1>7. QED
    BY <1>1, <1>2, <1>3, <1>4, <1>5, <1>6

LEMMA RecordingTyped ==
  ASSUME TypeInv, NEW w \in Workers, faults' \in Nat,
         \/ RecordResult(w) \/ ResultAnswerLost(w) \/ RecordFailure(w) \/ CallFails(w) \/ Discard(w)
         \/ Crash(w) \/ Release(w)
  PROVE  TypeInv'
  <1> USE DEF Running
  <1>0. work[w].status \in PROCESSING_STATUS /\ "FAILED" \in PROCESSING_STATUS
    BY DEF TypeInv, TypeOK, Work, PROCESSING_STATUS
  <1>1. CASE RecordResult(w)
    BY <1>0, <1>1, RecordedTyped, EndJobTyped, LosesClaimTyped DEF TypeInv, TypeOK, RecordResult
  <1>2. CASE ResultAnswerLost(w)
    <2>1. rows' \in [Submissions -> Row]
      BY <1>0, <1>2, RecordedTyped DEF ResultAnswerLost
    <2>2. Goto(w, "Fail") /\ UNCHANGED <<claim, work, documents, objects, late, removals, clock>> /\ pc[w] \in Running
      BY <1>2 DEF ResultAnswerLost, Goes
    <2>3. TypeOK'
      BY <2>1, <2>2 DEF TypeInv, TypeOK, Goto, Calls
    <2>4. ClaimSound'
      BY <2>2 DEF TypeInv, TypeOK, ClaimSound, Goto, Sub
    <2>5. PlaceSound'
      BY <2>2 DEF TypeInv, TypeOK, PlaceSound, Goto
    <2>6. QED
      BY <2>2, <2>3, <2>4, <2>5 DEF TypeInv
  <1>3. CASE RecordFailure(w)
    BY <1>0, <1>3, RecordedTyped, EndJobTyped, LosesClaimTyped DEF TypeInv, TypeOK, RecordFailure
  <1>4. CASE CallFails(w)
    BY <1>4, GoesTyped DEF CallFails
  <1>5. CASE Discard(w)
    BY <1>5, EndJobTyped DEF TypeInv, TypeOK, Discard
  <1>6. CASE Crash(w)
    <2>1. late' \subseteq Object /\ removals' \subseteq Removal
      BY <1>6, CopiedTyped, MayLandTyped DEF TypeInv, TypeOK, Crash
    <2>2. QED
      BY <1>6, <2>1, EndJobTyped DEF TypeInv, TypeOK, Crash
  <1>7. CASE Release(w)
    <2>1. Sub(w) \in Submissions /\ rows[Sub(w)] \in Row /\ claim[w].attempt > 0 /\ BackDated(clock) \in LeaseStart
      BY <1>7, StartTyped DEF TypeInv, TypeOK, ClaimSound, Release
    <2>2. rows[Sub(w)].attempts - 1 \in Nat
      BY <1>7, <2>1 DEF Release, Owns, Row
    <2>3. rows' \in [Submissions -> Row]
      BY <1>7, <2>1, <2>2 DEF TypeInv, TypeOK, Release, Row
    <2>4. QED
      BY <1>7, <2>3 DEF TypeInv, TypeOK, Release, ClaimSound, PlaceSound, Sub
  <1>8. QED
    BY <1>1, <1>2, <1>3, <1>4, <1>5, <1>6, <1>7

LEMMA NextTyped == TypeInv /\ [Next]_vars => TypeInv'
  <1> SUFFICES ASSUME TypeInv, [Next]_vars PROVE TypeInv'
    OBVIOUS
  <1>1. CASE UNCHANGED vars
    BY <1>1 DEF vars, TypeInv, TypeOK, ClaimSound, PlaceSound, Sub
  <1>2. ASSUME NEW w \in Workers, WorkerStep(w) \/ FaultStep(w), faults' \in Nat PROVE TypeInv'
    BY <1>2, ClaimingTyped, PipelineTyped, CopyingTyped, InsertingTyped, RecordingTyped DEF WorkerStep, FaultStep
  <1>3. ASSUME NEW s \in Submissions, AdminRetry(s), UNCHANGED faults PROVE TypeInv'
    <2>1. rows' \in [Submissions -> Row]
      <3> DEFINE r == [rows[s] EXCEPT !.status = RECEIVED_STATUS, !.attempts = 0,
                                      !.startedAt = NoStart, !.client = None]
      <3>1. NoStart \in LeaseStart
        BY DEF NoStart, LeaseStart
      <3>2. rows[s] \in Row
        BY DEF TypeInv, TypeOK
      <3>3. r \in Row
        BY <3>1, <3>2 DEF Row
      <3>4. rows' = [rows EXCEPT ![s] = r]
        BY <1>3 DEF AdminRetry, TypeInv, TypeOK
      <3> HIDE DEF r
      <3>5. QED
        BY <3>3, <3>4 DEF TypeInv, TypeOK
    <2>2. QED
      BY <1>3, <2>1 DEF TypeInv, TypeOK, AdminRetry, ClaimSound, PlaceSound, Sub
  <1>4. CASE LateCopyLands /\ UNCHANGED faults
    BY <1>4 DEF TypeInv, TypeOK, LateCopyLands, ClaimSound, PlaceSound, Sub
  <1>8. CASE LateRemovalLands /\ UNCHANGED faults
    <2>1. removals' \subseteq Removal /\ objects' \subseteq Object
      <3>1. PICK r \in removals : /\ removals' = (removals \ {r}) \cup {[path |-> r.path, landed |-> TRUE]}
                                  /\ objects' = Without(r.path)
        BY <1>8 DEF LateRemovalLands
      <3>2. r.path \in Path /\ removals \subseteq Removal /\ objects \subseteq Object
        BY DEF TypeInv, TypeOK, Removal
      <3>3. [path |-> r.path, landed |-> TRUE] \in Removal
        BY <3>2 DEF Removal
      <3>4. objects' \subseteq objects
        BY <3>1 DEF Without
      <3>5. QED
        BY <3>1, <3>2, <3>3, <3>4
    <2>2. QED
      BY <1>8, <2>1 DEF TypeInv, TypeOK, LateRemovalLands, ClaimSound, PlaceSound, Sub
  <1>5. CASE Tick /\ UNCHANGED faults
    BY <1>5 DEF TypeInv, TypeOK, Tick, ClaimSound, PlaceSound, Sub
  <1>6. faults \in Nat
    BY DEF TypeInv, TypeOK
  <1>7. QED
    BY <1>1, <1>2, <1>3, <1>4, <1>5, <1>6, <1>8 DEF Next, OtherStep

\* The tables, the bucket and every worker's memory keep their types; in
\* particular release() never makes an attempt count negative.
THEOREM TypeCorrect == Spec => []TypeOK
  <1>1. TypeInv => TypeOK
    BY DEF TypeInv
  <1>2. QED
    BY InitTyped, NextTyped, <1>1, PTL DEF Spec

----------------------------------------------------------------------------
(* Fencing.  Attempt numbers alone do not fence: release() counts them down *)
(* and an admin's retry starts them anew, so a number comes back.  The      *)
(* lease start does, but within one instant it may come back too.  The      *)
(* invariant says, of an attempt that lost its claim and renewed it in this *)
(* very instant, what keeps the row from looking like its own again.        *)

\* The row of an attempt that lost its claim in the instant of its last renewal:
\* it is settled, or not claimable yet, or its renewal was rolled back, or the next attempt has it.
Behind(v) ==
  LET r == rows[Sub(v)]
  IN \/ r.status # RECEIVED_STATUS
     \/ r.startedAt.kind = "early" /\ r.startedAt.at >= clock - Lease
     \/ /\ r.attempts = claim[v].attempt
        /\ r.startedAt.kind = "start" /\ r.startedAt.at < clock
        /\ \A w \in Workers : Live(w) /\ Sub(w) = Sub(v) => ~Owns(w)
     \/ r.attempts = claim[v].attempt + 1 /\ r.startedAt = Start(clock)

Expired(start) == start.kind = "null" \/ start.at < clock - Lease

Starts ==
  \A w \in Workers :
    /\ Live(w) => claim[w].startedAt.kind = "start" /\ claim[w].startedAt.at <= clock
    /\ pc[w] = "Claiming" => Expired(claim[w].startedAt)

Fenced == \A v \in Workers : Live(v) /\ ~Owns(v) /\ claim[v].startedAt.at = clock => Behind(v)

Fence == Starts /\ Fenced /\ UniqueOwner

NobodyRegains == \A v \in Workers : Live(v) /\ Live(v)' /\ ~Owns(v) => ~Owns(v)'

\* What the types say of the fenced fields.
LEMMA FenceTyped ==
  ASSUME TypeInv
  PROVE  /\ clock \in Nat /\ Lease \in Nat
         /\ \A s \in Submissions : rows[s].attempts \in Nat /\ rows[s].startedAt \in LeaseStart
         /\ \A w \in Workers : claim[w].attempt \in Nat /\ claim[w].startedAt \in LeaseStart
         /\ \A w \in Workers : Live(w) \/ pc[w] = "Claiming" => Sub(w) \in Submissions
  BY DEF TypeInv, TypeOK, ClaimSound, Row, Claim, Live, Running

LEMMA StartIsStart ==
  /\ \A t : Start(t).at = t /\ Start(t).kind = "start"
  /\ \A t : BackDated(t).at = t - Lease + RetryDelay /\ BackDated(t).kind = "early"
  /\ \A t, x : x \in LeaseStart /\ x.at = t /\ x.kind = "start" => x = Start(t)
  BY DEF Start, BackDated, LeaseStart

\* A step of w leaves the other workers and the other rows alone.
SameRow(s) ==
  /\ rows'[s].status = rows[s].status
  /\ rows'[s].attempts = rows[s].attempts
  /\ rows'[s].startedAt = rows[s].startedAt

SameClaim(v) ==
  /\ claim'[v].sub = claim[v].sub
  /\ claim'[v].attempt = claim[v].attempt
  /\ claim'[v].startedAt = claim[v].startedAt

Rest(w) ==
  /\ clock' = clock
  /\ \A s \in Submissions \ {Sub(w)} : SameRow(s)
  /\ \A v \in Workers \ {w} : pc'[v] = pc[v] /\ SameClaim(v)

\* No row changes, and nobody gains a claim.
LEMMA Quiet ==
  ASSUME TypeInv, Fence, NEW w \in Workers, Rest(w),
         \A s \in Submissions : SameRow(s),
         Live(w)' => Live(w) /\ SameClaim(w),
         pc'[w] = "Claiming" => Expired(claim'[w].startedAt)
  PROVE  Fence' /\ NobodyRegains
<1>1. ASSUME NEW v \in Workers, Live(v)'
      PROVE  /\ Live(v) /\ SameClaim(v) /\ Sub(v) \in Submissions
             /\ Sub(v)' = Sub(v) /\ (Owns(v)' <=> Owns(v))
  <2>1. Live(v) /\ SameClaim(v)
    BY <1>1 DEF Rest, Live
  <2>2. Sub(v) \in Submissions
    BY <2>1, FenceTyped
  <2> QED
    BY <2>1, <2>2 DEF SameClaim, SameRow, Owns, Sub
<1>2. Starts'
  BY <1>1 DEF Fence, Starts, Rest, SameClaim, Expired
<1>3. UniqueOwner'
  BY <1>1 DEF Fence, UniqueOwner
<1>4. NobodyRegains
  BY <1>1 DEF NobodyRegains
<1>5. ASSUME NEW v \in Workers, Live(v)', ~Owns(v)', claim'[v].startedAt.at = clock' PROVE Behind(v)'
  <2>1. Behind(v)
    BY <1>1, <1>5 DEF Fence, Fenced, Rest, SameClaim
  <2>2. SameRow(Sub(v)) /\ clock' = clock /\ Sub(v)' = Sub(v) /\ SameClaim(v)
    BY <1>1, <1>5 DEF Rest
  <2>3. (\A u \in Workers : Live(u) /\ Sub(u) = Sub(v) => ~Owns(u))
        => (\A u \in Workers : Live(u)' /\ Sub(u)' = Sub(v)' => ~Owns(u)')
    BY <1>1, <2>2
  <2> QED
    BY <2>1, <2>2, <2>3 DEF Behind, SameRow, SameClaim, Start
<1> QED
  BY <1>2, <1>3, <1>4, <1>5 DEF Fence, Fenced

\* An effect on one row spares the workers of other rows; it remains to look
\* at those of the same row, and at w itself.
LEMMA OneRow ==
  ASSUME TypeInv, Fence, NEW w \in Workers, Rest(w), Sub(w) \in Submissions,
         Live(w)' => claim'[w].sub = claim[w].sub,
         pc'[w] # "Claiming",
         Live(w)' => claim'[w].startedAt.kind = "start" /\ claim'[w].startedAt.at <= clock,
         \A v \in Workers \ {w} : Live(v) /\ Sub(v) = Sub(w) =>
           /\ ~Owns(v)'
           /\ ~Owns(v) /\ Behind(v) /\ claim[v].startedAt.at = clock => Behind(v)'
           /\ Owns(v) => claim[v].startedAt.at # clock \/ Behind(v)',
         Live(w)' /\ Live(w) /\ ~Owns(w) => ~Owns(w)',
         Live(w)' /\ ~Owns(w)' /\ claim'[w].startedAt.at = clock => Behind(w)'
  PROVE  Fence' /\ NobodyRegains
<1>1. ASSUME NEW v \in Workers \ {w}, Live(v)' \/ Live(v)
      PROVE  Live(v) /\ Live(v)' /\ SameClaim(v) /\ Sub(v) \in Submissions /\ Sub(v)' = Sub(v)
  <2>1. Live(v) /\ Live(v)' /\ SameClaim(v)
    BY <1>1 DEF Rest, Live
  <2> QED
    BY <2>1, FenceTyped DEF SameClaim, Sub
<1>2. ASSUME NEW v \in Workers \ {w}, Live(v), Sub(v) # Sub(w)
      PROVE  SameRow(Sub(v)) /\ (Owns(v)' <=> Owns(v))
  <2>1. SameClaim(v) /\ Sub(v) \in Submissions /\ Sub(v)' = Sub(v)
    BY <1>1, <1>2
  <2>2. SameRow(Sub(v))
    BY <1>2, <2>1 DEF Rest
  <2> QED
    BY <2>1, <2>2 DEF SameRow, SameClaim, Owns
<1>3. clock' = clock /\ (Live(w)' => Sub(w)' = Sub(w))
  BY DEF Rest, Sub
<1>4. Starts'
  <2>1. ASSUME NEW v \in Workers PROVE Live(v)' => claim'[v].startedAt.kind = "start" /\ claim'[v].startedAt.at <= clock'
    BY <1>1, <1>3 DEF Fence, Starts, SameClaim
  <2>2. ASSUME NEW v \in Workers, pc'[v] = "Claiming"
        PROVE  claim'[v].startedAt.kind = "null" \/ claim'[v].startedAt.at < clock' - Lease
    BY <1>3, <2>2 DEF Fence, Starts, SameClaim, Rest, Expired
  <2> QED
    BY <2>1, <2>2 DEF Starts, Expired
<1>5. UniqueOwner'
  <2> SUFFICES ASSUME NEW u \in Workers, NEW v \in Workers, Live(u)', Live(v)', Sub(u)' = Sub(v)',
                      Owns(u)', Owns(v)', u # v
               PROVE  FALSE
    BY DEF UniqueOwner
  <2>1. CASE u # w /\ v # w
    BY <1>1, <1>2, <2>1 DEF Fence, UniqueOwner
  <2>2. CASE u = w \/ v = w
    BY <1>1, <1>3, <2>2
  <2> QED
    BY <2>1, <2>2
<1>6. NobodyRegains
  <2> SUFFICES ASSUME NEW v \in Workers, Live(v), Live(v)', ~Owns(v) PROVE ~Owns(v)'
    BY DEF NobodyRegains
  <2> QED
    BY <1>2
<1>7. ASSUME NEW v \in Workers, Live(v)', ~Owns(v)', claim'[v].startedAt.at = clock' PROVE Behind(v)'
  <2>1. CASE v = w
    BY <1>3, <1>7, <2>1
  <2>2. CASE v # w /\ Sub(v) = Sub(w)
    <3>1. Live(v) /\ claim[v].startedAt.at = clock
      BY <1>1, <1>3, <1>7, <2>2 DEF SameClaim
    <3> QED
      BY <2>2, <3>1 DEF Fence, Fenced
  <2>3. CASE v # w /\ Sub(v) # Sub(w)
    <3>1. Live(v) /\ claim[v].startedAt.at = clock /\ SameClaim(v) /\ Sub(v)' = Sub(v)
      BY <1>1, <1>3, <1>7, <2>3 DEF SameClaim
    <3>2. SameRow(Sub(v)) /\ ~Owns(v)
      BY <1>2, <1>7, <2>3, <3>1
    <3>3. Behind(v)
      BY <3>1, <3>2 DEF Fence, Fenced
    <3>4. (\A u \in Workers : Live(u) /\ Sub(u) = Sub(v) => ~Owns(u))
          => (\A u \in Workers : Live(u)' /\ Sub(u)' = Sub(v)' => ~Owns(u)')
      <4> SUFFICES ASSUME \A u \in Workers : Live(u) /\ Sub(u) = Sub(v) => ~Owns(u),
                          NEW u \in Workers, Live(u)', Sub(u)' = Sub(v)'
                   PROVE  ~Owns(u)'
        OBVIOUS
      <4>1. u # w
        BY <1>3, <2>3, <3>1
      <4> QED
        BY <1>1, <1>2, <2>3, <3>1, <4>1
    <3> QED
      BY <1>3, <3>1, <3>2, <3>3, <3>4 DEF Behind, SameRow, SameClaim, Start
  <2> QED
    BY <2>1, <2>2, <2>3
<1> QED
  BY <1>4, <1>5, <1>6, <1>7 DEF Fence, Fenced

\* The claim is taken: who had it has an older lease start, and who lost it in
\* this instant finds the attempt number one ahead.
LEMMA Swapped ==
  ASSUME TypeInv, Fence, NEW w \in Workers, Rest(w), pc[w] = "Claiming", Owns(w), pc'[w] = "Load",
         claim'[w].sub = claim[w].sub, claim'[w].attempt = claim[w].attempt + 1, claim'[w].startedAt = Start(clock),
         rows'[Sub(w)].status = rows[Sub(w)].status,
         rows'[Sub(w)].attempts = rows[Sub(w)].attempts + 1, rows'[Sub(w)].startedAt = Start(clock)
  PROVE  Fence' /\ NobodyRegains
<1>1. Sub(w) \in Submissions /\ clock \in Nat /\ Lease \in Nat /\ rows[Sub(w)].attempts \in Nat
  BY FenceTyped
<1>2. /\ rows[Sub(w)].startedAt = claim[w].startedAt /\ rows[Sub(w)].status = RECEIVED_STATUS
      /\ rows[Sub(w)].startedAt.kind = "null" \/ rows[Sub(w)].startedAt.at < clock - Lease
      /\ ~Live(w)
  BY DEF Owns, Fence, Starts, Expired, Live, Running
<1>3. Owns(w)' /\ clock' = clock
  BY <1>1, <1>2 DEF Owns, Sub, Rest
<1>4. ASSUME NEW v \in Workers \ {w}, Live(v), Sub(v) = Sub(w)
      PROVE  /\ ~Owns(v)'
             /\ ~Owns(v) /\ Behind(v) /\ claim[v].startedAt.at = clock => Behind(v)'
             /\ Owns(v) => claim[v].startedAt.at # clock \/ Behind(v)'
  <2>1. SameClaim(v) /\ Sub(v)' = Sub(w) /\ claim[v].attempt \in Nat
    BY <1>4, FenceTyped DEF Rest, SameClaim, Sub
  <2>2. claim[v].startedAt.kind = "start" /\ claim[v].startedAt.at \in Int
    BY <1>4, FenceTyped DEF Fence, Starts, LeaseStart
  <2>3. CASE Owns(v)
    <3>1. claim[v].startedAt.at # clock
      BY <1>1, <1>2, <1>4, <2>2, <2>3 DEF Owns
    <3> QED
      BY <2>1, <2>3, <3>1, StartIsStart DEF Owns, SameClaim
  <2>4. CASE ~Owns(v) /\ claim[v].startedAt.at # clock
    BY <2>1, <2>4, StartIsStart DEF Owns, SameClaim
  <2>5. CASE ~Owns(v) /\ claim[v].startedAt.at = clock
    <3>1. Behind(v)
      BY <1>4, <2>5 DEF Fence, Fenced
    <3>2. rows[Sub(w)].attempts = claim[v].attempt
      <4>1. rows[Sub(w)].startedAt.at \in Int
        BY <1>1, FenceTyped DEF LeaseStart
      <4>2. rows[Sub(w)].startedAt # Start(clock)
        BY <1>1, <1>2, <4>1, StartIsStart
      <4>3. ~(rows[Sub(w)].startedAt.kind = "early" /\ rows[Sub(w)].startedAt.at >= clock - Lease)
        BY <1>1, <1>2, <4>1
      <4> QED
        BY <1>2, <1>4, <3>1, <4>2, <4>3 DEF Behind
    <3>3. ~Owns(v)'
      BY <1>1, <2>1, <3>2 DEF Owns, SameClaim
    <3>4. Behind(v)'
      BY <1>3, <2>1, <3>2 DEF Behind, SameClaim, Start
    <3> QED
      BY <2>5, <3>3, <3>4
  <2> QED
    BY <2>3, <2>4, <2>5
<1>5. pc'[w] # "Claiming" /\ claim'[w].startedAt.kind = "start" /\ claim'[w].startedAt.at <= clock
  BY <1>1, StartIsStart
<1> QED
  BY <1>1, <1>2, <1>3, <1>4, <1>5, OneRow

\* The owner renews its claim on the row, and in memory unless the answer is lost.
LEMMA Renewed ==
  ASSUME TypeInv, Fence, NEW w \in Workers, Rest(w), Live(w), Owns(w), pc'[w] # "Claiming",
         claim'[w].sub = claim[w].sub, claim'[w].attempt = claim[w].attempt,
         claim'[w].startedAt = Start(clock) \/ claim'[w].startedAt = claim[w].startedAt,
         rows'[Sub(w)].status = rows[Sub(w)].status,
         rows'[Sub(w)].attempts = rows[Sub(w)].attempts, rows'[Sub(w)].startedAt = Start(clock)
  PROVE  Fence' /\ NobodyRegains
<1>1. Sub(w) \in Submissions /\ clock \in Nat /\ claim[w].startedAt \in LeaseStart
  BY FenceTyped
<1>2. /\ rows[Sub(w)].startedAt = claim[w].startedAt /\ rows[Sub(w)].status = RECEIVED_STATUS
      /\ rows[Sub(w)].attempts = claim[w].attempt
      /\ claim[w].startedAt.kind = "start" /\ claim[w].startedAt.at <= clock
  BY DEF Owns, Fence, Starts
<1>3. clock' = clock /\ Sub(w)' = Sub(w)
  BY DEF Sub, Rest
<1>4. ASSUME NEW v \in Workers \ {w}, Live(v), Sub(v) = Sub(w)
      PROVE  /\ ~Owns(v)'
             /\ ~Owns(v) /\ Behind(v) /\ claim[v].startedAt.at = clock => Behind(v)'
             /\ Owns(v) => claim[v].startedAt.at # clock \/ Behind(v)'
  <2>1. SameClaim(v) /\ Sub(v)' = Sub(w) /\ claim[v].attempt \in Nat
    BY <1>4, FenceTyped DEF Rest, SameClaim, Sub
  <2>2. ~Owns(v)
    BY <1>4 DEF Fence, UniqueOwner
  <2>3. CASE claim[v].startedAt.at # clock
    BY <2>1, <2>2, <2>3, StartIsStart DEF Owns, SameClaim
  <2>4. CASE claim[v].startedAt.at = clock
    <3>1. Behind(v)
      BY <1>4, <2>2, <2>4 DEF Fence, Fenced
    <3>2. rows[Sub(w)].attempts = claim[v].attempt + 1
      BY <1>2, <1>4, <3>1 DEF Behind
    <3>3. ~Owns(v)'
      BY <2>1, <3>2 DEF Owns, SameClaim
    <3>4. Behind(v)'
      BY <1>3, <2>1, <3>2 DEF Behind, SameClaim, Start
    <3> QED
      BY <2>2, <3>3, <3>4
  <2> QED
    BY <2>3, <2>4
<1>5. claim'[w].startedAt.kind = "start" /\ claim'[w].startedAt.at <= clock
  BY <1>1, <1>2, StartIsStart
<1>6. ~Owns(w)' => claim'[w].startedAt.at # clock
  <2>1. CASE claim'[w].startedAt = Start(clock)
    BY <1>2, <1>3, <2>1 DEF Owns
  <2>2. CASE claim'[w].startedAt = claim[w].startedAt
    BY <1>1, <1>2, <1>3, <2>2, StartIsStart DEF Owns
  <2> QED
    BY <2>1, <2>2
<1> QED
  BY <1>1, <1>4, <1>5, <1>6, OneRow

\* The owner takes its renewal for done, and the row was rolled back: it owns
\* the row no more, unless both happened in one instant.
LEMMA RolledBack ==
  ASSUME TypeInv, Fence, NEW w \in Workers, Rest(w), Live(w), Owns(w), pc'[w] # "Claiming",
         claim'[w].sub = claim[w].sub, claim'[w].attempt = claim[w].attempt,
         claim'[w].startedAt = Start(clock), SameRow(Sub(w))
  PROVE  Fence' /\ NobodyRegains
<1>1. Sub(w) \in Submissions /\ clock \in Nat /\ rows[Sub(w)].startedAt \in LeaseStart
  BY FenceTyped
<1>2. /\ rows[Sub(w)].startedAt = claim[w].startedAt /\ rows[Sub(w)].status = RECEIVED_STATUS
      /\ rows[Sub(w)].attempts = claim[w].attempt
      /\ claim[w].startedAt.kind = "start" /\ claim[w].startedAt.at <= clock
  BY DEF Owns, Fence, Starts
<1>3. clock' = clock /\ Sub(w)' = Sub(w)
  BY DEF Sub, Rest
<1>4. ASSUME NEW v \in Workers \ {w}, Live(v), Sub(v) = Sub(w)
      PROVE  /\ ~Owns(v) /\ ~Owns(v)' /\ SameClaim(v) /\ Sub(v)' = Sub(v)
             /\ Behind(v) /\ claim[v].startedAt.at = clock => Behind(v)'
  <2>1. SameClaim(v) /\ Sub(v)' = Sub(v)
    BY <1>4 DEF Rest, SameClaim, Sub
  <2>2. ~Owns(v) /\ ~Owns(v)'
    BY <1>4, <2>1 DEF Fence, UniqueOwner, Owns, SameClaim, SameRow
  <2>3. ASSUME Behind(v) PROVE Behind(v)'
    <3>1. rows[Sub(w)].attempts = claim[v].attempt + 1 /\ rows[Sub(w)].startedAt = Start(clock)
      BY <1>2, <1>4, <2>3 DEF Behind
    <3> QED
      BY <1>3, <1>4, <2>1, <3>1 DEF Behind, SameClaim, SameRow, Start
  <2> QED
    BY <2>1, <2>2, <2>3
<1>5. ~Owns(w)' => Behind(w)'
  <2> SUFFICES ASSUME ~Owns(w)' PROVE Behind(w)'
    OBVIOUS
  <2>1. rows[Sub(w)].startedAt # Start(clock)
    BY <1>2, <1>3 DEF Owns, SameRow
  <2>2. rows[Sub(w)].startedAt.at < clock
    BY <1>1, <1>2, <2>1, StartIsStart DEF LeaseStart
  <2>3. ASSUME NEW u \in Workers, Live(u)', Sub(u)' = Sub(w)' PROVE ~Owns(u)'
    <3>1. u # w => Live(u) /\ Sub(u) = Sub(w)
      BY <1>3, <2>3 DEF Rest, SameClaim, Live, Sub
    <3> QED
      BY <1>4, <3>1
  <2> QED
    BY <1>2, <1>3, <2>2, <2>3 DEF Behind, SameRow
<1>6. claim'[w].startedAt.kind = "start" /\ claim'[w].startedAt.at <= clock
  BY <1>1, StartIsStart
<1> QED
  BY <1>1, <1>4, <1>5, <1>6, OneRow

\* The owner gives the row back before its lease ends.
LEMMA GivenBack ==
  ASSUME TypeInv, Fence, NEW w \in Workers, Rest(w), Live(w), Owns(w), pc'[w] # "Claiming",
         Live(w)' => SameClaim(w),
         rows'[Sub(w)].startedAt.kind = "early",
         claim[w].startedAt.at = clock => rows'[Sub(w)].startedAt.at >= clock - Lease
  PROVE  Fence' /\ NobodyRegains
<1>1. Sub(w) \in Submissions /\ clock \in Nat
  BY FenceTyped
<1>2. /\ rows[Sub(w)].startedAt = claim[w].startedAt /\ rows[Sub(w)].status = RECEIVED_STATUS
      /\ rows[Sub(w)].attempts = claim[w].attempt
      /\ claim[w].startedAt.kind = "start" /\ claim[w].startedAt.at <= clock
  BY DEF Owns, Fence, Starts
<1>3. clock' = clock
  BY DEF Rest
<1>4. ASSUME NEW v \in Workers, Live(v), Live(v)', Sub(v) = Sub(w)
      PROVE  SameClaim(v) /\ Sub(v)' = Sub(w) /\ ~Owns(v)'
  <2>1. SameClaim(v) /\ Sub(v)' = Sub(w)
    BY <1>4 DEF Rest, SameClaim, Sub
  <2>2. claim[v].startedAt.kind = "start"
    BY <1>4 DEF Fence, Starts
  <2> QED
    BY <2>1, <2>2 DEF Owns, SameClaim
<1>5. ASSUME NEW v \in Workers \ {w}, Live(v), Sub(v) = Sub(w)
      PROVE  ~Owns(v) /\ ~Owns(v)' /\ (Behind(v) /\ claim[v].startedAt.at = clock => Behind(v)')
  <2>1. ~Owns(v) /\ Live(v)'
    BY <1>5 DEF Fence, UniqueOwner, Rest, Live
  <2>2. ASSUME Behind(v) PROVE Behind(v)'
    <3>1. rows[Sub(w)].startedAt = Start(clock)
      BY <1>2, <1>5, <2>2 DEF Behind
    <3>2. claim[w].startedAt.at = clock
      BY <1>2, <3>1, StartIsStart
    <3> QED
      BY <1>3, <1>4, <1>5, <2>1, <3>2 DEF Behind
  <2> QED
    BY <1>4, <1>5, <2>1, <2>2
<1>6. Live(w)' => ~Owns(w)' /\ (claim'[w].startedAt.at = clock => Behind(w)')
  BY <1>3, <1>4 DEF Behind, SameClaim
<1>7. Live(w)' => claim'[w].sub = claim[w].sub /\ claim'[w].startedAt.kind = "start" /\ claim'[w].startedAt.at <= clock
  BY <1>2 DEF SameClaim
<1> QED
  BY <1>1, <1>5, <1>6, <1>7, OneRow

\* The owner records an outcome: the row is nobody's.
LEMMA Settled ==
  ASSUME TypeInv, Fence, NEW w \in Workers, Rest(w), Live(w), pc'[w] # "Claiming",
         Live(w)' => SameClaim(w), rows'[Sub(w)].status # RECEIVED_STATUS
  PROVE  Fence' /\ NobodyRegains
<1>1. Sub(w) \in Submissions
  BY FenceTyped
<1>2. ASSUME NEW v \in Workers, Live(v), Live(v)', Sub(v) = Sub(w)
      PROVE  ~Owns(v)' /\ Behind(v)'
  BY <1>2 DEF Owns, Behind, Rest, SameClaim, Sub
<1>3. \A v \in Workers \ {w} : Live(v) => Live(v)'
  BY DEF Rest, Live
<1>4. Live(w)' => claim'[w].sub = claim[w].sub /\ claim'[w].startedAt.kind = "start" /\ claim'[w].startedAt.at <= clock
  BY DEF SameClaim, Fence, Starts
<1> QED
  BY <1>1, <1>2, <1>3, <1>4, OneRow

\* What the update of a row does to the fenced fields.
LEMMA RowUpdated ==
  ASSUME TypeInv, NEW s \in Submissions, NEW r, rows' = [rows EXCEPT ![s] = r]
  PROVE  rows'[s] = r /\ \A t \in Submissions \ {s} : SameRow(t)
  BY DEF TypeInv, TypeOK, SameRow

\* A worker moves on, forgets its job or dies.
LEMMA MovesOn ==
  ASSUME TypeInv, Fence, NEW w \in Workers, NEW call \in Calls \ {"Claiming"}, Goto(w, call),
         UNCHANGED <<rows, clock>>, call \in Running => Live(w) /\ UNCHANGED claim,
         UNCHANGED claim \/ claim' = [claim EXCEPT ![w] = NoClaim]
  PROVE  Fence' /\ NobodyRegains
<1>1. pc'[w] = call /\ \A v \in Workers \ {w} : pc'[v] = pc[v] /\ claim'[v] = claim[v]
  BY DEF TypeInv, TypeOK, Goto
<1>2. Rest(w) /\ \A s \in Submissions : SameRow(s)
  BY <1>1 DEF Rest, SameRow, SameClaim
<1>3. Live(w)' => Live(w) /\ SameClaim(w)
  BY <1>1 DEF Live, SameClaim
<1> QED
  BY <1>1, <1>2, <1>3, Quiet

LEMMA JobEnds ==
  ASSUME TypeInv, Fence, NEW w \in Workers, EndJob(w), UNCHANGED <<rows, clock>>
  PROVE  Fence' /\ NobodyRegains
  BY MovesOn DEF EndJob, Calls, Running

LEMMA ClaimIsLost ==
  ASSUME TypeInv, Fence, NEW w \in Workers, LosesClaim(w), UNCHANGED clock
  PROVE  Fence' /\ NobodyRegains
  BY MovesOn DEF LosesClaim, Goes, Calls, Running

LEMMA ReadFenced ==
  ASSUME TypeInv, Fence, NEW w \in Workers, ClaimRead(w)
  PROVE  Fence' /\ NobodyRegains
<1>1. PICK s \in Submissions :
        /\ Claimable(s)
        /\ claim' = [claim EXCEPT ![w] = [sub |-> s, attempt |-> rows[s].attempts,
                                          startedAt |-> rows[s].startedAt, earlier |-> rows[s].placementPath]]
  BY DEF ClaimRead
<1>2. claim'[w].startedAt = rows[s].startedAt /\ \A v \in Workers \ {w} : claim'[v] = claim[v]
  BY <1>1 DEF TypeInv, TypeOK
<1>3. Expired(claim'[w].startedAt)
  BY <1>1, <1>2 DEF Claimable, Expired
<1>4. pc'[w] = "Claiming" /\ \A v \in Workers \ {w} : pc'[v] = pc[v]
  BY DEF ClaimRead, Goto, TypeInv, TypeOK
<1>5. Rest(w) /\ \A t \in Submissions : SameRow(t)
  BY <1>2, <1>4 DEF ClaimRead, Rest, SameRow, SameClaim
<1>6. ~Live(w)'
  BY <1>4 DEF Live, Running
<1> QED
  BY <1>3, <1>5, <1>6, Quiet

LEMMA SwapFenced ==
  ASSUME TypeInv, Fence, NEW w \in Workers, ClaimSwap(w)
  PROVE  Fence' /\ NobodyRegains
<1>1. CASE ~Owns(w)
  BY <1>1, JobEnds DEF ClaimSwap
<1>2. CASE Owns(w)
  <2> DEFINE r == [rows[Sub(w)] EXCEPT !.attempts = @ + 1, !.startedAt = Start(clock)]
             c == [claim[w] EXCEPT !.attempt = @ + 1, !.startedAt = Start(clock)]
  <2>1. Sub(w) \in Submissions /\ rows[Sub(w)] \in Row /\ claim[w] \in Claim /\ pc[w] = "Claiming"
    BY DEF TypeInv, TypeOK, ClaimSound, ClaimSwap
  <2>2. rows' = [rows EXCEPT ![Sub(w)] = r] /\ claim' = [claim EXCEPT ![w] = c]
    BY <1>2, <2>1 DEF ClaimSwap, TypeInv, TypeOK
  <2>3. /\ r.status = rows[Sub(w)].status /\ r.attempts = rows[Sub(w)].attempts + 1 /\ r.startedAt = Start(clock)
        /\ c.sub = claim[w].sub /\ c.attempt = claim[w].attempt + 1 /\ c.startedAt = Start(clock)
    BY <2>1 DEF Row, Claim
  <2> HIDE DEF r, c
  <2>4. rows'[Sub(w)] = r /\ \A t \in Submissions \ {Sub(w)} : SameRow(t)
    BY <2>1, <2>2, RowUpdated
  <2>5. claim'[w] = c /\ \A v \in Workers \ {w} : claim'[v] = claim[v]
    BY <2>2 DEF TypeInv, TypeOK
  <2>6. pc'[w] = "Load" /\ \A v \in Workers \ {w} : pc'[v] = pc[v]
    BY <1>2 DEF ClaimSwap, Goto, TypeInv, TypeOK
  <2>7. Rest(w)
    BY <2>4, <2>5, <2>6 DEF ClaimSwap, Rest, SameClaim
  <2> QED
    BY <1>2, <2>1, <2>3, <2>4, <2>5, <2>6, <2>7, Swapped
<1> QED
  BY <1>1, <1>2

\* Every write of an attempt in one form: the row, the memory and the next call.
LEMMA WriteFenced ==
  ASSUME TypeInv, Fence, NEW w \in Workers, Live(w), Owns(w), UNCHANGED clock,
         NEW call \in Calls \ {"Claiming"}, Goto(w, call), NEW r, rows' = [rows EXCEPT ![Sub(w)] = r],
         NEW renewed \in BOOLEAN,
         IF renewed THEN RenewMemory(w) ELSE UNCHANGED claim \/ (claim' = [claim EXCEPT ![w] = NoClaim] /\ call = "Idle")
  PROVE  /\ r.status # RECEIVED_STATUS /\ ~renewed => Fence' /\ NobodyRegains
         /\ r.startedAt.kind = "early" /\ ~renewed
            /\ (claim[w].startedAt.at = clock => r.startedAt.at >= clock - Lease) => Fence' /\ NobodyRegains
         /\ r.status = rows[Sub(w)].status /\ r.attempts = rows[Sub(w)].attempts /\ r.startedAt = Start(clock)
            /\ call # "Idle" => Fence' /\ NobodyRegains
<1>1. Sub(w) \in Submissions /\ claim[w] \in Claim
  BY FenceTyped DEF TypeInv, TypeOK
<1>2. rows'[Sub(w)] = r /\ \A t \in Submissions \ {Sub(w)} : SameRow(t)
  BY <1>1, RowUpdated
<1>3. pc'[w] = call /\ \A v \in Workers \ {w} : pc'[v] = pc[v]
  BY DEF Goto, TypeInv, TypeOK
<1>4. /\ \A v \in Workers \ {w} : SameClaim(v)
      /\ renewed => /\ claim'[w].sub = claim[w].sub /\ claim'[w].attempt = claim[w].attempt
                           /\ claim'[w].startedAt = Start(clock)
      /\ ~renewed => SameClaim(w) \/ call = "Idle"
  BY <1>1 DEF RenewMemory, SameClaim, TypeInv, TypeOK, Claim
<1>5. Rest(w)
  BY <1>2, <1>3, <1>4 DEF Rest
<1>6. ~renewed => (Live(w)' => SameClaim(w))
  BY <1>3, <1>4 DEF Live, Running
<1>7. ASSUME r.status # RECEIVED_STATUS, ~renewed PROVE Fence' /\ NobodyRegains
  BY <1>2, <1>3, <1>5, <1>6, <1>7, Settled
<1>8. ASSUME r.startedAt.kind = "early", ~renewed, claim[w].startedAt.at = clock => r.startedAt.at >= clock - Lease
      PROVE  Fence' /\ NobodyRegains
  BY <1>2, <1>3, <1>5, <1>6, <1>8, GivenBack
<1>9. ASSUME r.status = rows[Sub(w)].status, r.attempts = rows[Sub(w)].attempts, r.startedAt = Start(clock), call # "Idle"
      PROVE  Fence' /\ NobodyRegains
  BY <1>2, <1>3, <1>4, <1>5, <1>9, Renewed DEF SameClaim
<1> QED
  BY <1>7, <1>8, <1>9

\* The renewals of Reconcile, Insert and CleanupRenew.
LEMMA RenewalFenced ==
  ASSUME TypeInv, Fence, NEW w \in Workers, Live(w), Owns(w), UNCHANGED clock, RenewRow(w), RenewMemory(w),
         NEW call \in Running, Goto(w, call)
  PROVE  Fence' /\ NobodyRegains
<1> DEFINE r == [rows[Sub(w)] EXCEPT !.startedAt = Start(clock)]
<1>1. Sub(w) \in Submissions /\ rows[Sub(w)] \in Row
  BY FenceTyped DEF TypeInv, TypeOK
<1>2. rows' = [rows EXCEPT ![Sub(w)] = r]
  BY <1>1 DEF RenewRow
<1>3. r.status = rows[Sub(w)].status /\ r.attempts = rows[Sub(w)].attempts /\ r.startedAt = Start(clock)
  BY <1>1 DEF Row
<1>4. call \in Calls \ {"Claiming"} /\ call # "Idle"
  BY DEF Calls, Running
<1> HIDE DEF r
<1> QED
  BY <1>2, <1>3, <1>4, WriteFenced

\* Their rollbacks, known as renewed to the memory alone.
LEMMA RollbackFenced ==
  ASSUME TypeInv, Fence, NEW w \in Workers, Live(w), Owns(w), UNCHANGED <<rows, clock>>, RenewMemory(w),
         NEW call \in Running, Goto(w, call)
  PROVE  Fence' /\ NobodyRegains
<1>1. Sub(w) \in Submissions /\ claim[w] \in Claim
  BY FenceTyped DEF TypeInv, TypeOK
<1>2. pc'[w] = call /\ \A v \in Workers \ {w} : pc'[v] = pc[v]
  BY DEF Goto, TypeInv, TypeOK
<1>3. /\ \A v \in Workers \ {w} : SameClaim(v)
      /\ claim'[w].sub = claim[w].sub /\ claim'[w].attempt = claim[w].attempt /\ claim'[w].startedAt = Start(clock)
  BY <1>1 DEF RenewMemory, SameClaim, TypeInv, TypeOK, Claim
<1>4. \A s \in Submissions : SameRow(s)
  BY DEF SameRow
<1>5. pc'[w] # "Claiming"
  BY <1>2 DEF Running
<1> QED
  BY <1>1, <1>2, <1>3, <1>4, <1>5, RolledBack DEF Rest

\* The steps that write no row.
LEMMA MovingFenced ==
  ASSUME TypeInv, Fence, NEW w \in Workers,
         \/ AttemptsExhausted(w) \/ LoadUnavailable(w) \/ LoadMismatch(w) \/ ReadDocument(w)
         \/ CheckDuplicate(w) \/ Decide(w) \/ Place(w) \/ TryName(w) \/ TryReuse(w) \/ ReuseUnreadable(w)
         \/ Copy(w) \/ CopyFails(w) \/ CheckInUse(w) \/ RemoveCopy(w) \/ RemoveFails(w) \/ CallFails(w)
  PROVE  Fence' /\ NobodyRegains
<1>1. pc[w] \in Running /\ UNCHANGED <<rows, clock, claim>>
  BY DEF AttemptsExhausted, LoadUnavailable, LoadMismatch, ReadDocument, CheckDuplicate, Decide, Place, TryName,
         TryReuse, ReuseUnreadable, Copy, CopyFails, CheckInUse, RemoveCopy, RemoveFails, CallFails, Running, Goes
<1>2. PICK call \in Running : Goto(w, call)
  <2>1. CASE AttemptsExhausted(w) \/ LoadUnavailable(w) \/ LoadMismatch(w) \/ ReadDocument(w)
    BY <2>1 DEF AttemptsExhausted, LoadUnavailable, LoadMismatch, ReadDocument, Running, Goes
  <2>2. CASE CheckDuplicate(w) \/ Decide(w) \/ Place(w) \/ TryName(w)
    BY <2>2 DEF CheckDuplicate, Decide, Place, TryName, Running, Goes
  <2>3. CASE TryReuse(w) \/ ReuseUnreadable(w) \/ Copy(w) \/ CopyFails(w)
    BY <2>3 DEF TryReuse, ReuseUnreadable, Copy, CopyFails, HasCopy, NextName, Running, Goes
  <2>4. CASE CheckInUse(w) \/ RemoveCopy(w) \/ RemoveFails(w) \/ CallFails(w)
    BY <2>4 DEF CheckInUse, RemoveCopy, RemoveFails, CallFails, Running, Goes
  <2> QED
    BY <2>1, <2>2, <2>3, <2>4
<1>3. call \in Calls \ {"Claiming"}
  BY DEF Calls, Running
<1> QED
  BY <1>1, <1>2, <1>3, MovesOn DEF Live

\* The renewing steps, with the ways they fail.
LEMMA RenewingFenced ==
  ASSUME TypeInv, Fence, NEW w \in Workers,
         Reconcile(w) \/ ReconcileFails(w) \/ Insert(w) \/ InsertFails(w) \/ CleanupRenew(w)
  PROVE  Fence' /\ NobodyRegains
<1>1. Live(w) /\ UNCHANGED clock
  BY DEF Reconcile, ReconcileFails, Insert, InsertFails, CleanupRenew, Live, Running
<1>2. CASE LosesClaim(w)
  BY <1>1, <1>2, ClaimIsLost
<1>3. ASSUME ~LosesClaim(w) PROVE \E call \in Running : Goto(w, call)
  BY <1>3 DEF Reconcile, ReconcileFails, Insert, InsertFails, CleanupRenew, Running
<1>4. CASE UNCHANGED <<rows, claim>> /\ ~LosesClaim(w)
  <2>1. PICK call \in Running : Goto(w, call)
    BY <1>3, <1>4
  <2>2. call \in Calls \ {"Claiming"}
    BY DEF Calls, Running
  <2> QED
    BY <1>1, <1>4, <2>1, <2>2, MovesOn
<1>5. \/ LosesClaim(w) \/ UNCHANGED <<rows, claim>>
      \/ Owns(w) /\ RenewMemory(w) /\ (RenewRow(w) \/ UNCHANGED rows)
  BY DEF Reconcile, ReconcileFails, Insert, InsertFails, CleanupRenew
<1> QED
  BY <1>1, <1>2, <1>3, <1>4, <1>5, RenewalFenced, RollbackFenced

\* The renewals outside a transaction: before a copy, and those whose answer is lost.
LEMMA CopyRenewalFenced ==
  ASSUME TypeInv, Fence, NEW w \in Workers, RenewForCopy(w) \/ RenewAnswerLost(w)
  PROVE  Fence' /\ NobodyRegains
<1>1. Live(w) /\ UNCHANGED clock
  BY DEF RenewForCopy, RenewAnswerLost, Live, Running
<1>2. CASE LosesClaim(w)
  BY <1>1, <1>2, ClaimIsLost
<1>3. CASE ~LosesClaim(w)
  <2>1. Sub(w) \in Submissions /\ rows[Sub(w)] \in Row
    BY <1>1, FenceTyped DEF TypeInv, TypeOK
  <2>2. PICK path : rows' = [rows EXCEPT ![Sub(w)].startedAt = Start(clock), ![Sub(w)].placementPath = path]
    <3>1. CASE RenewForCopy(w)
      BY <1>3, <3>1 DEF RenewForCopy
    <3>2. CASE RenewAnswerLost(w)
      <4> DEFINE path == IF pc[w] = "Renew" THEN CurrentPath(w) ELSE rows[Sub(w)].placementPath
      <4>1. rows' = [rows EXCEPT ![Sub(w)].startedAt = Start(clock), ![Sub(w)].placementPath = path]
        BY <2>1, <3>2 DEF RenewAnswerLost, TypeInv, TypeOK, Row
      <4> HIDE DEF path
      <4> QED
        BY <4>1
    <3> QED
      BY <3>1, <3>2
  <2> DEFINE r == [rows[Sub(w)] EXCEPT !.startedAt = Start(clock), !.placementPath = path]
  <2>3. rows' = [rows EXCEPT ![Sub(w)] = r]
    BY <2>1, <2>2 DEF TypeInv, TypeOK
  <2>4. r.status = rows[Sub(w)].status /\ r.attempts = rows[Sub(w)].attempts /\ r.startedAt = Start(clock)
    BY <2>1 DEF Row
  <2> HIDE DEF r
  <2>5. Owns(w) /\ \E call \in {"Copy", "Fail"} : Goto(w, call) /\ (RenewMemory(w) \/ UNCHANGED claim)
    BY <1>3 DEF RenewForCopy, RenewAnswerLost, Goes
  <2>6. PICK call \in {"Copy", "Fail"} : Goto(w, call) /\ (RenewMemory(w) \/ UNCHANGED claim)
    BY <2>5
  <2>7. call \in Calls \ {"Claiming"} /\ call # "Idle"
    BY DEF Calls, Running
  <2>8. CASE RenewMemory(w)
    BY <1>1, <2>3, <2>4, <2>5, <2>6, <2>7, <2>8, WriteFenced
  <2>9. CASE UNCHANGED claim
    BY <1>1, <2>3, <2>4, <2>5, <2>6, <2>7, <2>9, WriteFenced
  <2> QED
    BY <2>6, <2>8, <2>9
<1> QED
  BY <1>2, <1>3

\* Back-dating: in RetryDelay the row may be claimed again, not before.
LEMMA ReleaseFenced ==
  ASSUME TypeInv, Fence, NEW w \in Workers, RetryLater(w) \/ Release(w)
  PROVE  Fence' /\ NobodyRegains
<1>1. Live(w) /\ UNCHANGED clock
  BY DEF RetryLater, Release, Live, Running
<1>2. /\ Sub(w) \in Submissions /\ rows[Sub(w)] \in Row /\ clock \in Nat /\ Lease \in Nat /\ RetryDelay \in Nat
      /\ claim[w].startedAt.at \in Int
  BY <1>1, FenceTyped DEF TypeInv, TypeOK, LeaseStart
<1>3. CASE LosesClaim(w)
  BY <1>1, <1>3, ClaimIsLost
<1>4. CASE RetryLater(w) /\ ~LosesClaim(w)
  <2> DEFINE r == [rows[Sub(w)] EXCEPT !.startedAt = BackDated(claim[w].startedAt.at)]
  <2>1. rows' = [rows EXCEPT ![Sub(w)] = r]
    BY <1>2, <1>4 DEF RetryLater, TypeInv, TypeOK
  <2>2. r.startedAt.kind = "early" /\ (claim[w].startedAt.at = clock => r.startedAt.at >= clock - Lease)
    BY <1>2, StartIsStart DEF Row
  <2> HIDE DEF r
  <2>3. Owns(w) /\ Goto(w, "Idle") /\ claim' = [claim EXCEPT ![w] = NoClaim]
    BY <1>4 DEF RetryLater, EndJob
  <2>4. "Idle" \in Calls \ {"Claiming"}
    BY DEF Calls
  <2> QED
    BY <1>1, <2>1, <2>2, <2>3, <2>4, WriteFenced
<1>5. CASE Release(w)
  <2> DEFINE r == [rows[Sub(w)] EXCEPT !.attempts = @ - 1, !.startedAt = BackDated(clock)]
  <2>1. rows' = [rows EXCEPT ![Sub(w)] = r]
    BY <1>2, <1>5 DEF Release, TypeInv, TypeOK
  <2>2. r.startedAt.kind = "early" /\ r.startedAt.at >= clock - Lease
    BY <1>2, StartIsStart DEF Row
  <2> HIDE DEF r
  <2>3. Owns(w) /\ UNCHANGED claim /\ pc' = pc /\ pc[w] \in Calls \ {"Claiming"}
    BY <1>5 DEF Release, Calls, Running
  <2>4. Goto(w, pc[w])
    BY <2>3 DEF Goto, TypeInv, TypeOK
  <2> QED
    BY <1>1, <2>1, <2>2, <2>3, <2>4, WriteFenced
<1> QED
  BY <1>3, <1>4, <1>5

\* The outcomes.
LEMMA OutcomeFenced ==
  ASSUME TypeInv, Fence, NEW w \in Workers,
         GiveUp(w) \/ RecordResult(w) \/ ResultAnswerLost(w) \/ RecordFailure(w)
  PROVE  Fence' /\ NobodyRegains
<1>1. Live(w) /\ UNCHANGED clock
  BY DEF GiveUp, RecordResult, ResultAnswerLost, RecordFailure, Live, Running
<1>2. Sub(w) \in Submissions /\ rows[Sub(w)] \in Row /\ work[w].status \in PROCESSING_STATUS
  BY <1>1, FenceTyped DEF TypeInv, TypeOK, Work
<1>3. CASE LosesClaim(w)
  BY <1>1, <1>3, ClaimIsLost
<1>4. CASE ~LosesClaim(w)
  <2>1. \E r : rows' = [rows EXCEPT ![Sub(w)] = r] /\ r.status \in PROCESSING_STATUS
    <3>1. CASE GiveUp(w)
      <4> DEFINE r == [rows[Sub(w)] EXCEPT !.status = "FAILED"]
      <4>1. rows' = [rows EXCEPT ![Sub(w)] = r] /\ r.status = "FAILED"
        BY <1>2, <1>4, <3>1 DEF GiveUp, TypeInv, TypeOK, Row
      <4> HIDE DEF r
      <4> QED
        BY <4>1 DEF PROCESSING_STATUS
    <3>2. ASSUME NEW status \in PROCESSING_STATUS, Recorded(w, status)
          PROVE  \E r : rows' = [rows EXCEPT ![Sub(w)] = r] /\ r.status \in PROCESSING_STATUS
      <4> DEFINE pending == IF work[w].pending # NoPath THEN work[w].pending ELSE rows[Sub(w)].pendingPath
                 r == [rows[Sub(w)] EXCEPT !.status = status, !.client = LinkedClient(w), !.pendingPath = pending]
      <4>1. r.status = status
        BY <1>2 DEF Row
      <4>2. rows' = [rows EXCEPT ![Sub(w)] = r]
        BY <1>2, <3>2 DEF Recorded, TypeInv, TypeOK, Row
      <4> HIDE DEF r
      <4> QED
        BY <4>1, <4>2
    <3>3. CASE ~GiveUp(w)
      BY <1>2, <1>4, <3>2, <3>3 DEF RecordResult, ResultAnswerLost, RecordFailure, PROCESSING_STATUS
    <3> QED
      BY <3>1, <3>3
  <2>2. PICK r : rows' = [rows EXCEPT ![Sub(w)] = r] /\ r.status \in PROCESSING_STATUS
    BY <2>1
  <2>3. r.status # RECEIVED_STATUS
    BY <2>2 DEF PROCESSING_STATUS, RECEIVED_STATUS, CONFIDENCE_BANDS
  <2>4. Owns(w) /\ (EndJob(w) \/ Goes(w, "Fail"))
    BY <1>4 DEF GiveUp, RecordResult, ResultAnswerLost, RecordFailure
  <2>5. {"Idle", "Fail"} \subseteq Calls \ {"Claiming"}
    BY DEF Calls, Running
  <2>6. CASE EndJob(w)
    BY <1>1, <2>2, <2>3, <2>4, <2>5, <2>6, WriteFenced DEF EndJob
  <2>7. CASE Goes(w, "Fail")
    BY <1>1, <2>2, <2>3, <2>4, <2>5, <2>7, WriteFenced DEF Goes
  <2> QED
    BY <2>4, <2>6, <2>7
<1> QED
  BY <1>3, <1>4

\* Time passes: every attempt's last renewal is in the past.
LEMMA TimeFenced ==
  ASSUME TypeInv, Fence, clock' = clock + 1, NobodyClaims, UNCHANGED <<pc, claim>>,
         \A s \in Submissions : SameRow(s) \/ rows'[s].startedAt.kind = "null"
  PROVE  Fence' /\ NobodyRegains
<1>1. clock \in Nat
  BY FenceTyped
<1>2. ASSUME NEW v \in Workers, Live(v)'
      PROVE  /\ Live(v) /\ Sub(v)' = Sub(v) /\ (Owns(v)' => Owns(v))
             /\ claim'[v].startedAt.kind = "start" /\ claim'[v].startedAt.at < clock'
  <2>1. Live(v) /\ Sub(v)' = Sub(v) /\ claim'[v] = claim[v]
    BY <1>2 DEF Live, Sub
  <2>2. Sub(v) \in Submissions /\ claim[v].startedAt \in LeaseStart
    BY <2>1, FenceTyped
  <2>3. claim[v].startedAt.kind = "start" /\ claim[v].startedAt.at <= clock
    BY <2>1 DEF Fence, Starts
  <2>4. Owns(v)' => Owns(v)
    BY <2>1, <2>2, <2>3 DEF Owns, SameRow
  <2> QED
    BY <1>1, <2>1, <2>2, <2>3, <2>4 DEF LeaseStart
<1>3. Starts'
  <2>1. ASSUME NEW v \in Workers, Live(v)' PROVE claim'[v].startedAt.at <= clock'
    BY <1>1, <1>2, <2>1, FenceTyped DEF LeaseStart
  <2> QED
    BY <1>2, <2>1 DEF Starts, NobodyClaims
<1>4. Fenced'
  BY <1>1, <1>2, FenceTyped DEF Fenced, LeaseStart
<1>5. UniqueOwner'
  BY <1>2 DEF Fence, UniqueOwner
<1>6. NobodyRegains
  BY <1>2 DEF NobodyRegains
<1> QED
  BY <1>3, <1>4, <1>5, <1>6 DEF Fence

LEMMA StutterFenced ==
  ASSUME TypeInv, Fence, UNCHANGED <<rows, clock, pc, claim>>
  PROVE  Fence' /\ NobodyRegains
<1>1. \A v : Owns(v)' = Owns(v) /\ Live(v)' = Live(v) /\ Sub(v)' = Sub(v)
  BY DEF Owns, Live, Sub
<1>2. Starts' /\ NobodyRegains
  BY <1>1 DEF Fence, Starts, NobodyRegains, Expired
<1>3. UniqueOwner'
  BY <1>1 DEF Fence, UniqueOwner
<1>4. Fenced'
  BY <1>1 DEF Fence, Fenced, Behind, Start
<1> QED
  BY <1>2, <1>3, <1>4 DEF Fence

LEMMA RetryFenced ==
  ASSUME TypeInv, Fence, NEW s \in Submissions, AdminRetry(s)
  PROVE  Fence' /\ NobodyRegains
<1> DEFINE r == [rows[s] EXCEPT !.status = RECEIVED_STATUS, !.attempts = 0, !.startedAt = NoStart, !.client = None]
<1>1. rows' = [rows EXCEPT ![s] = r]
  BY DEF AdminRetry, TypeInv, TypeOK
<1>2. rows[s] \in Row
  BY DEF TypeInv, TypeOK
<1>3. r.startedAt.kind = "null"
  BY <1>2 DEF Row, NoStart
<1> HIDE DEF r
<1>4. rows'[s] = r /\ \A t \in Submissions \ {s} : SameRow(t)
  BY <1>1, RowUpdated
<1>5. clock' = clock + 1 /\ NobodyClaims /\ UNCHANGED <<pc, claim>>
  BY DEF AdminRetry, TimeMayPass
<1> QED
  BY <1>3, <1>4, <1>5, TimeFenced

LEMMA NextFenced ==
  ASSUME TypeInv, Fence, [Next]_vars
  PROVE  Fence' /\ NobodyRegains
<1>1. CASE UNCHANGED vars
  BY <1>1, StutterFenced DEF vars
<1>2. ASSUME NEW w \in Workers, WorkerStep(w) \/ FaultStep(w) PROVE Fence' /\ NobodyRegains
  <2>1. CASE Discard(w) \/ Crash(w)
    BY <2>1, JobEnds DEF Discard, Crash
  <2> QED
    BY <1>2, <2>1, ReadFenced, SwapFenced, MovingFenced, RenewingFenced, CopyRenewalFenced, ReleaseFenced, OutcomeFenced
    DEF WorkerStep, FaultStep
<1>3. CASE LateCopyLands \/ LateRemovalLands
  BY <1>3, StutterFenced DEF LateCopyLands, LateRemovalLands
<1>4. CASE Tick
  BY <1>4, TimeFenced DEF Tick, TimeMayPass, SameRow
<1> QED
  BY <1>1, <1>2, <1>3, <1>4, RetryFenced DEF Next, OtherStep

LEMMA InitFenced == Init => Fence
  BY DEF Init, Fence, Starts, Fenced, UniqueOwner, Live, Running

\* Two attempts never both pass the ownership condition of their writes on one
\* submission (the conditional updates of submissionQueue.js), whatever the
\* number of workers, the lengths of lease and retry delay, and the faults.
THEOREM ClaimsExclusive == Spec => []UniqueOwner
<1>1. Fence => UniqueOwner
  BY DEF Fence
<1>2. Init => TypeInv /\ Fence
  BY InitTyped, InitFenced
<1>3. TypeInv /\ Fence /\ [Next]_vars => (TypeInv /\ Fence)'
  BY NextTyped, NextFenced
<1> QED
  BY <1>1, <1>2, <1>3, PTL DEF Spec

\* An attempt that lost its claim never passes the condition again: a stale
\* result is discarded for good, although attempt numbers come back.
THEOREM LostClaimsStayLost == Spec => LostForever
<1>1. Init => TypeInv /\ Fence
  BY InitTyped, InitFenced
<1>2. TypeInv /\ Fence /\ [Next]_vars => (TypeInv /\ Fence)'
  BY NextTyped, NextFenced
<1>3. TypeInv /\ Fence /\ [Next]_vars =>
        [\A w \in Workers : Live(w) /\ Live(w)' /\ ~Owns(w) => ~Owns(w)']_vars
  BY NextFenced DEF NobodyRegains
<1> QED
  BY <1>1, <1>2, <1>3, PTL DEF Spec, LostForever
----------------------------------------------------------------------------
(* One document per submission.  What the duplicate check found holds until *)
(* the insert, for whoever still owns the row: only an owner files a        *)
(* document of the submission, and nobody becomes the owner again.          *)

BeforeInsert == {"Reconcile", "Decide", "Place", "Name", "Reuse", "Renew", "Copy", "Insert"}

\* A client folder is only chosen after a duplicate check that found nothing.
CheckedFirst(w) ==
  /\ pc[w] \in {"Reconcile", "Decide"} /\ work[w].reading.client # None => work[w].checksum # None
  /\ pc[w] \in BeforeInsert \ {"Reconcile", "Decide"} /\ work[w].place = "CLIENT" => work[w].checksum = "NEW"

Unfiled(w) ==
  pc[w] \in BeforeInsert /\ Owns(w) /\ work[w].checksum = "NEW" => \A d \in documents : d.sub # Sub(w)

Filing ==
  /\ \A d \in documents : d.sha = Sha[d.sub]
  /\ \A w \in Workers : CheckedFirst(w) /\ Unfiled(w)
  /\ OneDocumentPerSubmission

OnlyItself(w) == \A v \in Workers \ {w} : pc'[v] = pc[v] /\ work'[v] = work[v] /\ claim'[v] = claim[v]

LEMMA StillUnfiled ==
  ASSUME NobodyRegains, Filing, NEW v \in Workers, pc[v] \in BeforeInsert, pc'[v] \in BeforeInsert,
         claim'[v].sub = claim[v].sub, work'[v].checksum = work[v].checksum,
         \A d \in documents' \ documents : d.sub # Sub(v) \/ ~Owns(v)
  PROVE  Unfiled(v)'
<1>1. Live(v) /\ Live(v)'
  BY DEF Live, Running, BeforeInsert
<1>2. Owns(v)' => Owns(v)
  BY <1>1 DEF NobodyRegains
<1> QED
  BY <1>2 DEF Filing, Unfiled, Sub

\* A step of w that files nothing.
LEMMA FilesNothing ==
  ASSUME NobodyRegains, Filing, NEW w \in Workers, OnlyItself(w), UNCHANGED documents,
         pc'[w] \in BeforeInsert =>
           /\ CheckedFirst(w)'
           /\ \/ Unfiled(w)'
              \/ pc[w] \in BeforeInsert /\ claim'[w].sub = claim[w].sub /\ work'[w].checksum = work[w].checksum
  PROVE  Filing'
<1>1. ASSUME NEW v \in Workers \ {w} PROVE CheckedFirst(v)' /\ Unfiled(v)'
  <2>1. CheckedFirst(v)'
    BY DEF OnlyItself, Filing, CheckedFirst
  <2>2. pc'[v] \in BeforeInsert => Unfiled(v)'
    BY StillUnfiled DEF OnlyItself
  <2> QED
    BY <2>1, <2>2 DEF Unfiled
<1>2. CheckedFirst(w)' /\ Unfiled(w)'
  <2>1. CASE pc'[w] \in BeforeInsert
    BY <2>1, StillUnfiled
  <2>2. CASE pc'[w] \notin BeforeInsert
    BY <2>2 DEF CheckedFirst, Unfiled, BeforeInsert
  <2> QED
    BY <2>1, <2>2
<1> QED
  BY <1>1, <1>2 DEF Filing, OneDocumentPerSubmission

\* The insert itself: by the owner, who found nothing.
LEMMA FilesOne ==
  ASSUME TypeInv, Fence, NobodyRegains, Filing, NEW w \in Workers, OnlyItself(w),
         pc[w] = "Insert", Owns(w), pc'[w] \notin BeforeInsert, documents' = documents \cup {NewDocument(w)}
  PROVE  Filing'
<1>1. work[w].place = "CLIENT"
  BY DEF TypeInv, PlaceSound
<1>2. \A d \in documents : d.sub # Sub(w)
  BY <1>1 DEF Filing, CheckedFirst, Unfiled, BeforeInsert
<1>3. NewDocument(w).sub = Sub(w) /\ NewDocument(w).sha = Sha[Sub(w)]
  BY DEF NewDocument
<1>4. OneDocumentPerSubmission'
  BY <1>2, <1>3 DEF Filing, OneDocumentPerSubmission
<1>5. \A d \in documents' : d.sha = Sha[d.sub]
  BY <1>3 DEF Filing
<1>6. ASSUME NEW v \in Workers \ {w} PROVE CheckedFirst(v)' /\ Unfiled(v)'
  <2>1. CheckedFirst(v)'
    BY DEF OnlyItself, Filing, CheckedFirst
  <2>2. pc[v] \in BeforeInsert => Sub(w) # Sub(v) \/ ~Owns(v)
    BY DEF Fence, UniqueOwner, Live, Running, BeforeInsert
  <2>3. pc'[v] \in BeforeInsert => Unfiled(v)'
    BY <1>3, <2>2, StillUnfiled DEF OnlyItself
  <2> QED
    BY <2>1, <2>3 DEF Unfiled
<1>7. CheckedFirst(w)' /\ Unfiled(w)'
  BY DEF CheckedFirst, Unfiled, BeforeInsert
<1> QED
  BY <1>4, <1>5, <1>6, <1>7 DEF Filing

LEMMA AloneMoves ==
  ASSUME TypeInv, NEW w \in Workers, NEW call, Goto(w, call),
         \A v \in Workers \ {w} : work'[v] = work[v] /\ claim'[v] = claim[v]
  PROVE  OnlyItself(w) /\ pc'[w] = call
  BY DEF OnlyItself, Goto, TypeInv, TypeOK

\* The end of a job and the loss of a claim file nothing.
LEMMA StopsFiling ==
  ASSUME TypeInv, NobodyRegains, Filing, NEW w \in Workers, EndJob(w) \/ LosesClaim(w), UNCHANGED documents
  PROVE  Filing'
<1>1. CASE EndJob(w)
  <2>1. OnlyItself(w) /\ pc'[w] = "Idle"
    BY <1>1, AloneMoves DEF EndJob, TypeInv, TypeOK
  <2> QED
    BY <2>1, FilesNothing DEF BeforeInsert
<1>2. CASE LosesClaim(w)
  <2>1. OnlyItself(w) /\ pc'[w] = "Stale"
    BY <1>2, AloneMoves DEF LosesClaim, Goes
  <2> QED
    BY <2>1, FilesNothing DEF BeforeInsert
<1> QED
  BY <1>1, <1>2

\* The calls outside the part from the duplicate check to the insert.
LEMMA OutsideFiling ==
  ASSUME TypeInv, NobodyRegains, Filing, NEW w \in Workers,
         \/ ClaimRead(w) \/ ClaimSwap(w) \/ AttemptsExhausted(w) \/ LoadUnavailable(w) \/ LoadMismatch(w)
         \/ ReadDocument(w) \/ RetryLater(w) \/ GiveUp(w) \/ ReconcileFails(w) \/ CopyFails(w)
         \/ CleanupRenew(w) \/ CheckInUse(w) \/ RemoveCopy(w) \/ RemoveFails(w)
         \/ RecordResult(w) \/ ResultAnswerLost(w) \/ RecordFailure(w) \/ RenewAnswerLost(w)
         \/ CallFails(w) \/ Discard(w) \/ Crash(w)
  PROVE  Filing'
<1>1. UNCHANGED documents
  BY DEF ClaimRead, ClaimSwap, AttemptsExhausted, LoadUnavailable, LoadMismatch, ReadDocument, RetryLater, GiveUp,
         ReconcileFails, CopyFails, CleanupRenew, CheckInUse, RemoveCopy, RemoveFails, RecordResult,
         ResultAnswerLost, RecordFailure, RenewAnswerLost, CallFails, Discard, Crash
<1>2. CASE EndJob(w) \/ LosesClaim(w)
  BY <1>1, <1>2, StopsFiling
<1>3. CASE ~(EndJob(w) \/ LosesClaim(w))
  <2>1. \E call \in Calls \ BeforeInsert : Goto(w, call)
    <3>1. CASE ClaimRead(w) \/ ClaimSwap(w) \/ AttemptsExhausted(w) \/ LoadUnavailable(w) \/ LoadMismatch(w) \/ ReadDocument(w)
      BY <1>3, <3>1 DEF ClaimRead, ClaimSwap, AttemptsExhausted, LoadUnavailable, LoadMismatch, ReadDocument, Goes,
                        BeforeInsert, Calls, Running
    <3>2. CASE ReconcileFails(w) \/ CopyFails(w) \/ CleanupRenew(w) \/ CheckInUse(w) \/ RemoveCopy(w) \/ RemoveFails(w)
      BY <1>3, <3>2 DEF ReconcileFails, CopyFails, CleanupRenew, CheckInUse, RemoveCopy, RemoveFails, Goes,
                        BeforeInsert, Calls, Running
    <3>3. CASE \/ RetryLater(w) \/ GiveUp(w) \/ RecordResult(w) \/ ResultAnswerLost(w) \/ RecordFailure(w)
               \/ RenewAnswerLost(w) \/ CallFails(w) \/ Discard(w) \/ Crash(w)
      BY <1>3, <3>3 DEF RetryLater, GiveUp, RecordResult, ResultAnswerLost, RecordFailure, RenewAnswerLost, CallFails,
                        Discard, Crash, Goes, BeforeInsert, Calls, Running
    <3> QED
      BY <3>1, <3>2, <3>3
  <2>2. \A v \in Workers \ {w} : work'[v] = work[v] /\ claim'[v] = claim[v]
    BY <1>3 DEF TypeInv, TypeOK, ClaimRead, ClaimSwap, AttemptsExhausted, LoadUnavailable, LoadMismatch, ReadDocument,
         RetryLater, GiveUp, ReconcileFails, CopyFails, CleanupRenew, CheckInUse, RemoveCopy, RemoveFails, RecordResult,
         ResultAnswerLost, RecordFailure, RenewAnswerLost, CallFails, Discard, Crash, Goes, RenewMemory
  <2>3. OnlyItself(w) /\ pc'[w] \notin BeforeInsert
    BY <2>1, <2>2, AloneMoves
  <2> QED
    BY <1>1, <2>3, FilesNothing
<1> QED
  BY <1>2, <1>3

LEMMA CheckFiling ==
  ASSUME TypeInv, NobodyRegains, Filing, NEW w \in Workers, CheckDuplicate(w)
  PROVE  Filing'
<1> DEFINE c == work[w].reading.client
           outcome == IF c = None THEN None ELSE CheckClientChecksum(documents, c, Sha[Sub(w)], Sub(w))
<1>1. work'[w].checksum = outcome /\ work'[w].reading = work[w].reading /\ work[w] \in Work
  BY DEF CheckDuplicate, TypeInv, TypeOK, Work
<1>2. pc'[w] \in {"Reconcile", "Decide"} /\ OnlyItself(w)
  <2>1. PICK call \in {"Reconcile", "Decide"} : Goto(w, call)
    BY DEF CheckDuplicate
  <2>2. \A v \in Workers \ {w} : work'[v] = work[v] /\ claim'[v] = claim[v]
    BY DEF CheckDuplicate, TypeInv, TypeOK
  <2> QED
    BY <2>1, <2>2, AloneMoves
<1>3. c # None => outcome # None
  BY DEF CheckClientChecksum, None
<1>4. outcome = "NEW" => \A d \in documents : d.sha # Sha[Sub(w)]
  BY DEF CheckClientChecksum, SameClient, OtherClient, None
<1>5. documents' = documents /\ Sub(w)' = Sub(w)
  BY DEF CheckDuplicate, Sub
<1> HIDE DEF outcome
<1>6. CheckedFirst(w)'
  BY <1>1, <1>2, <1>3 DEF CheckedFirst, BeforeInsert
<1>7. Unfiled(w)'
  BY <1>1, <1>4, <1>5 DEF Unfiled, Filing
<1> QED
  BY <1>2, <1>5, <1>6, <1>7, FilesNothing

LEMMA DecideFiling ==
  ASSUME TypeInv, NobodyRegains, Filing, NEW w \in Workers, Decide(w)
  PROVE  Filing'
<1> DEFINE d == Decision(w)
           exists == /\ work[w].reading.client # None /\ AllowsWrites(work[w].checksum)
                     /\ work[w].reading.band \in CLIENT_BANDS
                     /\ HasVerifiedDocument(documents, work[w].reading.client, work[w].reading.type)
           identified == work[w].reading.client # None
<1>1. work[w] \in Work
  BY DEF TypeInv, TypeOK
<1>2. /\ work[w].reading.status \in PROCESSING_STATUS /\ work[w].reading.client \in Clients \cup {None}
      /\ work[w].checksum \in CHECKSUM_OUTCOME
  BY <1>1 DEF Work, Reading, PROCESSING_STATUS
<1>3. d = DecidePlacement(work[w].reading.status, work[w].reading.band, work[w].reading.type, identified,
                          work[w].reading.client, work[w].checksum, work[w].reading.blocked,
                          exists, work[w].verified)
  BY DEF Decision
<1>4. identified \in BOOLEAN /\ (identified => work[w].reading.client # None)
  OBVIOUS
<1>5. d.placement = "CLIENT" /\ ~d.alreadyStored =>
        work[w].reading.client # None /\ work[w].checksum \notin {"ALREADY_STORED", "DUPLICATE", "CROSS_CLIENT_CONFLICT"}
  <2> HIDE DEF identified, exists, d
  <2> QED
    BY <1>2, <1>3, <1>4, DecisionTyped
<1>6. work'[w].checksum = work[w].checksum /\ work'[w].place = d.placement
  <2> HIDE DEF d
  <2> QED
    BY <1>1 DEF Decide, TypeInv, TypeOK, Work, d
<1> HIDE DEF d
<1>7. pc[w] = "Decide" /\ claim' = claim /\ documents' = documents
  BY DEF Decide
<1>8. OnlyItself(w) /\ \/ pc'[w] = "Final"
                       \/ pc'[w] = "Place" /\ ~d.alreadyStored
  <2>1. PICK call \in {"Final", "Place"} : Goto(w, call) /\ (call = "Place" => ~d.alreadyStored)
    BY DEF Decide, d
  <2>2. \A v \in Workers \ {w} : work'[v] = work[v] /\ claim'[v] = claim[v]
    BY DEF Decide, TypeInv, TypeOK
  <2> QED
    BY <2>1, <2>2, AloneMoves
<1>9. pc'[w] = "Place" => CheckedFirst(w)'
  <2>1. work[w].reading.client # None => work[w].checksum # None
    BY <1>7 DEF Filing, CheckedFirst
  <2>2. pc'[w] = "Place" /\ d.placement = "CLIENT" => work[w].checksum = "NEW"
    BY <1>2, <1>5, <1>8, <2>1 DEF CHECKSUM_OUTCOME
  <2> QED
    BY <1>6, <2>2 DEF CheckedFirst
<1> QED
  BY <1>6, <1>7, <1>8, <1>9, FilesNothing DEF BeforeInsert

\* On the way from the check to the insert the decision stands.
LEMMA CopyingFiling ==
  ASSUME TypeInv, NobodyRegains, Filing, NEW w \in Workers,
         Reconcile(w) \/ Place(w) \/ TryName(w) \/ TryReuse(w) \/ ReuseUnreadable(w) \/ RenewForCopy(w) \/ Copy(w)
  PROVE  Filing'
<1>1. UNCHANGED documents /\ pc[w] \in BeforeInsert
  BY DEF Reconcile, Place, TryName, TryReuse, ReuseUnreadable, RenewForCopy, Copy, BeforeInsert
<1>2. CASE LosesClaim(w)
  BY <1>1, <1>2, StopsFiling
<1>3. CASE ~LosesClaim(w)
  <2>1. work[w] \in Work /\ claim[w] \in Claim
    BY DEF TypeInv, TypeOK
  <2>2. \A v \in Workers \ {w} : work'[v] = work[v] /\ claim'[v] = claim[v]
    BY <1>3 DEF TypeInv, TypeOK, Reconcile, Place, TryName, TryReuse, ReuseUnreadable, RenewForCopy, Copy, HasCopy,
                NextName, Goes, RenewMemory
  <2>3. claim'[w].sub = claim[w].sub
    BY <1>3, <2>1 DEF TypeInv, TypeOK, Claim, Reconcile, Place, TryName, TryReuse, ReuseUnreadable, RenewForCopy,
                      Copy, Goes, RenewMemory
  <2>4. work'[w].checksum = work[w].checksum /\ work'[w].reading = work[w].reading
    <3>1. CASE Place(w)
      BY <2>1, <3>1 DEF TypeInv, TypeOK, Work, Place
    <3>2. CASE ~Place(w)
      BY <1>3, <2>1, <3>2 DEF TypeInv, TypeOK, Work, Reconcile, TryName, TryReuse, ReuseUnreadable, RenewForCopy,
                        Copy, HasCopy, NextName, Goes
    <3> QED
      BY <3>1, <3>2
  <2>5. CASE Reconcile(w)
    <3>1. OnlyItself(w) /\ pc'[w] = "Decide" /\ pc[w] = "Reconcile"
      BY <1>3, <2>2, <2>5, AloneMoves DEF Reconcile
    <3>2. CheckedFirst(w)'
      BY <2>4, <3>1 DEF Filing, CheckedFirst
    <3> QED
      BY <1>1, <2>3, <2>4, <3>1, <3>2, FilesNothing
  <2>6. CASE ~Reconcile(w)
    <3>1. pc[w] \in BeforeInsert \ {"Reconcile", "Decide"}
      BY <2>6 DEF Place, TryName, TryReuse, ReuseUnreadable, RenewForCopy, Copy, BeforeInsert
    <3>2. \E call \in Calls \ {"Reconcile", "Decide"} : Goto(w, call)
      BY <1>3, <2>6 DEF Place, TryName, TryReuse, ReuseUnreadable, RenewForCopy, Copy, HasCopy, NextName, Goes,
                        Calls, Running
    <3>3. OnlyItself(w) /\ pc'[w] \notin {"Reconcile", "Decide"}
      BY <2>2, <3>2, AloneMoves
    <3>4. pc'[w] \in BeforeInsert => work'[w].place = work[w].place
      <4>1. CASE Place(w)
        <5>1. CASE work[w].place = "PENDING" /\ FindPendingDuplicate(Sub(w))
          <6>1. pc'[w] = "Final"
            BY <2>2, <4>1, <5>1, AloneMoves DEF Place
          <6> QED
            BY <6>1 DEF BeforeInsert
        <5>2. CASE ~(work[w].place = "PENDING" /\ FindPendingDuplicate(Sub(w)))
          BY <2>1, <4>1, <5>2 DEF TypeInv, TypeOK, Work, Place
        <5> QED
          BY <5>1, <5>2
      <4>2. CASE ~Place(w)
        BY <1>3, <2>1, <2>6, <4>2 DEF TypeInv, TypeOK, Work, TryName, TryReuse, ReuseUnreadable, RenewForCopy,
                                Copy, HasCopy, NextName, Goes
      <4> QED
        BY <4>1, <4>2
    <3>5. pc'[w] \in BeforeInsert => CheckedFirst(w)'
      BY <2>4, <3>1, <3>3, <3>4 DEF Filing, CheckedFirst
    <3> QED
      BY <1>1, <2>3, <2>4, <3>3, <3>5, FilesNothing
  <2> QED
    BY <2>5, <2>6
<1> QED
  BY <1>2, <1>3

LEMMA InsertFiling ==
  ASSUME TypeInv, Fence, NobodyRegains, Filing, NEW w \in Workers, Insert(w) \/ InsertFails(w)
  PROVE  Filing'
<1>1. pc[w] = "Insert"
  BY DEF Insert, InsertFails
<1>2. CASE LosesClaim(w) /\ UNCHANGED documents
  BY <1>2, StopsFiling
<1>3. CASE ~(LosesClaim(w) /\ UNCHANGED documents)
  <2>1. \E call \in {"Final", "CleanupRenew"} : Goto(w, call)
    BY <1>3 DEF Insert, InsertFails
  <2>2. \A v \in Workers \ {w} : work'[v] = work[v] /\ claim'[v] = claim[v]
    BY <1>3 DEF TypeInv, TypeOK, Insert, InsertFails, RenewMemory
  <2>3. OnlyItself(w) /\ pc'[w] \notin BeforeInsert
    BY <2>1, <2>2, AloneMoves DEF BeforeInsert
  <2>4. UNCHANGED documents \/ (Owns(w) /\ documents' = documents \cup {NewDocument(w)})
    BY <1>3 DEF Insert, InsertFails
  <2> QED
    BY <1>1, <2>3, <2>4, FilesNothing, FilesOne
<1> QED
  BY <1>2, <1>3

\* No worker moves.
LEMMA StillFiling ==
  ASSUME NobodyRegains, Filing, UNCHANGED <<documents, pc, claim, work>>
  PROVE  Filing'
<1>1. ASSUME NEW v \in Workers PROVE CheckedFirst(v)' /\ Unfiled(v)'
  <2>1. CheckedFirst(v)'
    BY DEF Filing, CheckedFirst
  <2>2. pc'[v] \in BeforeInsert => Unfiled(v)'
    BY StillUnfiled
  <2> QED
    BY <2>1, <2>2 DEF Unfiled
<1> QED
  BY <1>1 DEF Filing, OneDocumentPerSubmission

LEMMA NextFiling ==
  ASSUME TypeInv, Fence, Filing, [Next]_vars
  PROVE  Filing'
<1>1. NobodyRegains
  BY NextFenced
<1>2. CASE UNCHANGED vars
  BY <1>1, <1>2, StillFiling DEF vars
<1>3. ASSUME NEW w \in Workers, WorkerStep(w) \/ FaultStep(w) PROVE Filing'
  BY <1>1, <1>3, OutsideFiling, CheckFiling, DecideFiling, CopyingFiling, InsertFiling, StillFiling
  DEF WorkerStep, FaultStep, Release
<1>4. ASSUME OtherStep PROVE Filing'
  BY <1>1, <1>4, StillFiling DEF OtherStep, AdminRetry, LateCopyLands, LateRemovalLands, Tick
<1> QED
  BY <1>2, <1>3, <1>4 DEF Next

LEMMA InitFiling == Init => Filing
  BY DEF Init, Filing, CheckedFirst, Unfiled, BeforeInsert, OneDocumentPerSubmission

\* A submission is filed at most once (the duplicate check of
\* documentProcessingService.js with the renewal in storeClientDocument's
\* transaction), whatever its attempts identify and however they are cut short.
THEOREM FiledAtMostOnce == Spec => []OneDocumentPerSubmission
<1>1. Init => TypeInv /\ Fence /\ Filing
  BY InitTyped, InitFenced, InitFiling
<1>2. TypeInv /\ Fence /\ Filing /\ [Next]_vars => (TypeInv /\ Fence /\ Filing)'
  BY NextTyped, NextFenced, NextFiling
<1>3. Filing => OneDocumentPerSubmission
  BY DEF Filing
<1> QED
  BY <1>1, <1>2, <1>3, PTL DEF Spec
----------------------------------------------------------------------------
(* Nothing is lost.  What an attempt has found out - a document of the      *)
(* submission, another of the same file, its copy in pending/ - stays true  *)
(* while it works: documents and files in pending/ are never taken away.    *)

\* There is a document of the same file, or another submission's waits.
KnownElsewhere(s) ==
  \/ \E d \in documents : d.sha = Sha[s]
  \/ \E t \in Submissions \ {s} : Sha[t] = Sha[s] /\ rows[t].pendingPath # NoPath

Accounted(s, status) == (\E d \in documents : d.sub = s) \/ (status = "DUPLICATE" /\ KnownElsewhere(s))

WaitsAt(path, s) == path.area = "pending" /\ [path |-> path, sha |-> Sha[s]] \in objects

\* What an attempt remembers is so.
Remembered(w) ==
  /\ pc[w] \in {"Idle", "Claiming"} => work[w] = NoWork
  /\ work[w].checksum = "ALREADY_STORED" => \E d \in documents : d.sub = Sub(w)
  /\ work[w].checksum = "DUPLICATE" \/ work[w].duplicate => \E d \in documents : d.sha = Sha[Sub(w)]
  /\ work[w].pending # NoPath => WaitsAt(work[w].pending, Sub(w))
  /\ pc[w] = "Final" => work[w].pending # NoPath \/ Accounted(Sub(w), work[w].status)
  /\ pc[w] \in {"CleanupRenew", "InUse", "Remove"} => work[w].place = "CLIENT"

\* What a row says is so.
RowTrue(s) ==
  /\ rows[s].pendingPath # NoPath => WaitsAt(rows[s].pendingPath, s) /\ rows[s].status # RECEIVED_STATUS
  /\ rows[s].status \notin {RECEIVED_STATUS, "FAILED"} => rows[s].pendingPath # NoPath \/ Accounted(s, rows[s].status)

Safekeeping == (\A w \in Workers : Remembered(w)) /\ (\A s \in Submissions : RowTrue(s))


\* Nothing that was found is taken away.
Growing ==
  /\ documents \subseteq documents'
  /\ \A o \in objects : o.path.area = "pending" => o \in objects'
  /\ \A s \in Submissions : rows[s].pendingPath # NoPath => rows'[s].pendingPath # NoPath

SameRows == \A s \in Submissions : rows'[s].status = rows[s].status /\ rows'[s].pendingPath = rows[s].pendingPath

LEMMA StillKnown ==
  ASSUME Growing, NEW s, NEW status
  PROVE  /\ (\E d \in documents : d.sub = s) => (\E d \in documents' : d.sub = s)
         /\ (\E d \in documents : d.sha = Sha[s]) => (\E d \in documents' : d.sha = Sha[s])
         /\ KnownElsewhere(s) => KnownElsewhere(s)'
         /\ Accounted(s, status) => Accounted(s, status)'
         /\ \A path : WaitsAt(path, s) => WaitsAt(path, s)'
  BY DEF Growing, KnownElsewhere, Accounted, WaitsAt

LEMMA RowsStayTrue ==
  ASSUME Safekeeping, Growing, SameRows
  PROVE  \A s \in Submissions : RowTrue(s)'
<1> SUFFICES ASSUME NEW s \in Submissions PROVE RowTrue(s)'
  OBVIOUS
<1>1. RowTrue(s) /\ rows'[s].status = rows[s].status /\ rows'[s].pendingPath = rows[s].pendingPath
  BY DEF Safekeeping, SameRows
<1>2. Accounted(s, rows[s].status) => Accounted(s, rows[s].status)'
  BY <1>1, StillKnown DEF Accounted, KnownElsewhere, Growing
<1>3. Accounted(s, rows[s].status)' <=> (\E d \in documents' : d.sub = s) \/ (rows[s].status = "DUPLICATE" /\ KnownElsewhere(s)')
  BY <1>1 DEF Accounted
<1>4. WaitsAt(rows[s].pendingPath, s) => WaitsAt(rows[s].pendingPath, s)'
  BY <1>1 DEF WaitsAt, Growing
<1> QED
  BY <1>1, <1>2, <1>4 DEF RowTrue

\* A worker that does not move remembers what it did.
LEMMA StillRemembers ==
  ASSUME Growing, NEW v, Remembered(v), claim'[v].sub = claim[v].sub,
         \/ work'[v] = work[v]
         \/ /\ work'[v].checksum = work[v].checksum /\ work'[v].duplicate = work[v].duplicate
            /\ work'[v].pending = work[v].pending /\ work'[v].status = work[v].status
            /\ work'[v].place = work[v].place /\ pc'[v] \notin {"Idle", "Claiming"},
         pc'[v] \in {"Idle", "Claiming"} => pc[v] \in {"Idle", "Claiming"},
         pc'[v] = "Final" => pc[v] = "Final",
         pc'[v] \in {"CleanupRenew", "InUse", "Remove"} =>
           pc[v] \in {"CleanupRenew", "InUse", "Remove"} \/ work[v].place = "CLIENT"
  PROVE  Remembered(v)'
<1>1. /\ work'[v].checksum = work[v].checksum /\ work'[v].duplicate = work[v].duplicate
      /\ work'[v].pending = work[v].pending /\ work'[v].status = work[v].status
      /\ work'[v].place = work[v].place
  OBVIOUS
<1>2. Sub(v)' = Sub(v)
  BY DEF Sub
<1>3. pc'[v] \in {"Idle", "Claiming"} => work'[v] = NoWork
  BY DEF Remembered
<1>4. work'[v].checksum = "ALREADY_STORED" => \E d \in documents' : d.sub = Sub(v)
  BY <1>1, StillKnown DEF Remembered
<1>5. work'[v].checksum = "DUPLICATE" \/ work'[v].duplicate => \E d \in documents' : d.sha = Sha[Sub(v)]
  BY <1>1, StillKnown DEF Remembered
<1>6. work'[v].pending # NoPath => work'[v].pending.area = "pending" /\ [path |-> work'[v].pending, sha |-> Sha[Sub(v)]] \in objects'
  BY <1>1 DEF Remembered, WaitsAt, Growing
<1>7. pc'[v] = "Final" => \/ work'[v].pending # NoPath
                          \/ \E d \in documents' : d.sub = Sub(v)
                          \/ work'[v].status = "DUPLICATE" /\ KnownElsewhere(Sub(v))'
  <2>1. KnownElsewhere(Sub(v)) => KnownElsewhere(Sub(v))'
    BY <1>2, StillKnown DEF KnownElsewhere, Growing
  <2>2. (\E d \in documents : d.sub = Sub(v)) => (\E d \in documents' : d.sub = Sub(v))
    BY StillKnown
  <2> QED
    BY <1>1, <2>1, <2>2 DEF Remembered, Accounted
<1>8. pc'[v] \in {"CleanupRenew", "InUse", "Remove"} => work'[v].place = "CLIENT"
  BY <1>1 DEF Remembered
<1> QED
  BY <1>2, <1>3, <1>4, <1>5, <1>6, <1>7, <1>8 DEF Remembered, WaitsAt, Accounted

LEMMA OneRemembers ==
  ASSUME Safekeeping, Growing, NEW w \in Workers, OnlyItself(w), Remembered(w)'
  PROVE  \A v \in Workers : Remembered(v)'
<1> SUFFICES ASSUME NEW v \in Workers \ {w} PROVE Remembered(v)'
  OBVIOUS
<1> QED
  BY StillRemembers DEF Safekeeping, OnlyItself

LEMMA NothingTaken ==
  ASSUME UNCHANGED <<documents, objects>>, SameRows
  PROVE  Growing
  BY DEF Growing, SameRows

\* A step that ends a job, or only moves the worker on.
LEMMA MovesSafely ==
  ASSUME TypeInv, Safekeeping, NEW w \in Workers, Growing, SameRows,
         \/ EndJob(w)
         \/ /\ OnlyItself(w) /\ claim'[w].sub = claim[w].sub
            /\ \/ work'[w] = work[w]
               \/ /\ work'[w].checksum = work[w].checksum /\ work'[w].duplicate = work[w].duplicate
                  /\ work'[w].pending = work[w].pending /\ work'[w].status = work[w].status
                  /\ work'[w].place = work[w].place
            /\ pc'[w] \notin {"Idle", "Claiming"} /\ (pc'[w] = "Final" => pc[w] = "Final")
            /\ pc'[w] \in {"CleanupRenew", "InUse", "Remove"} =>
                 pc[w] \in {"CleanupRenew", "InUse", "Remove"} \/ work[w].place = "CLIENT"
  PROVE  Safekeeping'
<1>1. \A s \in Submissions : RowTrue(s)'
  BY RowsStayTrue
<1>2. Remembered(w) /\ work[w] \in Work
  BY DEF Safekeeping, TypeInv, TypeOK
<1>3. CASE EndJob(w)
  <2>1. OnlyItself(w) /\ pc'[w] = "Idle" /\ work'[w] = NoWork
    BY <1>3, AloneMoves DEF EndJob, TypeInv, TypeOK
  <2>2. /\ work'[w].checksum = None /\ work'[w].duplicate = FALSE /\ work'[w].pending = NoPath
        /\ None # "ALREADY_STORED" /\ None # "DUPLICATE"
    BY <2>1 DEF NoWork, None
  <2>3. Remembered(w)'
    BY <2>1, <2>2 DEF Remembered
  <2> QED
    BY <1>1, <2>1, <2>3, OneRemembers DEF Safekeeping
<1>4. CASE ~EndJob(w)
  <2>1. Remembered(w)'
    BY <1>2, <1>4, StillRemembers
  <2> QED
    BY <1>1, <1>4, <2>1, OneRemembers DEF Safekeeping
<1> QED
  BY <1>3, <1>4

\* The calls that neither find nor record anything.
LEMMA QuietSafe ==
  ASSUME TypeInv, Safekeeping, NEW w \in Workers,
         \/ ClaimSwap(w) \/ AttemptsExhausted(w) \/ LoadUnavailable(w) \/ LoadMismatch(w) \/ ReadDocument(w)
         \/ RetryLater(w) \/ Reconcile(w) \/ ReconcileFails(w) \/ TryName(w) \/ ReuseUnreadable(w)
         \/ RenewForCopy(w) \/ CopyFails(w) \/ CleanupRenew(w) \/ CheckInUse(w) \/ RenewAnswerLost(w)
         \/ CallFails(w) \/ Discard(w) \/ Release(w)
  PROVE  Safekeeping'
<1>1. UNCHANGED <<documents, objects>>
  BY DEF ClaimSwap, AttemptsExhausted, LoadUnavailable, LoadMismatch, ReadDocument, RetryLater, Reconcile,
         ReconcileFails, TryName, ReuseUnreadable, RenewForCopy, CopyFails, CleanupRenew, CheckInUse,
         RenewAnswerLost, CallFails, Discard, Release
<1>2. SameRows
  <2>1. \A s \in Submissions : rows[s] \in Row
    BY DEF TypeInv, TypeOK
  <2>2. CASE rows' = rows
    BY <2>2 DEF SameRows
  <2>3. CASE ClaimSwap(w) \/ RetryLater(w) \/ Reconcile(w) \/ ReconcileFails(w)
    BY <2>1, <2>3 DEF TypeInv, TypeOK, Row, SameRows, ClaimSwap, RetryLater, Reconcile, ReconcileFails, RenewRow, LosesClaim
  <2>4. CASE RenewForCopy(w) \/ CleanupRenew(w) \/ RenewAnswerLost(w) \/ Release(w)
    BY <2>1, <2>4 DEF TypeInv, TypeOK, Row, SameRows, RenewForCopy, CleanupRenew, RenewAnswerLost, Release, RenewRow, LosesClaim
  <2> QED
    BY <2>2, <2>3, <2>4 DEF ClaimSwap, AttemptsExhausted, LoadUnavailable, LoadMismatch, ReadDocument, RetryLater,
         Reconcile, ReconcileFails, TryName, ReuseUnreadable, RenewForCopy, CopyFails, CleanupRenew, CheckInUse,
         RenewAnswerLost, CallFails, Discard, Release
<1>3. Growing
  BY <1>1, <1>2, NothingTaken
<1>4. CASE EndJob(w)
  BY <1>2, <1>3, <1>4, MovesSafely
<1>5. CASE LosesClaim(w)
  <2>1. OnlyItself(w) /\ pc'[w] = "Stale"
    BY <1>5, AloneMoves DEF LosesClaim, Goes
  <2>2. claim'[w].sub = claim[w].sub /\ work'[w] = work[w]
    BY <1>5 DEF LosesClaim, Goes
  <2> QED
    BY <1>2, <1>3, <2>1, <2>2, MovesSafely
<1>6. CASE Release(w)
  <2>1. OnlyItself(w) /\ pc' = pc /\ claim' = claim /\ work' = work /\ pc[w] \in Running
    BY <1>6 DEF Release, OnlyItself
  <2> QED
    BY <1>2, <1>3, <2>1, MovesSafely DEF Running
<1>7. CASE ~EndJob(w) /\ ~LosesClaim(w) /\ ~Release(w)
  <2>1. PICK call \in Calls \ {"Idle", "Claiming", "Final"} :
               /\ Goto(w, call)
               /\ call \in {"CleanupRenew", "InUse", "Remove"} => pc[w] \in {"CleanupRenew", "InUse", "Remove"}
    <3>1. CASE ClaimSwap(w) \/ AttemptsExhausted(w) \/ LoadUnavailable(w) \/ LoadMismatch(w) \/ ReadDocument(w)
      BY <1>7, <3>1 DEF ClaimSwap, AttemptsExhausted, LoadUnavailable, LoadMismatch, ReadDocument, Goes, Calls, Running
    <3>2. CASE RetryLater(w) \/ Reconcile(w) \/ ReconcileFails(w) \/ TryName(w) \/ ReuseUnreadable(w) \/ RenewForCopy(w)
      BY <1>7, <3>2 DEF RetryLater, Reconcile, ReconcileFails, TryName, ReuseUnreadable, RenewForCopy, NextName, Goes,
                        Calls, Running
    <3>3. CASE CopyFails(w) \/ CleanupRenew(w) \/ CheckInUse(w) \/ RenewAnswerLost(w) \/ CallFails(w) \/ Discard(w)
      BY <1>7, <3>3 DEF CopyFails, CleanupRenew, CheckInUse, RenewAnswerLost, CallFails, Discard, Goes, Calls, Running
    <3> QED
      BY <1>7, <3>1, <3>2, <3>3
  <2>2. \A v \in Workers \ {w} : work'[v] = work[v] /\ claim'[v] = claim[v]
    BY <1>7 DEF TypeInv, TypeOK, ClaimSwap, AttemptsExhausted, LoadUnavailable, LoadMismatch, ReadDocument, RetryLater,
         Reconcile, ReconcileFails, TryName, ReuseUnreadable, RenewForCopy, CopyFails, CleanupRenew, CheckInUse,
         RenewAnswerLost, CallFails, Discard, Goes, NextName, RenewMemory
  <2>3. OnlyItself(w) /\ pc'[w] = call
    BY <2>1, <2>2, AloneMoves
  <2>4. claim[w] \in Claim /\ work[w] \in Work
    BY DEF TypeInv, TypeOK
  <2>5. claim'[w].sub = claim[w].sub
    BY <1>7, <2>4 DEF TypeInv, TypeOK, Claim, ClaimSwap, AttemptsExhausted, LoadUnavailable, LoadMismatch, ReadDocument,
         RetryLater, Reconcile, ReconcileFails, TryName, ReuseUnreadable, RenewForCopy, CopyFails, CleanupRenew,
         CheckInUse, RenewAnswerLost, CallFails, Discard, Goes, RenewMemory
  <2>6. \/ work'[w] = work[w]
        \/ /\ work'[w].checksum = work[w].checksum /\ work'[w].duplicate = work[w].duplicate
           /\ work'[w].pending = work[w].pending /\ work'[w].status = work[w].status
           /\ work'[w].place = work[w].place
    <3>1. CASE ReadDocument(w) \/ ReuseUnreadable(w)
      BY <2>4, <3>1 DEF TypeInv, TypeOK, Work, ReadDocument, ReuseUnreadable, NextName
    <3>2. CASE ~(ReadDocument(w) \/ ReuseUnreadable(w))
      BY <1>7, <3>2 DEF ClaimSwap, AttemptsExhausted, LoadUnavailable, LoadMismatch, RetryLater, Reconcile,
         ReconcileFails, TryName, RenewForCopy, CopyFails, CleanupRenew, CheckInUse, RenewAnswerLost, CallFails, Discard, Goes
    <3> QED
      BY <3>1, <3>2
  <2> QED
    BY <1>2, <1>3, <2>1, <2>3, <2>5, <2>6, MovesSafely
<1> QED
  BY <1>4, <1>5, <1>6, <1>7

\* A worker that looks for a row has nothing in memory.
LEMMA ReadSafe ==
  ASSUME TypeInv, Safekeeping, NEW w \in Workers, ClaimRead(w)
  PROVE  Safekeeping'
<1>1. pc[w] = "Idle" /\ Goto(w, "Claiming") /\ UNCHANGED <<rows, documents, objects, work>>
  BY DEF ClaimRead
<1>2. SameRows /\ Growing
  BY <1>1, NothingTaken DEF SameRows
<1>3. OnlyItself(w) /\ pc'[w] = "Claiming"
  BY <1>1, AloneMoves DEF ClaimRead, TypeInv, TypeOK
<1>4. work'[w] = NoWork
  BY <1>1 DEF Safekeeping, Remembered
<1>5. work'[w].checksum = None /\ work'[w].duplicate = FALSE /\ work'[w].pending = NoPath
  BY <1>4 DEF NoWork
<1>6. Remembered(w)'
  BY <1>3, <1>4, <1>5 DEF Remembered, None
<1> QED
  BY <1>2, <1>3, <1>6, RowsStayTrue, OneRemembers DEF Safekeeping

\* What the duplicate check found is in the table.
LEMMA CheckSafe ==
  ASSUME TypeInv, Safekeeping, NEW w \in Workers, CheckDuplicate(w)
  PROVE  Safekeeping'
<1> DEFINE c == work[w].reading.client
           outcome == IF c = None THEN None ELSE CheckClientChecksum(documents, c, Sha[Sub(w)], Sub(w))
<1>1. UNCHANGED <<rows, documents, objects, claim>> /\ pc[w] = "Check" /\ work[w] \in Work
  BY DEF CheckDuplicate, TypeInv, TypeOK
<1>2. SameRows /\ Growing
  BY <1>1, NothingTaken DEF SameRows
<1>3. /\ work'[w].checksum = outcome /\ work'[w].duplicate = work[w].duplicate
      /\ work'[w].pending = work[w].pending
  BY <1>1 DEF CheckDuplicate, TypeInv, TypeOK, Work
<1>4. /\ outcome = "ALREADY_STORED" => \E d \in documents : d.sub = Sub(w)
      /\ outcome = "DUPLICATE" => \E d \in documents : d.sha = Sha[Sub(w)]
  BY DEF CheckClientChecksum, SameClient, None
<1>5. OnlyItself(w) /\ pc'[w] \in {"Reconcile", "Decide"}
  <2>1. PICK call \in {"Reconcile", "Decide"} : Goto(w, call)
    BY DEF CheckDuplicate
  <2>2. \A v \in Workers \ {w} : work'[v] = work[v] /\ claim'[v] = claim[v]
    BY DEF CheckDuplicate, TypeInv, TypeOK
  <2> QED
    BY <2>1, <2>2, AloneMoves
<1> HIDE DEF outcome
<1>6. Remembered(w)'
  <2>1. Remembered(w) /\ Sub(w)' = Sub(w)
    BY <1>1 DEF Safekeeping, Sub
  <2> QED
    BY <1>1, <1>3, <1>4, <1>5, <2>1 DEF Remembered, WaitsAt
<1> QED
  BY <1>2, <1>5, <1>6, RowsStayTrue, OneRemembers DEF Safekeeping

\* A decision to place nothing is about a file that is known.
LEMMA DecideSafe ==
  ASSUME TypeInv, Safekeeping, NEW w \in Workers, Decide(w)
  PROVE  Safekeeping'
<1> DEFINE d == Decision(w)
<1>1. UNCHANGED <<rows, documents, objects, claim>> /\ pc[w] = "Decide" /\ work[w] \in Work
  BY DEF Decide, TypeInv, TypeOK
<1>2. SameRows /\ Growing
  BY <1>1, NothingTaken DEF SameRows
<1>3. /\ d.alreadyStored => work[w].checksum = "ALREADY_STORED"
      /\ d.placement = "NONE" => work[w].checksum = "DUPLICATE" /\ d.processingStatus = "DUPLICATE"
  BY DEF Decision, DecidePlacement, PlacementIs
<1> HIDE DEF d
<1>4. /\ work'[w].checksum = work[w].checksum /\ work'[w].duplicate = work[w].duplicate
      /\ work'[w].pending = work[w].pending /\ work'[w].status = d.processingStatus
  BY <1>1 DEF Decide, TypeInv, TypeOK, Work, d
<1>5. OnlyItself(w) /\ \/ pc'[w] = "Final" /\ (d.placement = "NONE" \/ d.alreadyStored)
                       \/ pc'[w] = "Place"
  <2>1. PICK call \in {"Final", "Place"} : Goto(w, call) /\ (call = "Final" => d.placement = "NONE" \/ d.alreadyStored)
    BY DEF Decide, d
  <2>2. \A v \in Workers \ {w} : work'[v] = work[v] /\ claim'[v] = claim[v]
    BY DEF Decide, TypeInv, TypeOK
  <2> QED
    BY <2>1, <2>2, AloneMoves
<1>6. Remembered(w)'
  <2>1. Remembered(w) /\ Sub(w)' = Sub(w)
    BY <1>1 DEF Safekeeping, Sub
  <2>2. pc'[w] = "Final" => \/ \E e \in documents' : e.sub = Sub(w)
                            \/ work'[w].status = "DUPLICATE" /\ \E e \in documents' : e.sha = Sha[Sub(w)]
    BY <1>1, <1>3, <1>4, <1>5, <2>1 DEF Remembered
  <2>3. /\ work'[w].checksum = "ALREADY_STORED" => \E e \in documents' : e.sub = Sub(w)
        /\ work'[w].checksum = "DUPLICATE" \/ work'[w].duplicate => \E e \in documents' : e.sha = Sha[Sub(w)]
        /\ work'[w].pending # NoPath =>
             work'[w].pending.area = "pending" /\ [path |-> work'[w].pending, sha |-> Sha[Sub(w)]] \in objects'
    BY <1>1, <1>4, <2>1 DEF Remembered, WaitsAt
  <2> QED
    BY <1>5, <2>1, <2>2, <2>3 DEF Remembered, WaitsAt, Accounted, KnownElsewhere
<1> QED
  BY <1>2, <1>5, <1>6, RowsStayTrue, OneRemembers DEF Safekeeping

\* A pending copy is left out only for one that waits.
LEMMA PlaceSafe ==
  ASSUME TypeInv, Safekeeping, NEW w \in Workers, Place(w)
  PROVE  Safekeeping'
<1>1. UNCHANGED <<rows, documents, objects, claim>> /\ pc[w] = "Place" /\ work[w] \in Work
  BY DEF Place, TypeInv, TypeOK
<1>2. SameRows /\ Growing
  BY <1>1, NothingTaken DEF SameRows
<1>3. /\ work'[w].checksum = work[w].checksum /\ work'[w].duplicate = work[w].duplicate
      /\ work'[w].pending = work[w].pending
  BY <1>1 DEF Place, TypeInv, TypeOK, Work
<1>4. OnlyItself(w) /\ \/ pc'[w] = "Final" /\ work'[w].status = "DUPLICATE" /\ FindPendingDuplicate(Sub(w))
                       \/ pc'[w] = "Name"
  <2>1. PICK call \in {"Final", "Name"} :
               Goto(w, call) /\ (call = "Final" => work'[w].status = "DUPLICATE" /\ FindPendingDuplicate(Sub(w)))
    BY <1>1 DEF Place, TypeInv, TypeOK, Work
  <2>2. \A v \in Workers \ {w} : work'[v] = work[v] /\ claim'[v] = claim[v]
    BY DEF Place, TypeInv, TypeOK
  <2> QED
    BY <2>1, <2>2, AloneMoves
<1>5. Remembered(w)'
  <2>1. Remembered(w) /\ Sub(w)' = Sub(w)
    BY <1>1 DEF Safekeeping, Sub
  <2>2. pc'[w] = "Final" => work'[w].status = "DUPLICATE" /\ KnownElsewhere(Sub(w))'
    BY <1>1, <1>4, <2>1 DEF FindPendingDuplicate, KnownElsewhere
  <2>3. /\ work'[w].checksum = "ALREADY_STORED" => \E e \in documents' : e.sub = Sub(w)
        /\ work'[w].checksum = "DUPLICATE" \/ work'[w].duplicate => \E e \in documents' : e.sha = Sha[Sub(w)]
        /\ work'[w].pending # NoPath =>
             work'[w].pending.area = "pending" /\ [path |-> work'[w].pending, sha |-> Sha[Sub(w)]] \in objects'
    BY <1>1, <1>3, <2>1 DEF Remembered, WaitsAt
  <2> QED
    BY <1>4, <2>1, <2>2, <2>3 DEF Remembered, WaitsAt, Accounted
<1> QED
  BY <1>2, <1>4, <1>5, RowsStayTrue, OneRemembers DEF Safekeeping

\* A copy in pending/ is remembered once it is there.
LEMMA CopySafe ==
  ASSUME TypeInv, Safekeeping, NEW w \in Workers, TryReuse(w) \/ Copy(w)
  PROVE  Safekeeping'
<1>1. /\ UNCHANGED <<rows, documents, claim>> /\ objects \subseteq objects'
      /\ pc[w] \in {"Reuse", "Copy"} /\ work[w] \in Work
  BY DEF TryReuse, Copy, TypeInv, TypeOK
<1>2. SameRows /\ Growing
  BY <1>1 DEF SameRows, Growing
<1>3. Remembered(w) /\ Sub(w)' = Sub(w)
  BY <1>1 DEF Safekeeping, Sub
<1>4. CASE ~(HasCopy(w) /\ work[w].place # "CLIENT")
  <2>1. \/ UNCHANGED work /\ \E call \in {"Reuse", "Insert"} : Goto(w, call)
        \/ NextName(w)
    BY <1>4 DEF TryReuse, Copy, HasCopy
  <2>2. \E call \in {"Reuse", "Name", "Insert"} : Goto(w, call)
    BY <2>1 DEF NextName
  <2>3. PICK call \in {"Reuse", "Name", "Insert"} : Goto(w, call)
    BY <2>2
  <2>4. \A v \in Workers \ {w} : work'[v] = work[v] /\ claim'[v] = claim[v]
    BY <1>1, <2>1 DEF NextName, TypeInv, TypeOK
  <2>5. OnlyItself(w) /\ pc'[w] = call
    BY <2>3, <2>4, AloneMoves
  <2>6. \/ work'[w] = work[w]
        \/ /\ work'[w].checksum = work[w].checksum /\ work'[w].duplicate = work[w].duplicate
           /\ work'[w].pending = work[w].pending /\ work'[w].status = work[w].status
           /\ work'[w].place = work[w].place
    <3>1. work \in [Workers -> Work]
      BY DEF TypeInv, TypeOK
    <3> QED
      BY <1>1, <2>1, <3>1 DEF NextName, Work
  <2> QED
    BY <1>1, <1>2, <2>5, <2>6, MovesSafely
<1>5. CASE HasCopy(w) /\ work[w].place # "CLIENT"
  <2>1. HasCopy(w) /\ work[w].place # "CLIENT" /\ pc'[w] = "Final"
    BY <1>1, <1>5 DEF HasCopy, Goto, TypeInv, TypeOK
  <2>2. Copied(w) \in objects'
    <3>1. pc' # [pc EXCEPT ![w] = "Name"] /\ pc' # [pc EXCEPT ![w] = "Reuse"]
      BY <1>1, <2>1 DEF TypeInv, TypeOK
    <3> QED
      BY <3>1 DEF TryReuse, Copy, NextName, Goto, IsOwnEarlierCopy, Copied
  <2>3. CurrentPath(w).area = "pending"
    BY <2>1 DEF CurrentPath, PathFor, PendingPath
  <2>4. OnlyItself(w) /\ pc'[w] = "Final"
    <3>1. \A v \in Workers \ {w} : work'[v] = work[v] /\ claim'[v] = claim[v]
      BY <1>1, <2>1 DEF HasCopy, TypeInv, TypeOK
    <3> QED
      BY <2>1, <3>1, AloneMoves DEF HasCopy
  <2>5. /\ work'[w].checksum = work[w].checksum /\ work'[w].duplicate = work[w].duplicate
        /\ work'[w].pending = CurrentPath(w)
    BY <1>1, <2>1 DEF HasCopy, TypeInv, TypeOK, Work
  <2>6. work'[w].pending # NoPath
    BY <2>3, <2>5 DEF NoPath
  <2>7. Remembered(w)'
    BY <1>1, <1>3, <2>2, <2>3, <2>4, <2>5, <2>6 DEF Remembered, WaitsAt, Copied
  <2> QED
    BY <1>2, <2>4, <2>7, RowsStayTrue, OneRemembers DEF Safekeeping
<1> QED
  BY <1>4, <1>5

\* The insert: the document is there, or another of the same file was.
LEMMA InsertSafe ==
  ASSUME TypeInv, Safekeeping, NEW w \in Workers, Insert(w) \/ InsertFails(w)
  PROVE  Safekeeping'
<1>1. /\ objects' = objects /\ documents \subseteq documents'
      /\ pc[w] = "Insert" /\ work[w] \in Work /\ claim[w] \in Claim
      /\ work[w].place = "CLIENT"
  BY DEF Insert, InsertFails, LosesClaim, TypeInv, TypeOK, PlaceSound
<1>2. SameRows
  <2>1. \A s \in Submissions : rows[s] \in Row
    BY DEF TypeInv, TypeOK
  <2>2. CASE rows' = rows
    BY <2>2 DEF SameRows
  <2>3. CASE RenewRow(w)
    BY <2>1, <2>3 DEF TypeInv, TypeOK, Row, SameRows, RenewRow
  <2> QED
    BY <2>2, <2>3 DEF Insert, InsertFails, LosesClaim
<1>3. Growing
  BY <1>1, <1>2 DEF Growing, SameRows
<1>4. claim'[w].sub = claim[w].sub /\ Sub(w)' = Sub(w)
  BY <1>1 DEF Insert, InsertFails, LosesClaim, Goes, RenewMemory, TypeInv, TypeOK, Claim, Sub
<1>5. PICK call \in {"Final", "CleanupRenew", "Stale"} :
             /\ Goto(w, call)
             /\ call = "Final" => NewDocument(w) \in documents'
  BY DEF Insert, InsertFails, LosesClaim, Goes
<1>6. \A v \in Workers \ {w} : work'[v] = work[v] /\ claim'[v] = claim[v]
  BY DEF Insert, InsertFails, LosesClaim, Goes, RenewMemory, TypeInv, TypeOK
<1>7. OnlyItself(w) /\ pc'[w] = call
  BY <1>5, <1>6, AloneMoves
<1>8. /\ work'[w].checksum = work[w].checksum /\ work'[w].pending = work[w].pending
      /\ work'[w].status = work[w].status /\ work'[w].place = "CLIENT"
      /\ work'[w].duplicate => work[w].duplicate \/ ViolatesUnique(w)
  BY <1>1 DEF Insert, InsertFails, LosesClaim, Goes, TypeInv, TypeOK, Work
<1>9. Remembered(w)'
  <2>1. Remembered(w)
    BY DEF Safekeeping
  <2>2. ViolatesUnique(w) => \E d \in documents : d.sha = Sha[Sub(w)]
    BY DEF ViolatesUnique, SameClient
  <2>3. /\ work'[w].checksum = "ALREADY_STORED" => \E e \in documents' : e.sub = Sub(w)
        /\ work'[w].checksum = "DUPLICATE" \/ work'[w].duplicate => \E e \in documents' : e.sha = Sha[Sub(w)]
        /\ work'[w].pending # NoPath =>
             work'[w].pending.area = "pending" /\ [path |-> work'[w].pending, sha |-> Sha[Sub(w)]] \in objects'
    BY <1>1, <1>8, <2>1, <2>2 DEF Remembered, WaitsAt
  <2>4. pc'[w] = "Final" => \E e \in documents' : e.sub = Sub(w)
    BY <1>5, <1>7 DEF NewDocument
  <2> QED
    BY <1>4, <1>5, <1>7, <1>8, <2>3, <2>4 DEF Remembered, WaitsAt, Accounted
<1> QED
  BY <1>2, <1>3, <1>7, <1>9, RowsStayTrue, OneRemembers DEF Safekeeping

\* Only a removal that is given up on, or interrupted, may land later.
LEMMA OwnRemovals ==
  ASSUME NEW w \in Workers, WorkerStep(w) \/ FaultStep(w)
  PROVE  UNCHANGED removals \/ (pc[w] = "Remove" /\ MayLand(w))
<1>1. CASE RemoveFails(w) \/ Crash(w)
  BY <1>1 DEF RemoveFails, Crash
<1>2. CASE ~(RemoveFails(w) \/ Crash(w))
  BY <1>2 DEF WorkerStep, FaultStep, ClaimRead, ClaimSwap, AttemptsExhausted, LoadUnavailable, LoadMismatch, ReadDocument,
         RetryLater, GiveUp, CheckDuplicate, Reconcile, ReconcileFails, Decide, Place, TryName, TryReuse,
         ReuseUnreadable, RenewForCopy, Copy, CopyFails, Insert, InsertFails, CleanupRenew, CheckInUse, RemoveCopy,
         RecordResult, ResultAnswerLost, RecordFailure, RenewAnswerLost, CallFails, Discard, Release
<1> QED
  BY <1>1, <1>2

\* What is removed is a copy in a client's folder.
LEMMA RemovesNoPending ==
  ASSUME Safekeeping, NEW w \in Workers, pc[w] = "Remove", NEW o \in objects, o.path.area = "pending"
  PROVE  o \in Without(CurrentPath(w))
<1>1. work[w].place = "CLIENT"
  BY DEF Safekeeping, Remembered
<1>2. CurrentPath(w).area = "clients"
  BY <1>1 DEF CurrentPath, PathFor, ClientPath
<1> QED
  BY <1>2 DEF Without

\* So is what a late removal may take away.
OnlyClientRemovals == \A r \in removals : r.path.area = "clients"

LEMMA RemovalsStayClient ==
  ASSUME TypeInv, Safekeeping, OnlyClientRemovals, [Next]_vars PROVE OnlyClientRemovals'
<1>1. ASSUME NEW w \in Workers, WorkerStep(w) \/ FaultStep(w) PROVE OnlyClientRemovals'
  <2>1. UNCHANGED removals \/ (pc[w] = "Remove" /\ MayLand(w))
    BY <1>1, OwnRemovals
  <2>2. pc[w] = "Remove" => CurrentPath(w).area = "clients"
    BY DEF Safekeeping, Remembered, CurrentPath, PathFor, ClientPath
  <2> QED
    BY <2>1, <2>2 DEF OnlyClientRemovals, MayLand, GivenUp
<1>2. CASE LateRemovalLands
  BY <1>2 DEF LateRemovalLands, OnlyClientRemovals, TypeInv, TypeOK, Removal
<1>3. ASSUME OtherStep \/ UNCHANGED vars, ~LateRemovalLands PROVE OnlyClientRemovals'
  BY <1>3 DEF OtherStep, AdminRetry, LateCopyLands, Tick, vars, OnlyClientRemovals
<1> QED
  BY <1>1, <1>2, <1>3 DEF Next

LEMMA RemoveSafe ==
  ASSUME TypeInv, Safekeeping, NEW w \in Workers, RemoveCopy(w) \/ RemoveFails(w) \/ Crash(w)
  PROVE  Safekeeping'
<1>1. UNCHANGED <<rows, documents>> /\ work[w] \in Work
  BY DEF RemoveCopy, RemoveFails, Crash, TypeInv, TypeOK
<1>2. SameRows /\ Growing
  <2>1. objects' = objects \/ (pc[w] = "Remove" /\ objects' = Without(CurrentPath(w)))
    BY DEF RemoveCopy, RemoveFails, Crash
  <2>2. \A o \in objects : o.path.area = "pending" => o \in objects'
    BY <2>1, RemovesNoPending
  <2> QED
    BY <1>1, <2>2 DEF SameRows, Growing
<1>3. CASE Crash(w)
  BY <1>2, <1>3, MovesSafely DEF Crash
<1>4. CASE RemoveFails(w) \/ (RemoveCopy(w) /\ ~work[w].duplicate)
  <2>1. OnlyItself(w) /\ pc'[w] = "Fail"
    BY <1>4, AloneMoves DEF RemoveFails, RemoveCopy, Goes
  <2>2. claim'[w].sub = claim[w].sub /\ work'[w] = work[w]
    BY <1>4 DEF RemoveFails, RemoveCopy, Goes
  <2> QED
    BY <1>2, <2>1, <2>2, MovesSafely
<1>5. CASE RemoveCopy(w) /\ work[w].duplicate
  <2>1. claim' = claim /\ Goto(w, "Final") /\ work' = [work EXCEPT ![w].place = "NONE", ![w].status = "DUPLICATE"]
    BY <1>5 DEF RemoveCopy
  <2>2. OnlyItself(w) /\ pc'[w] = "Final"
    BY <2>1, AloneMoves DEF TypeInv, TypeOK
  <2>3. /\ work'[w].checksum = work[w].checksum /\ work'[w].duplicate = work[w].duplicate
        /\ work'[w].pending = work[w].pending /\ work'[w].status = "DUPLICATE"
    BY <1>1, <2>1 DEF TypeInv, TypeOK, Work
  <2>4. Remembered(w) /\ Sub(w)' = Sub(w)
    BY <2>1 DEF Safekeeping, Sub
  <2>5. /\ work'[w].checksum = "ALREADY_STORED" => \E e \in documents' : e.sub = Sub(w)
        /\ \E e \in documents' : e.sha = Sha[Sub(w)]
    BY <1>1, <1>5, <2>3, <2>4 DEF Remembered
  <2>6. work'[w].pending # NoPath =>
          work'[w].pending.area = "pending" /\ [path |-> work'[w].pending, sha |-> Sha[Sub(w)]] \in objects'
    BY <1>2, <2>3, <2>4 DEF Remembered, WaitsAt, Growing
  <2>7. Remembered(w)'
    BY <2>2, <2>3, <2>4, <2>5, <2>6 DEF Remembered, WaitsAt, Accounted, KnownElsewhere
  <2> QED
    BY <1>2, <2>2, <2>7, RowsStayTrue, OneRemembers DEF Safekeeping
<1> QED
  BY <1>3, <1>4, <1>5

\* One row is written, which had no file in pending/.
LEMMA RowWritten ==
  ASSUME Safekeeping, NEW s \in Submissions, UNCHANGED <<documents, objects>>,
         \A t \in Submissions \ {s} : rows'[t] = rows[t],
         rows[s].pendingPath = NoPath,
         rows'[s].pendingPath # NoPath => WaitsAt(rows'[s].pendingPath, s) /\ rows'[s].status # RECEIVED_STATUS,
         rows'[s].status \notin {RECEIVED_STATUS, "FAILED"} => rows'[s].pendingPath # NoPath \/ Accounted(s, rows'[s].status)
  PROVE  Growing /\ \A t \in Submissions : RowTrue(t)'
<1>1. Growing
  BY DEF Growing
<1>2. RowTrue(s)'
  <2>1. WaitsAt(rows'[s].pendingPath, s) => [path |-> rows'[s].pendingPath, sha |-> Sha[s]] \in objects' /\ rows'[s].pendingPath.area = "pending"
    BY DEF WaitsAt
  <2>2. Accounted(s, rows'[s].status) =>
          (\E d \in documents' : d.sub = s) \/ (rows'[s].status = "DUPLICATE" /\ KnownElsewhere(s)')
    BY <1>1, StillKnown DEF Accounted
  <2> QED
    BY <2>1, <2>2 DEF RowTrue, WaitsAt, Accounted
<1>3. ASSUME NEW t \in Submissions \ {s} PROVE RowTrue(t)'
  <2>1. RowTrue(t) /\ rows'[t] = rows[t]
    BY DEF Safekeeping
  <2>2. WaitsAt(rows[t].pendingPath, t) => [path |-> rows'[t].pendingPath, sha |-> Sha[t]] \in objects' /\ rows'[t].pendingPath.area = "pending"
    BY <2>1 DEF WaitsAt
  <2>3. Accounted(t, rows[t].status) =>
          (\E d \in documents' : d.sub = t) \/ (rows'[t].status = "DUPLICATE" /\ KnownElsewhere(t)')
    BY <1>1, <2>1, StillKnown DEF Accounted
  <2> QED
    BY <2>1, <2>2, <2>3 DEF RowTrue, WaitsAt, Accounted
<1> QED
  BY <1>1, <1>2, <1>3

\* The result of an attempt is recorded, or its failure.
LEMMA RecordSafe ==
  ASSUME TypeInv, Safekeeping, NEW w \in Workers,
         RecordResult(w) \/ ResultAnswerLost(w) \/ RecordFailure(w) \/ GiveUp(w)
  PROVE  Safekeeping'
<1>1. UNCHANGED <<documents, objects>> /\ work[w] \in Work /\ pc[w] \in {"Final", "Fail", "GiveUp"} /\ Sub(w) \in Submissions
  BY DEF RecordResult, ResultAnswerLost, RecordFailure, GiveUp, TypeInv, TypeOK, ClaimSound
<1>2. Remembered(w) /\ RowTrue(Sub(w))
  BY <1>1 DEF Safekeeping
<1>3. CASE LosesClaim(w)
  <2>1. OnlyItself(w) /\ pc'[w] = "Stale"
    BY <1>3, AloneMoves DEF LosesClaim, Goes
  <2>2. claim'[w].sub = claim[w].sub /\ work'[w] = work[w] /\ SameRows
    BY <1>3 DEF LosesClaim, Goes, SameRows
  <2>3. Growing
    BY <1>1, <2>2, NothingTaken
  <2> QED
    BY <2>1, <2>2, <2>3, MovesSafely
<1>4. CASE ~LosesClaim(w)
  <2>1. Owns(w)
    BY <1>4 DEF RecordResult, ResultAnswerLost, RecordFailure, GiveUp
  <2>2. rows[Sub(w)].pendingPath = NoPath
    BY <1>2, <2>1 DEF RowTrue, Owns
  <2>3. PICK status \in PROCESSING_STATUS :
               /\ status = "FAILED" \/ (pc[w] = "Final" /\ status = work[w].status)
               /\ rows'[Sub(w)].status = status
               /\ rows'[Sub(w)].pendingPath \in {NoPath, work[w].pending}
               /\ pc[w] = "Final" => rows'[Sub(w)].pendingPath = work[w].pending
               /\ \A t \in Submissions \ {Sub(w)} : rows'[t] = rows[t]
    <3>1. rows \in [Submissions -> Row] /\ rows[Sub(w)] \in Row
      BY <1>1 DEF TypeInv, TypeOK
    <3>2. CASE GiveUp(w)
      BY <1>1, <1>4, <2>2, <3>1, <3>2 DEF GiveUp, Row, PROCESSING_STATUS
    <3>3. CASE RecordFailure(w)
      BY <1>1, <1>4, <2>2, <3>1, <3>3 DEF RecordFailure, Recorded, Row, PROCESSING_STATUS
    <3>4. CASE RecordResult(w) \/ ResultAnswerLost(w)
      <4>1. work[w].status \in PROCESSING_STATUS
        BY <1>1 DEF Work
      <4>2. Recorded(w, work[w].status) /\ pc[w] = "Final"
        BY <1>4, <3>4 DEF RecordResult, ResultAnswerLost
      <4> QED
        BY <1>1, <2>2, <3>1, <4>1, <4>2 DEF Recorded, Row
    <3> QED
      BY <3>2, <3>3, <3>4
  <2>4. Growing /\ \A t \in Submissions : RowTrue(t)'
    <3>1. rows'[Sub(w)].pendingPath # NoPath =>
            WaitsAt(rows'[Sub(w)].pendingPath, Sub(w)) /\ rows'[Sub(w)].status # RECEIVED_STATUS
      BY <1>2, <2>3 DEF Remembered, RECEIVED_STATUS, PROCESSING_STATUS, CONFIDENCE_BANDS
    <3>2. rows'[Sub(w)].status \notin {RECEIVED_STATUS, "FAILED"} =>
            rows'[Sub(w)].pendingPath # NoPath \/ Accounted(Sub(w), rows'[Sub(w)].status)
      BY <1>2, <2>3 DEF Remembered
    <3> QED
      BY <1>1, <2>2, <2>3, <3>1, <3>2, RowWritten
  <2>5. \A v \in Workers : Remembered(v)'
    <3>1. OnlyItself(w)
      <4>1. PICK call \in Calls : Goto(w, call)
        BY <1>4 DEF RecordResult, ResultAnswerLost, RecordFailure, GiveUp, EndJob, Goes, Calls, Running
      <4>2. \A v \in Workers \ {w} : work'[v] = work[v] /\ claim'[v] = claim[v]
        BY <1>4 DEF RecordResult, ResultAnswerLost, RecordFailure, GiveUp, EndJob, Goes, TypeInv, TypeOK
      <4> QED
        BY <4>1, <4>2, AloneMoves
    <3>2. CASE EndJob(w)
      <4>1. pc'[w] = "Idle" /\ work'[w] = NoWork
        BY <3>2 DEF EndJob, Goto, TypeInv, TypeOK
      <4>2. work'[w].checksum = None /\ work'[w].duplicate = FALSE /\ work'[w].pending = NoPath
        BY <4>1 DEF NoWork
      <4>3. Remembered(w)'
        BY <4>1, <4>2 DEF Remembered, None
      <4> QED
        BY <2>4, <3>1, <4>3, OneRemembers
    <3>3. CASE ~EndJob(w)
      <4>1. ResultAnswerLost(w)
        BY <1>4, <3>3 DEF RecordResult, RecordFailure, GiveUp
      <4>2. pc'[w] = "Fail" /\ claim'[w].sub = claim[w].sub /\ work'[w] = work[w]
        BY <4>1 DEF ResultAnswerLost, Goes, Goto, TypeInv, TypeOK
      <4>3. Remembered(w)'
        BY <1>2, <2>4, <4>2, StillRemembers
      <4> QED
        BY <2>4, <3>1, <4>3, OneRemembers
    <3> QED
      BY <3>2, <3>3
  <2> QED
    BY <2>4, <2>5 DEF Safekeeping
<1> QED
  BY <1>3, <1>4

LEMMA OtherSafe ==
  ASSUME OnlyClientRemovals, TypeInv, Safekeeping, OtherStep \/ UNCHANGED vars
  PROVE  Safekeeping'
<1>1. ASSUME Growing, UNCHANGED <<pc, claim, work>> PROVE \A v \in Workers : Remembered(v)'
  BY <1>1, StillRemembers DEF Safekeeping
<1>2. ASSUME NEW s \in Submissions, AdminRetry(s) PROVE Safekeeping'
  <2>1. /\ rows[s].pendingPath = NoPath /\ UNCHANGED <<documents, objects>> /\ UNCHANGED <<pc, claim, work>>
        /\ \A t \in Submissions \ {s} : rows'[t] = rows[t]
        /\ rows'[s].pendingPath = NoPath /\ rows'[s].status = RECEIVED_STATUS
    BY <1>2 DEF AdminRetry, TypeInv, TypeOK, Row
  <2>2. Growing /\ \A t \in Submissions : RowTrue(t)'
    BY <2>1, RowWritten
  <2> QED
    BY <1>1, <2>1, <2>2 DEF Safekeeping
<1>3. CASE LateCopyLands \/ LateRemovalLands \/ Tick \/ UNCHANGED vars
  <2>1. UNCHANGED <<rows, documents, pc, claim, work>>
    BY <1>3 DEF LateCopyLands, LateRemovalLands, Tick, vars
  <2>2. \A o \in objects : o.path.area = "pending" => o \in objects'
    BY <1>3 DEF LateCopyLands, LateRemovalLands, Tick, vars, OnlyClientRemovals, Without
  <2>3. Growing /\ SameRows
    BY <2>1, <2>2 DEF Growing, SameRows
  <2> QED
    BY <1>1, <2>1, <2>3, RowsStayTrue DEF Safekeeping
<1> QED
  BY <1>2, <1>3 DEF OtherStep

LEMMA NextSafe ==
  ASSUME TypeInv, Safekeeping, OnlyClientRemovals, [Next]_vars
  PROVE  Safekeeping'
<1>1. ASSUME NEW w \in Workers, WorkerStep(w) \/ FaultStep(w) PROVE Safekeeping'
  BY <1>1, QuietSafe, ReadSafe, CheckSafe, DecideSafe, PlaceSafe, CopySafe, InsertSafe, RemoveSafe, RecordSafe
  DEF WorkerStep, FaultStep
<1>2. ASSUME OtherStep \/ UNCHANGED vars PROVE Safekeeping'
  BY <1>2, OtherSafe
<1> QED
  BY <1>1, <1>2 DEF Next

LEMMA InitSafe == Init => Safekeeping
<1>1. Init => \A w \in Workers : Remembered(w)
  BY DEF Init, Remembered, NoWork, None
<1>2. Init => \A s \in Submissions : RowTrue(s)
  BY DEF Init, RowTrue
<1> QED
  BY <1>1, <1>2 DEF Safekeeping

LEMMA SafeAlways == Spec => [](TypeInv /\ Safekeeping)
<1>1. Init => TypeInv /\ Safekeeping /\ OnlyClientRemovals
  BY InitTyped, InitSafe DEF Init, OnlyClientRemovals
<1>2. TypeInv /\ Safekeeping /\ OnlyClientRemovals /\ [Next]_vars => (TypeInv /\ Safekeeping /\ OnlyClientRemovals)'
  BY NextTyped, NextSafe, RemovalsStayClient
<1> QED
  BY <1>1, <1>2, PTL DEF Spec

\* A submission that was recorded as handled did not lose its file
\* (NothingLost; placeDocument and the final update of
\* documentProcessingService.js), however its attempts were cut short.
THEOREM HandledIsKept == Spec => []NothingLost
<1>1. Safekeeping => NothingLost
  BY DEF Safekeeping, RowTrue, NothingLost, Accounted, KnownElsewhere
<1> QED
  BY <1>1, SafeAlways, PTL

\* A row that says its file waits in pending/ has it there, with its content
\* (PendingHasFile; placeInPending): copies in pending/ are never cleaned up.
THEOREM WaitingHasFile == Spec => []PendingHasFile
<1>1. Safekeeping => PendingHasFile
  BY DEF Safekeeping, RowTrue, WaitsAt, PendingHasFile
<1> QED
  BY <1>1, SafeAlways, PTL

----------------------------------------------------------------------------
(* The two tables.  A row changes for its readers only when an attempt      *)
(* records its end or an admin retries it, a document only appears; each    *)
(* is one commit of CaseRecords.  That a filed submission was still to be   *)
(* processed is Safekeeping, that it has one document is Filing.            *)

AsRecorded(r) ==
  [state |-> CASE r.pendingPath # NoPath -> "WAITING"
               [] r.pendingPath = NoPath /\ r.status = RECEIVED_STATUS -> "RECEIVED"
               [] r.pendingPath = NoPath /\ r.status = "FAILED" -> "FAILED"
               [] OTHER -> "CLOSED",
   client |-> r.client, type |-> None]

AsFiled(d) == [status |-> d.verification, client |-> d.client, type |-> d.type, date |-> NoDate]

\* For their readers the rows are the same.
SameEntries ==
  \A s \in Submissions :
    /\ rows'[s].status = rows[s].status /\ rows'[s].pendingPath = rows[s].pendingPath
    /\ rows'[s].client = rows[s].client

LEMMA TablesRecorded ==
  /\ RecordedRows = [s \in Submissions |-> AsRecorded(rows[s])]
  /\ RecordedRows' = [s \in Submissions |-> AsRecorded(rows'[s])]
  BY DEF RecordedRows, AsRecorded

LEMMA StateIs ==
  ASSUME NEW r
  PROVE  /\ AsRecorded(r).client = r.client /\ AsRecorded(r).type = None
         /\ r.pendingPath = NoPath /\ r.status = RECEIVED_STATUS => AsRecorded(r).state = "RECEIVED"
         /\ r.pendingPath = NoPath /\ r.status = "FAILED" => AsRecorded(r).state = "FAILED"
         /\ AsRecorded(r) = [state |-> AsRecorded(r).state, client |-> r.client, type |-> None]
<1>1. RECEIVED_STATUS # "FAILED"
  BY DEF RECEIVED_STATUS
<1> QED
  BY <1>1 DEF AsRecorded

LEMMA EntriesStay ==
  ASSUME SameEntries
  PROVE  UNCHANGED RecordedRows
<1>1. \A s \in Submissions : AsRecorded(rows'[s]) = AsRecorded(rows[s])
  BY DEF SameEntries, AsRecorded
<1> QED
  BY <1>1, TablesRecorded

LEMMA DocumentsStay == UNCHANGED documents => UNCHANGED RecordedDocuments
  BY DEF RecordedDocuments

LEMMA EntryChanges ==
  ASSUME NEW s \in Submissions, \A t \in Submissions \ {s} : rows'[t] = rows[t]
  PROVE  RecordedRows' = [RecordedRows EXCEPT ![s] = AsRecorded(rows'[s])]
  BY TablesRecorded

\* The one document of a submission is the one that is recorded.
LEMMA DocumentOf ==
  ASSUME OneDocumentPerSubmission, NEW d \in documents, d.sub \in Submissions
  PROVE  RecordedDocuments[d.sub] = AsFiled(d)
<1> DEFINE e == CHOOSE e \in documents : e.sub = d.sub
<1>1. e \in documents /\ e.sub = d.sub
  OBVIOUS
<1>2. e = d
  BY <1>1 DEF OneDocumentPerSubmission
<1> QED
  BY <1>2 DEF RecordedDocuments, AsFiled

LEMMA DocumentAdded ==
  ASSUME OneDocumentPerSubmission, NEW new, new.sub \in Submissions, \A d \in documents : d.sub # new.sub,
         documents' = documents \cup {new}
  PROVE  RecordedDocuments' = [RecordedDocuments EXCEPT ![new.sub] = AsFiled(new)]
<1> DEFINE RecordOf(D, s) ==
             IF \E d \in D : d.sub = s
             THEN AsFiled(CHOOSE d \in D : d.sub = s)
             ELSE [status |-> "NONE", client |-> None, type |-> None, date |-> NoDate]
<1>1. /\ RecordedDocuments = [s \in Submissions |-> RecordOf(documents, s)]
      /\ RecordedDocuments' = [s \in Submissions |-> RecordOf(documents', s)]
  BY DEF RecordedDocuments, AsFiled
<1>2. RecordOf(documents', new.sub) = AsFiled(new)
  <2> DEFINE e == CHOOSE e \in documents' : e.sub = new.sub
  <2>1. e \in documents' /\ e.sub = new.sub
    OBVIOUS
  <2>2. e = new
    BY <2>1
  <2> QED
    BY <2>2
<1>3. ASSUME NEW s \in Submissions \ {new.sub} PROVE RecordOf(documents', s) = RecordOf(documents, s)
  <2>1. CASE \E d \in documents : d.sub = s
    <3> DEFINE e == CHOOSE d \in documents' : d.sub = s
               f == CHOOSE d \in documents : d.sub = s
    <3>1. e \in documents' /\ e.sub = s
      BY <2>1
    <3>2. f \in documents /\ f.sub = s
      BY <2>1
    <3>3. e = f
      BY <3>1, <3>2 DEF OneDocumentPerSubmission
    <3> QED
      BY <2>1, <3>3
  <2>2. CASE ~\E d \in documents : d.sub = s
    <3>1. ~\E d \in documents' : d.sub = s
      BY <2>2
    <3> QED
      BY <2>2, <3>1
  <2> QED
    BY <2>1, <2>2
<1> HIDE DEF RecordOf
<1> QED
  BY <1>1, <1>2, <1>3

\* What most calls leave alone: they change a claim on the row at most.
LEMMA ClaimsOnly ==
  ASSUME TypeInv, NEW w \in Workers, NEW start, NEW attempts, NEW path, pc[w] # "Idle",
         \/ UNCHANGED rows
         \/ RenewRow(w)
         \/ rows' = [rows EXCEPT ![Sub(w)].startedAt = start]
         \/ rows' = [rows EXCEPT ![Sub(w)].startedAt = start, ![Sub(w)].placementPath = path]
         \/ rows' = [rows EXCEPT ![Sub(w)].attempts = attempts, ![Sub(w)].startedAt = start]
  PROVE  SameEntries
<1>1. rows \in [Submissions -> Row] /\ Sub(w) \in Submissions
  BY DEF TypeInv, TypeOK, ClaimSound
<1>2. CASE UNCHANGED rows
  BY <1>2 DEF SameEntries
<1>3. CASE RenewRow(w)
  BY <1>1, <1>3 DEF RenewRow, SameEntries, Row
<1>4. CASE rows' = [rows EXCEPT ![Sub(w)].startedAt = start]
  BY <1>1, <1>4 DEF SameEntries, Row
<1>5. CASE rows' = [rows EXCEPT ![Sub(w)].startedAt = start, ![Sub(w)].placementPath = path]
  BY <1>1, <1>5 DEF SameEntries, Row
<1>6. CASE rows' = [rows EXCEPT ![Sub(w)].attempts = attempts, ![Sub(w)].startedAt = start]
  BY <1>1, <1>6 DEF SameEntries, Row
<1> QED
  BY <1>2, <1>3, <1>4, <1>5, <1>6

RecordsStay == UNCHANGED <<RecordedRows, RecordedDocuments>>

LEMMA CallStays ==
  ASSUME TypeInv, NEW w \in Workers, WorkerStep(w) \/ FaultStep(w),
         ~(Insert(w) \/ InsertFails(w) \/ RecordResult(w) \/ ResultAnswerLost(w) \/ RecordFailure(w) \/ GiveUp(w))
  PROVE  RecordsStay
<1>1. UNCHANGED documents
  BY DEF WorkerStep, FaultStep, ClaimRead, ClaimSwap, AttemptsExhausted, LoadUnavailable, LoadMismatch, ReadDocument,
         RetryLater, CheckDuplicate, Reconcile, ReconcileFails, Decide, Place, TryName, TryReuse, ReuseUnreadable,
         RenewForCopy, Copy, CopyFails, CleanupRenew, CheckInUse, RemoveCopy, RemoveFails, RenewAnswerLost, CallFails,
         Discard, Crash, Release
<1>2. SameEntries
  <2>1. CASE UNCHANGED rows
    BY <2>1 DEF SameEntries
  <2>2. CASE ClaimSwap(w) \/ Release(w) \/ RetryLater(w)
    <3>1. pc[w] # "Idle"
      BY <2>2 DEF ClaimSwap, Release, RetryLater, Running
    <3>2. CASE ClaimSwap(w)
      BY <2>1, <3>1, <3>2, ClaimsOnly DEF ClaimSwap
    <3>3. CASE Release(w)
      BY <3>1, <3>3, ClaimsOnly DEF Release
    <3>4. CASE RetryLater(w)
      BY <2>1, <3>1, <3>4, ClaimsOnly DEF RetryLater, LosesClaim
    <3> QED
      BY <2>2, <3>2, <3>3, <3>4
  <2>3. CASE Reconcile(w) \/ ReconcileFails(w) \/ CleanupRenew(w)
    <3>1. pc[w] # "Idle" /\ (UNCHANGED rows \/ RenewRow(w))
      BY <2>3 DEF Reconcile, ReconcileFails, CleanupRenew, LosesClaim
    <3> QED
      BY <3>1, ClaimsOnly
  <2>4. CASE RenewForCopy(w) \/ RenewAnswerLost(w)
    <3>1. pc[w] # "Idle" /\ rows \in [Submissions -> Row] /\ Sub(w) \in Submissions
      BY <2>4 DEF RenewForCopy, RenewAnswerLost, TypeInv, TypeOK, ClaimSound
    <3>2. CASE RenewForCopy(w)
      BY <2>1, <3>1, <3>2, ClaimsOnly DEF RenewForCopy, LosesClaim
    <3>3. CASE RenewAnswerLost(w)
      BY <3>1, <3>3 DEF RenewAnswerLost, SameEntries, Row
    <3> QED
      BY <2>4, <3>2, <3>3
  <2>5. CASE ~UNCHANGED rows
    BY <2>2, <2>3, <2>4, <2>5
    DEF WorkerStep, FaultStep, ClaimRead, AttemptsExhausted, LoadUnavailable, LoadMismatch, ReadDocument,
        CheckDuplicate, Decide, Place, TryName, TryReuse, ReuseUnreadable, Copy, CopyFails, CheckInUse, RemoveCopy,
        RemoveFails, CallFails, Discard, Crash
  <2> QED
    BY <2>1, <2>5
<1> QED
  BY <1>1, <1>2, EntriesStay, DocumentsStay DEF RecordsStay

\* The insert files the document of a submission that is still to be processed
\* and has none.
LEMMA InsertFiles ==
  ASSUME TypeInv, Filing, Safekeeping, NEW w \in Workers, Insert(w) \/ InsertFails(w)
  PROVE  RecordsStay \/ Records!FileReceived(Sub(w), Sub(w))
<1>1. pc[w] = "Insert" /\ Sub(w) \in Submissions /\ rows \in [Submissions -> Row] /\ work[w] \in Work
  BY DEF Insert, InsertFails, TypeInv, TypeOK, ClaimSound
<1>2. SameEntries
  <2>1. UNCHANGED rows \/ RenewRow(w)
    BY DEF Insert, InsertFails, LosesClaim
  <2> QED
    BY <1>1, <2>1, ClaimsOnly
<1>3. CASE UNCHANGED documents
  BY <1>2, <1>3, EntriesStay, DocumentsStay DEF RecordsStay
<1>4. CASE ~UNCHANGED documents
  <2>1. Owns(w) /\ documents' = documents \cup {NewDocument(w)}
    BY <1>4 DEF Insert, InsertFails
  <2>2. work[w].place = "CLIENT" /\ work[w].reading.client # None
    BY <1>1 DEF TypeInv, PlaceSound
  <2>3. NewDocument(w).sub = Sub(w) /\ \A d \in documents : d.sub # Sub(w)
    BY <1>1, <2>1, <2>2 DEF Filing, CheckedFirst, Unfiled, BeforeInsert, NewDocument
  <2>4. RecordedDocuments' = [RecordedDocuments EXCEPT ![Sub(w)] = AsFiled(NewDocument(w))]
    BY <1>1, <2>1, <2>3, DocumentAdded DEF Filing
  <2>5. AsFiled(NewDocument(w)) \in Records!Filed
    <3>1. NewDocument(w) \in Document
      BY <1>1, <2>2, NewDocumentTyped
    <3> QED
      BY <3>1 DEF AsFiled, Document, Records!Filed
  <2>6. RecordedDocuments[Sub(w)] = Records!NoDocument
    BY <1>1, <2>3 DEF RecordedDocuments, Records!NoDocument
  <2>7. RecordedRows[Sub(w)].state = "RECEIVED"
    <3>1. RowTrue(Sub(w)) /\ rows[Sub(w)].status = RECEIVED_STATUS
      BY <1>1, <2>1 DEF Safekeeping, Owns
    <3>2. RecordedRows[Sub(w)] = AsRecorded(rows[Sub(w)])
      BY <1>1, TablesRecorded
    <3> QED
      BY <3>1, <3>2, StateIs DEF RowTrue
  <2> HIDE DEF AsFiled
  <2>8. RecordedDocuments' \in {[RecordedDocuments EXCEPT ![Sub(w)] = new] : new \in Records!Filed}
    BY <2>4, <2>5
  <2> QED
    BY <1>2, <2>6, <2>7, <2>8, EntriesStay DEF Records!FileReceived
<1> QED
  BY <1>3, <1>4

\* The end of an attempt settles a row that was still to be processed.
LEMMA EndSettles ==
  ASSUME TypeInv, Safekeeping, NEW w \in Workers,
         RecordResult(w) \/ ResultAnswerLost(w) \/ RecordFailure(w) \/ GiveUp(w)
  PROVE  RecordsStay \/ Records!Settle(Sub(w))
<1>1. /\ UNCHANGED documents /\ Sub(w) \in Submissions /\ rows \in [Submissions -> Row]
      /\ work[w] \in Work /\ rows[Sub(w)] \in Row
  BY DEF RecordResult, ResultAnswerLost, RecordFailure, GiveUp, TypeInv, TypeOK, ClaimSound
<1>2. CASE UNCHANGED rows
  BY <1>1, <1>2, EntriesStay, DocumentsStay DEF RecordsStay, SameEntries
<1>3. CASE ~UNCHANGED rows
  <2>1. Owns(w) /\ \/ rows' = [rows EXCEPT ![Sub(w)].status = "FAILED"]
                   \/ \E status \in PROCESSING_STATUS : Recorded(w, status)
    BY <1>1, <1>3 DEF RecordResult, ResultAnswerLost, RecordFailure, GiveUp, LosesClaim, Work, PROCESSING_STATUS
  <2>2. rows[Sub(w)].status = RECEIVED_STATUS /\ rows[Sub(w)].pendingPath = NoPath
    BY <1>1, <2>1 DEF Safekeeping, RowTrue, Owns
  <2>3. RecordedRows[Sub(w)].state = "RECEIVED"
    <3>1. RecordedRows[Sub(w)] = AsRecorded(rows[Sub(w)])
      BY <1>1, TablesRecorded
    <3> QED
      BY <2>2, <3>1, StateIs
  <2>4. LinkedClient(w) \in Clients \cup {None}
    BY <1>1 DEF LinkedClient, Work, Reading, Row
  <2>5. /\ rows'[Sub(w)].status \in PROCESSING_STATUS /\ rows'[Sub(w)].client \in Clients \cup {None}
        /\ \A t \in Submissions \ {Sub(w)} : rows'[t] = rows[t]
    <3>1. CASE rows' = [rows EXCEPT ![Sub(w)].status = "FAILED"]
      BY <1>1, <3>1 DEF Row, PROCESSING_STATUS
    <3>2. ASSUME NEW status \in PROCESSING_STATUS, Recorded(w, status)
          PROVE  /\ rows'[Sub(w)].status = status /\ rows'[Sub(w)].client = LinkedClient(w)
                 /\ \A t \in Submissions \ {Sub(w)} : rows'[t] = rows[t]
      BY <1>1, <3>2 DEF Recorded, Row
    <3> QED
      BY <2>1, <2>4, <3>1, <3>2
  <2>6. AsRecorded(rows'[Sub(w)]) \in Records!Settled
    <3>1. rows'[Sub(w)].status # RECEIVED_STATUS
      BY <2>5 DEF RECEIVED_STATUS, PROCESSING_STATUS, CONFIDENCE_BANDS
    <3> QED
      BY <2>5, <3>1 DEF AsRecorded, Records!Settled
  <2>7. RecordedRows' = [RecordedRows EXCEPT ![Sub(w)] = AsRecorded(rows'[Sub(w)])]
    BY <1>1, <2>5, EntryChanges
  <2> HIDE DEF AsRecorded
  <2>8. RecordedRows' \in {[RecordedRows EXCEPT ![Sub(w)] = settled] : settled \in Records!Settled}
    BY <2>6, <2>7
  <2> QED
    BY <1>1, <2>3, <2>8, DocumentsStay DEF Records!Settle
<1> QED
  BY <1>2, <1>3

LEMMA RetryRetries ==
  ASSUME TypeInv, NEW s \in Submissions, AdminRetry(s)
  PROVE  Records!Retry(s)
<1>1. rows \in [Submissions -> Row]
  BY DEF TypeInv, TypeOK
<1>2. RecordedRows[s].state = "FAILED"
  <2>1. RecordedRows[s] = AsRecorded(rows[s])
    BY TablesRecorded
  <2> QED
    BY <2>1, StateIs DEF AdminRetry
<1>3. AsRecorded(rows'[s]) = [state |-> "RECEIVED", client |-> None, type |-> None]
  <2>1. rows'[s].status = RECEIVED_STATUS /\ rows'[s].pendingPath = NoPath /\ rows'[s].client = None
    BY <1>1 DEF AdminRetry, Row
  <2> QED
    BY <2>1, StateIs
<1>4. UNCHANGED documents /\ \A t \in Submissions \ {s} : rows'[t] = rows[t]
  BY <1>1 DEF AdminRetry
<1> QED
  BY <1>2, <1>3, <1>4, EntryChanges, DocumentsStay DEF Records!Retry

LEMMA RecordsBegin == Init => Records!CaseInit
<1> SUFFICES ASSUME Init PROVE Records!CaseInit
  OBVIOUS
<1>1. RecordedRows \in [Submissions -> Records!Row]
  BY DEF Init, RecordedRows, Records!Row, Records!RowStates
<1>2. RecordedDocuments \in [Submissions -> Records!Document]
  BY DEF Init, RecordedDocuments, Records!Document, Records!NoDocument
<1> QED
  BY <1>1, <1>2 DEF Records!CaseInit

\* However attempts overlap, crash and are retried, what they leave in the two
\* tables is a sequence of the single commits of CaseRecords (the writes of
\* documentProcessingService.js under submissionQueue.js).
THEOREM AttemptsImplementRecords == Spec => ImplementsRecords
<1>1. Init => TypeInv /\ Fence /\ Filing
  BY InitTyped, InitFenced, InitFiling
<1>2. TypeInv /\ Fence /\ Filing /\ [Next]_vars => (TypeInv /\ Fence /\ Filing)'
  BY NextTyped, NextFenced, NextFiling
<1>3. TypeInv /\ Filing /\ Safekeeping /\ [Next]_vars
        => [UNCHANGED Records!caseVars \/ Records!CaseNext]_(Records!caseVars)
  <2> SUFFICES ASSUME TypeInv, Filing, Safekeeping, [Next]_vars
               PROVE  RecordsStay \/ Records!CaseNext
    BY DEF Records!caseVars, RecordsStay
  <2>1. ASSUME NEW w \in Workers, WorkerStep(w) \/ FaultStep(w)
        PROVE  RecordsStay \/ Records!CaseNext
    <3>1. WorkerStep(w) \/ FaultStep(w)
      BY <2>1
    <3>2. CASE Insert(w) \/ InsertFails(w)
      <4>1. Sub(w) \in Submissions
        BY <3>2 DEF Insert, InsertFails, TypeInv, ClaimSound
      <4> QED
        BY <3>2, <4>1, InsertFiles DEF Records!CaseNext
    <3>3. CASE RecordResult(w) \/ ResultAnswerLost(w) \/ RecordFailure(w) \/ GiveUp(w)
      <4>1. Sub(w) \in Submissions
        BY <3>3 DEF RecordResult, ResultAnswerLost, RecordFailure, GiveUp, TypeInv, ClaimSound
      <4> QED
        BY <3>3, <4>1, EndSettles DEF Records!CaseNext
    <3> QED
      BY <3>1, <3>2, <3>3, CallStays
  <2>2. ASSUME NEW s \in Submissions, AdminRetry(s) PROVE Records!CaseNext
    BY <2>2, RetryRetries DEF Records!CaseNext
  <2>3. CASE LateCopyLands \/ LateRemovalLands \/ Tick \/ UNCHANGED vars
    <3>1. UNCHANGED <<rows, documents>>
      BY <2>3 DEF LateCopyLands, LateRemovalLands, Tick, vars
    <3> QED
      BY <3>1, EntriesStay, DocumentsStay DEF SameEntries, RecordsStay
  <2> QED
    BY <2>1, <2>2, <2>3 DEF Next, OtherStep
<1> QED
  BY <1>1, <1>2, <1>3, RecordsBegin, SafeAlways, PTL DEF Spec, ImplementsRecords, Records!CaseSpec

----------------------------------------------------------------------------
(* The files of the documents.  A clean-up removes a copy between two       *)
(* storage calls, outside any transaction; what protects the copies is      *)
(* time: during the calls that a renewal guards nobody else can claim the   *)
(* submission, not even after a release, if a released row is not claimable *)
(* before a storage call ends (storageTimeoutMs <= retryDelayMs; both are   *)
(* one minute by default).  That protects what the submission itself has    *)
(* filed, whatever else was sent.  Between submissions the copy at a name   *)
(* must be the one's own, which is so where no file was sent twice.  And    *)
(* nothing protects a name that a removal that was given up on may empty.   *)

SentOnce == \A s, t \in Submissions : Sha[s] = Sha[t] => s = t

\* While a guarded storage call is under way the row is the attempt's, or was
\* released by it and is not claimable yet.
Guard(v) ==
  StorageCallPending(v) =>
    /\ clock <= claim[v].startedAt.at + StorageTimeout
    /\ rows[Sub(v)].status = RECEIVED_STATUS
    /\ \/ Owns(v)
       \/ /\ rows[Sub(v)].startedAt.kind = "early"
          /\ rows[Sub(v)].startedAt.at >= claim[v].startedAt.at - Lease + RetryDelay

\* From the copy to its removal it is there, as long as the attempt may use it.
Holds(v) == pc[v] \in {"InUse", "Remove"} \/ (pc[v] \in {"Insert", "CleanupRenew"} /\ Owns(v))
HoldsCopy(v) == Holds(v) => Copied(v) \in objects \/ TakenLate(CurrentPath(v))

\* What is about to be removed no document refers to.
Unused(v) == pc[v] = "Remove" => TakenLate(CurrentPath(v)) \/ \A d \in documents : d.path # CurrentPath(v)

\* Nor does a document of the same submission, not even at such a name.
OwnUnused(v) == pc[v] = "Remove" => \A d \in documents : d.sub = Sub(v) => d.path # CurrentPath(v)

OneGuarded ==
  \A u, v \in Workers : StorageCallPending(u) /\ StorageCallPending(v) /\ Sub(u) = Sub(v) => u = v

ObjectsApart == \A o, p \in objects : o.path = p.path => o = p

\* What holds whatever was sent ...
CleanupsSafe == OneGuarded /\ \A v \in Workers : Guard(v) /\ OwnUnused(v)

\* ... and what holds as long as no two submissions keep a copy at one name.
FilesSafe == ObjectsApart /\ DocumentHasFile /\ \A v \in Workers : HoldsCopy(v) /\ Unused(v)

Near == {"Copy", "Insert", "CleanupRenew", "InUse", "Remove"}

\* A worker's call is its own, and takes no time.
LEMMA OwnCall ==
  ASSUME TypeInv, NEW w \in Workers, WorkerStep(w) \/ FaultStep(w)
  PROVE  OnlyItself(w) /\ UNCHANGED clock
<1>1. UNCHANGED clock
  BY DEF WorkerStep, FaultStep, ClaimRead, ClaimSwap, AttemptsExhausted, LoadUnavailable, LoadMismatch, ReadDocument,
         RetryLater, GiveUp, CheckDuplicate, Reconcile, ReconcileFails, Decide, Place, TryName, TryReuse,
         ReuseUnreadable, RenewForCopy, Copy, CopyFails, Insert, InsertFails, CleanupRenew, CheckInUse, RemoveCopy,
         RemoveFails, RecordResult, ResultAnswerLost, RecordFailure, RenewAnswerLost, CallFails, Discard, Crash, Release
<1>2. CASE UNCHANGED <<pc, claim, work>>
  BY <1>1, <1>2 DEF OnlyItself
<1>3. CASE EndJob(w) \/ \E call : Goes(w, call)
  BY <1>1, <1>3, AloneMoves DEF EndJob, Goes, TypeInv, TypeOK
<1>4. CASE \/ ClaimRead(w) \/ ClaimSwap(w) \/ ReadDocument(w) \/ CheckDuplicate(w) \/ Reconcile(w) \/ ReconcileFails(w)
           \/ Decide(w) \/ Place(w)
  <2>1. CASE ClaimRead(w) \/ ClaimSwap(w) \/ Reconcile(w) \/ ReconcileFails(w)
    <3>1. EndJob(w) \/ (\E call : Goes(w, call)) \/ \E call : Goto(w, call)
      BY <2>1 DEF ClaimRead, ClaimSwap, Reconcile, ReconcileFails, LosesClaim
    <3>2. CASE ~(EndJob(w) \/ \E call : Goes(w, call))
      <4>1. \A v \in Workers \ {w} : work'[v] = work[v] /\ claim'[v] = claim[v]
        BY <2>1, <3>2 DEF ClaimRead, ClaimSwap, Reconcile, ReconcileFails, LosesClaim, RenewMemory, TypeInv, TypeOK
      <4> QED
        BY <1>1, <3>1, <3>2, <4>1, AloneMoves
    <3> QED
      BY <1>3, <3>2
  <2>2. CASE ReadDocument(w) \/ CheckDuplicate(w) \/ Decide(w) \/ Place(w)
    <3>1. \E call : Goto(w, call)
      BY <2>2 DEF ReadDocument, CheckDuplicate, Decide, Place
    <3>2. \A v \in Workers \ {w} : work'[v] = work[v] /\ claim'[v] = claim[v]
      BY <2>2 DEF ReadDocument, CheckDuplicate, Decide, Place, TypeInv, TypeOK
    <3> QED
      BY <1>1, <3>1, <3>2, AloneMoves
  <2> QED
    BY <1>4, <2>1, <2>2
<1>5. CASE \/ TryReuse(w) \/ ReuseUnreadable(w) \/ RenewForCopy(w) \/ Copy(w) \/ Insert(w) \/ InsertFails(w)
           \/ CleanupRenew(w) \/ RemoveCopy(w)
  <2>1. CASE \E call : Goes(w, call)
    BY <1>3, <2>1
  <2>2. CASE ~\E call : Goes(w, call)
    <3>1. \E call : Goto(w, call)
      BY <1>5, <2>2 DEF TryReuse, ReuseUnreadable, RenewForCopy, Copy, Insert, InsertFails, CleanupRenew, RemoveCopy,
                        HasCopy, NextName, LosesClaim
    <3>2. \A v \in Workers \ {w} : work'[v] = work[v] /\ claim'[v] = claim[v]
      BY <1>5, <2>2 DEF TryReuse, ReuseUnreadable, RenewForCopy, Copy, Insert, InsertFails, CleanupRenew, RemoveCopy,
                        HasCopy, NextName, LosesClaim, RenewMemory, TypeInv, TypeOK
    <3> QED
      BY <1>1, <3>1, <3>2, AloneMoves
  <2> QED
    BY <2>1, <2>2
<1>6. CASE \/ AttemptsExhausted(w) \/ LoadUnavailable(w) \/ LoadMismatch(w) \/ RetryLater(w) \/ GiveUp(w) \/ TryName(w)
           \/ CopyFails(w) \/ CheckInUse(w) \/ RemoveFails(w) \/ RecordResult(w) \/ ResultAnswerLost(w)
           \/ RecordFailure(w) \/ RenewAnswerLost(w) \/ CallFails(w) \/ Discard(w) \/ Crash(w) \/ Release(w)
  BY <1>2, <1>3, <1>6
  DEF AttemptsExhausted, LoadUnavailable, LoadMismatch, RetryLater, GiveUp, TryName, CopyFails, CheckInUse, RemoveFails,
      RecordResult, ResultAnswerLost, RecordFailure, RenewAnswerLost, CallFails, Discard, Crash, Release, LosesClaim
<1> QED
  BY <1>4, <1>5, <1>6 DEF WorkerStep, FaultStep

\* Only the owner of a row changes it.
LEMMA OwnRow ==
  ASSUME TypeInv, NEW w \in Workers, WorkerStep(w) \/ FaultStep(w)
  PROVE  \/ UNCHANGED rows
         \/ /\ Owns(w) /\ pc[w] \in Running \cup {"Claiming"}
            /\ \A s \in Submissions \ {Sub(w)} : rows'[s] = rows[s]
<1>1. CASE UNCHANGED rows
  BY <1>1
<1>2. CASE ~UNCHANGED rows
  <2>1. \/ ClaimSwap(w) \/ RetryLater(w) \/ GiveUp(w) \/ Reconcile(w) \/ ReconcileFails(w) \/ RenewForCopy(w)
        \/ Insert(w) \/ InsertFails(w) \/ CleanupRenew(w) \/ RecordResult(w) \/ ResultAnswerLost(w)
        \/ RecordFailure(w) \/ RenewAnswerLost(w) \/ Release(w)
    BY <1>2 DEF WorkerStep, FaultStep, ClaimRead, AttemptsExhausted, LoadUnavailable, LoadMismatch, ReadDocument,
         CheckDuplicate, Decide, Place, TryName, TryReuse, ReuseUnreadable, Copy, CopyFails, CheckInUse, RemoveCopy,
         RemoveFails, CallFails, Discard, Crash
  <2>2. Owns(w) /\ pc[w] \in Running \cup {"Claiming"}
    BY <1>2, <2>1
    DEF ClaimSwap, RetryLater, GiveUp, Reconcile, ReconcileFails, RenewForCopy, Insert, InsertFails, CleanupRenew,
        RecordResult, ResultAnswerLost, RecordFailure, RenewAnswerLost, Release, LosesClaim, Running
  <2>3. \E r : rows' = [rows EXCEPT ![Sub(w)] = r]
    BY <1>2, <2>1
    DEF ClaimSwap, RetryLater, GiveUp, Reconcile, ReconcileFails, RenewForCopy, Insert, InsertFails, CleanupRenew,
        RecordResult, ResultAnswerLost, RecordFailure, RenewAnswerLost, Release, LosesClaim, RenewRow, Recorded
  <2> QED
    BY <2>2, <2>3 DEF TypeInv, TypeOK
<1> QED
  BY <1>1, <1>2

\* Nobody else owns the row of a guarded call, or is about to claim it.
LEMMA Guarded ==
  ASSUME TypeInv, Fence, StorageTimeout <= RetryDelay, NEW v \in Workers, Guard(v), StorageCallPending(v),
         NEW w \in Workers, Sub(w) = Sub(v), Owns(w), pc[w] \in Running \cup {"Claiming"}
  PROVE  w = v
<1>1. /\ Live(v) /\ Sub(v) \in Submissions /\ clock \in Nat /\ claim[v].startedAt.at \in Int
      /\ rows[Sub(v)].startedAt \in LeaseStart /\ rows[Sub(v)].startedAt.at \in Int
  BY FenceTyped DEF StorageCallPending, Live, Running, LeaseStart
<1>2. claim[v].startedAt.kind = "start" /\ clock <= claim[v].startedAt.at + StorageTimeout
  BY <1>1 DEF Fence, Starts, Guard
<1>3. rows[Sub(v)].startedAt = claim[w].startedAt
  BY DEF Owns
<1>4. CASE pc[w] = "Claiming"
  <2>1. Expired(rows[Sub(v)].startedAt)
    BY <1>3, <1>4 DEF Fence, Starts
  <2>2. ~Expired(rows[Sub(v)].startedAt)
    <3>1. CASE Owns(v)
      BY <1>1, <1>2, <3>1, TimeoutWellBelowLease DEF Owns, Expired
    <3>2. CASE ~Owns(v)
      BY <1>1, <1>2, <3>2 DEF Guard, Expired
    <3> QED
      BY <3>1, <3>2
  <2> QED
    BY <2>1, <2>2
<1>5. CASE pc[w] \in Running
  <2>1. rows[Sub(v)].startedAt.kind = "start"
    BY <1>3, <1>5 DEF Fence, Starts, Live
  <2>2. Owns(v)
    BY <2>1 DEF Guard
  <2> QED
    BY <1>1, <1>5, <2>2 DEF Fence, UniqueOwner, Live
<1> QED
  BY <1>4, <1>5

LEMMA SameCopy ==
  ASSUME NEW v, claim'[v].sub = claim[v].sub,
         /\ work'[v].place = work[v].place /\ work'[v].reading = work[v].reading
         /\ work'[v].owner = work[v].owner /\ work'[v].n = work[v].n
  PROVE  Sub(v)' = Sub(v) /\ CurrentPath(v)' = CurrentPath(v) /\ Copied(v)' = Copied(v)
  BY DEF Sub, Copied, CurrentPath, PathFor, KeepsName

\* Two attempts with their copies at one name are of one submission ...
CopiesApart ==
  \A v, w \in Workers :
    Holds(v) /\ Holds(w) /\ CurrentPath(v) = CurrentPath(w) => Sub(v) = Sub(w) \/ TakenLate(CurrentPath(v))

\* ... if no file was sent twice.
LEMMA SameName ==
  ASSUME TypeInv, SentOnce, FilesSafe PROVE CopiesApart
<1>1. SUFFICES ASSUME NEW v \in Workers, NEW w \in Workers, Holds(v), Holds(w), CurrentPath(v) = CurrentPath(w),
                      ~TakenLate(CurrentPath(v))
               PROVE  Sub(v) = Sub(w)
  BY DEF CopiesApart
<1>2. Copied(v) \in objects /\ Copied(w) \in objects
  BY <1>1 DEF FilesSafe, HoldsCopy
<1>3. Copied(v) = Copied(w)
  BY <1>1, <1>2 DEF FilesSafe, ObjectsApart, Copied
<1>4. Sub(v) \in Submissions /\ Sub(w) \in Submissions
  BY <1>1 DEF Holds, TypeInv, ClaimSound
<1> QED
  BY <1>3, <1>4 DEF Copied, SentOnce


\* Objects appear by a copy to a free name and disappear by a removal.
LEMMA OwnObjects ==
  ASSUME NEW w \in Workers, WorkerStep(w) \/ FaultStep(w)
  PROVE  \/ UNCHANGED objects
         \/ pc[w] = "Copy" /\ ~Taken(CurrentPath(w)) /\ objects' = objects \cup {Copied(w)}
         \/ pc[w] = "Remove" /\ objects' = Without(CurrentPath(w))
<1>1. CASE UNCHANGED objects
  BY <1>1
<1>2. CASE ~UNCHANGED objects
  <2>1. Copy(w) \/ RemoveCopy(w) \/ RemoveFails(w) \/ Crash(w)
    BY <1>2 DEF WorkerStep, FaultStep, ClaimRead, ClaimSwap, AttemptsExhausted, LoadUnavailable, LoadMismatch,
         ReadDocument, RetryLater, GiveUp, CheckDuplicate, Reconcile, ReconcileFails, Decide, Place, TryName, TryReuse,
         ReuseUnreadable, RenewForCopy, CopyFails, Insert, InsertFails, CleanupRenew, CheckInUse, RecordResult,
         ResultAnswerLost, RecordFailure, RenewAnswerLost, CallFails, Discard, Release
  <2> QED
    BY <1>2, <2>1 DEF Copy, RemoveCopy, RemoveFails, Crash
<1> QED
  BY <1>1, <1>2

\* Documents appear by the insert of an owner.
LEMMA OwnDocuments ==
  ASSUME NEW w \in Workers, WorkerStep(w) \/ FaultStep(w)
  PROVE  \/ UNCHANGED documents
         \/ pc[w] = "Insert" /\ Owns(w) /\ documents' = documents \cup {NewDocument(w)}
<1>1. CASE UNCHANGED documents
  BY <1>1
<1>2. CASE ~UNCHANGED documents
  <2>1. Insert(w) \/ InsertFails(w)
    BY <1>2 DEF WorkerStep, FaultStep, ClaimRead, ClaimSwap, AttemptsExhausted, LoadUnavailable, LoadMismatch,
         ReadDocument, RetryLater, GiveUp, CheckDuplicate, Reconcile, ReconcileFails, Decide, Place, TryName, TryReuse,
         ReuseUnreadable, RenewForCopy, Copy, CopyFails, CleanupRenew, CheckInUse, RemoveCopy, RemoveFails,
         RecordResult, ResultAnswerLost, RecordFailure, RenewAnswerLost, CallFails, Discard, Crash, Release
  <2> QED
    BY <1>2, <2>1 DEF Insert, InsertFails
<1> QED
  BY <1>1, <1>2

\* Where an attempt is after its call.
LEMMA CallsNext ==
  ASSUME TypeInv, NEW w \in Workers
  PROVE  /\ \A call : Goto(w, call) => pc'[w] = call
         /\ \A call : Goes(w, call) => pc'[w] = call
         /\ EndJob(w) => pc'[w] = "Idle"
         /\ LosesClaim(w) => pc'[w] = "Stale"
  BY DEF Goto, Goes, EndJob, LosesClaim, TypeInv, TypeOK

\* The calls that are not about to touch a copy.
LEMMA ElsewhereGoes ==
  ASSUME TypeInv, NEW w \in Workers, WorkerStep(w) \/ FaultStep(w),
         ~(TryReuse(w) \/ RenewForCopy(w) \/ Copy(w) \/ Insert(w) \/ InsertFails(w) \/ CleanupRenew(w)
           \/ CheckInUse(w) \/ Release(w))
  PROVE  pc'[w] \notin Near
<1>1. CASE \/ ClaimRead(w) \/ ClaimSwap(w) \/ AttemptsExhausted(w) \/ LoadUnavailable(w) \/ LoadMismatch(w)
           \/ ReadDocument(w) \/ RetryLater(w) \/ GiveUp(w) \/ CheckDuplicate(w)
  BY <1>1, CallsNext
  DEF ClaimRead, ClaimSwap, AttemptsExhausted, LoadUnavailable, LoadMismatch, ReadDocument, RetryLater, GiveUp,
      CheckDuplicate, Near
<1>2. CASE Reconcile(w) \/ ReconcileFails(w) \/ Decide(w) \/ Place(w) \/ TryName(w) \/ ReuseUnreadable(w) \/ CopyFails(w)
  <2>1. CASE Reconcile(w) \/ ReconcileFails(w)
    BY <2>1, CallsNext DEF Reconcile, ReconcileFails, Near
  <2>2. CASE Decide(w) \/ Place(w)
    BY <2>2, CallsNext DEF Decide, Place, Near
  <2>3. CASE TryName(w)
    BY <2>3, CallsNext DEF TryName, Near
  <2>4. CASE ReuseUnreadable(w) \/ CopyFails(w)
    BY <2>4, CallsNext DEF ReuseUnreadable, NextName, CopyFails, Near
  <2> QED
    BY <1>2, <2>1, <2>2, <2>3, <2>4
<1>3. CASE \/ RemoveCopy(w) \/ RemoveFails(w) \/ RecordResult(w) \/ ResultAnswerLost(w) \/ RecordFailure(w)
           \/ RenewAnswerLost(w) \/ CallFails(w) \/ Discard(w) \/ Crash(w)
  BY <1>3, CallsNext
  DEF RemoveCopy, RemoveFails, RecordResult, ResultAnswerLost, RecordFailure, RenewAnswerLost, CallFails, Discard,
      Crash, Near
<1> QED
  BY <1>1, <1>2, <1>3 DEF WorkerStep, FaultStep


\* What was taken by a late removal remains known.
LEMMA TakenStays ==
  ASSUME NEW w \in Workers, WorkerStep(w) \/ FaultStep(w)
  PROVE  \A path : TakenLate(path) => TakenLate(path)'
  BY OwnRemovals DEF TakenLate, MayLand

\* What a step leaves of the own call's guard, copy and check.
OwnGuarded(w) ==
  /\ (Guard(w) /\ OwnUnused(w))'
  /\ StorageCallPending(w)' => StorageCallPending(w) \/ (Owns(w) /\ pc[w] \in Running)
  /\ StorageCallPending(w)' => Sub(w)' = Sub(w)
OwnSafe(w) == OwnGuarded(w) /\ (HoldsCopy(w) /\ Unused(w) => (HoldsCopy(w) /\ Unused(w))')

LEMMA FarSafe ==
  ASSUME NEW w, pc'[w] \notin Near PROVE OwnSafe(w)
  BY DEF OwnSafe, OwnGuarded, Near, Guard, HoldsCopy, Holds, Unused, OwnUnused, StorageCallPending

\* A renewal before a storage call guards it.
LEMMA RenewedGuard ==
  ASSUME TypeInv, NEW w \in Workers, pc[w] \in Running, Owns(w), NEW path \in Path,
         rows' = [rows EXCEPT ![Sub(w)].startedAt = Start(clock), ![Sub(w)].placementPath = path],
         RenewMemory(w), UNCHANGED clock
  PROVE  Guard(w)' /\ Owns(w)' /\ Sub(w)' = Sub(w)
<1>1. Sub(w) \in Submissions /\ rows[Sub(w)].status = RECEIVED_STATUS
  BY DEF TypeInv, ClaimSound, Owns, Running
<1>2. claim'[w] = [claim[w] EXCEPT !.startedAt = Start(clock)] /\ claim[w] \in Claim
  BY DEF RenewMemory, TypeInv, TypeOK
<1>3. Sub(w)' = Sub(w) /\ claim'[w].startedAt = Start(clock) /\ claim'[w].attempt = claim[w].attempt
  BY <1>2 DEF Sub, Claim
<1>4. rows'[Sub(w)] = [rows[Sub(w)] EXCEPT !.startedAt = Start(clock), !.placementPath = path] /\ rows[Sub(w)] \in Row
  BY <1>1 DEF TypeInv, TypeOK
<1>5. /\ rows'[Sub(w)].startedAt = Start(clock) /\ rows'[Sub(w)].attempts = rows[Sub(w)].attempts
      /\ rows'[Sub(w)].status = RECEIVED_STATUS
  BY <1>1, <1>4 DEF Row
<1>6. Owns(w)'
  BY <1>3, <1>5 DEF Owns
<1>7. clock' <= claim'[w].startedAt.at + StorageTimeout
  BY <1>3, TimesAreNaturals, StartIsStart DEF TypeInv, TypeOK
<1> QED
  BY <1>3, <1>5, <1>6, <1>7 DEF Guard

LEMMA LostSafe ==
  ASSUME TypeInv, NEW w \in Workers, LosesClaim(w) PROVE OwnSafe(w)
  BY CallsNext, FarSafe DEF Near

LEMMA RenewSafe ==
  ASSUME TypeInv, NEW w \in Workers, RenewForCopy(w) PROVE OwnSafe(w)
<1>1. CASE LosesClaim(w)
  BY <1>1, LostSafe
<1>2. CASE ~LosesClaim(w)
  <2>1. /\ Owns(w) /\ pc[w] \in Running /\ RenewMemory(w) /\ UNCHANGED clock
        /\ rows' = [rows EXCEPT ![Sub(w)].startedAt = Start(clock), ![Sub(w)].placementPath = CurrentPath(w)]
    BY <1>2 DEF RenewForCopy, Running
  <2>2. pc'[w] = "Copy" /\ pc[w] # "Idle"
    BY <1>2, CallsNext DEF RenewForCopy
  <2>3. Guard(w)' /\ Sub(w)' = Sub(w)
    BY <2>1, <2>2, RenewedGuard, PathTyped
  <2> QED
    BY <2>1, <2>2, <2>3 DEF OwnSafe, OwnGuarded, HoldsCopy, Holds, Unused, OwnUnused
<1> QED
  BY <1>1, <1>2

LEMMA CleanupSafe ==
  ASSUME TypeInv, NEW w \in Workers, CleanupRenew(w) PROVE OwnSafe(w)
<1>1. CASE LosesClaim(w)
  BY <1>1, LostSafe
<1>2. CASE ~LosesClaim(w)
  <2>1. /\ Owns(w) /\ pc[w] = "CleanupRenew" /\ RenewMemory(w) /\ RenewRow(w) /\ UNCHANGED <<clock, objects, removals, work>>
    BY <1>2 DEF CleanupRenew
  <2>2. pc'[w] = "InUse" /\ pc[w] \in Running /\ Sub(w) \in Submissions
    BY <1>2, CallsNext DEF CleanupRenew, Running, TypeInv, ClaimSound
  <2>3. rows' = [rows EXCEPT ![Sub(w)].startedAt = Start(clock), ![Sub(w)].placementPath = rows[Sub(w)].placementPath]
    BY <2>1, <2>2 DEF RenewRow, TypeInv, TypeOK, Row
  <2>4. rows[Sub(w)].placementPath \in Path
    BY <2>2 DEF TypeInv, TypeOK, Row
  <2>5. Guard(w)' /\ Sub(w)' = Sub(w)
    BY <2>1, <2>2, <2>3, <2>4, RenewedGuard
  <2>6. HoldsCopy(w) => Copied(w) \in objects' \/ TakenLate(CurrentPath(w))
    BY <2>1 DEF HoldsCopy, Holds
  <2>7. Copied(w)' = Copied(w) /\ CurrentPath(w)' = CurrentPath(w)
    BY <2>1, <2>5, SameCopy DEF Sub
  <2>8. HoldsCopy(w) => HoldsCopy(w)'
    BY <2>1, <2>6, <2>7 DEF HoldsCopy, TakenLate
  <2> QED
    BY <2>1, <2>2, <2>5, <2>8 DEF OwnSafe, OwnGuarded, Unused, OwnUnused
<1> QED
  BY <1>1, <1>2

\* A copy that was made, or found to be the own, is held.
LEMMA CopyHeld ==
  ASSUME TypeInv, NEW w \in Workers, HasCopy(w), UNCHANGED claim, Copied(w) \in objects' PROVE OwnSafe(w)
<1>1. CASE work[w].place = "CLIENT"
  <2>1. pc'[w] = "Insert" /\ UNCHANGED work
    BY <1>1, CallsNext DEF HasCopy
  <2>2. Copied(w)' = Copied(w)
    BY <2>1, SameCopy
  <2> QED
    BY <2>1, <2>2 DEF OwnSafe, OwnGuarded, Guard, HoldsCopy, Holds, Unused, OwnUnused, StorageCallPending
<1>2. CASE work[w].place # "CLIENT"
  <2>1. pc'[w] = "Final"
    BY <1>2, CallsNext DEF HasCopy
  <2> QED
    BY <2>1, FarSafe DEF Near
<1> QED
  BY <1>1, <1>2

LEMMA CopyingSafe ==
  ASSUME TypeInv, NEW w \in Workers, Copy(w) \/ TryReuse(w) PROVE OwnSafe(w)
<1>1. CASE Copy(w) /\ Taken(CurrentPath(w))
  <2>1. pc'[w] = "Reuse"
    BY <1>1, CallsNext DEF Copy
  <2> QED
    BY <2>1, FarSafe DEF Near
<1>2. CASE Copy(w) /\ ~Taken(CurrentPath(w))
  BY <1>2, CopyHeld DEF Copy
<1>3. CASE TryReuse(w) /\ IsOwnEarlierCopy(w, CurrentPath(w))
  BY <1>3, CopyHeld DEF TryReuse, IsOwnEarlierCopy, Copied
<1>4. CASE TryReuse(w) /\ ~IsOwnEarlierCopy(w, CurrentPath(w))
  <2>1. pc'[w] = "Name"
    BY <1>4, CallsNext DEF TryReuse, NextName
  <2> QED
    BY <2>1, FarSafe DEF Near
<1> QED
  BY <1>1, <1>2, <1>3, <1>4

\* What an insert leaves behind is held as long as it may be cleaned up.
LEMMA InsertingSafe ==
  ASSUME TypeInv, NobodyRegains, NEW w \in Workers, Insert(w) \/ InsertFails(w) PROVE OwnSafe(w)
<1>1. pc[w] = "Insert" /\ UNCHANGED <<objects, removals>>
  BY DEF Insert, InsertFails
<1>2. CASE pc'[w] \notin Near
  BY <1>2, FarSafe
<1>3. CASE pc'[w] \in Near
  <2>1. pc'[w] = "CleanupRenew"
    BY <1>3, CallsNext DEF Insert, InsertFails, Near
  <2>2. Live(w) /\ Live(w)'
    BY <1>1, <2>1 DEF Live, Running
  <2>3. Owns(w)' /\ HoldsCopy(w) => Copied(w) \in objects' \/ TakenLate(CurrentPath(w))
    BY <1>1, <2>2 DEF NobodyRegains, HoldsCopy, Holds
  <2>4. claim'[w].sub = claim[w].sub
    BY <1>3, LostSafe, CallsNext DEF Insert, InsertFails, RenewMemory, LosesClaim, Goes, TypeInv, TypeOK, Claim
  <2>5. /\ work'[w].place = work[w].place /\ work'[w].reading = work[w].reading
        /\ work'[w].owner = work[w].owner /\ work'[w].n = work[w].n
    BY <1>3 DEF Insert, InsertFails, LosesClaim, Goes, TypeInv, TypeOK, Work
  <2>6. Copied(w)' = Copied(w) /\ CurrentPath(w)' = CurrentPath(w)
    BY <2>4, <2>5, SameCopy
  <2>7. HoldsCopy(w) => HoldsCopy(w)'
    BY <1>1, <2>1, <2>3, <2>6 DEF HoldsCopy, Holds, TakenLate
  <2> QED
    BY <2>1, <2>7 DEF OwnSafe, OwnGuarded, Guard, Unused, OwnUnused, StorageCallPending
<1> QED
  BY <1>2, <1>3

LEMMA CheckingSafe ==
  ASSUME TypeInv, CleanupsSafe, NEW w \in Workers, CheckInUse(w) PROVE OwnSafe(w)
<1>1. pc[w] = "InUse" /\ UNCHANGED <<rows, documents, objects, removals, clock, claim, work>>
  BY DEF CheckInUse, Goes
<1>2. CASE \E d \in documents : d.path = CurrentPath(w)
  <2>1. pc'[w] = "Fail"
    BY <1>2, CallsNext DEF CheckInUse
  <2> QED
    BY <2>1, FarSafe DEF Near
<1>3. CASE ~\E d \in documents : d.path = CurrentPath(w)
  <2>1. pc'[w] = "Remove"
    BY <1>3, CallsNext DEF CheckInUse
  <2>2. Sub(w)' = Sub(w) /\ CurrentPath(w)' = CurrentPath(w) /\ Copied(w)' = Copied(w) /\ (Owns(w)' <=> Owns(w))
    BY <1>1, SameCopy DEF Owns, Sub
  <2>3. StorageCallPending(w) /\ Guard(w)
    BY <1>1 DEF StorageCallPending, CleanupsSafe
  <2>4. Guard(w)'
    BY <1>1, <2>2, <2>3 DEF Guard
  <2>5. Unused(w)' /\ OwnUnused(w)'
    BY <1>1, <1>3, <2>2 DEF Unused, OwnUnused
  <2>6. HoldsCopy(w) => HoldsCopy(w)'
    BY <1>1, <2>1, <2>2 DEF HoldsCopy, Holds, TakenLate
  <2> QED
    BY <2>2, <2>3, <2>4, <2>5, <2>6 DEF OwnSafe, OwnGuarded
<1> QED
  BY <1>2, <1>3

\* A released row is not claimable before the storage call under way is over.
LEMMA ReleasingSafe ==
  ASSUME TypeInv, Fence, NobodyRegains, CleanupsSafe, NEW w \in Workers, Release(w) PROVE OwnSafe(w)
<1>1. /\ UNCHANGED <<documents, objects, removals, clock, pc, claim, work>> /\ pc[w] \in Running /\ Owns(w)
      /\ rows' = [rows EXCEPT ![Sub(w)].attempts = @ - 1, ![Sub(w)].startedAt = BackDated(clock)]
  BY DEF Release
<1>2. Live(w) /\ Sub(w) \in Submissions
  BY <1>1, FenceTyped DEF Live
<1>3. Sub(w)' = Sub(w) /\ CurrentPath(w)' = CurrentPath(w) /\ Copied(w)' = Copied(w)
  BY <1>1, SameCopy
<1>4. rows'[Sub(w)].status = rows[Sub(w)].status /\ rows'[Sub(w)].startedAt = BackDated(clock)
  BY <1>1, <1>2 DEF TypeInv, TypeOK, Row
<1>5. claim[w].startedAt.at <= clock /\ claim[w].startedAt.at \in Int /\ clock \in Int /\ Lease \in Int /\ RetryDelay \in Int
  BY <1>2, FenceTyped, TimesAreNaturals DEF Fence, Starts, LeaseStart
<1>6. BackDated(clock).kind = "early" /\ BackDated(clock).at >= claim[w].startedAt.at - Lease + RetryDelay
  BY <1>5, StartIsStart
<1>7. Guard(w)'
  BY <1>1, <1>3, <1>4, <1>6 DEF Guard, CleanupsSafe, StorageCallPending
<1>8. Owns(w)' => Owns(w)
  BY <1>1
<1>9. HoldsCopy(w) => HoldsCopy(w)'
  BY <1>1, <1>3, <1>8 DEF HoldsCopy, Holds, TakenLate
<1>10. OwnUnused(w)' /\ (Unused(w) => Unused(w)')
  BY <1>1, <1>3 DEF CleanupsSafe, Unused, OwnUnused, TakenLate
<1> QED
  BY <1>1, <1>3, <1>7, <1>9, <1>10 DEF OwnSafe, OwnGuarded, StorageCallPending

LEMMA OwnStepSafe ==
  ASSUME TypeInv, Fence, NobodyRegains, CleanupsSafe, NEW w \in Workers, WorkerStep(w) \/ FaultStep(w)
  PROVE  OwnSafe(w)
  BY ElsewhereGoes, FarSafe, RenewSafe, CleanupSafe, CopyingSafe, InsertingSafe, CheckingSafe, ReleasingSafe


\* Two workers never hold copies at one name, one of them in a guarded call
\* and the other still the owner of its row.
LEMMA NotBoth ==
  ASSUME TypeInv, Fence, CopiesApart, StorageTimeout <= RetryDelay, CleanupsSafe,
         NEW v \in Workers, NEW w \in Workers, v # w, CurrentPath(v) = CurrentPath(w), ~TakenLate(CurrentPath(v)),
         pc[v] \in {"InUse", "Remove"}, pc[w] \in {"Insert", "CleanupRenew"}, Owns(w)
  PROVE  FALSE
<1>1. Sub(v) = Sub(w)
  BY DEF CopiesApart, Holds
<1>2. StorageCallPending(v) /\ Guard(v)
  BY DEF StorageCallPending, CleanupsSafe
<1>3. pc[w] \in Running
  BY DEF Running
<1> QED
  BY <1>1, <1>2, <1>3, Guarded

\* Nor two of them in guarded calls.
LEMMA NotBothGuarded ==
  ASSUME TypeInv, CopiesApart, CleanupsSafe,
         NEW v \in Workers, NEW w \in Workers, v # w, CurrentPath(v) = CurrentPath(w), ~TakenLate(CurrentPath(v)),
         pc[v] \in {"InUse", "Remove"}, pc[w] \in {"InUse", "Remove"}
  PROVE  FALSE
<1>1. Sub(v) = Sub(w)
  BY DEF CopiesApart, Holds
<1> QED
  BY <1>1 DEF CleanupsSafe, OneGuarded, StorageCallPending

\* What the call of one worker leaves of the others' guards: a guarded row is
\* nobody else's to write, nor is a document of its submission to be inserted.
LEMMA OthersGuarded ==
  ASSUME TypeInv, Fence, StorageTimeout <= RetryDelay, CleanupsSafe,
         NEW w \in Workers, WorkerStep(w) \/ FaultStep(w), NEW v \in Workers, v # w
  PROVE  /\ (Guard(v) /\ OwnUnused(v))' /\ Sub(v)' = Sub(v)
         /\ CurrentPath(v)' = CurrentPath(v) /\ Copied(v)' = Copied(v)
<1>1. UNCHANGED clock /\ pc'[v] = pc[v] /\ work'[v] = work[v] /\ claim'[v] = claim[v]
  BY OwnCall DEF OnlyItself
<1>2. Sub(v)' = Sub(v) /\ CurrentPath(v)' = CurrentPath(v) /\ Copied(v)' = Copied(v)
  BY <1>1, SameCopy
<1>3. Guard(v)'
  <2>1. SUFFICES ASSUME StorageCallPending(v) PROVE Guard(v)'
    BY <1>1 DEF Guard, StorageCallPending
  <2>2. Guard(v) /\ Sub(v) \in Submissions
    BY <2>1 DEF CleanupsSafe, StorageCallPending, TypeInv, ClaimSound
  <2>3. rows'[Sub(v)] = rows[Sub(v)]
    <3>1. Owns(w) /\ pc[w] \in Running \cup {"Claiming"} => Sub(w) # Sub(v)
      BY <2>1, <2>2, Guarded
    <3> QED
      BY <2>2, <3>1, OwnRow
  <2>4. Owns(v)' <=> Owns(v)
    BY <1>1, <1>2, <2>3 DEF Owns
  <2> QED
    BY <1>1, <1>2, <2>1, <2>2, <2>3, <2>4 DEF Guard
<1>4. OwnUnused(v)'
  <2>1. SUFFICES ASSUME pc[v] = "Remove", NEW d \in documents', d.sub = Sub(v), d.path = CurrentPath(v) PROVE FALSE
    BY <1>1, <1>2 DEF OwnUnused
  <2>2. d \notin documents
    BY <2>1 DEF CleanupsSafe, OwnUnused
  <2>3. pc[w] = "Insert" /\ Owns(w) /\ d = NewDocument(w)
    BY <2>2, OwnDocuments
  <2>4. Sub(w) = Sub(v) /\ pc[w] \in Running /\ StorageCallPending(v) /\ Guard(v)
    BY <2>1, <2>3 DEF NewDocument, Running, StorageCallPending, CleanupsSafe
  <2> QED
    BY <2>3, <2>4, Guarded
<1> QED
  BY <1>2, <1>3, <1>4

\* What it leaves of their copies and checks.
LEMMA OthersSafe ==
  ASSUME TypeInv, Fence, NobodyRegains, CopiesApart, StorageTimeout <= RetryDelay, CleanupsSafe, FilesSafe,
         NEW w \in Workers, WorkerStep(w) \/ FaultStep(w), NEW v \in Workers, v # w
  PROVE  (HoldsCopy(v) /\ Unused(v))'
<1>1. pc'[v] = pc[v] /\ work'[v] = work[v] /\ claim'[v] = claim[v]
  BY OwnCall DEF OnlyItself
<1>2. Sub(v)' = Sub(v) /\ CurrentPath(v)' = CurrentPath(v) /\ Copied(v)' = Copied(v)
  BY OthersGuarded
<1>3. TakenLate(CurrentPath(v)) => TakenLate(CurrentPath(v))'
  BY <1>2, TakenStays DEF TakenLate
<1>4. Owns(v)' /\ Live(v) => Owns(v)
  BY <1>1 DEF NobodyRegains, Live
<1>5. HoldsCopy(v)'
  <2>1. SUFFICES ASSUME \/ pc[v] \in {"InUse", "Remove"}
                        \/ pc[v] \in {"Insert", "CleanupRenew"} /\ Owns(v)',
                        ~TakenLate(CurrentPath(v))
                 PROVE  Copied(v) \in objects'
    BY <1>1, <1>2, <1>3 DEF HoldsCopy, Holds
  <2>2. pc[v] \in {"InUse", "Remove"} \/ (pc[v] \in {"Insert", "CleanupRenew"} /\ Owns(v))
    BY <1>4, <2>1 DEF Live, Running
  <2>3. Copied(v) \in objects
    BY <2>1, <2>2 DEF FilesSafe, HoldsCopy, Holds
  <2>4. pc[w] = "Remove" => CurrentPath(v) # CurrentPath(w)
    BY <2>1, <2>2, NotBoth, NotBothGuarded
  <2>5. Copied(v).path = CurrentPath(v)
    BY DEF Copied
  <2> QED
    BY <2>3, <2>4, <2>5, OwnObjects DEF Without
<1>6. Unused(v)'
  <2>1. SUFFICES ASSUME pc[v] = "Remove", NEW d \in documents', d.path = CurrentPath(v), ~TakenLate(CurrentPath(v))
                 PROVE  FALSE
    BY <1>1, <1>2, <1>3 DEF Unused
  <2>2. d \notin documents
    BY <2>1 DEF FilesSafe, Unused
  <2>3. pc[w] = "Insert" /\ Owns(w) /\ d = NewDocument(w)
    BY <2>2, OwnDocuments
  <2>4. CurrentPath(v) = CurrentPath(w)
    BY <2>1, <2>3 DEF NewDocument
  <2> QED
    BY <2>1, <2>3, <2>4, NotBoth
<1> QED
  BY <1>5, <1>6

\* The call of one worker keeps every clean-up guarded ...
LEMMA CallGuarded ==
  ASSUME TypeInv, Fence, NobodyRegains, StorageTimeout <= RetryDelay, CleanupsSafe,
         NEW w \in Workers, WorkerStep(w) \/ FaultStep(w)
  PROVE  CleanupsSafe'
<1>1. OwnGuarded(w)
  BY OwnStepSafe DEF OwnSafe
<1>2. OneGuarded'
  <2>1. \A v \in Workers \ {w} : Sub(v)' = Sub(v) /\ (StorageCallPending(v)' <=> StorageCallPending(v))
    BY OthersGuarded, OwnCall DEF OnlyItself, StorageCallPending
  <2>2. \A v \in Workers \ {w} : ~(StorageCallPending(v)' /\ StorageCallPending(w)' /\ Sub(v)' = Sub(w)')
    <3>1. SUFFICES ASSUME NEW v \in Workers \ {w}, StorageCallPending(v), StorageCallPending(w)', Sub(v) = Sub(w)
                   PROVE  FALSE
      BY <1>1, <2>1 DEF OwnGuarded
    <3>2. Guard(v)
      BY DEF CleanupsSafe
    <3>3. ~(Owns(w) /\ pc[w] \in Running)
      BY <3>1, <3>2, Guarded
    <3>4. StorageCallPending(w)
      BY <1>1, <3>1, <3>3 DEF OwnGuarded
    <3> QED
      BY <3>1, <3>4 DEF CleanupsSafe, OneGuarded
  <2>3. \A u, v \in Workers \ {w} : StorageCallPending(u)' /\ StorageCallPending(v)' /\ Sub(u)' = Sub(v)' => u = v
    BY <2>1 DEF CleanupsSafe, OneGuarded
  <2> QED
    BY <2>2, <2>3 DEF OneGuarded
<1>3. \A v \in Workers : (Guard(v) /\ OwnUnused(v))'
  BY <1>1, OthersGuarded DEF OwnGuarded
<1> QED
  BY <1>2, <1>3 DEF CleanupsSafe

\* ... and keeps the files.
LEMMA CallSafe ==
  ASSUME TypeInv, Fence, NobodyRegains, CopiesApart, StorageTimeout <= RetryDelay, CleanupsSafe, FilesSafe,
         NEW w \in Workers, WorkerStep(w) \/ FaultStep(w)
  PROVE  FilesSafe'
<1>1. (HoldsCopy(w) /\ Unused(w))'
  BY OwnStepSafe DEF OwnSafe, FilesSafe
<1>2. ObjectsApart'
  BY OwnObjects DEF FilesSafe, ObjectsApart, Taken, Copied, Without
<1>3. \A path : TakenLate(path) => TakenLate(path)'
  BY TakenStays
<1>4. DocumentHasFile'
  <2>1. SUFFICES ASSUME NEW d \in documents', ~TakenLate(d.path) PROVE [path |-> d.path, sha |-> d.sha] \in objects'
    BY <1>3 DEF DocumentHasFile
  <2>2. CASE d \in documents
    <3>1. [path |-> d.path, sha |-> d.sha] \in objects
      BY <2>1, <2>2 DEF FilesSafe, DocumentHasFile
    <3>2. pc[w] = "Remove" => d.path # CurrentPath(w)
      BY <2>1, <2>2 DEF FilesSafe, Unused
    <3> QED
      BY <3>1, <3>2, OwnObjects DEF Without
  <2>3. CASE d \notin documents
    <3>1. pc[w] = "Insert" /\ Owns(w) /\ d = NewDocument(w)
      BY <2>3, OwnDocuments
    <3>2. Copied(w) = [path |-> d.path, sha |-> d.sha] /\ CurrentPath(w) = d.path
      BY <3>1 DEF Copied, NewDocument
    <3>3. Copied(w) \in objects
      BY <2>1, <3>1, <3>2 DEF FilesSafe, HoldsCopy, Holds
    <3> QED
      BY <3>1, <3>2, <3>3, OwnObjects
  <2> QED
    BY <2>2, <2>3
<1>5. \A v \in Workers : (HoldsCopy(v) /\ Unused(v))'
  BY <1>1, OthersSafe
<1> QED
  BY <1>2, <1>4, <1>5 DEF FilesSafe

\* What changes no attempt and no document, and takes nothing away but by a
\* removal that lands late.
LEMMA ElseSafe ==
  ASSUME TypeInv, NobodyRegains, UNCHANGED <<documents, pc, claim, work>>, \A v \in Workers : Guard(v)',
         \A path : TakenLate(path) => TakenLate(path)',
         \A o \in objects : o \in objects' \/ TakenLate(o.path)', ObjectsApart => ObjectsApart'
  PROVE  (CleanupsSafe => CleanupsSafe') /\ (FilesSafe => FilesSafe')
<1>1. \A v \in Workers : Sub(v)' = Sub(v) /\ CurrentPath(v)' = CurrentPath(v) /\ Copied(v)' = Copied(v)
  BY SameCopy
<1>2. \A v \in Workers : StorageCallPending(v)' <=> StorageCallPending(v)
  BY DEF StorageCallPending
<1>3. CleanupsSafe => CleanupsSafe'
  BY <1>1, <1>2 DEF CleanupsSafe, OneGuarded, OwnUnused
<1>4. ASSUME FilesSafe PROVE FilesSafe'
  <2>1. DocumentHasFile'
    <3>1. SUFFICES ASSUME NEW d \in documents, ~TakenLate(d.path)' PROVE [path |-> d.path, sha |-> d.sha] \in objects'
      BY DEF DocumentHasFile
    <3>2. [path |-> d.path, sha |-> d.sha] \in objects
      BY <1>4, <3>1 DEF FilesSafe, DocumentHasFile
    <3> QED
      BY <3>1, <3>2
  <2>2. \A v \in Workers : Live(v) /\ Owns(v)' => Owns(v)
    BY DEF NobodyRegains, Live
  <2>3. ASSUME NEW v \in Workers PROVE HoldsCopy(v)'
    <3>1. Holds(v)' => Holds(v)
      BY <2>2 DEF Holds, Live, Running
    <3>2. Holds(v) => Copied(v) \in objects \/ TakenLate(CurrentPath(v))
      BY <1>4 DEF FilesSafe, HoldsCopy
    <3>3. Copied(v).path = CurrentPath(v)
      BY DEF Copied
    <3>4. TakenLate(CurrentPath(v))' <=> [path |-> CurrentPath(v), landed |-> TRUE] \in removals'
      BY <1>1 DEF TakenLate
    <3>5. Copied(v) \in objects \/ TakenLate(CurrentPath(v)) => Copied(v) \in objects' \/ TakenLate(CurrentPath(v))'
      BY <3>3, <3>4 DEF TakenLate
    <3> QED
      BY <1>1, <3>1, <3>2, <3>5 DEF HoldsCopy
  <2>4. ASSUME NEW v \in Workers PROVE Unused(v)'
    BY <1>1, <1>4 DEF FilesSafe, Unused, TakenLate
  <2> QED
    BY <1>4, <2>1, <2>3, <2>4 DEF FilesSafe
<1> QED
  BY <1>3, <1>4

\* Time and an admin's retry keep the guards: a guarded row is not FAILED, and
\* time does not pass the end of a storage call.
LEMMA WaitingGuard ==
  ASSUME TypeInv, CleanupsSafe, NEW v \in Workers, UNCHANGED <<pc, claim>>,
         clock' = clock \/ (TimeMayPass /\ clock' = clock + 1),
         \A s \in Submissions : rows[s].status = RECEIVED_STATUS => rows'[s] = rows[s]
  PROVE  Guard(v)'
<1>1. SUFFICES ASSUME StorageCallPending(v) PROVE Guard(v)'
  BY DEF Guard, StorageCallPending
<1>2. Guard(v) /\ Sub(v) \in Submissions /\ claim[v].startedAt.at \in Int
  BY <1>1 DEF CleanupsSafe, StorageCallPending, TypeInv, TypeOK, ClaimSound, Claim, LeaseStart
<1>3. Sub(v)' = Sub(v) /\ rows'[Sub(v)] = rows[Sub(v)]
  BY <1>1, <1>2 DEF Guard, Sub
<1>4. Owns(v)' <=> Owns(v)
  BY <1>3 DEF Owns
<1>5. clock' <= claim[v].startedAt.at + StorageTimeout
  <2>1. CASE clock' = clock
    BY <1>1, <1>2, <2>1 DEF Guard
  <2>2. CASE TimeMayPass /\ clock' = clock + 1
    <3>1. clock < claim[v].startedAt.at + StorageTimeout
      BY <1>1, <2>2 DEF TimeMayPass
    <3> QED
      BY <1>2, <2>2, <3>1, TimesAreNaturals DEF TypeInv, TypeOK
  <2> QED
    BY <2>1, <2>2
<1> QED
  BY <1>1, <1>2, <1>3, <1>4, <1>5 DEF Guard

\* What is not the call of a worker.
LEMMA OthersKeepFiles ==
  ASSUME TypeInv, NobodyRegains, CleanupsSafe, OtherStep \/ UNCHANGED vars
  PROVE  CleanupsSafe' /\ (FilesSafe => FilesSafe')
<1>1. CASE LateCopyLands \/ UNCHANGED vars
  <2>1. UNCHANGED <<rows, documents, removals, clock, pc, claim, work>> /\ objects \subseteq objects'
    BY <1>1 DEF LateCopyLands, vars
  <2>2. ObjectsApart => ObjectsApart'
    BY <1>1 DEF LateCopyLands, vars, ObjectsApart, Taken
  <2>3. \A v \in Workers : Guard(v)'
    BY <2>1, WaitingGuard
  <2>4. \A path : TakenLate(path) => TakenLate(path)'
    BY <2>1 DEF TakenLate
  <2> QED
    BY <2>1, <2>2, <2>3, <2>4, ElseSafe
<1>2. CASE LateRemovalLands
  <2>1. UNCHANGED <<rows, documents, clock, pc, claim, work>>
    BY <1>2 DEF LateRemovalLands
  <2>2. PICK r \in removals : /\ ~r.landed
                            /\ removals' = (removals \ {r}) \cup {[path |-> r.path, landed |-> TRUE]}
                            /\ objects' = Without(r.path)
    BY <1>2 DEF LateRemovalLands
  <2>3. r \in Removal
    BY <2>2 DEF TypeInv, TypeOK
  <2>4. [path |-> r.path, landed |-> TRUE] \in removals'
    BY <2>2
  <2>5. \A o \in objects : o \in objects' \/ TakenLate(o.path)'
    BY <2>2, <2>4 DEF Without, TakenLate
  <2>6. \A path : TakenLate(path) => TakenLate(path)'
    BY <2>2 DEF TakenLate
  <2>7. \A v \in Workers : Guard(v)'
    BY <2>1, WaitingGuard
  <2>8. ObjectsApart => ObjectsApart'
    BY <2>2 DEF ObjectsApart, Without
  <2> QED
    BY <2>1, <2>5, <2>6, <2>7, <2>8, ElseSafe
<1>3. CASE Tick \/ \E s \in Submissions : AdminRetry(s)
  <2>1. UNCHANGED <<documents, objects, removals, pc, claim, work>> /\ TimeMayPass /\ clock' = clock + 1
    BY <1>3 DEF Tick, AdminRetry
  <2>2. \A s \in Submissions : rows[s].status = RECEIVED_STATUS => rows'[s] = rows[s]
    BY <1>3 DEF Tick, AdminRetry, RECEIVED_STATUS, TypeInv, TypeOK
  <2>3. \A v \in Workers : Guard(v)'
    BY <2>1, <2>2, WaitingGuard
  <2>4. (ObjectsApart => ObjectsApart') /\ \A path : TakenLate(path) => TakenLate(path)'
    BY <2>1 DEF ObjectsApart, TakenLate
  <2> QED
    BY <2>1, <2>3, <2>4, ElseSafe
<1> QED
  BY <1>1, <1>2, <1>3 DEF OtherStep

LEMMA NextGuarded ==
  ASSUME TypeInv, Fence, StorageTimeout <= RetryDelay, CleanupsSafe, [Next]_vars
  PROVE  CleanupsSafe'
  BY NextFenced, CallGuarded, OthersKeepFiles DEF Next

LEMMA NextKeepsFiles ==
  ASSUME TypeInv, Fence, CopiesApart, StorageTimeout <= RetryDelay, CleanupsSafe, FilesSafe, [Next]_vars
  PROVE  FilesSafe'
  BY NextFenced, CallSafe, OthersKeepFiles DEF Next

LEMMA InitKeepsFiles == Init => CleanupsSafe /\ FilesSafe
<1>1. Init => ObjectsApart /\ DocumentHasFile
  BY DEF Init, ObjectsApart, DocumentHasFile
<1>2. Init => OneGuarded /\ \A v \in Workers : Guard(v) /\ HoldsCopy(v) /\ Unused(v) /\ OwnUnused(v)
  BY DEF Init, OneGuarded, Guard, HoldsCopy, Holds, Unused, OwnUnused, StorageCallPending
<1> QED
  BY <1>1, <1>2 DEF CleanupsSafe, FilesSafe

\* An attempt about to remove its copy (undoStorageCopy, between the check
\* that no document refers to it and the removal) never has a document of its
\* submission at that name: neither a crash nor a release nor a lease that
\* runs out lets a later attempt file the copy that an earlier one is still
\* cleaning up.  This holds whatever was sent, the same file twice included.
THEOREM CleanupSparesOwnDocument ==
  ASSUME StorageTimeout <= RetryDelay
  PROVE  Spec => [](\A w \in Workers : pc[w] = "Remove" =>
                      \A d \in documents : d.sub = Sub(w) => d.path # CurrentPath(w))
<1>1. Init => TypeInv /\ Fence /\ CleanupsSafe
  BY InitTyped, InitFenced, InitKeepsFiles
<1>2. (TypeInv /\ Fence /\ CleanupsSafe) /\ [Next]_vars => (TypeInv /\ Fence /\ CleanupsSafe)'
  BY NextTyped, NextFenced, NextGuarded
<1>3. CleanupsSafe => \A w \in Workers : pc[w] = "Remove" =>
                        \A d \in documents : d.sub = Sub(w) => d.path # CurrentPath(w)
  BY DEF CleanupsSafe, OwnUnused
<1> QED
  BY <1>1, <1>2, <1>3, PTL DEF Spec

LEMMA FilesAlwaysSafe ==
  ASSUME SentOnce, StorageTimeout <= RetryDelay
  PROVE  Spec => [](TypeInv /\ FilesSafe)
<1>1. Init => TypeInv /\ Fence /\ CleanupsSafe /\ FilesSafe
  BY InitTyped, InitFenced, InitKeepsFiles
<1>2. (TypeInv /\ Fence /\ CleanupsSafe /\ FilesSafe) /\ [Next]_vars => (TypeInv /\ Fence /\ CleanupsSafe /\ FilesSafe)'
  BY NextTyped, NextFenced, NextGuarded, NextKeepsFiles, SameName
<1> QED
  BY <1>1, <1>2, PTL DEF Spec

\* Where no file is sent twice, every documents row has its file, with its
\* checksum, unless a removal at its name that was given up on has landed
\* since: through every crash, release and lost answer no removal that is
\* answered in time (undoStorageCopy) takes what a document refers to,
\* although the reference check and the removal are two calls and all
\* submissions compete for the same names.
THEOREM FiledHasFile ==
  ASSUME SentOnce, StorageTimeout <= RetryDelay
  PROVE  Spec => []DocumentHasFile
<1>1. TypeInv /\ FilesSafe => DocumentHasFile
  BY DEF FilesSafe
<1> QED
  BY <1>1, FilesAlwaysSafe, PTL

=============================================================================
