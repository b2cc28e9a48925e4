----------------------- MODULE DocumentPipelineProofs -----------------------
(***************************************************************************)
(* What DocumentPipeline promises, for every file, every content of the    *)
(* tables and any number of steps of others.  The argument: every decision *)
(* is worked out from the file and from what this attempt has read, which  *)
(* nobody else changes.  What cleared a file for a client's folder         *)
(* therefore still holds when it is placed, and the reason recorded at the *)
(* end is the one that explained the placement.                            *)
(***************************************************************************)
EXTENDS DocumentPipeline, FiniteSetTheorems, TLAPS

\* The parts of seen.
SeenShape ==
  /\ DOMAIN seen = DOMAIN NothingSeen
  /\ seen.passport \in Lookup /\ seen.whatsapp \in Lookup
  /\ seen.checksum \in CHECKSUM_OUTCOME
  /\ seen.placement \in {"CLIENT", "PENDING", "NONE"}
  /\ seen.status \in PROCESSING_STATUS
  /\ seen.pending \in BOOLEAN /\ seen.existingVerified \in BOOLEAN /\ seen.verifiedExists \in BOOLEAN

RecordShape ==
  /\ IsFile(file)
  /\ DOMAIN candidates = Clients /\ \A c \in Clients : IsCandidate(candidates[c])

\* The row is as received until the attempt ends, and a file is placed last.
InOrder ==
  /\ stage # "COMPLETED" => row = Received
  /\ stage \notin {"RECORD_UPDATE", "COMPLETED"} => ~seen.pending

\* What this submission has filed was readable exactly when it is VERIFIED,
\* and a checksum that is known to be its own was filed by it.
FiledAsMeasured ==
  /\ \A d \in Filed : d.verification = "VERIFIED" <=> Measured.band \notin LOW_BANDS
  /\ seen.checksum = "ALREADY_STORED" => Filed # {}

\* What DecidePlacement has cleared for the client's folder.
Cleared ==
  /\ ~Conflicts /\ Identified
  /\ ~HasReviewBlocker(Used, Identity, PoliceDate)
  /\ Resolved.documentType \in DOCUMENT_STORAGE_TYPES
  /\ Used.band \in CLIENT_BANDS

\* The reason that will be recorded explains the placement.
Explained ==
  /\ seen.pending => ReviewReason(seen.status) # None
  /\ ReviewReason(seen.status) = None => seen.status = "DUPLICATE" \/ \E d \in Filed : d.verification = "VERIFIED"

Placing ==
  stage = "PLACEMENT" =>
    /\ seen.placement = "CLIENT" => Cleared
    /\ seen.placement # "CLIENT" => ReviewReason(seen.status) # None

Recording == stage = "RECORD_UPDATE" => Explained

PipelineInv == TypeOK /\ SeenShape /\ RecordShape /\ InOrder /\ FiledAsMeasured /\ Placing /\ Recording

----------------------------------------------------------------------------
(* The rules *)

\* A file gets one of the types, and a type that has a folder comes from the
\* document itself unless the flag for the file name is set.
LEMMA TypeResolved ==
  ASSUME NEW nameType \in DOCUMENT_TYPES, NEW contentType \in DOCUMENT_TYPES, NEW reason
  PROVE  LET resolved == ResolveDocumentType(nameType, contentType, reason)
         IN /\ resolved.documentType \in DOCUMENT_TYPES
            /\ resolved.source \in {"CONTENT", "FILENAME"}
            /\ resolved.filenameMismatch \in BOOLEAN
            /\ resolved.source = "CONTENT" /\ resolved.documentType # "UNKNOWN" => resolved.documentType = contentType
            /\ resolved.documentType = contentType /\ ~resolved.filenameMismatch /\ contentType # "UNKNOWN" =>
                 Family(nameType) \in {"UNKNOWN", Family(contentType)}
  BY DEF ResolveDocumentType, DOCUMENT_TYPES, Family

\* A band, and what a band above UNCLEAR says.
LEMMA BandOfValue ==
  ASSUME NEW value
  PROVE  /\ GetConfidenceBand(value) \in CONFIDENCE_BANDS
         /\ value \in Int /\ GetConfidenceBand(value) \notin LOW_BANDS => value >= 60
  BY DEF GetConfidenceBand, CONFIDENCE_BANDS, LOW_BANDS

\* Confidence is no more than the text and the evidence in it allow.
LEMMA WellRead ==
  ASSUME NEW extraction \in Int, NEW score \in Int, NEW resolved, NEW reason,
         AssessDocumentConfidence(extraction, resolved, score, reason).band \notin LOW_BANDS
  PROVE  extraction >= 60 /\ score >= 3
<1> DEFINE class == GetClassificationConfidence(resolved, score)
<1>1. class \in Int /\ (class >= 60 => score >= 3)
  BY DEF GetClassificationConfidence
<1>2. Least(extraction, class) \in Int /\ Least(extraction, class) <= extraction /\ Least(extraction, class) <= class
  BY <1>1 DEF Least
<1>3. Least(extraction, class) >= 60
  BY <1>2, BandOfValue DEF AssessDocumentConfidence
<1> QED
  BY <1>1, <1>2, <1>3

\* The flags that an assessment sets, and when it asks for a review.
LEMMA Assessed ==
  ASSUME NEW extraction, NEW resolved, NEW score, NEW reason
  PROVE  LET c == AssessDocumentConfidence(extraction, resolved, score, reason)
         IN /\ c.band \in CONFIDENCE_BANDS
            /\ c.reviewRequired <=> c.band \in LOW_BANDS \/ "WRONG_DOCUMENT_SUSPECTED" \in c.flags
            /\ resolved.source = "FILENAME" => "CLASSIFIED_FROM_FILENAME_ONLY" \in c.flags
            /\ resolved.filenameMismatch => "WRONG_DOCUMENT_SUSPECTED" \in c.flags
            /\ c = [band |-> c.band, flags |-> c.flags, reviewRequired |-> c.reviewRequired]
  BY BandOfValue DEF AssessDocumentConfidence

\* Accepting a passport never makes it well read, and takes no flag away.
LEMMA AcceptedIsUnclear ==
  ASSUME NEW c, NEW accepted \in BOOLEAN,
         c = [band |-> c.band, flags |-> c.flags, reviewRequired |-> c.reviewRequired],
         accepted => c.band \in LOW_BANDS
  PROVE  LET used == ApplyPassportAcceptance(c, accepted)
         IN /\ c.band \notin LOW_BANDS => used = c
            /\ used.band \notin LOW_BANDS => used = c
            /\ used = c \/ used.band = "UNCLEAR"
            /\ c.flags \subseteq used.flags
            /\ used = c \/ used.reviewRequired
  BY DEF ApplyPassportAcceptance, LOW_BANDS

\* Whom a file belongs to: identified without a review only by the sender's own
\* number, and for a passport by its number too.
LEMMA IdentityDecided ==
  ASSUME NEW isPassport \in BOOLEAN, NEW confidence, NEW passport \in Lookup, NEW whatsapp \in Lookup
  PROVE  LET identity == DecideIdentity(isPassport, confidence, passport, whatsapp)
         IN /\ identity.client \in Clients \cup {None}
            /\ identity.status = "VERIFIED_MATCH" => identity.client \in Clients
            /\ ClientIdentified(identity) => identity.client \in Clients
            /\ ~ClientIdentified(identity) => identity.reviewRequired
            /\ ClientIdentified(identity) /\ ~identity.reviewRequired =>
                 /\ whatsapp.status = "FOUND" /\ whatsapp.client = identity.client
                 /\ isPassport => passport.status = "FOUND" /\ passport.client = identity.client
  BY PipelineAssumption DEF DecideIdentity, IdentityIs, ClientIdentified, LINKABLE_IDENTITIES, Lookup, LOOKUP_STATUS

\* One match names its client.
LEMMA LookedUp ==
  ASSUME NEW matches \in SUBSET Clients
  PROVE  LookUp(matches) \in Lookup
<1>1. CASE Cardinality(matches) = 1
  <2>1. matches # {}
    BY <1>1, FS_EmptySet
  <2> QED
    BY <1>1, <2>1 DEF LookUp, Lookup
<1>2. CASE Cardinality(matches) # 1
  BY <1>2 DEF LookUp, Lookup, LOOKUP_STATUS
<1> QED
  BY <1>1, <1>2
\* DecidePlacement as the stage STORAGE calls it.
Placed(c, identity, conflicts, policeDate, type, identified, owner, checksum, verifiedExists, verified) ==
  DecidePlacement(DetermineProcessingStatus(c, identity, conflicts, policeDate), c.band, type, identified, owner,
                  checksum, HasReviewBlocker(c, identity, policeDate), verifiedExists, verified)

\* Where a file is placed: in the client's folder only when nothing is left to
\* review, in pending/ only with a review reason.
PlacedWell(c, identity, conflicts, policeDate, type, identified, owner, checksum, verifiedExists, verified) ==
  LET decision == Placed(c, identity, conflicts, policeDate, type, identified, owner, checksum,
                         verifiedExists, verified)
  IN /\ decision.placement \in {"CLIENT", "PENDING", "NONE"}
     /\ decision.processingStatus \in PROCESSING_STATUS
     /\ decision.alreadyStored \in BOOLEAN
     /\ decision.alreadyStored => checksum = "ALREADY_STORED"
     /\ decision.placement = "NONE" => decision.processingStatus = "DUPLICATE"
     /\ decision.placement = "CLIENT" /\ ~decision.alreadyStored =>
          /\ ~conflicts /\ identified
          /\ ~HasReviewBlocker(c, identity, policeDate)
          /\ type \in DOCUMENT_STORAGE_TYPES
          /\ c.band \in CLIENT_BANDS
     /\ decision.placement = "PENDING" =>
          DeriveReviewReason(decision.processingStatus, type, c, identity, conflicts, policeDate,
                             checksum, verified, verifiedExists) # None

LEMMA PlacementDecided ==
  ASSUME NEW c, NEW identity, NEW conflicts \in BOOLEAN, NEW policeDate, NEW type \in DOCUMENT_TYPES,
         NEW identified \in BOOLEAN, NEW owner, NEW checksum \in CHECKSUM_OUTCOME,
         NEW verifiedExists \in BOOLEAN, NEW verified \in BOOLEAN,
         c.band \in CONFIDENCE_BANDS,
         c.reviewRequired => c.band \in LOW_BANDS \/ "WRONG_DOCUMENT_SUSPECTED" \in c.flags,
         ~identified => identity.reviewRequired
  PROVE  PlacedWell(c, identity, conflicts, policeDate, type, identified, owner, checksum, verifiedExists, verified)
<1> DEFINE status == DetermineProcessingStatus(c, identity, conflicts, policeDate)
           blocked == HasReviewBlocker(c, identity, policeDate)
           decision == Placed(c, identity, conflicts, policeDate, type, identified, owner, checksum,
                              verifiedExists, verified)
           reason == DeriveReviewReason(decision.processingStatus, type, c, identity, conflicts, policeDate,
                                        checksum, verified, verifiedExists)
<1>1. /\ status \in CONFIDENCE_BANDS \cup {"CONFLICT", "MANUAL_REVIEW"}
      /\ conflicts => status = "CONFLICT"
      /\ ~conflicts /\ identity.status # "IDENTITY_CONFLICT" /\ ~identity.reviewRequired /\ ~c.reviewRequired
         /\ policeDate \notin POLICE_DATE_NEEDS_REVIEW => status = c.band
  BY DEF DetermineProcessingStatus, CONFIDENCE_BANDS
<1>2. blocked \in BOOLEAN
  BY DEF HasReviewBlocker
<1>7. decision = DecidePlacement(status, c.band, type, identified, owner, checksum, blocked, verifiedExists, verified)
  BY DEF Placed
<1> SUFFICES
      /\ decision.placement \in {"CLIENT", "PENDING", "NONE"}
      /\ decision.processingStatus \in PROCESSING_STATUS
      /\ decision.alreadyStored \in BOOLEAN
      /\ decision.alreadyStored => checksum = "ALREADY_STORED"
      /\ decision.placement = "NONE" => decision.processingStatus = "DUPLICATE"
      /\ decision.placement = "CLIENT" /\ ~decision.alreadyStored =>
           ~conflicts /\ identified /\ ~blocked /\ type \in DOCUMENT_STORAGE_TYPES /\ c.band \in CLIENT_BANDS
      /\ decision.placement = "PENDING" => reason # None
  BY DEF PlacedWell
<1> HIDE DEF status, blocked, decision
<1>8. /\ reason = None => decision.processingStatus # "FAILED"
      /\ reason = None /\ decision.processingStatus = "DUPLICATE" => ~verified
      /\ reason = None /\ decision.processingStatus # "DUPLICATE" =>
           /\ checksum # "CROSS_CLIENT_CONFLICT"
           /\ identity.status # "IDENTITY_CONFLICT" /\ ~identity.reviewRequired
           /\ ~conflicts /\ ~verifiedExists
           /\ type # "UNKNOWN" /\ REVIEW_BLOCKING_FLAGS \cap c.flags = {}
           /\ policeDate \notin POLICE_DATE_NEEDS_REVIEW
           /\ c.band \notin LOW_BANDS
  BY DEF DeriveReviewReason, None, REVIEW_BLOCKING_FLAGS
<1>3. CASE checksum = "ALREADY_STORED"
  <2>1. decision.placement = "CLIENT" /\ decision.processingStatus = status /\ decision.alreadyStored = TRUE
    BY <1>3, <1>7 DEF DecidePlacement, PlacementIs
  <2> QED
    BY <1>1, <1>3, <2>1 DEF PROCESSING_STATUS
<1>4. CASE checksum = "DUPLICATE"
  <2>1. /\ decision.placement \in {"PENDING", "NONE"} /\ decision.processingStatus = "DUPLICATE"
        /\ decision.placement = "PENDING" => verified
        /\ decision.alreadyStored = FALSE
    BY <1>4, <1>7 DEF DecidePlacement, PlacementIs
  <2>2. decision.placement = "PENDING" => reason # None
    BY <1>8, <2>1
  <2> QED
    BY <2>1, <2>2 DEF PROCESSING_STATUS
<1>5. CASE checksum = "CROSS_CLIENT_CONFLICT"
  <2>1. decision.placement = "PENDING" /\ decision.processingStatus = "CONFLICT" /\ decision.alreadyStored = FALSE
    BY <1>5, <1>7 DEF DecidePlacement, PlacementIs
  <2>2. reason # None
    BY <1>8, <1>5, <2>1
  <2> QED
    BY <2>1, <2>2 DEF PROCESSING_STATUS
<1>6. CASE checksum \in {None, "NEW"}
  <2> DEFINE held == \/ status \in {"CONFLICT", "UNDEFINED", "MANUAL_REVIEW"}
                     \/ blocked \/ ~identified \/ type \notin DOCUMENT_STORAGE_TYPES
                     \/ c.band \notin CLIENT_BANDS \/ verifiedExists
  <2>1. /\ decision.processingStatus = status /\ decision.alreadyStored = FALSE
        /\ decision.placement = IF held THEN "PENDING" ELSE "CLIENT"
    BY <1>6, <1>7 DEF DecidePlacement, PlacementIs, None
  <2>2. ASSUME held, reason = None PROVE FALSE
    <3>1. status # "DUPLICATE"
      BY <1>1 DEF CONFIDENCE_BANDS
    <3>2. /\ identity.status # "IDENTITY_CONFLICT" /\ ~identity.reviewRequired
          /\ ~conflicts /\ ~verifiedExists
          /\ type # "UNKNOWN" /\ REVIEW_BLOCKING_FLAGS \cap c.flags = {}
          /\ policeDate \notin POLICE_DATE_NEEDS_REVIEW
          /\ c.band \notin LOW_BANDS
      BY <1>8, <2>1, <2>2, <3>1
    <3>3. "WRONG_DOCUMENT_SUSPECTED" \notin c.flags
      BY <3>2 DEF REVIEW_BLOCKING_FLAGS
    <3>4. status = c.band /\ ~blocked
      BY <1>1, <3>2, <3>3 DEF blocked, HasReviewBlocker
    <3> QED
      BY <2>2, <3>2, <3>4 DEF LOW_BANDS, CLIENT_BANDS, CONFIDENCE_BANDS, DOCUMENT_STORAGE_TYPES
  <2>3. status \in PROCESSING_STATUS
    BY <1>1 DEF PROCESSING_STATUS
  <2>4. ~held => ~conflicts /\ identified /\ ~blocked /\ type \in DOCUMENT_STORAGE_TYPES /\ c.band \in CLIENT_BANDS
    BY <1>1
  <2> QED
    BY <2>1, <2>2, <2>3, <2>4
<1> QED
  BY <1>3, <1>4, <1>5, <1>6 DEF CHECKSUM_OUTCOME
----------------------------------------------------------------------------
(* The decisions about this file *)

LEMMA FileFacts ==
  ASSUME IsFile(file)
  PROVE  /\ Resolved.documentType \in DOCUMENT_TYPES
         /\ Measured.band \in CONFIDENCE_BANDS
         /\ Used.band \in CONFIDENCE_BANDS
         /\ Measured.band \notin LOW_BANDS <=> Used.band \notin LOW_BANDS
         /\ Measured.flags \subseteq Used.flags
         /\ Used.reviewRequired => Used.band \in LOW_BANDS \/ "WRONG_DOCUMENT_SUSPECTED" \in Used.flags
<1> DEFINE m == Measured
           accepted == Accepted
<1>1. Resolved.documentType \in DOCUMENT_TYPES
  BY TypeResolved DEF Resolved, IsFile
<1>2. /\ m.band \in CONFIDENCE_BANDS
      /\ m.reviewRequired <=> m.band \in LOW_BANDS \/ "WRONG_DOCUMENT_SUSPECTED" \in m.flags
      /\ m = [band |-> m.band, flags |-> m.flags, reviewRequired |-> m.reviewRequired]
  BY Assessed DEF Measured
<1>3. accepted \in BOOLEAN /\ (accepted => m.band \in LOW_BANDS)
  BY DEF Accepted, AcceptsPassport, Reconciles
<1>4. Used = ApplyPassportAcceptance(m, accepted)
  BY DEF Used
<1> HIDE DEF m, accepted
<1>5. /\ m.band \notin LOW_BANDS => Used = m
      /\ Used.band \notin LOW_BANDS => Used = m
      /\ Used = m \/ Used.band = "UNCLEAR"
      /\ m.flags \subseteq Used.flags
  BY <1>2, <1>3, <1>4, AcceptedIsUnclear
<1> QED
  BY <1>1, <1>2, <1>5 DEF m, CONFIDENCE_BANDS, LOW_BANDS

LEMMA IdentityFacts ==
  ASSUME seen.passport \in Lookup, seen.whatsapp \in Lookup
  PROVE  /\ Identity.client \in Clients \cup {None}
         /\ Identity.status = "VERIFIED_MATCH" => Identity.client \in Clients
         /\ Identified => Identity.client \in Clients
         /\ ~Identified => Identity.reviewRequired
         /\ Identified /\ ~Identity.reviewRequired =>
              /\ seen.whatsapp.status = "FOUND" /\ seen.whatsapp.client = Identity.client
              /\ IsPassport => seen.passport.status = "FOUND" /\ seen.passport.client = Identity.client
<1>1. IsPassport \in BOOLEAN
  BY DEF IsPassport
<1> QED
  BY <1>1, IdentityDecided DEF Identity, Identified

\* What was worked out from the file stays so while the file is the same, and
\* what was worked out from the lookups while these are.
LEMMA SameFile ==
  ASSUME file' = file
  PROVE  /\ Resolved' = Resolved /\ IsPassport' = IsPassport /\ Measured' = Measured
         /\ PoliceDate' = PoliceDate /\ PassportId' = PassportId
  BY DEF Resolved, IsPassport, Measured, PoliceDate, PassportId

LEMMA SameDecisions ==
  ASSUME file' = file,
         seen'.passport = seen.passport, seen'.whatsapp = seen.whatsapp, seen'.columns = seen.columns
  PROVE  /\ Identity' = Identity /\ (Identified' <=> Identified)
         /\ (Conflicts' <=> Conflicts) /\ Used' = Used /\ (Cleared' <=> Cleared)
<1>1. /\ Resolved' = Resolved /\ IsPassport' = IsPassport /\ Measured' = Measured
      /\ PoliceDate' = PoliceDate /\ PassportId' = PassportId
  BY SameFile
<1>2. Identity' = Identity
  BY <1>1 DEF Identity, Confidence
<1>3. Identified' <=> Identified
  BY <1>2 DEF Identified
<1>4. Reconciles' <=> Reconciles
  BY <1>1, <1>2 DEF Reconciles
<1>5. Outcome' = Outcome
  BY <1>4 DEF Outcome, Confidence
<1>6. Conflicts' <=> Conflicts
  BY <1>5 DEF Conflicts
<1>7. Accepted' <=> Accepted
  BY <1>1, <1>2, <1>4, <1>5 DEF Accepted, Band, Confidence
<1>8. Used' = Used
  BY <1>1, <1>7 DEF Used, ApplyPassportAcceptance
<1>9. Cleared' <=> Cleared
  BY <1>1, <1>2, <1>3, <1>6, <1>8 DEF Cleared
<1> QED
  BY <1>2, <1>3, <1>6, <1>8, <1>9

\* The reason stays so while what else it looks at is the same.
LEMMA SameReason ==
  ASSUME file' = file,
         seen'.passport = seen.passport, seen'.whatsapp = seen.whatsapp, seen'.columns = seen.columns,
         seen'.checksum = seen.checksum, seen'.existingVerified = seen.existingVerified,
         seen'.verifiedExists = seen.verifiedExists, seen'.status = seen.status
  PROVE  ReviewReason(seen.status)' = ReviewReason(seen.status)
<1>1. Resolved' = Resolved /\ PoliceDate' = PoliceDate
  BY SameFile
<1>2. Identity' = Identity /\ (Conflicts' <=> Conflicts) /\ Used' = Used
  BY SameDecisions
<1> QED
  BY <1>1, <1>2 DEF ReviewReason, DeriveReviewReason
----------------------------------------------------------------------------
(* Steps that place and record nothing *)

Earlier == {"TEXT_EXTRACTION", "IDENTITY", "WHATSAPP_LOOKUP", "DUPLICATE_CHECK", "RECONCILIATION", "STORAGE"}

LEMMA StillMeasured ==
  ASSUME FiledAsMeasured, file' = file, Filed' = Filed, seen'.checksum = "ALREADY_STORED" => Filed # {}
  PROVE  FiledAsMeasured'
<1>1. Measured' = Measured
  BY SameFile
<1> QED
  BY <1>1 DEF FiledAsMeasured

LEMMA EarlyStep ==
  ASSUME PipelineInv, stage' \in Earlier, row' = Received,
         UNCHANGED <<file, documents>>, RecordShape', SeenShape', ~seen'.pending,
         seen'.checksum = "ALREADY_STORED" => Filed # {}
  PROVE  PipelineInv'
<1>1. Filed' = Filed
  BY DEF Filed
<1>2. FiledAsMeasured'
  BY <1>1, StillMeasured DEF PipelineInv
<1>3. TypeOK'
  BY DEF TypeOK, SeenShape, Earlier, Stages, Received
<1>4. InOrder' /\ Placing' /\ Recording'
  BY DEF InOrder, Placing, Recording, Earlier
<1> QED
  BY <1>2, <1>3, <1>4 DEF PipelineInv

LEMMA RecordsUnread ==
  ASSUME RecordShape, file' = file, candidates' = candidates
  PROVE  RecordShape'
  BY DEF RecordShape

LEMMA ReadSound == ASSUME PipelineInv, Read PROVE PipelineInv'
<1>1. stage' \in Earlier /\ row' = Received /\ RecordShape' /\ SeenShape' /\ ~seen'.pending
  BY RecordsUnread DEF Read, PipelineInv, InOrder, SeenShape, Earlier
<1> QED
  BY <1>1, EarlyStep DEF Read, PipelineInv, FiledAsMeasured

LEMMA LookUpPassportSound == ASSUME PipelineInv, LookUpPassport PROVE PipelineInv'
<1> DEFINE found == IF PassportId.value = None THEN [status |-> "INVALID_INPUT", client |-> None]
                    ELSE LookUp({c \in Clients : candidates[c].passport = PassportId.value})
<1>1. stage' \in Earlier /\ row' = Received /\ RecordShape'
  BY RecordsUnread DEF LookUpPassport, PipelineInv, InOrder, Earlier
<1>2. found \in Lookup
  <2>1. [status |-> "INVALID_INPUT", client |-> None] \in Lookup
    BY DEF Lookup, LOOKUP_STATUS
  <2>2. LookUp({c \in Clients : candidates[c].passport = PassportId.value}) \in Lookup
    BY LookedUp
  <2> QED
    BY <2>1, <2>2
<1>3. /\ DOMAIN seen' = DOMAIN seen
      /\ seen'.passport = IF IsPassport THEN found ELSE seen.passport
      /\ seen'.whatsapp = seen.whatsapp /\ seen'.checksum = seen.checksum
      /\ seen'.existingVerified = seen.existingVerified /\ seen'.verifiedExists = seen.verifiedExists
      /\ seen'.placement = seen.placement /\ seen'.status = seen.status /\ seen'.pending = seen.pending
  BY DEF LookUpPassport, PipelineInv, SeenShape, NothingSeen
<1> HIDE DEF found
<1>4. SeenShape' /\ ~seen'.pending
  BY <1>2, <1>3 DEF PipelineInv, SeenShape, InOrder, LookUpPassport
<1> QED
  BY <1>1, <1>3, <1>4, EarlyStep DEF LookUpPassport, PipelineInv, FiledAsMeasured

LEMMA LookUpWhatsappSound == ASSUME PipelineInv, LookUpWhatsapp PROVE PipelineInv'
<1> DEFINE found == LookUp({c \in Clients : candidates[c].whatsapp})
<1>1. stage' \in Earlier /\ row' = Received /\ RecordShape'
  BY RecordsUnread DEF LookUpWhatsapp, PipelineInv, InOrder, Earlier
<1>2. found \in Lookup
  BY LookedUp
<1>3. /\ DOMAIN seen' = DOMAIN seen
      /\ seen'.whatsapp = found
      /\ seen'.passport = seen.passport /\ seen'.checksum = seen.checksum
      /\ seen'.existingVerified = seen.existingVerified /\ seen'.verifiedExists = seen.verifiedExists
      /\ seen'.placement = seen.placement /\ seen'.status = seen.status /\ seen'.pending = seen.pending
  BY DEF LookUpWhatsapp, PipelineInv, SeenShape, NothingSeen
<1> HIDE DEF found
<1>4. SeenShape' /\ ~seen'.pending
  BY <1>2, <1>3 DEF PipelineInv, SeenShape, InOrder, LookUpWhatsapp
<1> QED
  BY <1>1, <1>3, <1>4, EarlyStep DEF LookUpWhatsapp, PipelineInv, FiledAsMeasured

\* Only a document of this submission makes a checksum its own.
LEMMA CheckDuplicateSound == ASSUME PipelineInv, CheckDuplicate PROVE PipelineInv'
<1> DEFINE outcome == CheckClientChecksum(documents, Identity.client, ThisFile, This)
           verified == \E d \in SameClient(documents, Identity.client, ThisFile) : d.verification = "VERIFIED"
<1>1. stage' \in Earlier /\ row' = Received /\ RecordShape'
  BY RecordsUnread DEF CheckDuplicate, PipelineInv, InOrder, Earlier
<1>2. outcome \in CHECKSUM_OUTCOME /\ (outcome = "ALREADY_STORED" => Filed # {}) /\ verified \in BOOLEAN
  BY DEF CheckClientChecksum, CHECKSUM_OUTCOME, SameClient, Filed
<1>3. /\ DOMAIN seen' = DOMAIN seen
      /\ seen'.checksum = IF Identified THEN outcome ELSE seen.checksum
      /\ seen'.existingVerified = IF Identified THEN verified ELSE seen.existingVerified
      /\ seen'.passport = seen.passport /\ seen'.whatsapp = seen.whatsapp /\ seen'.verifiedExists = seen.verifiedExists
      /\ seen'.placement = seen.placement /\ seen'.status = seen.status /\ seen'.pending = seen.pending
  BY DEF CheckDuplicate, PipelineInv, SeenShape, NothingSeen
<1> HIDE DEF outcome, verified
<1>4. SeenShape' /\ ~seen'.pending
  BY <1>2, <1>3 DEF PipelineInv, SeenShape, InOrder, CheckDuplicate
<1> QED
  BY <1>1, <1>2, <1>3, <1>4, EarlyStep DEF CheckDuplicate, PipelineInv, FiledAsMeasured

\* Columns are filled of one client, and only while they are empty.
LEMMA ReconcileFills ==
  ASSUME PipelineInv, Reconcile
  PROVE  /\ RecordShape'
         /\ \A c \in Clients, column \in RECORD_COLUMNS :
              candidates[c].columns[column] # None => candidates'[c].columns[column] = candidates[c].columns[column]
<1>1. CASE Reconciles /\ AllowsWrites(seen.checksum) /\ Identity.status = "VERIFIED_MATCH"
  <2> DEFINE e == Identity.client
             columns == [column \in RECORD_COLUMNS |->
                           IF column \in Filled(e) THEN Merged(file.fields[column]).value
                           ELSE candidates[e].columns[column]]
  <2>1. e \in Clients /\ DOMAIN candidates = Clients /\ \A c \in Clients : IsCandidate(candidates[c])
    BY <1>1, IdentityFacts DEF PipelineInv, TypeOK, RecordShape
  <2>2. candidates' = [candidates EXCEPT ![e].columns = columns]
    BY <1>1 DEF Reconcile
  <2>3. \A column \in RECORD_COLUMNS : candidates[e].columns[column] # None => columns[column] = candidates[e].columns[column]
    BY DEF Filled
  <2>4. DOMAIN columns = RECORD_COLUMNS
    OBVIOUS
  <2> HIDE DEF columns, e
  <2>5. /\ DOMAIN candidates' = Clients
        /\ candidates'[e] = [candidates[e] EXCEPT !.columns = columns]
        /\ \A c \in Clients \ {e} : candidates'[c] = candidates[c]
    BY <2>1, <2>2
  <2>6. DOMAIN candidates'[e] = DOMAIN candidates[e] /\ candidates'[e].columns = columns
    BY <2>1, <2>5 DEF IsCandidate
  <2>7. \A c \in Clients : IsCandidate(candidates'[c])
    BY <2>1, <2>4, <2>5, <2>6 DEF IsCandidate
  <2> QED
    BY <2>1, <2>3, <2>5, <2>6, <2>7 DEF RecordShape, PipelineInv, Reconcile
<1>2. CASE ~(Reconciles /\ AllowsWrites(seen.checksum) /\ Identity.status = "VERIFIED_MATCH")
  BY <1>2, RecordsUnread DEF Reconcile, PipelineInv
<1> QED
  BY <1>1, <1>2

LEMMA ReconcileSound == ASSUME PipelineInv, Reconcile PROVE PipelineInv'
<1>1. stage' \in Earlier /\ row' = Received /\ RecordShape' /\ SeenShape' /\ ~seen'.pending
  BY ReconcileFills DEF Reconcile, PipelineInv, InOrder, SeenShape, Earlier
<1> QED
  BY <1>1, EarlyStep DEF Reconcile, PipelineInv, FiledAsMeasured

\* An attempt begins, again, with nothing seen.
LEMMA StartsAgain == ASSUME PipelineInv, Interrupted \/ AdminRetry PROVE PipelineInv'
<1>1. SeenShape' /\ ~seen'.pending /\ seen'.checksum = None
  <2>1. seen' = NothingSeen
    BY DEF Interrupted, AdminRetry
  <2>2. NoLookup \in Lookup
    BY DEF NoLookup, Lookup, LOOKUP_STATUS
  <2>3. None \in CHECKSUM_OUTCOME /\ "FAILED" \in PROCESSING_STATUS
    BY DEF CHECKSUM_OUTCOME, PROCESSING_STATUS
  <2> QED
    BY <2>1, <2>2, <2>3 DEF SeenShape, NothingSeen
<1>2. stage' \in Earlier /\ row' = Received /\ RecordShape' /\ UNCHANGED <<file, documents>>
  BY RecordsUnread DEF Interrupted, AdminRetry, PipelineInv, InOrder, Earlier
<1> QED
  BY <1>1, <1>2, EarlyStep DEF None
----------------------------------------------------------------------------
(* Steps that place and record, and everyone else's *)

\* The placement decided on is cleared or explained.
LEMMA DecideSound == ASSUME PipelineInv, Decide PROVE PipelineInv'
<1> DEFINE exists == /\ Identified /\ AllowsWrites(seen.checksum) /\ Used.band \in CLIENT_BANDS
                     /\ HasVerifiedDocument(documents, Identity.client, Resolved.documentType)
           decision == Placed(Used, Identity, Conflicts, PoliceDate, Resolved.documentType, Identified, Identity.client,
                              seen.checksum, exists, seen.existingVerified)
           reason == DeriveReviewReason(decision.processingStatus, Resolved.documentType, Used, Identity, Conflicts,
                                        PoliceDate, seen.checksum, seen.existingVerified, exists)
<1>1. /\ Identified \in BOOLEAN /\ Conflicts \in BOOLEAN /\ exists \in BOOLEAN
      /\ seen.checksum \in CHECKSUM_OUTCOME /\ seen.existingVerified \in BOOLEAN
      /\ IsFile(file) /\ seen.passport \in Lookup /\ seen.whatsapp \in Lookup
      /\ stage = "STORAGE" /\ row = Received /\ seen.pending = FALSE
  BY DEF PipelineInv, SeenShape, RecordShape, InOrder, Decide, Conflicts, Identified, ClientIdentified
<1>2. /\ seen' = [seen EXCEPT !.verifiedExists = exists, !.placement = decision.placement,
                              !.status = decision.processingStatus]
      /\ stage' = IF decision.placement = "NONE" \/ decision.alreadyStored THEN "RECORD_UPDATE" ELSE "PLACEMENT"
      /\ UNCHANGED <<file, candidates, documents, earlierPending, row>>
  BY DEF Decide, Placed
<1>3. /\ decision.placement \in {"CLIENT", "PENDING", "NONE"}
      /\ decision.processingStatus \in PROCESSING_STATUS
      /\ decision.alreadyStored \in BOOLEAN
      /\ decision.alreadyStored => seen.checksum = "ALREADY_STORED"
      /\ decision.placement = "NONE" => decision.processingStatus = "DUPLICATE"
      /\ decision.placement = "CLIENT" /\ ~decision.alreadyStored => Cleared
      /\ decision.placement = "PENDING" => reason # None
  <2>1. /\ Used.band \in CONFIDENCE_BANDS /\ Resolved.documentType \in DOCUMENT_TYPES
        /\ Used.reviewRequired => Used.band \in LOW_BANDS \/ "WRONG_DOCUMENT_SUSPECTED" \in Used.flags
        /\ ~Identified => Identity.reviewRequired
    BY <1>1, FileFacts, IdentityFacts
  <2> HIDE DEF exists
  <2>2. PICK k \in BOOLEAN, i \in BOOLEAN, e \in BOOLEAN : (k <=> Conflicts) /\ (i <=> Identified) /\ (e <=> exists)
    BY <1>1
  <2>3. decision = Placed(Used, Identity, k, PoliceDate, Resolved.documentType, i, Identity.client, seen.checksum,
                          e, seen.existingVerified)
    BY <1>1, <2>2
  <2> DEFINE p == Placed(Used, Identity, k, PoliceDate, Resolved.documentType, i, Identity.client, seen.checksum,
                         e, seen.existingVerified)
             r == DeriveReviewReason(p.processingStatus, Resolved.documentType, Used, Identity, k,
                                     PoliceDate, seen.checksum, seen.existingVerified, e)
  <2>4. /\ p.placement \in {"CLIENT", "PENDING", "NONE"}
        /\ p.processingStatus \in PROCESSING_STATUS
        /\ p.alreadyStored \in BOOLEAN
        /\ p.alreadyStored => seen.checksum = "ALREADY_STORED"
        /\ p.placement = "NONE" => p.processingStatus = "DUPLICATE"
        /\ p.placement = "CLIENT" /\ ~p.alreadyStored =>
             /\ ~k /\ i
             /\ ~HasReviewBlocker(Used, Identity, PoliceDate)
             /\ Resolved.documentType \in DOCUMENT_STORAGE_TYPES
             /\ Used.band \in CLIENT_BANDS
        /\ p.placement = "PENDING" => r # None
    <3>1. PlacedWell(Used, Identity, k, PoliceDate, Resolved.documentType, i, Identity.client, seen.checksum,
                     e, seen.existingVerified)
      BY <1>1, <2>1, <2>2, PlacementDecided
    <3> QED
      BY <3>1 DEF PlacedWell
  <2>5. r = reason
    BY <2>2, <2>3 DEF DeriveReviewReason
  <2> HIDE DEF decision, p, r
  <2> QED
    BY <2>2, <2>3, <2>4, <2>5 DEF Cleared, p
<1>4. reason = None => decision.processingStatus = "DUPLICATE" \/ Used.band \notin LOW_BANDS
  <2> HIDE DEF exists, decision
  <2> QED
    BY DEF DeriveReviewReason, None
<1> HIDE DEF exists, decision
<1>5. /\ DOMAIN seen' = DOMAIN seen
      /\ seen'.verifiedExists = exists /\ seen'.placement = decision.placement
      /\ seen'.status = decision.processingStatus
      /\ seen'.passport = seen.passport /\ seen'.whatsapp = seen.whatsapp /\ seen'.columns = seen.columns
      /\ seen'.checksum = seen.checksum /\ seen'.existingVerified = seen.existingVerified
      /\ seen'.pending = seen.pending
  BY <1>2 DEF PipelineInv, SeenShape, NothingSeen
<1>6. /\ Resolved' = Resolved /\ PoliceDate' = PoliceDate /\ Identity' = Identity
      /\ (Conflicts' <=> Conflicts) /\ Used' = Used /\ (Cleared' <=> Cleared)
  BY <1>2, <1>5, SameFile, SameDecisions
<1>7. ReviewReason(seen.status)' = reason
  BY <1>5, <1>6 DEF ReviewReason, DeriveReviewReason
<1> HIDE DEF reason
<1>8. SeenShape'
  BY <1>1, <1>3, <1>5 DEF PipelineInv, SeenShape
<1>9. RecordShape' /\ TypeOK'
  BY <1>2, <1>5, <1>8, RecordsUnread DEF PipelineInv, TypeOK, SeenShape, Stages
<1>10. FiledAsMeasured' /\ Filed' = Filed
  BY <1>2, <1>5, StillMeasured DEF PipelineInv, Filed, FiledAsMeasured
<1>11. InOrder'
  BY <1>1, <1>2, <1>5 DEF InOrder
<1>12. Placing'
  BY <1>2, <1>3, <1>5, <1>6, <1>7 DEF Placing
<1>13. Recording'
  <2>1. SUFFICES ASSUME stage' = "RECORD_UPDATE", reason = None, decision.processingStatus # "DUPLICATE"
                 PROVE  \E d \in Filed' : d.verification = "VERIFIED"
    BY <1>1, <1>5, <1>7 DEF Recording, Explained
  <2>2. seen.checksum = "ALREADY_STORED"
    BY <1>2, <1>3, <2>1
  <2>3. Measured.band \notin LOW_BANDS
    BY <1>1, <1>4, <2>1, FileFacts
  <2> QED
    BY <1>10, <2>2, <2>3 DEF PipelineInv, FiledAsMeasured
<1> QED
  BY <1>8, <1>9, <1>10, <1>11, <1>12, <1>13 DEF PipelineInv

\* What is filed is VERIFIED exactly when the file was readable by itself.
LEMMA StoreSound ==
  ASSUME PipelineInv, Place, seen.placement = "CLIENT"
  PROVE  PipelineInv'
<1>1. /\ Cleared /\ row = Received /\ seen.pending = FALSE /\ IsFile(file) /\ stage' = "RECORD_UPDATE"
      /\ UNCHANGED <<file, candidates, earlierPending, row>> /\ RecordShape'
  BY RecordsUnread DEF Place, PipelineInv, Placing, InOrder, RecordShape, SeenShape
<1>2. Measured' = Measured
  BY <1>1, SameFile
<1>3. CASE SameClient(documents, Identity.client, ThisFile) = {}
  <2>1. documents' = documents \cup {NewDocument} /\ seen' = seen
    BY <1>3 DEF Place, StoreForClient
  <2>2. Filed' = Filed \cup {NewDocument}
    BY <2>1 DEF Filed, NewDocument
  <2>3. NewDocument.verification = "VERIFIED" <=> Measured.band \notin LOW_BANDS
    BY <1>1, FileFacts DEF Cleared, NewDocument, VerificationStatusForBand, CLIENT_BANDS, CONFIDENCE_BANDS, LOW_BANDS
  <2>4. FiledAsMeasured'
    BY <1>2, <2>1, <2>2, <2>3 DEF PipelineInv, FiledAsMeasured
  <2>5. ReviewReason(seen.status)' = ReviewReason(seen.status)
    BY <1>1, <2>1, SameReason
  <2>6. ASSUME ReviewReason(seen.status) = None, seen.status # "DUPLICATE"
        PROVE  NewDocument.verification = "VERIFIED"
    <3>1. Used.band \notin LOW_BANDS
      BY <2>6 DEF ReviewReason, DeriveReviewReason, None
    <3> QED
      BY <1>1, <2>3, <3>1, FileFacts
  <2>7. Recording'
    BY <1>1, <2>1, <2>2, <2>5, <2>6 DEF Recording, Explained
  <2>8. SeenShape' /\ TypeOK' /\ InOrder' /\ Placing'
    BY <1>1, <2>1 DEF PipelineInv, SeenShape, TypeOK, Stages, InOrder, Placing
  <2> QED
    BY <1>1, <2>4, <2>7, <2>8 DEF PipelineInv
<1>4. CASE SameClient(documents, Identity.client, ThisFile) # {}
  <2>1. documents' = documents /\ seen' = [seen EXCEPT !.placement = "NONE", !.status = "DUPLICATE"]
    BY <1>4 DEF Place, StoreForClient
  <2>2. /\ DOMAIN seen' = DOMAIN seen
        /\ seen'.placement = "NONE" /\ seen'.status = "DUPLICATE"
        /\ seen'.passport = seen.passport /\ seen'.whatsapp = seen.whatsapp
        /\ seen'.checksum = seen.checksum /\ seen'.existingVerified = seen.existingVerified
        /\ seen'.verifiedExists = seen.verifiedExists /\ seen'.pending = seen.pending
    BY <2>1 DEF PipelineInv, SeenShape, NothingSeen
  <2>3. FiledAsMeasured'
    BY <1>1, <2>1, <2>2, StillMeasured DEF PipelineInv, FiledAsMeasured, Filed
  <2>4. SeenShape'
    BY <2>2 DEF PipelineInv, SeenShape, PROCESSING_STATUS
  <2>5. TypeOK' /\ InOrder' /\ Placing' /\ Recording'
    BY <1>1, <2>2, <2>4 DEF PipelineInv, SeenShape, TypeOK, Stages, InOrder, Placing, Recording, Explained
  <2> QED
    BY <1>1, <2>3, <2>4, <2>5 DEF PipelineInv
<1> QED
  BY <1>3, <1>4

\* What is copied to pending/ has a reason.
LEMMA PendingSound ==
  ASSUME PipelineInv, Place, seen.placement # "CLIENT"
  PROVE  PipelineInv'
<1>1. /\ ReviewReason(seen.status) # None /\ row = Received /\ seen.pending = FALSE /\ stage' = "RECORD_UPDATE"
      /\ UNCHANGED <<file, candidates, documents, earlierPending, row>> /\ RecordShape'
  BY RecordsUnread DEF Place, PlaceInPending, PipelineInv, Placing, InOrder, SeenShape
<1>2. /\ DOMAIN seen' = DOMAIN seen
      /\ seen'.passport = seen.passport /\ seen'.whatsapp = seen.whatsapp /\ seen'.columns = seen.columns
      /\ seen'.checksum = seen.checksum /\ seen'.existingVerified = seen.existingVerified
      /\ seen'.verifiedExists = seen.verifiedExists
      /\ \/ seen'.placement = "NONE" /\ seen'.status = "DUPLICATE" /\ seen'.pending = FALSE
         \/ seen'.placement = seen.placement /\ seen'.status = seen.status /\ seen'.pending = TRUE
  BY <1>1 DEF Place, PlaceInPending, PipelineInv, SeenShape, NothingSeen
<1>3. FiledAsMeasured'
  BY <1>1, <1>2, StillMeasured DEF PipelineInv, FiledAsMeasured, Filed
<1>4. SeenShape'
  BY <1>2 DEF PipelineInv, SeenShape, PROCESSING_STATUS
<1>5. TypeOK' /\ InOrder' /\ Placing'
  BY <1>1, <1>2, <1>4 DEF PipelineInv, SeenShape, TypeOK, Stages, InOrder, Placing
<1>6. seen'.status = seen.status => ReviewReason(seen.status)' # None
  BY <1>1, <1>2, SameReason
<1>7. Recording'
  BY <1>2, <1>6 DEF Recording, Explained
<1> QED
  BY <1>1, <1>3, <1>4, <1>5, <1>7 DEF PipelineInv

\* The recorded row repeats what explained the placement.
LEMMA Recorded ==
  ASSUME PipelineInv, RecordResult \/ Fails
  PROVE  PipelineInv' /\ NothingWaitsUnnoticed'
<1>1. /\ stage' = "COMPLETED" /\ UNCHANGED <<file, seen, candidates, documents, earlierPending>>
      /\ row = Received /\ row.pending = FALSE
  BY DEF RecordResult, Fails, PipelineInv, InOrder, Received
<1>2. /\ row'.type \in DOCUMENT_TYPES \cup {"UNCLASSIFIED"}
      /\ row'.client \in Clients \cup {None}
      /\ row'.status \in PROCESSING_STATUS
      /\ row'.pending = (seen.pending \/ FALSE)
  <2>1. Resolved.documentType \in DOCUMENT_TYPES /\ Identity.client \in Clients \cup {None}
    BY FileFacts, IdentityFacts DEF PipelineInv, RecordShape, SeenShape
  <2>2. row.type = "UNCLASSIFIED" /\ row.client = None /\ seen.status \in PROCESSING_STATUS
    BY <1>1 DEF Received, PipelineInv, SeenShape
  <2> QED
    BY <1>1, <2>1, <2>2 DEF RecordResult, Fails, RecordedRow, PROCESSING_STATUS
<1>3. PipelineInv' /\ Filed' = Filed
  <2>1. Filed' = Filed /\ SeenShape' /\ RecordShape'
    BY <1>1, RecordsUnread DEF Filed, PipelineInv, SeenShape
  <2>2. FiledAsMeasured'
    BY <1>1, <2>1, StillMeasured DEF PipelineInv, FiledAsMeasured
  <2>3. TypeOK' /\ InOrder' /\ Placing' /\ Recording'
    BY <1>1, <1>2, <2>1 DEF PipelineInv, TypeOK, SeenShape, Stages, InOrder, Placing, Recording
  <2> QED
    BY <2>1, <2>2, <2>3 DEF PipelineInv
<1>4. CASE Fails
  <2>1. row'.reason = "PROCESSING_FAILED"
    BY <1>4 DEF Fails, RecordedRow, ReviewReason, DeriveReviewReason
  <2>2. row'.reason # None
    BY <2>1 DEF None
  <2> QED
    BY <1>3, <2>2 DEF NothingWaitsUnnoticed
<1>5. CASE RecordResult
  <2>1. Explained /\ row'.status = seen.status /\ row'.reason = ReviewReason(seen.status) /\ row'.pending = seen.pending
    BY <1>1, <1>2, <1>5 DEF PipelineInv, Recording, RecordResult, RecordedRow, SeenShape
  <2> QED
    BY <1>3, <2>1 DEF NothingWaitsUnnoticed, Explained
<1> QED
  BY <1>3, <1>4, <1>5

\* Others change the records and file documents of their own.
LEMMA OthersSound ==
  ASSUME PipelineInv, Others
  PROVE  /\ PipelineInv' /\ UNCHANGED <<stage, file, seen, row>> /\ Filed' = Filed
         /\ \A d \in documents' \ documents : d.sub # This
         /\ \A c \in Clients, column \in RECORD_COLUMNS :
              candidates[c].columns[column] # None => candidates'[c].columns[column] = candidates[c].columns[column]
<1>1. UNCHANGED <<stage, file, seen, earlierPending, row>>
  BY DEF Others, OtherFills, OtherChangesNumber, OtherFiles
<1>2. /\ RecordShape'
      /\ \A c \in Clients, column \in RECORD_COLUMNS :
           candidates[c].columns[column] # None => candidates'[c].columns[column] = candidates[c].columns[column]
  <2>1. DOMAIN candidates = Clients /\ (\A c \in Clients : IsCandidate(candidates[c])) /\ IsFile(file)
    BY DEF PipelineInv, RecordShape
  <2>2. CASE OtherFills
    <3>1. PICK c \in Clients, column \in RECORD_COLUMNS :
            /\ candidates[c].columns[column] = None
            /\ candidates' = [candidates EXCEPT ![c].columns[column] = OtherValue]
      BY <2>2 DEF OtherFills
    <3> DEFINE filled == [candidates[c].columns EXCEPT ![column] = OtherValue]
               record == [candidates[c] EXCEPT !.columns = filled]
    <3>2. candidates' = [candidates EXCEPT ![c] = record]
      BY <3>1
    <3>3. /\ DOMAIN filled = RECORD_COLUMNS
          /\ \A o \in RECORD_COLUMNS : candidates[c].columns[o] # None => filled[o] = candidates[c].columns[o]
      BY <2>1, <3>1 DEF IsCandidate
    <3> HIDE DEF filled
    <3>4. DOMAIN record = DOMAIN candidates[c] /\ record.columns = filled
      BY <2>1 DEF IsCandidate
    <3> HIDE DEF record
    <3>5. IsCandidate(record)
      BY <2>1, <3>3, <3>4 DEF IsCandidate
    <3> QED
      BY <1>1, <2>1, <3>2, <3>3, <3>4, <3>5 DEF RecordShape
  <2>3. CASE OtherChangesNumber
    <3>1. PICK c \in Clients : candidates' = [candidates EXCEPT ![c].whatsapp = ~@]
      BY <2>3 DEF OtherChangesNumber
    <3> DEFINE record == [candidates[c] EXCEPT !.whatsapp = ~candidates[c].whatsapp]
    <3>2. candidates' = [candidates EXCEPT ![c] = record]
      BY <3>1
    <3>3. DOMAIN record = DOMAIN candidates[c] /\ record.columns = candidates[c].columns
      BY <2>1 DEF IsCandidate
    <3> HIDE DEF record
    <3> QED
      BY <1>1, <2>1, <3>2, <3>3 DEF RecordShape, IsCandidate
  <2>4. CASE OtherFiles
    BY <1>1, <2>4, RecordsUnread DEF OtherFiles, PipelineInv
  <2> QED
    BY <2>2, <2>3, <2>4 DEF Others
<1>3. Filed' = Filed /\ \A d \in documents' \ documents : d.sub # This
  BY PipelineAssumption DEF Others, OtherFills, OtherChangesNumber, OtherFiles, Filed
<1>4. FiledAsMeasured' /\ TypeOK' /\ SeenShape' /\ InOrder'
  BY <1>1, <1>3, StillMeasured DEF PipelineInv, FiledAsMeasured, TypeOK, SeenShape, InOrder
<1>5. ReviewReason(seen.status)' = ReviewReason(seen.status) /\ (Cleared' <=> Cleared)
  BY <1>1, SameReason, SameDecisions
<1>6. Placing' /\ Recording'
  BY <1>1, <1>3, <1>5 DEF PipelineInv, Placing, Recording, Explained
<1> QED
  BY <1>1, <1>2, <1>3, <1>4, <1>6 DEF PipelineInv
----------------------------------------------------------------------------
(* The specification *)

LEMMA InitSound == Init => PipelineInv /\ NothingWaitsUnnoticed
<1> SUFFICES ASSUME Init PROVE PipelineInv /\ NothingWaitsUnnoticed
  OBVIOUS
<1>1. /\ stage = "TEXT_EXTRACTION" /\ seen = NothingSeen /\ row = Received
      /\ RecordShape /\ Filed = {}
  BY PipelineAssumption DEF Init, RecordShape, Filed
<1>2. NoLookup \in Lookup
  BY DEF NoLookup, Lookup, LOOKUP_STATUS
<1>3. None \in CHECKSUM_OUTCOME /\ "FAILED" \in PROCESSING_STATUS
  BY DEF CHECKSUM_OUTCOME, PROCESSING_STATUS
<1>4. SeenShape /\ seen.checksum = None /\ seen.pending = FALSE
  BY <1>1, <1>2, <1>3 DEF SeenShape, NothingSeen
<1>5. TypeOK
  BY <1>1, <1>4 DEF TypeOK, SeenShape, Stages, Received
<1>6. InOrder /\ FiledAsMeasured /\ Placing /\ Recording /\ NothingWaitsUnnoticed
  BY <1>1, <1>4 DEF InOrder, FiledAsMeasured, Placing, Recording, NothingWaitsUnnoticed, None
<1> QED
  BY <1>1, <1>4, <1>5, <1>6 DEF PipelineInv

\* While nothing is recorded, nothing waits unnoticed.
LEMMA UnderWay == ASSUME stage' # "COMPLETED" PROVE NothingWaitsUnnoticed'
  BY DEF NothingWaitsUnnoticed

LEMMA NextSound ==
  ASSUME PipelineInv /\ NothingWaitsUnnoticed, [Next]_vars
  PROVE  (PipelineInv /\ NothingWaitsUnnoticed)'
<1>1. CASE Read
  BY <1>1, ReadSound, UnderWay DEF Read
<1>2. CASE LookUpPassport
  BY <1>2, LookUpPassportSound, UnderWay DEF LookUpPassport
<1>3. CASE LookUpWhatsapp
  BY <1>3, LookUpWhatsappSound, UnderWay DEF LookUpWhatsapp
<1>4. CASE CheckDuplicate
  BY <1>4, CheckDuplicateSound, UnderWay DEF CheckDuplicate
<1>5. CASE Reconcile
  BY <1>5, ReconcileSound, UnderWay DEF Reconcile
<1>6. CASE Decide
  BY <1>6, DecideSound, UnderWay DEF Decide
<1>7. CASE Place
  BY <1>7, StoreSound, PendingSound, UnderWay DEF Place
<1>8. CASE RecordResult \/ Fails
  BY <1>8, Recorded
<1>9. CASE Others
  <2>1. PipelineInv' /\ UNCHANGED <<stage, row>> /\ Filed' = Filed
    BY <1>9, OthersSound
  <2> QED
    BY <2>1 DEF NothingWaitsUnnoticed
<1>10. CASE Interrupted \/ AdminRetry
  <2>1. stage' # "COMPLETED"
    BY <1>10 DEF Interrupted, AdminRetry
  <2> QED
    BY <1>10, <2>1, StartsAgain, UnderWay
<1>11. CASE UNCHANGED vars
  <2>1. Filed' = Filed /\ FiledAsMeasured' /\ RecordShape' /\ SeenShape' /\ TypeOK' /\ InOrder'
    BY <1>11, StillMeasured DEF vars, Filed, PipelineInv, FiledAsMeasured, RecordShape, SeenShape, TypeOK, InOrder
  <2>2. ReviewReason(seen.status)' = ReviewReason(seen.status) /\ (Cleared' <=> Cleared)
    BY <1>11, SameReason, SameDecisions DEF vars
  <2>3. Placing' /\ Recording' /\ NothingWaitsUnnoticed'
    BY <1>11, <2>1, <2>2 DEF vars, PipelineInv, Placing, Recording, Explained, NothingWaitsUnnoticed
  <2> QED
    BY <2>1, <2>3 DEF PipelineInv
<1> QED
  BY <1>1, <1>2, <1>3, <1>4, <1>5, <1>6, <1>7, <1>8, <1>9, <1>10, <1>11 DEF Next, Step

LEMMA PipelineHolds == Spec => [](PipelineInv /\ NothingWaitsUnnoticed)
  BY InitSound, NextSound, PTL DEF Spec

\* The types of the pipeline: a lookup names a client exactly when it found
\* one, and every status recorded is one of ProcessingStatus.
THEOREM PipelineTypeCorrect == Spec => []TypeOK
<1>1. PipelineInv => TypeOK
  BY DEF PipelineInv
<1> QED
  BY <1>1, PipelineHolds, PTL

\* Whatever is filed as VERIFIED was read well enough by itself: text of at
\* least 60 per cent confidence and three points of evidence for its type, also
\* when the passport was accepted on other proof or the attempt was repeated.
THEOREM VerifiedWasReadable == Spec => []VerifiedIsReadable
<1>1. PipelineInv => VerifiedIsReadable
  <2> SUFFICES ASSUME PipelineInv, NEW d \in Filed, d.verification = "VERIFIED"
               PROVE  file.extraction >= 60 /\ file.score >= 3
    BY DEF VerifiedIsReadable
  <2>1. Measured.band \notin LOW_BANDS /\ file.extraction \in Int /\ file.score \in Int
    BY DEF PipelineInv, FiledAsMeasured, RecordShape, IsFile
  <2> QED
    BY <2>1, WellRead DEF Measured
<1> QED
  BY <1>1, PipelineHolds, PTL

\* However the placement came about, what is recorded without a review reason
\* is a duplicate or has its verified document, and what is held in pending/
\* has a reason.
THEOREM AllNoticed == Spec => []NothingWaitsUnnoticed
  BY PipelineHolds, PTL

\* What cleared a file still holds when it is placed: its lookups, and the
\* agreement with the client's record as read.
LEMMA FiledCleared ==
  ASSUME PipelineInv, Next, NEW d \in documents' \ documents, d.sub = This
  PROVE  Cleared /\ d = NewDocument
<1>1. CASE Place
  <2>1. seen.placement = "CLIENT" /\ d = NewDocument /\ stage = "PLACEMENT"
    BY <1>1 DEF Place, StoreForClient, PlaceInPending
  <2> QED
    BY <2>1 DEF PipelineInv, Placing
<1>2. CASE Others
  BY <1>2, OthersSound
<1>3. CASE ~Place /\ ~Others
  BY <1>3 DEF Next, Step, Read, LookUpPassport, LookUpWhatsapp, CheckDuplicate, Reconcile, Decide, RecordResult, Fails,
              Interrupted, AdminRetry
<1> QED
  BY <1>1, <1>2, <1>3

\* Nothing enters a client folder unless the lookups named exactly that client,
\* nothing on its record disagreed, the type was read in the document and a
\* police slip has its date (storeClientDocument is reached by no other way).
THEOREM FiledProven == Spec => FiledOnlyWithProof
<1>1. ASSUME PipelineInv, Next, NEW d \in documents' \ documents, d.sub = This
      PROVE  /\ seen.whatsapp = [status |-> "FOUND", client |-> d.client]
             /\ d.type = "PASSPORT" => seen.passport = seen.whatsapp
             /\ ~Conflicts
             /\ d.type = file.contentType /\ Family(file.nameType) \in {"UNKNOWN", Family(d.type)}
             /\ d.type = "POLICE_SLIP" => file.policeDate = "RESOLVED"
  <2>1. Cleared /\ d.client = Identity.client /\ d.type = Resolved.documentType
    BY <1>1, FiledCleared DEF NewDocument
  <2>2. /\ seen.passport \in Lookup /\ seen.whatsapp \in Lookup /\ IsFile(file)
    BY <1>1 DEF PipelineInv, SeenShape, RecordShape
  <2>3. /\ Identified /\ ~Identity.reviewRequired /\ REVIEW_BLOCKING_FLAGS \cap Used.flags = {}
        /\ PoliceDate \notin POLICE_DATE_NEEDS_REVIEW /\ ~Conflicts
        /\ Resolved.documentType \in DOCUMENT_STORAGE_TYPES
    BY <2>1 DEF Cleared, HasReviewBlocker
  <2>4. /\ seen.whatsapp.status = "FOUND" /\ seen.whatsapp.client = d.client
        /\ d.type = "PASSPORT" => seen.passport.status = "FOUND" /\ seen.passport.client = d.client
    BY <2>1, <2>2, <2>3, IdentityFacts DEF IsPassport
  <2>5. /\ seen.whatsapp = [status |-> "FOUND", client |-> d.client]
        /\ d.type = "PASSPORT" => seen.passport = seen.whatsapp
    BY <2>2, <2>4 DEF Lookup
  <2>6. "CLASSIFIED_FROM_FILENAME_ONLY" \notin Measured.flags /\ "WRONG_DOCUMENT_SUSPECTED" \notin Measured.flags
    BY <2>2, <2>3, FileFacts DEF REVIEW_BLOCKING_FLAGS
  <2>7. Resolved.source # "FILENAME" /\ ~Resolved.filenameMismatch
    BY <2>6, Assessed DEF Measured
  <2>8. d.type = file.contentType /\ Family(file.nameType) \in {"UNKNOWN", Family(d.type)}
    BY <2>1, <2>2, <2>3, <2>7, TypeResolved DEF Resolved, IsFile, DOCUMENT_STORAGE_TYPES
  <2>9. d.type = "POLICE_SLIP" => file.policeDate = "RESOLVED"
    BY <2>1, <2>2, <2>3 DEF PoliceDate, IsFile, POLICE_DATE_STATUS
  <2> QED
    BY <2>3, <2>5, <2>8, <2>9
<1>2. PipelineInv /\ [Next]_vars =>
        [\A d \in documents' \ documents :
           d.sub = This =>
             /\ seen.whatsapp = [status |-> "FOUND", client |-> d.client]
             /\ d.type = "PASSPORT" => seen.passport = seen.whatsapp
             /\ ~Conflicts
             /\ d.type = file.contentType /\ Family(file.nameType) \in {"UNKNOWN", Family(d.type)}
             /\ d.type = "POLICE_SLIP" => file.policeDate = "RESOLVED"]_vars
  BY <1>1
<1> QED
  BY <1>2, PipelineHolds, PTL DEF Spec, FiledOnlyWithProof

\* A value on a client record is never replaced by the pipeline or by the
\* fillings of others, however long before it was read.
THEOREM RecordsKept == Spec => RecordKept
<1>1. ASSUME PipelineInv, [Next]_vars
      PROVE  \A c \in Clients, column \in RECORD_COLUMNS :
               candidates[c].columns[column] # None => candidates'[c].columns[column] = candidates[c].columns[column]
  <2>1. CASE Reconcile
    BY <1>1, <2>1, ReconcileFills
  <2>2. CASE Others
    BY <1>1, <2>2, OthersSound
  <2>3. CASE candidates' = candidates
    BY <2>3
  <2> QED
    BY <1>1, <2>1, <2>2, <2>3 DEF Next, vars, Step, Read, LookUpPassport, LookUpWhatsapp, CheckDuplicate, Decide, Place,
                                  RecordResult, Fails, Interrupted, AdminRetry
<1> QED
  BY <1>1, PipelineHolds, PTL DEF Spec, RecordKept

=============================================================================
