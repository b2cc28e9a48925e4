-------------------------- MODULE DocumentPipeline --------------------------
(***************************************************************************)
(* processDocument (documentProcessingService.js): one submission's way    *)
(* from the received file to the recorded result, stage by stage.  Between *)
(* two stages other submissions and other writers of the database may act, *)
(* every stage may fail, and an attempt may be cut short and started again *)
(* with the same file.                                                     *)
(*                                                                         *)
(* A file is what extraction reads in it; candidates, documents and the    *)
(* submission's own row are the database.  Copies, claims and leases are   *)
(* the subject of SubmissionWorker: here a placement is one step.          *)
(***************************************************************************)
EXTENDS PlacementRules, FiniteSets

CONSTANTS
  Clients,       \* keys of the client records
  Worlds,        \* what may be found when the file arrives: the file, the client
                 \* records, the documents on record, and two bounds of the model:
                 \* the steps of others, and the attempts cut short or retried
  OtherFilings,  \* documents other submissions may file meanwhile
  OtherValue     \* what another writer may put into an empty column

VARIABLES
  stage,           \* state.stage
  file,            \* the received file
  seen,            \* what this attempt has read and decided, in memory
  candidates,      \* the client records
  documents,       \* the documents table
  earlierPending,  \* the sender's same file waits in pending/ for another submission
  row,             \* this submission's row of temporary_data
  others, restarts \* how many more steps of others and restarts may come

vars == <<stage, file, seen, candidates, documents, earlierPending, row, others, restarts>>

This == 1            \* this submission, and its file's checksum
ThisFile == "this"

Stages == {"TEXT_EXTRACTION", "IDENTITY", "WHATSAPP_LOOKUP", "DUPLICATE_CHECK", "RECONCILIATION",
           "STORAGE", "PLACEMENT", "RECORD_UPDATE", "COMPLETED"}
PROCESSING_STATUS == CONFIDENCE_BANDS \cup {"CONFLICT", "MANUAL_REVIEW", "DUPLICATE", "FAILED"}

NoLookup == [status |-> "NOT_FOUND", client |-> None]
NothingOnRecord == [column \in RECORD_COLUMNS |-> None]
NothingSeen ==
  [passport |-> NoLookup, whatsapp |-> NoLookup, columns |-> NothingOnRecord, checksum |-> None,
   existingVerified |-> FALSE, verifiedExists |-> FALSE, placement |-> "NONE", status |-> "FAILED",
   pending |-> FALSE]
Received == [status |-> "TEMPORARY_STORED", type |-> "UNCLASSIFIED", client |-> None, pending |-> FALSE,
             reason |-> None]

\* What extraction returns of a file, and a record of a client, as far as
\* their form matters; the values read are left open.
IsFile(f) ==
  /\ f.nameType \in DOCUMENT_TYPES /\ f.contentType \in DOCUMENT_TYPES
  /\ f.extraction \in Int /\ f.score \in Int
  /\ f.policeDate \in POLICE_DATE_STATUS
IsCandidate(k) ==
  DOMAIN k = {"passport", "whatsapp", "columns"} /\ DOMAIN k.columns = RECORD_COLUMNS

\* Nothing was filed of a file that has just arrived.
ASSUME PipelineAssumption ==
  /\ None \notin Clients
  /\ \A world \in Worlds :
       /\ IsFile(world.file)
       /\ DOMAIN world.candidates = Clients /\ \A c \in Clients : IsCandidate(world.candidates[c])
       /\ \A d \in world.documents : d.sub # This
  /\ \A d \in OtherFilings : d.sub # This

Init ==
  /\ stage = "TEXT_EXTRACTION"
  /\ seen = NothingSeen
  /\ \E world \in Worlds :
       /\ file = world.file
       /\ candidates = world.candidates
       /\ documents = world.documents
       /\ others = world.others /\ restarts = world.restarts
  /\ earlierPending \in BOOLEAN
  /\ row = Received

----------------------------------------------------------------------------
(* What follows from the file and from what was read so far *)

Resolved == ResolveDocumentType(file.nameType, file.contentType, file.reason)
IsPassport == Resolved.documentType = "PASSPORT"
Measured == AssessDocumentConfidence(file.extraction, Resolved, file.score, file.reason)
PoliceDate == IF Resolved.documentType = "POLICE_SLIP" THEN file.policeDate ELSE None

Merged(value) == MergeField(value.mrz, value.check, value.viz)
PassportId == Merged(file.passportId)
Confidence(field) == PassportFieldConfidence(field, file.extraction)
Band(field) == GetConfidenceBand(Confidence(field))

Identity == DecideIdentity(IsPassport, Confidence(PassportId), seen.passport, seen.whatsapp)
Identified == ClientIdentified(Identity)

Reconciles ==
  /\ IsPassport /\ seen.passport.status = "FOUND"
  /\ Identity.status # "PASSPORT_ID_UNRESOLVED"
Outcome ==
  [column \in RECORD_COLUMNS |->
     LET field == Merged(file.fields[column])
     IN IF Reconciles
        THEN ReconcileField(column, seen.columns[column], field.value, Confidence(field))
        ELSE "NOT_EXTRACTED"]
Conflicts == \E column \in RECORD_COLUMNS : Outcome[column] = "CONFLICT"

Accepted ==
  /\ Reconciles
  /\ AcceptsPassport(Resolved, Measured, file.mrzLines, Band(PassportId),
                     [column \in RECORD_COLUMNS |-> Band(Merged(file.fields[column]))], Outcome, Identity)
Used == ApplyPassportAcceptance(Measured, Accepted)

\* Variant: the answer of hasVerifiedDocument is not kept.
ReasonNotKept(status) ==
  DeriveReviewReason(status, Resolved.documentType, Used, Identity, Conflicts, PoliceDate,
                     seen.checksum, seen.existingVerified, FALSE)

ReviewReason(status) ==
  DeriveReviewReason(status, Resolved.documentType, Used, Identity, Conflicts, PoliceDate,
                     seen.checksum, seen.existingVerified, seen.verifiedExists)

----------------------------------------------------------------------------
(* The stages *)

\* TEXT_EXTRACTION, CLASSIFICATION and FIELD_EXTRACTION only look at the file.
Read ==
  /\ stage = "TEXT_EXTRACTION"
  /\ stage' = "IDENTITY"
  /\ UNCHANGED <<file, seen, candidates, documents, earlierPending, row>>

\* Variant: the first of several matches is taken.
LookUpFirst(matches) ==
  [status |-> CASE Cardinality(matches) = 0 -> "NOT_FOUND" [] Cardinality(matches) = 1 -> "FOUND" [] OTHER -> "MULTIPLE",
   client |-> IF matches = {} THEN None ELSE CHOOSE c \in matches : TRUE]

LookUp(matches) ==
  [status |-> CASE Cardinality(matches) = 0 -> "NOT_FOUND" [] Cardinality(matches) = 1 -> "FOUND" [] OTHER -> "MULTIPLE",
   client |-> IF Cardinality(matches) = 1 THEN CHOOSE c \in matches : TRUE ELSE None]

LookUpPassport ==
  LET found == IF PassportId.value = None THEN [status |-> "INVALID_INPUT", client |-> None]
               ELSE LookUp({c \in Clients : candidates[c].passport = PassportId.value})
  IN /\ stage = "IDENTITY"
     /\ seen' = IF ~IsPassport THEN seen
                ELSE [seen EXCEPT !.passport = found,
                                  !.columns = IF found.client = None THEN NothingOnRecord
                                              ELSE candidates[found.client].columns]
     /\ stage' = "WHATSAPP_LOOKUP"
     /\ UNCHANGED <<file, candidates, documents, earlierPending, row>>

LookUpWhatsapp ==
  /\ stage = "WHATSAPP_LOOKUP"
  /\ seen' = [seen EXCEPT !.whatsapp = LookUp({c \in Clients : candidates[c].whatsapp})]
  /\ stage' = "DUPLICATE_CHECK"
  /\ UNCHANGED <<file, candidates, documents, earlierPending, row>>

CheckDuplicate ==
  /\ stage = "DUPLICATE_CHECK"
  /\ seen' = IF ~Identified THEN seen
             ELSE [seen EXCEPT
                     !.checksum = CheckClientChecksum(documents, Identity.client, ThisFile, This),
                     !.existingVerified = \E d \in SameClient(documents, Identity.client, ThisFile) :
                                            d.verification = "VERIFIED"]
  /\ stage' = "RECONCILIATION"
  /\ UNCHANGED <<file, candidates, documents, earlierPending, row>>

\* Variant: the column is not required to be empty still.
FilledAsRead(c) == {column \in FILLABLE_COLUMNS : Outcome[column] = "FILL"}

Filled(c) ==
  {column \in FILLABLE_COLUMNS : Outcome[column] = "FILL" /\ candidates[c].columns[column] = None}

\* Columns are filled for a verified identity only, each while it is empty.
Reconcile ==
  /\ stage = "RECONCILIATION"
  /\ candidates' =
       IF Reconciles /\ AllowsWrites(seen.checksum) /\ Identity.status = "VERIFIED_MATCH"
       THEN [candidates EXCEPT ![Identity.client].columns =
               [column \in RECORD_COLUMNS |->
                  IF column \in Filled(Identity.client) THEN Merged(file.fields[column]).value ELSE @[column]]]
       ELSE candidates
  /\ stage' = "STORAGE"
  /\ UNCHANGED <<file, seen, documents, earlierPending, row>>

Decide ==
  LET exists == /\ Identified /\ AllowsWrites(seen.checksum) /\ Used.band \in CLIENT_BANDS
                /\ HasVerifiedDocument(documents, Identity.client, Resolved.documentType)
      decision == DecidePlacement(
        DetermineProcessingStatus(Used, Identity, Conflicts, PoliceDate), Used.band, Resolved.documentType,
        Identified, Identity.client, seen.checksum, HasReviewBlocker(Used, Identity, PoliceDate),
        exists, seen.existingVerified)
  IN /\ stage = "STORAGE"
     /\ seen' = [seen EXCEPT !.verifiedExists = exists, !.placement = decision.placement,
                             !.status = decision.processingStatus]
     /\ stage' = IF decision.placement = "NONE" \/ decision.alreadyStored THEN "RECORD_UPDATE" ELSE "PLACEMENT"
     /\ UNCHANGED <<file, candidates, documents, earlierPending, row>>

NewDocument == [sub |-> This, client |-> Identity.client, sha |-> ThisFile, type |-> Resolved.documentType,
                verification |-> VerificationStatusForBand(Used.band)]

\* storeClientDocument: filed, or a parallel submission stored the file first.
StoreForClient ==
  IF SameClient(documents, Identity.client, ThisFile) = {}
  THEN documents' = documents \cup {NewDocument} /\ UNCHANGED seen
  ELSE seen' = [seen EXCEPT !.placement = "NONE", !.status = "DUPLICATE"] /\ UNCHANGED documents

\* placeInPending: copied, unless the sender's same file waits there already.
PlaceInPending ==
  /\ seen' = IF earlierPending THEN [seen EXCEPT !.placement = "NONE", !.status = "DUPLICATE"]
             ELSE [seen EXCEPT !.pending = TRUE]
  /\ UNCHANGED documents

Place ==
  /\ stage = "PLACEMENT"
  /\ IF seen.placement = "CLIENT" THEN StoreForClient ELSE PlaceInPending
  /\ stage' = "RECORD_UPDATE"
  /\ UNCHANGED <<file, candidates, earlierPending, row>>

\* What has been determined by the stage that is under way.
TypeKnown == stage # "TEXT_EXTRACTION"
ClientKnown == stage \notin {"TEXT_EXTRACTION", "IDENTITY", "WHATSAPP_LOOKUP"} /\ Identified

\* Never when the exact file belongs to another client.
ClientLink == ClientKnown /\ seen.checksum # "CROSS_CLIENT_CONFLICT"

RecordedRow(status) ==
  [status |-> status,
   type |-> IF TypeKnown THEN Resolved.documentType ELSE row.type,
   client |-> IF ClientLink THEN Identity.client ELSE row.client,
   pending |-> seen.pending \/ row.pending,
   reason |-> ReviewReason(status)]

RecordResult ==
  /\ stage = "RECORD_UPDATE"
  /\ row' = RecordedRow(seen.status)
  /\ stage' = "COMPLETED"
  /\ UNCHANGED <<file, seen, candidates, documents, earlierPending>>

\* Any stage throws; what had been determined by then is recorded with FAILED.
Fails ==
  /\ stage # "COMPLETED"
  /\ row' = RecordedRow("FAILED")
  /\ stage' = "COMPLETED"
  /\ UNCHANGED <<file, seen, candidates, documents, earlierPending>>

----------------------------------------------------------------------------
(* Everyone else *)

\* The process died or lost its claim; the worker starts the row again.
Interrupted ==
  /\ stage \notin {"TEXT_EXTRACTION", "COMPLETED"}
  /\ stage' = "TEXT_EXTRACTION"
  /\ seen' = NothingSeen
  /\ UNCHANGED <<file, candidates, documents, earlierPending, row>>

\* retryFailedSubmission.
AdminRetry ==
  /\ stage = "COMPLETED" /\ row.status = "FAILED" /\ ~row.pending
  /\ row' = Received
  /\ stage' = "TEXT_EXTRACTION"
  /\ seen' = NothingSeen
  /\ UNCHANGED <<file, candidates, documents, earlierPending>>

\* Another submission of the client, or a user, fills an empty column.
OtherFills ==
  /\ \E c \in Clients, column \in RECORD_COLUMNS :
       /\ candidates[c].columns[column] = None
       /\ candidates' = [candidates EXCEPT ![c].columns[column] = OtherValue]
  /\ UNCHANGED <<stage, file, seen, documents, earlierPending, row>>

\* The sender's number is put into a client record, or taken out of it.
OtherChangesNumber ==
  /\ \E c \in Clients : candidates' = [candidates EXCEPT ![c].whatsapp = ~@]
  /\ UNCHANGED <<stage, file, seen, documents, earlierPending, row>>

\* Unique (passport_id, file_sha256).
OtherFiles ==
  /\ \E d \in OtherFilings :
       /\ SameClient(documents, d.client, d.sha) = {}
       /\ documents' = documents \cup {d}
  /\ UNCHANGED <<stage, file, seen, candidates, earlierPending, row>>

Step ==
  \/ Read \/ LookUpPassport \/ LookUpWhatsapp \/ CheckDuplicate \/ Reconcile \/ Decide \/ Place
  \/ RecordResult \/ Fails
Others == OtherFills \/ OtherChangesNumber \/ OtherFiles

Next ==
  \/ Step /\ UNCHANGED <<others, restarts>>
  \/ others > 0 /\ others' = others - 1 /\ Others /\ UNCHANGED restarts
  \/ restarts > 0 /\ restarts' = restarts - 1 /\ (Interrupted \/ AdminRetry) /\ UNCHANGED others

Spec == Init /\ [][Next]_vars

----------------------------------------------------------------------------
(* Properties *)

\* A lookup names a client exactly when it found one, and one only.
Lookup == [status : {"FOUND"}, client : Clients] \cup [status : LOOKUP_STATUS \ {"FOUND"}, client : {None}]
Filed == {d \in documents : d.sub = This}

TypeOK ==
  /\ stage \in Stages
  /\ seen.passport \in Lookup /\ seen.whatsapp \in Lookup
  /\ seen.checksum \in CHECKSUM_OUTCOME
  /\ seen.placement \in {"CLIENT", "PENDING", "NONE"}
  /\ seen.status \in PROCESSING_STATUS
  /\ {seen.pending, seen.existingVerified, seen.verifiedExists} \subseteq BOOLEAN
  /\ row.status \in PROCESSING_STATUS \cup {"TEMPORARY_STORED"}
  /\ row.type \in DOCUMENT_TYPES \cup {"UNCLASSIFIED"}
  /\ row.client \in Clients \cup {None}

\* Nothing enters a client folder unless the sender's own WhatsApp number, and
\* for a passport its number too, named exactly that client (identity rules A,
\* C, E and SEC-008), the passport agreed with the client record, the type was
\* read in the document itself and not doubted by the file name, and a police
\* slip has the date its 21 days run from.
FiledOnlyWithProof ==
  [][\A d \in documents' \ documents :
       d.sub = This =>
         /\ seen.whatsapp = [status |-> "FOUND", client |-> d.client]
         /\ d.type = "PASSPORT" => seen.passport = seen.whatsapp
         /\ ~Conflicts
         /\ d.type = file.contentType /\ Family(file.nameType) \in {"UNKNOWN", Family(d.type)}
         /\ d.type = "POLICE_SLIP" => file.policeDate = "RESOLVED"]_vars

\* Only a document read well enough by itself is filed as VERIFIED; a passport
\* accepted on other proof is not (passportAcceptanceService.js).
VerifiedIsReadable ==
  \A d \in Filed :
    d.verification = "VERIFIED" => file.extraction >= 60 /\ file.score >= 3

\* A value on a client record is never replaced by the pipeline: only a column
\* that is still empty is filled, although it was read a while before.
RecordKept ==
  [][\A c \in Clients, column \in RECORD_COLUMNS :
       candidates[c].columns[column] # None => candidates'[c].columns[column] = candidates[c].columns[column]]_vars

\* Once recorded, everything that still needs a person says why: a file held
\* in pending/ always has a review reason, and a submission without one is a
\* verified document or a duplicate.
NothingWaitsUnnoticed ==
  stage = "COMPLETED" =>
    /\ row.pending => row.reason # None
    /\ row.reason = None => row.status = "DUPLICATE" \/ \E d \in Filed : d.verification = "VERIFIED"
=============================================================================
