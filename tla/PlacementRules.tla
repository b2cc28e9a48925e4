--------------------------- MODULE PlacementRules ---------------------------
(***************************************************************************)
(* The pure decisions of the document pipeline, as operators: which type   *)
(* and confidence band a received file gets, which client it belongs to,   *)
(* whether a person must look at it, where it is placed and which review   *)
(* reason is recorded.  Nothing here reads or writes shared state; the     *)
(* state machines DocumentPipeline and SubmissionWorker apply these rules. *)
(*                                                                         *)
(* Names of statuses are the strings the code writes to the database.      *)
(* Absent optional values (undefined / null in the code) are None.         *)
(***************************************************************************)
EXTENDS Integers

None == "NONE"

\* Document types and the ones that have a folder under clients/.
DOCUMENT_TYPES == {"PASSPORT", "POLICE_SLIP", "POLICE_REPORT", "MEDICAL", "UNKNOWN"}
DOCUMENT_STORAGE_TYPES == DOCUMENT_TYPES \ {"UNKNOWN"}

CONFIDENCE_BANDS == {"VERIFIED", "HIGH_CONFIDENCE", "SLIGHTLY_UNCLEAR", "UNCLEAR", "UNDEFINED"}
LOW_BANDS == {"UNDEFINED", "UNCLEAR"}
CLIENT_BANDS == CONFIDENCE_BANDS \ {"UNDEFINED"}

Least(a, b) == IF a < b THEN a ELSE b

----------------------------------------------------------------------------
(* Classification and confidence *)

\* Why content classification found no type, None when it found one.
CONTENT_REASONS == {None, "NO_TEXT", "INSUFFICIENT_EVIDENCE", "AMBIGUOUS_CONTENT", "POLICE_TYPE_UNCLEAR"}

Family(type) == IF type \in {"POLICE_SLIP", "POLICE_REPORT"} THEN "POLICE" ELSE type

ResolveDocumentType(nameType, contentType, reason) ==
  IF contentType # "UNKNOWN"
  THEN [documentType |-> contentType, source |-> "CONTENT",
        filenameMismatch |-> nameType # "UNKNOWN" /\ Family(nameType) # Family(contentType)]
  ELSE IF reason = "NO_TEXT" /\ nameType # "UNKNOWN"
  THEN [documentType |-> nameType, source |-> "FILENAME", filenameMismatch |-> FALSE]
  ELSE [documentType |-> "UNKNOWN", source |-> "CONTENT", filenameMismatch |-> FALSE]

GetConfidenceBand(value) ==
  CASE value > 95  -> "VERIFIED"
    [] value \in 90..95 -> "HIGH_CONFIDENCE"
    [] value \in 60..89 -> "SLIGHTLY_UNCLEAR"
    [] value \in 40..59 -> "UNCLEAR"
    [] OTHER -> "UNDEFINED"

\* Content score -> confidence; a type known from the file name only gets 30.
GetClassificationConfidence(resolved, score) ==
  IF resolved.documentType = "UNKNOWN" THEN 0
  ELSE IF resolved.source = "FILENAME" THEN 30
  ELSE CASE score >= 6 -> 100
         [] score = 5  -> 95
         [] score = 4  -> 90
         [] score = 3  -> 80
         [] OTHER -> 0

AssessDocumentConfidence(extraction, resolved, score, reason) ==
  LET band  == GetConfidenceBand(Least(extraction, GetClassificationConfidence(resolved, score)))
      flags == (IF resolved.source = "FILENAME" THEN {"CLASSIFIED_FROM_FILENAME_ONLY"} ELSE {})
               \cup (IF resolved.filenameMismatch THEN {"WRONG_DOCUMENT_SUSPECTED"} ELSE {})
               \cup (IF reason = "POLICE_TYPE_UNCLEAR" THEN {"POLICE_TYPE_UNCLEAR"} ELSE {})
  IN [band |-> band, flags |-> flags,
      reviewRequired |-> band \in LOW_BANDS \/ "WRONG_DOCUMENT_SUSPECTED" \in flags]

----------------------------------------------------------------------------
(* Identity *)

LOOKUP_STATUS == {"FOUND", "NOT_FOUND", "MULTIPLE", "INVALID_INPUT"}
MIN_PASSPORT_ID_CONFIDENCE == 60
LINKABLE_IDENTITIES == {"VERIFIED_MATCH", "PASSPORT_MATCH_ONLY", "WHATSAPP_MATCH_ONLY"}

IdentityIs(status, client, provisional, review) ==
  [status |-> status, client |-> client, provisional |-> provisional, reviewRequired |-> review]

\* A lookup is [status, client]; client is None unless exactly one user was found.
DecideIdentity(isPassport, idConfidence, passport, whatsapp) ==
  IF ~isPassport
  THEN CASE whatsapp.status = "MULTIPLE" -> IdentityIs("AMBIGUOUS_MATCH", None, FALSE, TRUE)
         [] whatsapp.status = "FOUND" -> IdentityIs("WHATSAPP_MATCH_ONLY", whatsapp.client, FALSE, FALSE)
         [] OTHER -> IdentityIs("NO_MATCH", None, FALSE, TRUE)
  ELSE IF passport.status = "INVALID_INPUT" \/ idConfidence < MIN_PASSPORT_ID_CONFIDENCE
  THEN IdentityIs("PASSPORT_ID_UNRESOLVED", whatsapp.client, whatsapp.status = "FOUND", TRUE)
  ELSE IF passport.status = "MULTIPLE" \/ whatsapp.status = "MULTIPLE"
  THEN IdentityIs("AMBIGUOUS_MATCH", None, FALSE, TRUE)
  ELSE CASE passport.status = "FOUND" /\ whatsapp.status = "FOUND" ->
              IF passport.client = whatsapp.client
              THEN IdentityIs("VERIFIED_MATCH", passport.client, FALSE, FALSE)
              ELSE IdentityIs("IDENTITY_CONFLICT", None, FALSE, TRUE)
         [] passport.status = "FOUND" /\ whatsapp.status # "FOUND" ->
              IdentityIs("PASSPORT_MATCH_ONLY", passport.client, FALSE, TRUE)
         [] passport.status # "FOUND" /\ whatsapp.status = "FOUND" ->
              IdentityIs("WHATSAPP_MATCH_ONLY", whatsapp.client, TRUE, TRUE)
         [] OTHER -> IdentityIs("NO_MATCH", None, FALSE, TRUE)

\* The only case in which a document may be linked to or stored under a client.
ClientIdentified(identity) ==
  /\ identity.status \in LINKABLE_IDENTITIES
  /\ ~identity.provisional
  /\ identity.client # None

----------------------------------------------------------------------------
(* Documents on record *)

SameClient(docs, c, sha) == {d \in docs : d.client = c /\ d.sha = sha}
OtherClient(docs, c, sha) == {d \in docs : d.client # c /\ d.sha = sha}

\* Variant: only the identified client's documents are searched.
CheckSameClientOnly(docs, c, sha, s) ==
  IF \E d \in SameClient(docs, c, sha) : d.sub = s THEN "ALREADY_STORED"
  ELSE IF SameClient(docs, c, sha) # {} THEN "DUPLICATE"
  ELSE "NEW"

\* The file of submission s, about to be stored under client c.
CheckClientChecksum(docs, c, sha, s) ==
  IF \E d \in SameClient(docs, c, sha) : d.sub = s THEN "ALREADY_STORED"
  ELSE IF SameClient(docs, c, sha) # {} THEN "DUPLICATE"
  ELSE IF OtherClient(docs, c, sha) # {} THEN "CROSS_CLIENT_CONFLICT"
  ELSE "NEW"

AllowsWrites(outcome) == outcome \in {None, "NEW"}

HasVerifiedDocument(docs, c, type) ==
  \E d \in docs : d.client = c /\ d.type = type /\ d.verification = "VERIFIED"

----------------------------------------------------------------------------
(* Passport fields and the client record *)

\* One value per field from the machine-readable zone and the printed one.
\* check: its MRZ check digit, "GOOD", "BAD" or None where it has none.
MergeField(mrz, check, viz) ==
  LET cross == IF mrz = None \/ viz = None THEN None ELSE IF mrz = viz THEN "MATCH" ELSE "MISMATCH"
      MrzWins == mrz # None /\ check # "BAD"
  IN CASE MrzWins -> [value |-> mrz, source |-> "MRZ", check |-> check, cross |-> cross]
       [] ~MrzWins /\ viz # None ->
            [value |-> viz, source |-> "VIZ", check |-> IF mrz = None THEN None ELSE "BAD", cross |-> cross]
       [] ~MrzWins /\ viz = None /\ mrz # None ->
            [value |-> mrz, source |-> "MRZ", check |-> "BAD", cross |-> None]
       [] OTHER -> [value |-> None, source |-> None, check |-> None, cross |-> None]

PassportFieldConfidence(field, extraction) ==
  CASE field.value = None -> 0
    [] field.value # None /\ field.cross = "MISMATCH" -> 30
    [] field.source = "MRZ" /\ field.check = "GOOD" /\ field.cross # "MISMATCH" ->
         IF field.cross = "MATCH" THEN 100 ELSE 97
    [] field.source = "MRZ" /\ field.check = "BAD" /\ field.cross # "MISMATCH" -> 30
    [] field.source = "MRZ" /\ field.check = None /\ field.cross = "MATCH" -> 97
    [] field.source = "VIZ" /\ field.check = "BAD" /\ field.cross = "MATCH" -> 90
    [] OTHER -> Least(extraction, 90)

MIN_FILL_CONFIDENCE == 90
RECORD_COLUMNS == {"dateOfBirth", "passportExpiryDate", "firstName"}
FILLABLE_COLUMNS == RECORD_COLUMNS \ {"firstName"}

\* The extracted value of one column against the value on record.
ReconcileField(column, onRecord, value, confidence) ==
  CASE value = None -> "NOT_EXTRACTED"
    [] value # None /\ onRecord = value -> "MATCH"
    [] value # None /\ onRecord # value /\ confidence < MIN_FILL_CONFIDENCE -> "LOW_CONFIDENCE"
    [] value # None /\ onRecord \notin {None, value} /\ confidence >= MIN_FILL_CONFIDENCE -> "CONFLICT"
    [] value # None /\ onRecord = None /\ confidence >= MIN_FILL_CONFIDENCE /\ column \notin FILLABLE_COLUMNS ->
         "RECORD_MISSING"
    [] OTHER -> "FILL"

\* A badly scanned passport is proven by its check digits and by the client
\* record: bands of the fields, outcome of the reconciliation per column.
AcceptsPassport(resolved, confidence, mrzLines, idBand, fieldBand, outcome, identity) ==
  /\ confidence.band \in LOW_BANDS
  /\ resolved.documentType = "PASSPORT" /\ resolved.source = "CONTENT" /\ ~resolved.filenameMismatch
  /\ mrzLines = 2
  /\ idBand = "VERIFIED" /\ fieldBand["dateOfBirth"] = "VERIFIED" /\ fieldBand["passportExpiryDate"] = "VERIFIED"
  /\ identity.status = "VERIFIED_MATCH" /\ ~identity.provisional
  /\ \A column \in RECORD_COLUMNS : outcome[column] # "CONFLICT"
  /\ outcome["dateOfBirth"] = "MATCH" /\ outcome["passportExpiryDate"] = "MATCH"

\* Variant: an accepted passport counts as well read.
AcceptAsReadable(confidence, accepted) ==
  IF accepted THEN [confidence EXCEPT !.band = "SLIGHTLY_UNCLEAR", !.reviewRequired = FALSE] ELSE confidence

ApplyPassportAcceptance(confidence, accepted) ==
  IF accepted
  THEN [confidence EXCEPT !.band = "UNCLEAR", !.reviewRequired = TRUE,
                          !.flags = @ \cup {"PASSPORT_ACCEPTED_BY_MRZ_AND_IDENTITY"}]
  ELSE confidence

----------------------------------------------------------------------------
(* Status, placement, review reason *)

CHECKSUM_OUTCOME == {None, "NEW", "ALREADY_STORED", "DUPLICATE", "CROSS_CLIENT_CONFLICT"}
POLICE_DATE_NEEDS_REVIEW == {"AMBIGUOUS", "INVALID", "NOT_FOUND"}
POLICE_DATE_STATUS == {"RESOLVED"} \cup POLICE_DATE_NEEDS_REVIEW
REVIEW_BLOCKING_FLAGS == {"WRONG_DOCUMENT_SUSPECTED", "CLASSIFIED_FROM_FILENAME_ONLY", "POLICE_TYPE_UNCLEAR"}

\* Variant: the flags of the document are not looked at.
BlockedByIdentity(confidence, identity, policeDate) ==
  identity.reviewRequired \/ policeDate \in POLICE_DATE_NEEDS_REVIEW

HasReviewBlocker(confidence, identity, policeDate) ==
  \/ identity.reviewRequired
  \/ REVIEW_BLOCKING_FLAGS \cap confidence.flags # {}
  \/ policeDate \in POLICE_DATE_NEEDS_REVIEW

DetermineProcessingStatus(confidence, identity, conflicts, policeDate) ==
  CASE identity.status = "IDENTITY_CONFLICT" \/ conflicts -> "CONFLICT"
    [] ~(identity.status = "IDENTITY_CONFLICT" \/ conflicts) /\ confidence.band = "UNDEFINED" -> "UNDEFINED"
    [] OTHER ->
         IF identity.reviewRequired \/ confidence.reviewRequired \/ policeDate \in POLICE_DATE_NEEDS_REVIEW
         THEN IF confidence.band = "UNCLEAR" THEN "UNCLEAR" ELSE "MANUAL_REVIEW"
         ELSE confidence.band

PlacementIs(place, status, owner) ==
  [placement |-> place, processingStatus |-> status, pendingOwner |-> owner, alreadyStored |-> FALSE]

\* owner is the identified client (its unique_id names the pending folder).
DecidePlacement(status, band, type, identified, owner, checksum, blocked, verifiedExists, duplicateOfVerified) ==
  LET Pending(st) == PlacementIs("PENDING", st, IF identified THEN owner ELSE None)
  IN CASE checksum = "ALREADY_STORED" ->
            [PlacementIs("CLIENT", status, None) EXCEPT !.alreadyStored = TRUE]
       [] checksum = "DUPLICATE" ->
            IF duplicateOfVerified /\ identified
            THEN PlacementIs("PENDING", "DUPLICATE", owner)
            ELSE PlacementIs("NONE", "DUPLICATE", None)
       [] checksum = "CROSS_CLIENT_CONFLICT" -> PlacementIs("PENDING", "CONFLICT", None)
       [] OTHER ->
            IF \/ status \in {"CONFLICT", "UNDEFINED", "MANUAL_REVIEW"}
               \/ blocked
               \/ ~identified
               \/ type \notin DOCUMENT_STORAGE_TYPES
               \/ band \notin CLIENT_BANDS
               \/ verifiedExists
            THEN Pending(status)
            ELSE PlacementIs("CLIENT", status, None)

VerificationStatusForBand(band) == IF band = "UNCLEAR" THEN "REVIEW_REQUIRED" ELSE "VERIFIED"

\* verified: the matching document of the same client is VERIFIED.
DeriveReviewReason(status, type, confidence, identity, conflicts, policeDate, checksum, verified, verifiedExists) ==
  IF status = "FAILED" THEN "PROCESSING_FAILED"
  ELSE IF status = "DUPLICATE" THEN IF verified THEN "DUPLICATE_OF_VERIFIED" ELSE None
  ELSE IF checksum = "CROSS_CLIENT_CONFLICT" THEN "CROSS_CLIENT_DUPLICATE"
  ELSE IF identity.status = "IDENTITY_CONFLICT" THEN "IDENTITY_CONFLICT"
  ELSE IF conflicts THEN "RECORD_CONFLICT"
  ELSE IF \/ type = "UNKNOWN"
          \/ {"POLICE_TYPE_UNCLEAR", "CLASSIFIED_FROM_FILENAME_ONLY"} \cap confidence.flags # {}
       THEN "DOCUMENT_TYPE_UNCLEAR"
  ELSE IF "WRONG_DOCUMENT_SUSPECTED" \in confidence.flags THEN "WRONG_DOCUMENT_SUSPECTED"
  ELSE IF identity.reviewRequired THEN "IDENTITY_NOT_CONFIRMED"
  ELSE IF policeDate \in POLICE_DATE_NEEDS_REVIEW THEN "POLICE_DATE_UNRESOLVED"
  ELSE IF confidence.band \in LOW_BANDS THEN "LOW_CONFIDENCE"
  ELSE IF verifiedExists THEN "EXISTING_VERIFIED_DOCUMENT"
  ELSE None

=============================================================================
