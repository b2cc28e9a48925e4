----------------------------- MODULE CaseRecords -----------------------------
(***************************************************************************)
(* The two tables of the database as their readers rely on them: the       *)
(* submissions (temporary_data) and the documents of the clients.  Every   *)
(* action is one commit of the worker (documentProcessingService.js) or of *)
(* an admin's decision (adminReviewActionService.js,                       *)
(* adminCorrectionService.js, temporaryDataService.js), without locks,     *)
(* copies and faults.  ReviewActions and SubmissionWorker implement it.    *)
(***************************************************************************)
EXTENDS Integers, FiniteSets

CONSTANTS
  Items,    \* submissions
  DocIds,
  Clients,
  Types,    \* document types of rows and documents
  Dates,    \* submitted dates a police slip may have
  NoDate,
  None      \* no client, no type

VARIABLES rows, documents

RowStates == {"RECEIVED", "FAILED", "WAITING", "CLOSED", "GONE"}
Row == [state : RowStates, client : Clients \cup {None}, type : Types \cup {None}]
StoredDocument == [status : {"REVIEW_REQUIRED", "VERIFIED", "SUPERSEDED"}, client : Clients, type : Types,
                   date : Dates \cup {NoDate}]
NoDocument == [status |-> "NONE", client |-> None, type |-> None, date |-> NoDate]
Document == StoredDocument \cup {NoDocument}

ASSUME CaseAssumption == None \notin Clients \cup Types /\ NoDate \notin Dates

CaseInit == rows \in [Items -> Row] /\ documents \in [DocIds -> Document]

----------------------------------------------------------------------------
(* The worker *)

Moves(i, from, to) == rows[i].state = from /\ rows' = [rows EXCEPT ![i] = [@ EXCEPT !.state = to]]

Settled == [state : {"WAITING", "CLOSED", "FAILED"}, client : Clients \cup {None}, type : Types \cup {None}]

\* An attempt ends, or an earlier one had ended, without a document.
Settle(i) ==
  /\ rows[i].state = "RECEIVED"
  /\ rows' \in {[rows EXCEPT ![i] = settled] : settled \in Settled}
  /\ UNCHANGED documents

Filed == [status : {"VERIFIED", "REVIEW_REQUIRED"}, client : Clients, type : Types, date : Dates \cup {NoDate}]

\* The document is inserted before the row says so, or with it.
FileReceived(i, d) ==
  /\ rows[i].state = "RECEIVED"
  /\ documents[d] = NoDocument
  /\ documents' \in {[documents EXCEPT ![d] = new] : new \in Filed}
  /\ rows' \in {rows, [rows EXCEPT ![i] = [state |-> "CLOSED", client |-> documents'[d].client,
                                          type |-> documents'[d].type]]}

\* An admin lets a failed submission be processed again: the row goes back to
\* its state as received.
Retry(i) ==
  /\ rows[i].state = "FAILED"
  /\ rows' = [rows EXCEPT ![i] = [state |-> "RECEIVED", client |-> None, type |-> None]]
  /\ UNCHANGED documents

----------------------------------------------------------------------------
(* Decisions on a waiting file *)

AsCopied(i, status) == {new \in Filed : new.status = status /\ new.client = rows[i].client /\ new.type = rows[i].type}
Supersedable(i) ==
  {e \in DocIds : documents[e].status = "VERIFIED" /\ documents[e].client = rows[i].client /\ documents[e].type = rows[i].type}

Correct(i) ==
  /\ rows[i].state = "WAITING"
  /\ rows' \in {[rows EXCEPT ![i] = [@ EXCEPT !.type = t]] : t \in Types}
         \cup {[rows EXCEPT ![i] = [@ EXCEPT !.client = c]] : c \in Clients}
  /\ UNCHANGED documents

\* Variant: an older document is superseded by one that still needs a review.
FileVersionOver(i, d) ==
  /\ Moves(i, "WAITING", "CLOSED")
  /\ documents[d] = NoDocument
  /\ documents' \in {[documents EXCEPT ![d] = new, ![e] = [@ EXCEPT !.status = "SUPERSEDED"]] :
                      new \in AsCopied(i, "REVIEW_REQUIRED"), e \in Supersedable(i)}

\* A waiting file is filed under the client and the type its row has at that
\* moment: verified, in place of a verified document of the same client and
\* type or not; or as a further version for review, which leaves the status of
\* the row as it was, also a failed one's.
FileWaiting(i, d) ==
  /\ rows[i].state = "WAITING"
  /\ documents[d] = NoDocument
  /\ \/ /\ documents' \in {[documents EXCEPT ![d] = new] : new \in AsCopied(i, "VERIFIED")}
                       \cup {[documents EXCEPT ![d] = new, ![e] = [@ EXCEPT !.status = "SUPERSEDED"]] :
                               new \in AsCopied(i, "VERIFIED"), e \in Supersedable(i)}
        /\ Moves(i, "WAITING", "CLOSED")
     \/ /\ documents' \in {[documents EXCEPT ![d] = new] : new \in AsCopied(i, "REVIEW_REQUIRED")}
        /\ Moves(i, "WAITING", "CLOSED") \/ Moves(i, "WAITING", "FAILED")

\* Removed from review, or deleted by hand.
Delete(i) ==
  /\ rows[i].state # "GONE"
  /\ rows' = [rows EXCEPT ![i] = [@ EXCEPT !.state = "GONE"]]
  /\ UNCHANGED documents

----------------------------------------------------------------------------
(* Decisions on a stored document *)

ApproveStored(d) ==
  /\ documents[d].status = "REVIEW_REQUIRED"
  /\ documents' \in {[documents EXCEPT ![d] = [@ EXCEPT !.status = "VERIFIED", !.date = date]] :
                      date \in Dates \cup {documents[d].date}}
  /\ UNCHANGED rows

RemoveStored(d) ==
  /\ documents[d].status = "REVIEW_REQUIRED"
  /\ documents' = [documents EXCEPT ![d] = NoDocument]
  /\ UNCHANGED rows

SetDate(d) ==
  /\ documents[d] # NoDocument
  /\ documents' \in {[documents EXCEPT ![d] = [@ EXCEPT !.date = date]] : date \in Dates}
  /\ UNCHANGED rows

CaseNext ==
  \/ \E i \in Items : Settle(i) \/ Retry(i) \/ Correct(i) \/ Delete(i)
  \/ \E i \in Items, d \in DocIds : FileReceived(i, d) \/ FileWaiting(i, d)
  \/ \E d \in DocIds : ApproveStored(d) \/ RemoveStored(d) \/ SetDate(d)

caseVars == <<rows, documents>>

\* Stuttering comes first: most steps of an implementation leave the tables alone.
CaseSpec == CaseInit /\ [][UNCHANGED caseVars \/ CaseNext]_caseVars
=============================================================================
