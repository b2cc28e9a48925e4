---------------------------- MODULE DashboardReads ----------------------------
(***************************************************************************)
(* What the admin pages are told (adminClientService.js,                   *)
(* adminDashboardService.js, adminReviewService.js, adminPoliceService.js) *)
(* while the worker and other admins go on changing the tables.  A read    *)
(* asks several queries at once (Promise.all), outside a transaction:      *)
(* each sees one state of one table, in any order, and the answer is       *)
(* worked out from what they returned.                                     *)
(***************************************************************************)
EXTENDS CaseRecords, BusinessCalendar, Sequences

CONSTANTS
  RequiredTypes,     \* REQUIRED_DOCUMENT_TYPES
  Rank,              \* the clients' order by id
  At,                \* when each submission and each document was received
  PendingItemsLimit, \* CLIENT_PENDING_ITEMS_LIMIT
  QueueQueries,      \* queries of the review queue considered
  Beginnings,        \* what the tables may hold at first
  MaxChanges         \* bound of the model: commits considered

VARIABLES changes, read

readsVars == <<rows, documents, changes, read>>

PoliceSlip == "POLICE_SLIP"
PoliceReport == "POLICE_REPORT"

\* The table has a verified document of the client and the type.
HasVerified(table, c, t) ==
  \E d \in DocIds : table[d].status = "VERIFIED" /\ table[d].client = c /\ table[d].type = t

\* A document was replaced by a verified one of the same client and type.
Replaced(table) ==
  \A d \in DocIds : table[d].status = "SUPERSEDED" => HasVerified(table, table[d].client, table[d].type)

ASSUME DashboardAssumption ==
  /\ Items \subseteq Nat /\ DocIds \subseteq Nat /\ Items \cap DocIds = {}
  /\ IsFiniteSet(Items) /\ IsFiniteSet(DocIds) /\ IsFiniteSet(Clients) /\ IsFiniteSet(RequiredTypes)
  /\ Rank \in [Clients -> Nat] /\ \A c, e \in Clients : Rank[c] = Rank[e] => c = e
  /\ At \in [Items \cup DocIds -> Nat]
  /\ Dates \subseteq Nat
  /\ MaxChanges \in Nat /\ PendingItemsLimit \in Nat
  /\ \A query \in QueueQueries : query.size \in Nat \ {0}
  /\ \A b \in Beginnings : b.rows \in [Items -> Row] /\ b.documents \in [DocIds -> Document] /\ Replaced(b.documents)

----------------------------------------------------------------------------
(* Lists and pages *)

\* The elements of a set, in the order of "comes before".
Listed(S, Before(_, _)) ==
  [k \in 1..Cardinality(S) |-> CHOOSE x \in S : Cardinality({y \in S : Before(y, x)}) = k - 1]

Slice(list, from, to) == [k \in 1..(IF to < Len(list) THEN to ELSE Len(list)) - from |-> list[from + k]]

----------------------------------------------------------------------------
(* The review queue: waiting files and documents in review, merged *)

Waiting(table) == {i \in Items : table[i].state = "WAITING"}
Failed(table) == {i \in Items : table[i].state = "FAILED"}
InReview(table) == {d \in DocIds : table[d].status = "REVIEW_REQUIRED"}

Matches(query, record) ==
  /\ query.type \in {None, record.type}
  /\ query.client \in {None, record.client}

\* Ids of documents come before those of submissions.
IdBefore(x, y) == IF x \in DocIds <=> y \in DocIds THEN x < y ELSE x \in DocIds

ItemBefore(order, x, y) ==
  IF At[x] = At[y] THEN IdBefore(x, y) ELSE IF order = "desc" THEN At[x] > At[y] ELSE At[x] < At[y]

InOrder(query, S) == LET Before(x, y) == ItemBefore(query.order, x, y) IN Listed(S, Before)

\* The list of stored documents is another list of the same form.
QueueRows(query, table) ==
  CASE query.kind = "FAILED" -> {i \in Failed(table) : Matches(query, table[i])}
    [] query.kind \in {"ALL", "PENDING"} -> {i \in Waiting(table) : Matches(query, table[i])}
    [] OTHER -> {}

QueueDocuments(query, table) ==
  CASE query.kind = "STORED" -> {d \in DocIds : table[d] # NoDocument /\ Matches(query, table[d])}
    [] query.kind \in {"ALL", "DOCUMENT"} -> {d \in InReview(table) : Matches(query, table[d])}
    [] OTHER -> {}

\* Variant: one page of each table.
OnePage(query, page) == query.size

\* Each table is read up to the end of the page asked for.
Window(query, page) == page * query.size

Elements(list) == {list[k] : k \in DOMAIN list}

\* A list of one table is cut by the query itself (skip, take).
ReviewQueue(query, page, rowTable, documentTable) ==
  LET rowsFound == QueueRows(query, rowTable)
      documentsFound == QueueDocuments(query, documentTable)
      taken(S) == Elements(Slice(InOrder(query, S), 0, Window(query, page)))
      merged == InOrder(query, IF query.kind \in {"FAILED", "STORED"} THEN rowsFound \cup documentsFound
                               ELSE taken(rowsFound) \cup taken(documentsFound))
  IN Slice(merged, (page - 1) * query.size, page * query.size)

----------------------------------------------------------------------------
(* Required documents of a client *)

RequirementStatus(verified, stored, pending) ==
  CASE verified # {} -> "VERIFIED"
    [] verified = {} /\ stored # {} -> "REVIEW_REQUIRED"
    [] verified = {} /\ stored = {} /\ pending # {} -> "PENDING_REVIEW"
    [] OTHER -> "MISSING"

OfClient(table, c) == {d \in DocIds : table[d].client = c}
OfType(table, S, t) == {d \in S : table[d].type = t}
WithStatus(table, S, status) == {d \in S : table[d].status = status}
WaitingOf(table, c) == {i \in Waiting(table) : table[i].client = c}

\* loadClientCompleteness: the counts of both tables, for every client.
Requirements(c, rowTable, documentTable) ==
  [t \in RequiredTypes |->
     LET stored == OfType(documentTable, OfClient(documentTable, c), t)
     IN RequirementStatus(WithStatus(documentTable, stored, "VERIFIED"), stored,
                          {i \in WaitingOf(rowTable, c) : rowTable[i].type = t})]

Complete(requirements) == \A t \in RequiredTypes : requirements[t] = "VERIFIED"
MissingTypes(requirements) == {t \in RequiredTypes : requirements[t] = "MISSING"}

\* getClientDetails: the newest waiting files, up to a limit.
PendingItems(c, rowTable) ==
  Elements(Slice(InOrder([order |-> "desc"], WaitingOf(rowTable, c)), 0, PendingItemsLimit))

RequiredDocumentsShown(c, rowTable, documentTable) ==
  [t \in RequiredTypes |->
     LET stored == OfType(documentTable, OfClient(documentTable, c), t)
     IN RequirementStatus(WithStatus(documentTable, stored, "VERIFIED"), stored,
                          {i \in PendingItems(c, rowTable) : rowTable[i].type = t})]

----------------------------------------------------------------------------
(* The police follow-up of a client *)

PoliceStatusOrder == <<"OVERDUE", "DUE_TODAY", "DUE_SOON", "PENDING", "DATE_MISSING", "NOT_UPLOADED", "COMPLETED">>

Latest(S) == CHOOSE x \in S : \A y \in S : y <= x

CountdownFromDocuments(S, table, pendingSlips, today) ==
  LET slips == OfType(table, S, PoliceSlip)
      dates == {table[d].date : d \in slips} \ {NoDate}
  IN CASE WithStatus(table, OfType(table, S, PoliceReport), "VERIFIED") # {} -> "COMPLETED"
       [] WithStatus(table, OfType(table, S, PoliceReport), "VERIFIED") = {} /\ dates # {} ->
            StatusForDaysLeft(PoliceReportDueDate(Latest(dates)) - today)
       [] OTHER -> IF slips # {} \/ pendingSlips # {} THEN "DATE_MISSING" ELSE "NOT_UPLOADED"

\* Variant: the replaced slips and reports too.
AllPoliceDocuments(table) == {d \in DocIds : table[d].type \in {PoliceSlip, PoliceReport}}

PoliceDocuments(table) ==
  {d \in DocIds : table[d].type \in {PoliceSlip, PoliceReport} /\ table[d].status # "SUPERSEDED"}

Slips(S, table) == {i \in S : table[i].type = PoliceSlip}

\* loadPoliceStatuses, for every client.
PoliceStatus(c, rowTable, documentTable, today) ==
  CountdownFromDocuments(PoliceDocuments(documentTable) \cap OfClient(documentTable, c), documentTable,
                         Slips(WaitingOf(rowTable, c), rowTable), today)

\* getClientDetails, for one.
PoliceStatusShown(c, rowTable, documentTable, today) ==
  CountdownFromDocuments({d \in OfClient(documentTable, c) : documentTable[d].status # "SUPERSEDED"}, documentTable,
                         Slips(PendingItems(c, rowTable), rowTable), today)

\* The list of all clients, most urgent first.
DaysRemaining(c, documentTable, today) ==
  LET dates == {documentTable[d].date : d \in OfType(documentTable,
                  PoliceDocuments(documentTable) \cap OfClient(documentTable, c), PoliceSlip)} \ {NoDate}
  IN PoliceReportDueDate(Latest(dates)) - today

Running == {"OVERDUE", "DUE_TODAY", "DUE_SOON", "PENDING"}
\* Variant: the order of the names.
UrgencyByName(status) ==
  CHOOSE k \in 1..7 : <<"COMPLETED", "DATE_MISSING", "DUE_SOON", "DUE_TODAY", "NOT_UPLOADED", "OVERDUE", "PENDING">>[k] = status

Urgency(status) == CHOOSE k \in DOMAIN PoliceStatusOrder : PoliceStatusOrder[k] = status

PoliceList(rowTable, documentTable, today) ==
  LET status == [c \in Clients |-> PoliceStatus(c, rowTable, documentTable, today)]
      Remaining(c) == DaysRemaining(c, documentTable, today)
      Before(c, e) ==
        IF status[c] # status[e] THEN Urgency(status[c]) < Urgency(status[e])
        ELSE IF status[c] \in Running /\ Remaining(c) # Remaining(e) THEN Remaining(c) < Remaining(e)
        ELSE Rank[c] < Rank[e]
  IN Listed(Clients, Before)

\* Incomplete clients, those with the most documents missing first.
MissingDocuments(rowTable, documentTable) ==
  LET requirements == [c \in Clients |-> Requirements(c, rowTable, documentTable)]
      missing(c) == Cardinality(MissingTypes(requirements[c]))
      Before(c, e) == IF missing(c) = missing(e) THEN Rank[c] < Rank[e] ELSE missing(c) > missing(e)
  IN Listed({c \in Clients : ~Complete(requirements[c])}, Before)

----------------------------------------------------------------------------
(* Reads, one query at a time, among the commits of others *)

NoTable == <<>>
NoQuery == [kind |-> "CLIENTS", size |-> 1, order |-> "asc", type |-> None, client |-> None]
Idle == [pc |-> "idle", query |-> NoQuery, rows |-> NoTable, documents |-> NoTable, always |-> {}, ever |-> {}]

\* What a queue holds.
InQueue(query, rowTable, documentTable) == QueueRows(query, rowTable) \cup QueueDocuments(query, documentTable)

ReadsInit ==
  /\ \E b \in Beginnings : rows = b.rows /\ documents = b.documents
  /\ changes = 0
  /\ read = Idle

\* The completeness of every client, or of one on its page, and the police
\* follow-up: a query of each table.
LoadClients ==
  /\ read.pc = "idle"
  /\ read' = [Idle EXCEPT !.pc = "clients"]
  /\ UNCHANGED <<rows, documents, changes>>

ListReviewQueue(query) ==
  /\ read.pc = "idle"
  /\ read' = [Idle EXCEPT !.pc = "queue", !.query = query, !.always = InQueue(query, rows, documents),
                          !.ever = InQueue(query, rows, documents)]
  /\ UNCHANGED <<rows, documents, changes>>

QueryRows ==
  /\ read.pc # "idle" /\ read.rows = NoTable
  /\ read' = [read EXCEPT !.rows = rows]
  /\ UNCHANGED <<rows, documents, changes>>

QueryDocuments ==
  /\ read.pc # "idle" /\ read.documents = NoTable
  /\ read' = [read EXCEPT !.documents = documents]
  /\ UNCHANGED <<rows, documents, changes>>

Answered == read.rows # NoTable /\ read.documents # NoTable

Commit ==
  /\ changes < MaxChanges
  /\ CaseNext
  /\ changes' = changes + 1
  /\ read' = IF read.pc = "queue" /\ ~Answered
             THEN [read EXCEPT !.always = @ \cap InQueue(read.query, rows', documents'),
                              !.ever = @ \cup InQueue(read.query, rows', documents')]
             ELSE read

ReadsNext ==
  \/ LoadClients
  \/ \E query \in QueueQueries : ListReviewQueue(query)
  \/ QueryRows
  \/ QueryDocuments
  \/ Commit

ReadsSpec == ReadsInit /\ [][ReadsNext]_readsVars

----------------------------------------------------------------------------
(* Properties.  Those about the tables alone are looked at while nobody     *)
(* reads: a read changes nothing.                                           *)

\* What an admin was shown of a client may be relied on.  "A client is complete
\* when every required document type has a VERIFIED document": a client shown
\* complete, or a follow-up shown completed, still is, whatever was approved,
\* replaced or removed while the page was loaded and after.  "REVIEW_REQUIRED:
\* stored, but only as REVIEW_REQUIRED": there was a document to review, since
\* one that was replaced counts as stored only beside the one in its place.
ShownHolds ==
  read.pc = "clients" /\ Answered =>
    \A c \in Clients :
      LET requirements == Requirements(c, read.rows, read.documents)
          ofType(table, t) == OfType(table, OfClient(table, c), t)
      IN /\ Complete(requirements) =>
              \A t \in RequiredTypes : WithStatus(documents, ofType(documents, t), "VERIFIED") # {}
         /\ \A t \in RequiredTypes : requirements[t] = "REVIEW_REQUIRED" =>
              WithStatus(read.documents, ofType(read.documents, t), "REVIEW_REQUIRED") # {}
         /\ PoliceStatus(c, read.rows, read.documents, 0) = "COMPLETED" =>
              PoliceStatus(c, rows, documents, 0) = "COMPLETED"

CameBefore(query, S, x) == Cardinality({y \in S : ItemBefore(query.order, y, x)})

\* An item that waits all the while the queue is read is on the page that its
\* place belongs to, although the two tables are read at two moments and only
\* up to the end of the page: wherever the items before it come and go, unless
\* they move it over the page's edge.
NothingOverlooked ==
  read.pc = "queue" /\ Answered =>
    \A x \in read.always, page \in 1..Cardinality(Items \cup DocIds) :
      /\ (page - 1) * read.query.size <= CameBefore(read.query, read.always, x)
      /\ CameBefore(read.query, read.ever, x) < page * read.query.size
      => x \in Elements(ReviewQueue(read.query, page, read.rows, read.documents))

\* "The same rule is used on the client page, the Clients list, the Missing
\* Documents view, the Overview and the daily report", and the police view
\* follows the client page: the two ways to work out a client's documents and
\* its follow-up agree in every state of the tables, for a client with no more
\* waiting files than the page loads.
SameRule ==
  read = Idle => \A c \in Clients :
    Cardinality(WaitingOf(rows, c)) <= PendingItemsLimit =>
      /\ Requirements(c, rows, documents) = RequiredDocumentsShown(c, rows, documents)
      /\ c \in Elements(MissingDocuments(rows, documents)) <=> ~Complete(RequiredDocumentsShown(c, rows, documents))
      /\ \A today \in {PoliceReportDueDate(date) : date \in Dates} :
           PoliceStatus(c, rows, documents, today) = PoliceStatusShown(c, rows, documents, today)

FollowUpEnds(c) == PoliceReportDueDate(Latest({documents[d].date : d \in
  OfType(documents, PoliceDocuments(documents) \cap OfClient(documents, c), PoliceSlip)} \ {NoDate}))

\* "Most urgent first": among the clients whose follow-up runs, one whose
\* report was due earlier comes first, whichever words their statuses have;
\* then those without a date, and the completed ones last.
MostUrgentFirst ==
  read = Idle => \A today \in {PoliceReportDueDate(date) : date \in Dates} :
    LET list == PoliceList(rows, documents, today)
        status(k) == PoliceStatus(list[k], rows, documents, today)
    IN \A k, l \in DOMAIN list : k < l =>
         /\ status(l) \in Running =>
              status(k) \in Running /\ FollowUpEnds(list[k]) <= FollowUpEnds(list[l])
         /\ status(k) = "COMPLETED" => status(l) = "COMPLETED"
=============================================================================
