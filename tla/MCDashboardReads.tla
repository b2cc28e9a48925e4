-------------------------- MODULE MCDashboardReads --------------------------
EXTENDS DashboardReads

MCTypes == {"PASSPORT", PoliceSlip, PoliceReport}
MCRequired == {"PASSPORT", PoliceReport}

\* Submissions 2 and 3 and document 5 were received in the same second.
MCAt == [x \in Items \cup DocIds |-> IF x = 1 THEN 1 ELSE IF x = 4 THEN 3 ELSE 2]

Submission(state, client, type) == [state |-> state, client |-> client, type |-> type]
MCRank == [c \in Clients |-> IF c = "A" THEN 1 ELSE 2]
Stored(status, type, date) == [status |-> status, client |-> IF date = 10960 THEN "B" ELSE "A", type |-> type, date |-> date]
Rows(first, second, third) == [i \in Items |-> IF i = 1 THEN first ELSE IF i = 2 THEN second ELSE third]
Docs(first, second) == [d \in DocIds |-> IF d = 4 THEN first ELSE second]

MCBeginnings ==
  LET waiting(t) == Submission("WAITING", "A", t)
      received == Submission("RECEIVED", None, None)
  IN { [rows |-> Rows(waiting("PASSPORT"), waiting(t), waiting(PoliceReport)), documents |-> docs] :
         t \in {"PASSPORT", PoliceSlip},
         docs \in { Docs(NoDocument, NoDocument),
                    Docs(Stored("VERIFIED", "PASSPORT", NoDate), NoDocument),
                    Docs(Stored("VERIFIED", "PASSPORT", NoDate), Stored("REVIEW_REQUIRED", PoliceReport, NoDate)) } }
     \cup
     { [rows |-> Rows(waiting(PoliceSlip), received, Submission("FAILED", "A", "PASSPORT")), documents |-> docs] :
         docs \in { Docs(Stored("VERIFIED", PoliceSlip, 10957), NoDocument),
                    Docs(Stored("VERIFIED", PoliceSlip, 10957), Stored("VERIFIED", PoliceSlip, 10960)),
                    Docs(Stored("REVIEW_REQUIRED", PoliceSlip, 10960), Stored("VERIFIED", "PASSPORT", NoDate)) } }

Query(kind, size, order, type) == [kind |-> kind, size |-> size, order |-> order, type |-> type, client |-> None]
MCQueueQueries == { Query("ALL", 1, "asc", None), Query("ALL", 2, "desc", None), Query("ALL", 2, "asc", "PASSPORT"),
                    Query("PENDING", 1, "asc", None), Query("DOCUMENT", 1, "desc", None), Query("FAILED", 1, "desc", None),
                    Query("STORED", 1, "desc", None) }
=============================================================================
