------------------------- MODULE MCSubmissionWorker -------------------------
(* Small instances of SubmissionWorker.  The scenarios differ in what the  *)
(* submissions contain and in what the pipeline may read from them.        *)
EXTENDS SubmissionWorker, TLC

MCClients == {"A", "B"}
MCChecksums == {"x", "y"}
Symmetry == Permutations(Workers)

Clean(c) == [client |-> c, type |-> "MEDICAL", band |-> "VERIFIED", status |-> "VERIFIED",
             blocked |-> FALSE, reconcile |-> FALSE]
Passport(c) == [Clean(c) EXCEPT !.type = "PASSPORT", !.reconcile = TRUE]
Unclear(reading) == [reading EXCEPT !.band = "UNCLEAR", !.status = "UNCLEAR"]
Unknown == [NoReading EXCEPT !.blocked = TRUE]

\* All submissions are the same file of one sender.
SameFile == [s \in Submissions |-> "x"]
OneSender == [s \in Submissions |-> "n1"]

\* One passport: which client it is matched with, and how well it reads, may
\* change between attempts.
EitherClient == [s \in Submissions |-> {Passport("A"), Unclear(Passport("B")), Unknown}]
\* Medical certificates of one client, to be filed or held for review: which
\* of the two may change between attempts.
Held(reading) == [reading EXCEPT !.blocked = TRUE, !.status = "MANUAL_REVIEW"]
FiledOrHeldForA == [s \in Submissions |-> {Clean("A"), Held(Clean("A"))}]
=============================================================================
