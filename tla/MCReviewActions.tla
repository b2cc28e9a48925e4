--------------------------- MODULE MCReviewActions ---------------------------
EXTENDS ReviewActions, TLC

MCTypes == {"PASSPORT", "POLICE_SLIP", "UNKNOWN"}
MCFolderTypes == MCTypes \ {"UNKNOWN"}
MCSha == [i \in Items |-> IF i = "t1" THEN "sha1" ELSE "sha2"]

Submission(state, client, type) == [state |-> state, client |-> client, type |-> type, duplicate |-> FALSE]

\* A document that was on record before, under the first name of its folder.
Earlier(status, content) ==
  [status |-> status, client |-> "A", type |-> "PASSPORT", content |-> content,
   name |-> <<"A", "PASSPORT", 1>>, dated |-> FALSE, from |-> None]

Empty == [d \in DocIds |-> NoDocument]
With(document) == {[Empty EXCEPT ![d] = document] : d \in DocIds}
Both(first, second) == [i \in Items |-> IF i = "t1" THEN first ELSE second]

\* Next to a passport of A that waits: another one, a slip of A or a passport
\* of nobody, with nothing on record; another one or a file of unknown type,
\* with a verified passport on record; another one, with a passport in review.
\* Next to a passport of A still being processed: another one or a slip.  And an
\* exact copy of a verified passport.
MCBeginnings ==
  { [rows |-> Both(first, Submission("WAITING", "A", "PASSPORT")), documents |-> Empty] :
      first \in {Submission("WAITING", "A", "PASSPORT"), Submission("WAITING", "A", "POLICE_SLIP"),
                 Submission("WAITING", None, "PASSPORT")} }
  \cup
  { [rows |-> Both(Submission("WAITING", "A", t), Submission("WAITING", "A", "PASSPORT")), documents |-> docs] :
      t \in {"PASSPORT", "UNKNOWN"}, docs \in With(Earlier("VERIFIED", "sha3")) }
  \cup
  { [rows |-> Both(Submission("WAITING", "A", "PASSPORT"), Submission("WAITING", "A", "PASSPORT")), documents |-> docs] :
      docs \in With(Earlier("REVIEW_REQUIRED", "sha3")) }
  \cup
  { [rows |-> Both(Submission("WAITING", "A", t), Submission("RECEIVED", "A", "PASSPORT")), documents |-> Empty] :
      t \in {"PASSPORT", "POLICE_SLIP"} }
  \cup
  { [rows |-> Both([Submission("WAITING", "A", "PASSPORT") EXCEPT !.duplicate = TRUE], Submission("WAITING", None, "UNKNOWN")),
     documents |-> docs] : docs \in With(Earlier("VERIFIED", "sha1")) }

Symmetry == Permutations(Admins) \cup Permutations(DocIds)
=============================================================================
