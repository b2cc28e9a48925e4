------------------------- MODULE DashboardReadsProofs -------------------------
(***************************************************************************)
(* What the dashboard is told.  The first part is about lists: the place   *)
(* of an element in an ordered list is the number of those before it, and  *)
(* a page holds those whose places it covers.  The second part is what a   *)
(* read relies on while others commit; the third works out the answers,    *)
(* and the last is about the days in which the reports count and the       *)
(* police follow-up runs.                                                  *)
(***************************************************************************)
EXTENDS DashboardReads, BusinessClock, FiniteSetTheorems, FunctionTheorems, TLAPS

----------------------------------------------------------------------------
(* Lists *)

\* R puts the elements of S in one order.
StrictOrder(R, S) ==
  /\ \A x \in S : <<x, x>> \notin R
  /\ \A x \in S, y \in S, z \in S : <<x, y>> \in R /\ <<y, z>> \in R => <<x, z>> \in R
  /\ \A x \in S, y \in S : x = y \/ <<x, y>> \in R \/ <<y, x>> \in R

Ahead(R, S, x) == {y \in S : <<y, x>> \in R}
Place(R, S, x) == Cardinality(Ahead(R, S, x))

\* L is the list of the elements of S in the order of R.
IsListed(L, R, S) ==
  /\ L \in [1..Cardinality(S) -> S]
  /\ \A k \in 1..Cardinality(S) : Place(R, S, L[k]) = k - 1

\* A larger set has no fewer elements before one of them.
LEMMA PlaceGrows ==
  ASSUME NEW S, IsFiniteSet(S), NEW T \in SUBSET S, NEW R, NEW x
  PROVE  /\ Place(R, T, x) \in Nat
         /\ Place(R, S, x) \in Nat
         /\ Place(R, T, x) <= Place(R, S, x)
<1>1. IsFiniteSet(Ahead(R, S, x)) /\ Ahead(R, T, x) \in SUBSET Ahead(R, S, x)
  <2>1. Ahead(R, S, x) \in SUBSET S
    BY DEF Ahead
  <2> QED
    BY <2>1, FS_Subset DEF Ahead
<1>2. IsFiniteSet(Ahead(R, T, x)) /\ Cardinality(Ahead(R, T, x)) <= Cardinality(Ahead(R, S, x))
  BY <1>1, FS_Subset
<1> QED
  BY <1>1, <1>2, FS_CardinalityType DEF Place

\* In a finite order every element has a place of its own, and every place is
\* taken.
LEMMA Places ==
  ASSUME NEW S, IsFiniteSet(S), NEW R, StrictOrder(R, S)
  PROVE  /\ Cardinality(S) \in Nat
         /\ \A x \in S : Place(R, S, x) \in 0..Cardinality(S) - 1
         /\ \A x \in S, y \in S : Place(R, S, x) < Place(R, S, y) <=> <<x, y>> \in R
         /\ \A k \in 1..Cardinality(S) : \E x \in S : Place(R, S, x) = k - 1
<1> DEFINE n == Cardinality(S)
<1>1. n \in Nat
  BY FS_CardinalityType
<1>2. \A x \in S : Place(R, S, x) \in 0..n - 1
  <2> SUFFICES ASSUME NEW x \in S PROVE Place(R, S, x) \in 0..n - 1
    OBVIOUS
  <2>1. Ahead(R, S, x) \in SUBSET S /\ x \notin Ahead(R, S, x)
    BY DEF Ahead, StrictOrder
  <2>2. /\ IsFiniteSet(Ahead(R, S, x))
        /\ Cardinality(Ahead(R, S, x)) <= n
        /\ Cardinality(Ahead(R, S, x)) # n
    BY <2>1, FS_Subset
  <2>3. Cardinality(Ahead(R, S, x)) \in Nat
    BY <2>2, FS_CardinalityType
  <2> QED
    BY <1>1, <2>2, <2>3 DEF Place
<1>3. ASSUME NEW x \in S, NEW y \in S, <<x, y>> \in R
      PROVE  Place(R, S, x) < Place(R, S, y)
  <2>1. /\ Ahead(R, S, x) \in SUBSET Ahead(R, S, y)
        /\ x \in Ahead(R, S, y) /\ x \notin Ahead(R, S, x)
        /\ Ahead(R, S, y) \in SUBSET S
    BY <1>3 DEF Ahead, StrictOrder
  <2>2. IsFiniteSet(Ahead(R, S, y))
    BY <2>1, FS_Subset
  <2>3. /\ IsFiniteSet(Ahead(R, S, x))
        /\ Cardinality(Ahead(R, S, x)) <= Cardinality(Ahead(R, S, y))
        /\ Cardinality(Ahead(R, S, x)) # Cardinality(Ahead(R, S, y))
    BY <2>1, <2>2, FS_Subset
  <2> QED
    BY <2>2, <2>3, FS_CardinalityType DEF Place
<1>4. \A x \in S, y \in S : Place(R, S, x) < Place(R, S, y) <=> <<x, y>> \in R
  <2> SUFFICES ASSUME NEW x \in S, NEW y \in S PROVE Place(R, S, x) < Place(R, S, y) <=> <<x, y>> \in R
    OBVIOUS
  <2>1. Place(R, S, x) \in Int /\ Place(R, S, y) \in Int
    BY <1>1, <1>2
  <2>2. CASE x = y
    BY <2>1, <2>2 DEF StrictOrder
  <2>3. CASE <<x, y>> \in R
    BY <2>3, <1>3
  <2>4. CASE <<y, x>> \in R
    <3>1. Place(R, S, y) < Place(R, S, x)
      BY <2>4, <1>3
    <3>2. <<x, y>> \notin R
      BY <2>1, <3>1, <1>3
    <3> QED
      BY <2>1, <3>1, <3>2
  <2> QED
    BY <2>2, <2>3, <2>4 DEF StrictOrder
<1>5. \A k \in 1..n : \E x \in S : Place(R, S, x) = k - 1
  <2> DEFINE f == [x \in S |-> Place(R, S, x) + 1]
  <2>1. f \in [S -> 1..n]
    BY <1>1, <1>2
  <2>2. \A x \in S, y \in S : f[x] = f[y] => x = y
    <3> SUFFICES ASSUME NEW x \in S, NEW y \in S, f[x] = f[y], x # y PROVE FALSE
      OBVIOUS
    <3>1. Place(R, S, x) = Place(R, S, y) /\ Place(R, S, x) \in Int
      BY <1>1, <1>2
    <3>2. <<x, y>> \in R \/ <<y, x>> \in R
      BY DEF StrictOrder
    <3> QED
      BY <3>1, <3>2, <1>4
  <2>3. f \in Injection(S, 1..n)
    BY <2>1, <2>2 DEF Injection, IsInjective
  <2>4. IsFiniteSet(1..n) /\ Cardinality(1..n) = n
    BY <1>1, FS_Interval
  <2>5. f \in Surjection(S, 1..n)
    <3> HIDE DEF f
    <3> QED
      BY <2>3, <2>4, FS_Injection
  <2> SUFFICES ASSUME NEW k \in 1..n PROVE \E x \in S : Place(R, S, x) = k - 1
    OBVIOUS
  <2>6. PICK x \in S : f[x] = k
    <3> HIDE DEF f
    <3> QED
      BY <2>5 DEF Surjection
  <2>7. Place(R, S, x) + 1 = k /\ Place(R, S, x) \in Int
    BY <1>1, <1>2, <2>6
  <2> QED
    BY <2>7
<1> QED
  BY <1>1, <1>2, <1>4, <1>5

\* What a list shows: every element, each at its place, those before first.
LEMMA ListOrder ==
  ASSUME NEW S, IsFiniteSet(S), NEW R, StrictOrder(R, S), NEW L, IsListed(L, R, S)
  PROVE  /\ DOMAIN L = 1..Cardinality(S) /\ Len(L) = Cardinality(S)
         /\ \A k \in DOMAIN L : L[k] \in S
         /\ \A x \in S : Place(R, S, x) + 1 \in DOMAIN L /\ L[Place(R, S, x) + 1] = x
         /\ \A k \in DOMAIN L, l \in DOMAIN L : k < l => <<L[k], L[l]>> \in R
<1> DEFINE n == Cardinality(S)
<1>1. /\ n \in Nat
      /\ \A x \in S : Place(R, S, x) \in 0..n - 1
      /\ \A x \in S, y \in S : Place(R, S, x) < Place(R, S, y) <=> <<x, y>> \in R
  BY Places
<1>2. L \in [1..n -> S] /\ \A k \in 1..n : Place(R, S, L[k]) = k - 1
  BY DEF IsListed
<1> HIDE DEF n
<1>3. DOMAIN L = 1..n /\ Len(L) = n /\ \A k \in 1..n : L[k] \in S
  <2>1. L \in Seq(S)
    BY <1>1, <1>2
  <2> QED
    BY <1>1, <1>2, <2>1
<1>4. \A x \in S : Place(R, S, x) + 1 \in 1..n /\ L[Place(R, S, x) + 1] = x
  <2> SUFFICES ASSUME NEW x \in S PROVE Place(R, S, x) + 1 \in 1..n /\ L[Place(R, S, x) + 1] = x
    OBVIOUS
  <2> DEFINE p == Place(R, S, x)
  <2>1. p \in 0..n - 1 /\ p + 1 \in 1..n /\ (p + 1) - 1 = p
    BY <1>1
  <2>2. Place(R, S, L[p + 1]) = p /\ L[p + 1] \in S
    BY <1>2, <2>1
  <2>3. <<L[p + 1], x>> \notin R /\ <<x, L[p + 1]>> \notin R
    BY <1>1, <2>1, <2>2
  <2> QED
    BY <2>1, <2>2, <2>3 DEF StrictOrder
<1>5. \A k \in 1..n, l \in 1..n : k < l => <<L[k], L[l]>> \in R
  <2> SUFFICES ASSUME NEW k \in 1..n, NEW l \in 1..n, k < l PROVE <<L[k], L[l]>> \in R
    OBVIOUS
  <2>1. Place(R, S, L[k]) < Place(R, S, L[l])
    BY <1>2
  <2> QED
    BY <1>1, <1>3, <2>1
<1> QED
  BY <1>3, <1>4, <1>5 DEF n

\* A page of a list holds the elements whose places it covers.
LEMMA SliceHolds ==
  ASSUME NEW S, IsFiniteSet(S), NEW R, StrictOrder(R, S), NEW L, IsListed(L, R, S),
         NEW from \in Nat, NEW to \in Nat
  PROVE  Elements(Slice(L, from, to)) = {x \in S : from <= Place(R, S, x) /\ Place(R, S, x) < to}
<1> DEFINE n == Cardinality(S)
           last == IF to < Len(L) THEN to ELSE Len(L)
           cut == Slice(L, from, to)
<1>1. /\ n \in Nat
      /\ \A x \in S : Place(R, S, x) \in 0..n - 1
  BY Places
<1>2. /\ DOMAIN L = 1..n /\ Len(L) = n
      /\ \A k \in 1..n : L[k] \in S
      /\ \A x \in S : L[Place(R, S, x) + 1] = x
  BY ListOrder
<1>3. \A k \in 1..n : Place(R, S, L[k]) = k - 1
  BY DEF IsListed
<1> HIDE DEF n
<1>4. last \in Nat /\ last <= n /\ last <= to /\ (last = n \/ last = to)
  BY <1>1, <1>2
<1>5. DOMAIN cut = 1..(last - from) /\ \A k \in 1..(last - from) : cut[k] = L[from + k]
  BY DEF Slice
<1> HIDE DEF cut, last
<1>6. ASSUME NEW k \in 1..(last - from)
      PROVE  cut[k] \in S /\ from <= Place(R, S, cut[k]) /\ Place(R, S, cut[k]) < to
  <2>1. from + k \in 1..n /\ from + k <= to
    BY <1>1, <1>4
  <2> QED
    BY <1>2, <1>3, <1>5, <2>1
<1>7. ASSUME NEW x \in S, from <= Place(R, S, x), Place(R, S, x) < to
      PROVE  \E k \in 1..(last - from) : cut[k] = x
  <2> DEFINE p == Place(R, S, x)
  <2>1. p \in 0..n - 1 /\ from <= p /\ p < to
    BY <1>1, <1>7
  <2> HIDE DEF p
  <2>2. p + 1 - from \in 1..(last - from) /\ from + (p + 1 - from) = p + 1
    BY <1>1, <1>4, <2>1
  <2>3. cut[p + 1 - from] = L[p + 1]
    BY <1>5, <2>2
  <2> QED
    BY <1>2, <2>2, <2>3 DEF p
<1> QED
  BY <1>5, <1>6, <1>7 DEF Elements, cut

----------------------------------------------------------------------------
(* The lists of the dashboard are such lists *)

AllItems == Items \cup DocIds

\* The order of the review queue.
ItemOrder(query) == {p \in AllItems \X AllItems : ItemBefore(query.order, p[1], p[2])}

LEMMA ItemsOrdered ==
  ASSUME NEW query, NEW S \in SUBSET AllItems
  PROVE  /\ IsFiniteSet(S)
         /\ StrictOrder(ItemOrder(query), S)
         /\ IsListed(InOrder(query, S), ItemOrder(query), S)
<1>1. IsFiniteSet(S)
  <2>1. IsFiniteSet(AllItems)
    BY DashboardAssumption, FS_Union DEF AllItems
  <2> QED
    BY <2>1, FS_Subset
<1>2. \A x \in AllItems : At[x] \in Nat /\ x \in Nat
  BY DashboardAssumption DEF AllItems
<1>3. \A x \in S, y \in S : <<x, y>> \in ItemOrder(query) <=> ItemBefore(query.order, x, y)
  BY DEF ItemOrder
<1>4. StrictOrder(ItemOrder(query), S)
  <2>1. \A x \in S : ~ItemBefore(query.order, x, x)
    BY <1>2 DEF ItemBefore, IdBefore
  <2>2. \A x \in S, y \in S : x = y \/ ItemBefore(query.order, x, y) \/ ItemBefore(query.order, y, x)
    BY <1>2 DEF ItemBefore, IdBefore
  <2>3. ASSUME NEW x \in S, NEW y \in S, NEW z \in S,
               ItemBefore(query.order, x, y), ItemBefore(query.order, y, z)
        PROVE  ItemBefore(query.order, x, z)
    <3>1. /\ x \in Nat /\ y \in Nat /\ z \in Nat
          /\ At[x] \in Nat /\ At[y] \in Nat /\ At[z] \in Nat
      BY <1>2
    <3>2. CASE query.order = "desc"
      BY <3>1, <3>2, <2>3 DEF ItemBefore, IdBefore
    <3>3. CASE query.order # "desc"
      BY <3>1, <3>3, <2>3 DEF ItemBefore, IdBefore
    <3> QED
      BY <3>2, <3>3
  <2> QED
    BY <1>3, <2>1, <2>2, <2>3 DEF StrictOrder
<1>5. IsListed(InOrder(query, S), ItemOrder(query), S)
  <2> DEFINE list == InOrder(query, S)
             at(x) == Cardinality({y \in S : ItemBefore(query.order, y, x)})
  <2>1. list = [k \in 1..Cardinality(S) |-> CHOOSE x \in S : at(x) = k - 1]
    BY DEF InOrder, Listed
  <2>2. \A x \in S : at(x) = Place(ItemOrder(query), S, x)
    <3> SUFFICES ASSUME NEW x \in S PROVE at(x) = Place(ItemOrder(query), S, x)
      OBVIOUS
    <3>1. {y \in S : ItemBefore(query.order, y, x)} = Ahead(ItemOrder(query), S, x)
      BY <1>3 DEF Ahead
    <3> QED
      BY <3>1 DEF Place
  <2> HIDE DEF at, list
  <2>3. \A k \in 1..Cardinality(S) : \E x \in S : at(x) = k - 1
    BY <1>1, <1>4, <2>2, Places
  <2>4. \A k \in 1..Cardinality(S) : list[k] \in S /\ at(list[k]) = k - 1
    BY <2>1, <2>3
  <2> QED
    BY <2>1, <2>2, <2>4 DEF IsListed, list
<1> QED
  BY <1>1, <1>4, <1>5

----------------------------------------------------------------------------
(* What a read may rely on *)

TablesTyped == rows \in [Items -> Row] /\ documents \in [DocIds -> Document]

Reading == [pc : {"idle", "clients", "queue"}, query : QueueQueries \cup {NoQuery},
            rows : [Items -> Row] \cup {NoTable}, documents : [DocIds -> Document] \cup {NoTable},
            always : SUBSET AllItems, ever : SUBSET AllItems]

\* The tables hold rows and documents, and a read has one of its three forms.
ReadsTypeOK == TablesTyped /\ changes \in Nat /\ read \in Reading

\* Whatever a read was given as verified, the table has it verified still.
Kept ==
  read.documents # NoTable =>
    /\ Replaced(read.documents)
    /\ \A c \in Clients, t \in RequiredTypes \cup {PoliceReport} :
         HasVerified(read.documents, c, t) => HasVerified(documents, c, t)

\* A query that was not answered yet will be given the table of that moment.
RowsRead == IF read.rows = NoTable THEN rows ELSE read.rows
DocumentsRead == IF read.documents = NoTable THEN documents ELSE read.documents

\* What the queue is made of is among what waited at some moment of the read,
\* and has all that waited throughout.
Enclosed ==
  read.pc = "queue" =>
    /\ read.query \in QueueQueries
    /\ read.always \subseteq InQueue(read.query, RowsRead, DocumentsRead)
    /\ InQueue(read.query, RowsRead, DocumentsRead) \subseteq read.ever

ReadsInv == ReadsTypeOK /\ Replaced(documents) /\ Kept /\ Enclosed

\* The verified documents of one table are in the other, under the same client
\* and type.
StillVerified(table, after) == \A c, t : HasVerified(table, c, t) => HasVerified(after, c, t)

LEMMA StoredDocuments ==
  /\ \A x \in Document : x # NoDocument => x \in StoredDocument
  /\ \A x \in StoredDocument : x \in Document /\ x # NoDocument /\ x.client \in Clients
  /\ Filed \subseteq StoredDocument
  /\ NoDocument \in Document /\ NoDocument.status = "NONE"
  BY CaseAssumption DEF Document, StoredDocument, NoDocument, Filed

\* One document is changed, and neither what was verified is lost nor a
\* document is replaced by nothing.
LEMMA OneDocument ==
  ASSUME NEW table \in [DocIds -> Document], Replaced(table), NEW d \in DocIds, NEW new \in Document,
         table[d].status = "VERIFIED" =>
           new.status = "VERIFIED" /\ new.client = table[d].client /\ new.type = table[d].type,
         new.status = "SUPERSEDED" =>
           table[d].status = "SUPERSEDED" /\ new.client = table[d].client /\ new.type = table[d].type
  PROVE  LET after == [table EXCEPT ![d] = new]
         IN after \in [DocIds -> Document] /\ Replaced(after) /\ StillVerified(table, after)
<1> DEFINE after == [table EXCEPT ![d] = new]
<1>1. /\ after \in [DocIds -> Document]
      /\ after[d] = new
      /\ \A e \in DocIds : e # d => after[e] = table[e]
  OBVIOUS
<1> HIDE DEF after
<1>2. ASSUME NEW c, NEW t, HasVerified(table, c, t) PROVE HasVerified(after, c, t)
  BY <1>1, <1>2 DEF HasVerified
<1>3. Replaced(after)
  <2> SUFFICES ASSUME NEW e \in DocIds, after[e].status = "SUPERSEDED"
               PROVE  HasVerified(after, after[e].client, after[e].type)
    BY DEF Replaced
  <2>1. table[e].status = "SUPERSEDED" /\ after[e].client = table[e].client /\ after[e].type = table[e].type
    BY <1>1
  <2>2. HasVerified(table, after[e].client, after[e].type)
    BY <2>1 DEF Replaced
  <2> QED
    BY <2>2, <1>2
<1> QED
  BY <1>1, <1>2, <1>3 DEF StillVerified, after

\* One document takes the place of a verified one.
LEMMA InPlaceOf ==
  ASSUME NEW table \in [DocIds -> Document], Replaced(table), NEW d \in DocIds, NEW e \in DocIds,
         table[d] = NoDocument, table[e].status = "VERIFIED", NEW new \in StoredDocument,
         new.status = "VERIFIED", new.client = table[e].client, new.type = table[e].type
  PROVE  LET after == [table EXCEPT ![d] = new, ![e] = [@ EXCEPT !.status = "SUPERSEDED"]]
         IN after \in [DocIds -> Document] /\ Replaced(after) /\ StillVerified(table, after)
<1> DEFINE after == [table EXCEPT ![d] = new, ![e] = [@ EXCEPT !.status = "SUPERSEDED"]]
           old == [table[e] EXCEPT !.status = "SUPERSEDED"]
<1>1. d # e /\ table[e] \in StoredDocument /\ new \in Document
  BY StoredDocuments DEF NoDocument
<1>2. /\ old \in Document /\ old.status = "SUPERSEDED"
      /\ old.client = table[e].client /\ old.type = table[e].type
  BY <1>1 DEF StoredDocument, Document
<1>3. /\ after \in [DocIds -> Document]
      /\ after[d] = new /\ after[e] = old
      /\ \A f \in DocIds : f # d /\ f # e => after[f] = table[f]
  BY <1>1, <1>2
<1> HIDE DEF after, old
<1>4. HasVerified(after, table[e].client, table[e].type)
  BY <1>3 DEF HasVerified
<1>5. ASSUME NEW c, NEW t, HasVerified(table, c, t) PROVE HasVerified(after, c, t)
  <2>1. PICK f \in DocIds : table[f].status = "VERIFIED" /\ table[f].client = c /\ table[f].type = t
    BY <1>5 DEF HasVerified
  <2>2. CASE f = e
    BY <2>1, <2>2, <1>4
  <2>3. CASE f # e
    <3>1. f # d
      BY <2>1 DEF NoDocument
    <3> QED
      BY <2>1, <2>3, <3>1, <1>3 DEF HasVerified
  <2> QED
    BY <2>2, <2>3
<1>6. Replaced(after)
  <2> SUFFICES ASSUME NEW f \in DocIds, after[f].status = "SUPERSEDED"
               PROVE  HasVerified(after, after[f].client, after[f].type)
    BY DEF Replaced
  <2>1. CASE f = e
    BY <2>1, <1>2, <1>3, <1>4
  <2>2. CASE f # e
    <3>1. after[f] = table[f]
      BY <2>2, <1>3
    <3> QED
      BY <3>1, <1>5 DEF Replaced
  <2> QED
    BY <2>1, <2>2
<1> QED
  BY <1>3, <1>5, <1>6 DEF StillVerified, after

LEMMA RowsTyped ==
  ASSUME TablesTyped, CaseNext
  PROVE  rows' \in [Items -> Row]
<1>1. \A i \in Items : rows[i] \in Row
  BY DEF TablesTyped
<1>2. ASSUME NEW i \in Items, NEW from, NEW to \in RowStates, Moves(i, from, to)
      PROVE  rows' \in [Items -> Row]
  BY <1>1, <1>2 DEF TablesTyped, Moves, Row
<1>3. ASSUME NEW i \in Items, Settle(i) PROVE rows' \in [Items -> Row]
  <2>1. Settled \subseteq Row
    BY DEF Settled, Row, RowStates
  <2> QED
    BY <2>1, <1>3 DEF TablesTyped, Settle
<1>4. ASSUME NEW i \in Items, Retry(i) PROVE rows' \in [Items -> Row]
  BY <1>4 DEF TablesTyped, Retry, Row, RowStates
<1>5. ASSUME NEW i \in Items, Correct(i) PROVE rows' \in [Items -> Row]
  BY <1>1, <1>5 DEF TablesTyped, Correct, Row
<1>6. ASSUME NEW i \in Items, Delete(i) PROVE rows' \in [Items -> Row]
  BY <1>1, <1>6 DEF TablesTyped, Delete, Row, RowStates
<1>7. ASSUME NEW i \in Items, NEW d \in DocIds, FileReceived(i, d) PROVE rows' \in [Items -> Row]
  <2>1. PICK new \in Filed : documents' = [documents EXCEPT ![d] = new]
    BY <1>7 DEF FileReceived
  <2>2. documents'[d] = new
    BY <2>1 DEF TablesTyped
  <2>3. [state |-> "CLOSED", client |-> documents'[d].client, type |-> documents'[d].type] \in Row
    BY <2>2 DEF Filed, Row, RowStates
  <2> QED
    BY <2>3, <1>7 DEF TablesTyped, FileReceived
<1>8. ASSUME NEW i \in Items, NEW d \in DocIds, FileWaiting(i, d) PROVE rows' \in [Items -> Row]
  BY <1>2, <1>8 DEF FileWaiting, RowStates
<1>9. ASSUME NEW d \in DocIds, ApproveStored(d) \/ RemoveStored(d) \/ SetDate(d) PROVE rows' \in [Items -> Row]
  BY <1>9 DEF TablesTyped, ApproveStored, RemoveStored, SetDate
<1> QED
  BY <1>3, <1>4, <1>5, <1>6, <1>7, <1>8, <1>9 DEF CaseNext

\* No commit of the worker or of an admin takes a verified document from a
\* client without another of the same type in its place.
LEMMA DocumentsKept ==
  ASSUME TablesTyped, Replaced(documents), CaseNext
  PROVE  documents' \in [DocIds -> Document] /\ Replaced(documents') /\ StillVerified(documents, documents')
<1> DEFINE Good == documents' \in [DocIds -> Document] /\ Replaced(documents') /\ StillVerified(documents, documents')
<1>0. documents \in [DocIds -> Document]
  BY DEF TablesTyped
<1>1. ASSUME UNCHANGED documents PROVE Good
  BY <1>0, <1>1 DEF StillVerified
<1>2. ASSUME NEW d \in DocIds, NEW new \in Filed, documents[d] = NoDocument,
             documents' = [documents EXCEPT ![d] = new]
      PROVE  Good
  <2>1. new \in Document /\ new.status # "SUPERSEDED" /\ documents[d].status # "VERIFIED"
    BY <1>2, StoredDocuments DEF Filed, NoDocument
  <2> QED
    BY <1>0, <1>2, <2>1, OneDocument
<1>3. ASSUME NEW i \in Items, NEW d \in DocIds, FileWaiting(i, d) PROVE Good
  <2>1. CASE \E new \in AsCopied(i, "VERIFIED") \cup AsCopied(i, "REVIEW_REQUIRED") : documents' = [documents EXCEPT ![d] = new]
    BY <1>2, <1>3, <2>1 DEF AsCopied, FileWaiting
  <2>2. CASE \E new \in AsCopied(i, "VERIFIED"), e \in Supersedable(i) :
               documents' = [documents EXCEPT ![d] = new, ![e] = [@ EXCEPT !.status = "SUPERSEDED"]]
    <3>1. PICK new \in AsCopied(i, "VERIFIED"), e \in Supersedable(i) :
               documents' = [documents EXCEPT ![d] = new, ![e] = [@ EXCEPT !.status = "SUPERSEDED"]]
      BY <2>2
    <3>2. /\ new \in StoredDocument /\ new.status = "VERIFIED"
          /\ new.client = documents[e].client /\ new.type = documents[e].type
          /\ e \in DocIds /\ documents[e].status = "VERIFIED"
      BY StoredDocuments DEF AsCopied, Supersedable
    <3>3. documents[d] = NoDocument
      BY <1>3 DEF FileWaiting
    <3> QED
      BY <1>0, <3>1, <3>2, <3>3, InPlaceOf
  <2> QED
    BY <1>3, <2>1, <2>2 DEF FileWaiting
<1>4. ASSUME NEW d \in DocIds, ApproveStored(d) PROVE Good
  <2>1. PICK date \in Dates \cup {documents[d].date} :
               documents' = [documents EXCEPT ![d] = [@ EXCEPT !.status = "VERIFIED", !.date = date]]
    BY <1>4 DEF ApproveStored
  <2> DEFINE new == [documents[d] EXCEPT !.status = "VERIFIED", !.date = date]
  <2>2. documents[d].status = "REVIEW_REQUIRED" /\ documents[d] \in StoredDocument
    BY <1>0, <1>4, StoredDocuments DEF ApproveStored, NoDocument
  <2>3. new \in Document /\ new.status = "VERIFIED"
    BY <2>2 DEF StoredDocument, Document
  <2>4. documents' = [documents EXCEPT ![d] = new]
    BY <2>1
  <2> HIDE DEF new
  <2> QED
    BY <1>0, <2>2, <2>3, <2>4, OneDocument
<1>5. ASSUME NEW d \in DocIds, RemoveStored(d) PROVE Good
  <2>1. /\ documents[d].status = "REVIEW_REQUIRED" /\ documents' = [documents EXCEPT ![d] = NoDocument]
        /\ NoDocument \in Document /\ NoDocument.status = "NONE"
    BY <1>5, StoredDocuments DEF RemoveStored
  <2> HIDE DEF Good
  <2>2. documents[d].status # "VERIFIED" /\ NoDocument.status # "SUPERSEDED"
    BY <2>1
  <2> QED
    BY <1>0, <2>1, <2>2, OneDocument DEF Good
<1>6. ASSUME NEW d \in DocIds, SetDate(d) PROVE Good
  <2>1. PICK date \in Dates : documents' = [documents EXCEPT ![d] = [@ EXCEPT !.date = date]]
    BY <1>6 DEF SetDate
  <2> DEFINE new == [documents[d] EXCEPT !.date = date]
  <2>2. documents[d] \in StoredDocument
    BY <1>0, <1>6, StoredDocuments DEF SetDate
  <2>3. /\ new \in Document /\ new.status = documents[d].status
        /\ new.client = documents[d].client /\ new.type = documents[d].type
    BY <2>2 DEF StoredDocument, Document
  <2>4. documents' = [documents EXCEPT ![d] = new]
    BY <2>1
  <2> HIDE DEF new
  <2> QED
    BY <1>0, <2>3, <2>4, OneDocument
<1>7. ASSUME NEW i \in Items, Settle(i) \/ Retry(i) \/ Correct(i) \/ Delete(i) PROVE Good
  <2>1. UNCHANGED documents
    BY <1>7 DEF Settle, Retry, Correct, Delete
  <2> QED
    BY <1>1, <2>1
<1>8. ASSUME NEW i \in Items, NEW d \in DocIds, FileReceived(i, d) PROVE Good
  BY <1>2, <1>8 DEF FileReceived
<1> QED
  BY <1>3, <1>4, <1>5, <1>6, <1>7, <1>8 DEF CaseNext

\* A queue holds submissions and documents, which have different ids.
LEMMA QueueItems ==
  ASSUME NEW query, NEW rowTable, NEW documentTable
  PROVE  /\ QueueRows(query, rowTable) \subseteq Items
         /\ QueueDocuments(query, documentTable) \subseteq DocIds
         /\ InQueue(query, rowTable, documentTable) \in SUBSET AllItems
         /\ Items \cap DocIds = {}
<1>1. QueueRows(query, rowTable) \subseteq Items
  BY DEF QueueRows, Waiting, Failed
<1>2. QueueDocuments(query, documentTable) \subseteq DocIds
  BY DEF QueueDocuments, InReview
<1> QED
  BY <1>1, <1>2, DashboardAssumption DEF InQueue, AllItems

LEMMA ReadsStart == ReadsInit => ReadsInv
<1> SUFFICES ASSUME ReadsInit PROVE ReadsInv
  OBVIOUS
<1>1. TablesTyped /\ Replaced(documents)
  BY DashboardAssumption DEF ReadsInit, TablesTyped
<1>2. read = Idle /\ changes \in Nat
  BY DEF ReadsInit
<1>3. read \in Reading
  BY <1>2 DEF Idle, Reading
<1> QED
  BY <1>1, <1>2, <1>3 DEF ReadsInv, ReadsTypeOK, Kept, Enclosed, Idle

LEMMA ReadsStep == ReadsInv /\ [ReadsNext]_readsVars => ReadsInv'
<1> SUFFICES ASSUME ReadsInv, [ReadsNext]_readsVars PROVE ReadsInv'
  OBVIOUS
<1> USE DEF ReadsInv, ReadsTypeOK
<1>1. CASE LoadClients
  <2>1. TablesTyped' /\ Replaced(documents') /\ changes' \in Nat
    BY <1>1 DEF LoadClients, TablesTyped, Replaced, HasVerified
  <2>2. read' = [Idle EXCEPT !.pc = "clients"]
    BY <1>1 DEF LoadClients
  <2>3. read'.pc = "clients" /\ read'.documents = NoTable /\ read' \in Reading
    BY <2>2 DEF Idle, Reading
  <2> QED
    BY <2>1, <2>3 DEF Kept, Enclosed
<1>2. ASSUME NEW query \in QueueQueries, ListReviewQueue(query) PROVE ReadsInv'
  <2> DEFINE held == InQueue(query, rows, documents)
  <2>1. TablesTyped' /\ Replaced(documents') /\ changes' \in Nat
    BY <1>2 DEF ListReviewQueue, TablesTyped, Replaced, HasVerified
  <2>2. held \in SUBSET AllItems
    BY QueueItems
  <2>3. held' = held
    BY <1>2 DEF ListReviewQueue, InQueue, QueueRows, QueueDocuments, Waiting, Failed, InReview
  <2> HIDE DEF held
  <2>4. read' = [Idle EXCEPT !.pc = "queue", !.query = query, !.always = held, !.ever = held]
    BY <1>2 DEF ListReviewQueue, held
  <2>5. /\ read' \in Reading /\ read'.query = query /\ read'.always = held /\ read'.ever = held
        /\ read'.rows = NoTable /\ read'.documents = NoTable
    BY <2>2, <2>4 DEF Idle, Reading
  <2>6. InQueue(read.query, RowsRead, DocumentsRead)' = held'
    BY <2>5 DEF RowsRead, DocumentsRead, held
  <2> QED
    BY <2>1, <2>3, <2>5, <2>6 DEF Kept, Enclosed
<1>3. CASE QueryRows
  <2>1. TablesTyped' /\ Replaced(documents') /\ changes' \in Nat
    BY <1>3 DEF QueryRows, TablesTyped, Replaced, HasVerified
  <2>2. /\ read' = [read EXCEPT !.rows = rows] /\ rows' = rows /\ documents' = documents
        /\ read.rows = NoTable
    BY <1>3 DEF QueryRows
  <2>3. /\ read' \in Reading /\ read'.pc = read.pc /\ read'.query = read.query /\ read'.rows = rows
        /\ read'.documents = read.documents /\ read'.always = read.always /\ read'.ever = read.ever
    BY <2>2 DEF Reading, TablesTyped
  <2>4. RowsRead' = RowsRead /\ DocumentsRead' = DocumentsRead
    BY <2>2, <2>3 DEF RowsRead, DocumentsRead
  <2>5. Enclosed'
    BY <2>3, <2>4 DEF Enclosed, InQueue, QueueRows, QueueDocuments, Waiting, Failed, InReview
  <2>6. Kept'
    BY <2>2, <2>3 DEF Kept, Replaced, HasVerified
  <2> QED
    BY <2>1, <2>3, <2>5, <2>6
<1>4. CASE QueryDocuments
  <2>1. TablesTyped' /\ Replaced(documents') /\ changes' \in Nat
    BY <1>4 DEF QueryDocuments, TablesTyped, Replaced, HasVerified
  <2>2. /\ read' = [read EXCEPT !.documents = documents] /\ rows' = rows /\ documents' = documents
        /\ read.documents = NoTable
    BY <1>4 DEF QueryDocuments
  <2>3. /\ read' \in Reading /\ read'.pc = read.pc /\ read'.query = read.query /\ read'.rows = read.rows
        /\ read'.documents = documents /\ read'.always = read.always /\ read'.ever = read.ever
    BY <2>2 DEF Reading, TablesTyped
  <2>4. RowsRead' = RowsRead /\ DocumentsRead' = DocumentsRead
    BY <2>2, <2>3 DEF RowsRead, DocumentsRead
  <2>5. Enclosed'
    BY <2>3, <2>4 DEF Enclosed, InQueue, QueueRows, QueueDocuments, Waiting, Failed, InReview
  <2>6. Kept'
    BY <2>1, <2>2, <2>3 DEF Kept, Replaced, HasVerified
  <2> QED
    BY <2>1, <2>3, <2>5, <2>6
<1>5. CASE Commit
  <2>1. CaseNext /\ changes' \in Nat
    BY <1>5 DEF Commit
  <2>2. /\ TablesTyped' /\ Replaced(documents') /\ StillVerified(documents, documents')
    BY <2>1, RowsTyped, DocumentsKept DEF TablesTyped
  <2> DEFINE now1 == InQueue(read.query, rows', documents')
             open == read.pc = "queue" /\ ~Answered
  <2>3. read' = IF open THEN [read EXCEPT !.always = @ \cap now1, !.ever = @ \cup now1] ELSE read
    BY <1>5 DEF Commit
  <2>4. now1 \in SUBSET AllItems
    BY QueueItems
  <2> HIDE DEF now1
  <2>5. /\ read' \in Reading /\ read'.pc = read.pc /\ read'.query = read.query
        /\ read'.rows = read.rows /\ read'.documents = read.documents
        /\ read'.always = (IF open THEN read.always \cap now1 ELSE read.always)
        /\ read'.ever = (IF open THEN read.ever \cup now1 ELSE read.ever)
    BY <2>3, <2>4 DEF Reading
  <2> HIDE DEF open
  <2>6. Kept'
    <3>1. read'.documents # NoTable => Replaced(read'.documents)
      BY <2>5 DEF Kept
    <3> QED
      BY <2>2, <2>5, <3>1 DEF Kept, StillVerified
  <2>7. Enclosed'
    <3> SUFFICES ASSUME read.pc = "queue"
                 PROVE  /\ read.query \in QueueQueries
                        /\ read'.always \subseteq InQueue(read.query, RowsRead', DocumentsRead')
                        /\ InQueue(read.query, RowsRead', DocumentsRead') \subseteq read'.ever
      BY <2>5 DEF Enclosed
    <3>1. /\ read.query \in QueueQueries
          /\ read.always \subseteq InQueue(read.query, RowsRead, DocumentsRead)
          /\ InQueue(read.query, RowsRead, DocumentsRead) \subseteq read.ever
      BY DEF Enclosed
    <3>2. /\ RowsRead' = (IF read.rows = NoTable THEN rows' ELSE read.rows)
          /\ DocumentsRead' = (IF read.documents = NoTable THEN documents' ELSE read.documents)
      BY <2>5 DEF RowsRead, DocumentsRead
    <3>3. /\ RowsRead = (IF read.rows = NoTable THEN rows ELSE read.rows)
          /\ DocumentsRead = (IF read.documents = NoTable THEN documents ELSE read.documents)
      BY DEF RowsRead, DocumentsRead
    <3>4. CASE ~open
      <4>1. read.rows # NoTable /\ read.documents # NoTable
        BY <3>4 DEF open, Answered
      <4> QED
        BY <2>5, <3>1, <3>2, <3>3, <3>4, <4>1
    <3>5. CASE open
      <4> DEFINE R(table) == QueueRows(read.query, table)
                 D(table) == QueueDocuments(read.query, table)
      <4>1. /\ R(RowsRead) \subseteq Items /\ R(rows') \subseteq Items /\ R(RowsRead') \subseteq Items
            /\ D(DocumentsRead) \subseteq DocIds /\ D(documents') \subseteq DocIds /\ D(DocumentsRead') \subseteq DocIds
            /\ Items \cap DocIds = {}
        BY QueueItems
      <4>2. /\ now1 = R(rows') \cup D(documents')
            /\ InQueue(read.query, RowsRead, DocumentsRead) = R(RowsRead) \cup D(DocumentsRead)
            /\ InQueue(read.query, RowsRead', DocumentsRead') = R(RowsRead') \cup D(DocumentsRead')
        BY DEF InQueue, now1
      <4>3. /\ R(RowsRead') = R(rows') \/ R(RowsRead') = R(RowsRead)
            /\ D(DocumentsRead') = D(documents') \/ D(DocumentsRead') = D(DocumentsRead)
        BY <3>2, <3>3
      <4>4. read'.always = read.always \cap now1 /\ read'.ever = read.ever \cup now1
        BY <2>5, <3>5
      <4> HIDE DEF R, D
      <4>5. read'.always \subseteq R(RowsRead') \cup D(DocumentsRead')
        BY <3>1, <4>1, <4>2, <4>3, <4>4
      <4>6. R(RowsRead') \cup D(DocumentsRead') \subseteq read'.ever
        BY <3>1, <4>1, <4>2, <4>3, <4>4
      <4> QED
        BY <3>1, <4>2, <4>5, <4>6
    <3> QED
      BY <3>4, <3>5
  <2> QED
    BY <2>1, <2>2, <2>5, <2>6, <2>7
<1>6. CASE UNCHANGED readsVars
  <2>1. read' = read /\ rows' = rows /\ documents' = documents /\ changes' = changes
    BY <1>6 DEF readsVars
  <2>2. RowsRead' = RowsRead /\ DocumentsRead' = DocumentsRead
    BY <2>1 DEF RowsRead, DocumentsRead
  <2>3. Enclosed'
    BY <2>1, <2>2 DEF Enclosed, InQueue, QueueRows, QueueDocuments, Waiting, Failed, InReview
  <2> QED
    BY <2>1, <2>3 DEF Kept, Replaced, HasVerified, TablesTyped
<1> QED
  BY <1>1, <1>2, <1>3, <1>4, <1>5, <1>6 DEF ReadsNext

\* The tables hold rows and documents, the read one of its three forms, and
\* what it was given was true of the tables and encloses what waited.
THEOREM ReadsTypeCorrect == ReadsSpec => []ReadsInv
  BY ReadsStart, ReadsStep, PTL DEF ReadsSpec

----------------------------------------------------------------------------
(* The answers *)

LEMMA RequirementShown ==
  ASSUME NEW c, NEW rowTable, NEW table, NEW t \in RequiredTypes
  PROVE  LET shown == Requirements(c, rowTable, table)[t]
             stored == OfType(table, OfClient(table, c), t)
         IN /\ shown = "VERIFIED" <=> HasVerified(table, c, t)
            /\ WithStatus(table, stored, "VERIFIED") # {} <=> HasVerified(table, c, t)
            /\ shown = "REVIEW_REQUIRED" => stored # {} /\ ~HasVerified(table, c, t)
<1> DEFINE stored == OfType(table, OfClient(table, c), t)
           verified == WithStatus(table, stored, "VERIFIED")
           waiting == {i \in WaitingOf(rowTable, c) : rowTable[i].type = t}
<1>1. Requirements(c, rowTable, table)[t] = RequirementStatus(verified, stored, waiting)
  BY DEF Requirements
<1>2. verified # {} <=> HasVerified(table, c, t)
  BY DEF WithStatus, OfType, OfClient, HasVerified
<1> HIDE DEF verified, waiting, stored
<1>3. /\ RequirementStatus(verified, stored, waiting) = "VERIFIED" <=> verified # {}
      /\ RequirementStatus(verified, stored, waiting) = "REVIEW_REQUIRED" => stored # {} /\ verified = {}
  BY DEF RequirementStatus
<1> QED
  BY <1>1, <1>2, <1>3 DEF verified, stored

\* The four words of a follow-up that runs.
LEMMA RunningWords == \A days : StatusForDaysLeft(days) \in Running
  BY DEF StatusForDaysLeft, Running

LEMMA CountdownCompleted ==
  ASSUME NEW S, NEW table, NEW pending, NEW today
  PROVE  CountdownFromDocuments(S, table, pending, today) = "COMPLETED"
           <=> WithStatus(table, OfType(table, S, PoliceReport), "VERIFIED") # {}
  BY RunningWords DEF CountdownFromDocuments, Running

\* A follow-up is completed by a verified report.
LEMMA FollowUpCompleted ==
  ASSUME NEW c, NEW rowTable, NEW table, NEW today
  PROVE  PoliceStatus(c, rowTable, table, today) = "COMPLETED" <=> HasVerified(table, c, PoliceReport)
<1> DEFINE S == PoliceDocuments(table) \cap OfClient(table, c)
<1>1. WithStatus(table, OfType(table, S, PoliceReport), "VERIFIED") # {} <=> HasVerified(table, c, PoliceReport)
  BY DEF WithStatus, OfType, PoliceDocuments, OfClient, HasVerified
<1> QED
  BY <1>1, CountdownCompleted DEF PoliceStatus

\* A client shown complete, or a follow-up shown completed, still is, and one
\* shown to wait for a review had a document to review (ShownHolds;
\* loadClientCompleteness and loadPoliceStatuses against the decisions of
\* other admins).
THEOREM ShownStays == ReadsSpec => []ShownHolds
<1>1. ReadsInv => ShownHolds
  <2> SUFFICES ASSUME ReadsInv, read.pc = "clients", Answered, NEW c \in Clients
               PROVE  LET requirements == Requirements(c, read.rows, read.documents)
                          ofType(table, t) == OfType(table, OfClient(table, c), t)
                      IN /\ Complete(requirements) =>
                              \A t \in RequiredTypes : WithStatus(documents, ofType(documents, t), "VERIFIED") # {}
                         /\ \A t \in RequiredTypes : requirements[t] = "REVIEW_REQUIRED" =>
                              WithStatus(read.documents, ofType(read.documents, t), "REVIEW_REQUIRED") # {}
                         /\ PoliceStatus(c, read.rows, read.documents, 0) = "COMPLETED" =>
                              PoliceStatus(c, rows, documents, 0) = "COMPLETED"
    BY DEF ShownHolds
  <2> DEFINE requirements == Requirements(c, read.rows, read.documents)
             of(table, t) == OfType(table, OfClient(table, c), t)
  <2>1. /\ read.documents \in [DocIds -> Document] /\ Replaced(read.documents)
        /\ \A t \in RequiredTypes \cup {PoliceReport} : HasVerified(read.documents, c, t) => HasVerified(documents, c, t)
    BY DEF ReadsInv, ReadsTypeOK, Reading, Kept, Answered
  <2>2. ASSUME Complete(requirements), NEW t \in RequiredTypes
        PROVE  WithStatus(documents, of(documents, t), "VERIFIED") # {}
    <3>1. requirements[t] = "VERIFIED"
      BY <2>2 DEF Complete
    <3>2. HasVerified(read.documents, c, t)
      BY <3>1, RequirementShown
    <3>3. HasVerified(documents, c, t)
      BY <3>2, <2>1
    <3> QED
      BY <3>3, RequirementShown
  <2>3. ASSUME NEW t \in RequiredTypes, requirements[t] = "REVIEW_REQUIRED"
        PROVE  WithStatus(read.documents, of(read.documents, t), "REVIEW_REQUIRED") # {}
    <3>1. of(read.documents, t) # {} /\ ~HasVerified(read.documents, c, t)
      BY <2>3, RequirementShown
    <3>2. PICK d \in DocIds : read.documents[d].client = c /\ read.documents[d].type = t
      BY <3>1 DEF OfType, OfClient
    <3>3. read.documents[d] \in StoredDocument
      BY <2>1, <3>2, StoredDocuments, CaseAssumption DEF NoDocument
    <3>4. read.documents[d].status \notin {"VERIFIED", "SUPERSEDED"}
      BY <2>1, <3>1, <3>2 DEF HasVerified, Replaced
    <3>5. read.documents[d].status = "REVIEW_REQUIRED"
      BY <3>3, <3>4 DEF StoredDocument
    <3> QED
      BY <3>2, <3>5 DEF WithStatus, OfType, OfClient
  <2>4. PoliceStatus(c, read.rows, read.documents, 0) = "COMPLETED" =>
          PoliceStatus(c, rows, documents, 0) = "COMPLETED"
    BY <2>1, FollowUpCompleted
  <2> QED
    BY <2>2, <2>3, <2>4
<1> QED
  BY <1>1, ReadsTypeCorrect, PTL

\* A file or document that waits all the while is on the page its place
\* belongs to (NothingOverlooked; listReviewQueue).
THEOREM QueueWhole == ReadsSpec => []NothingOverlooked
<1>1. ReadsInv => NothingOverlooked
  <2> DEFINE query == read.query
             size == read.query.size
             R == ItemOrder(query)
             found == QueueRows(query, read.rows)
             stored == QueueDocuments(query, read.documents)
             union == found \cup stored
  <2> SUFFICES ASSUME ReadsInv, read.pc = "queue", Answered,
                      NEW x \in read.always, NEW page \in 1..Cardinality(Items \cup DocIds),
                      (page - 1) * size <= CameBefore(query, read.always, x),
                      CameBefore(query, read.ever, x) < page * size
               PROVE  x \in Elements(ReviewQueue(query, page, read.rows, read.documents))
    BY DEF NothingOverlooked
  <2> DEFINE first == (page - 1) * size
             last == page * size
  <2>1. /\ read.always \subseteq union /\ union \subseteq read.ever
        /\ read.always \in SUBSET AllItems /\ read.ever \in SUBSET AllItems
        /\ found \in SUBSET AllItems /\ stored \in SUBSET AllItems
        /\ query \in QueueQueries
    BY QueueItems DEF ReadsInv, ReadsTypeOK, Reading, Enclosed, Answered, RowsRead, DocumentsRead, InQueue, AllItems
  <2>2. first \in Nat /\ last \in Nat
    <3>1. size \in Nat
      BY <2>1, DashboardAssumption
    <3>2. page \in Nat /\ page - 1 \in Nat
      OBVIOUS
    <3> HIDE DEF size
    <3> QED
      BY <3>1, <3>2
  <2>3. \A S \in SUBSET AllItems : \A y \in AllItems : CameBefore(query, S, y) = Place(R, S, y)
    <3> SUFFICES ASSUME NEW S \in SUBSET AllItems, NEW y \in AllItems
                 PROVE  CameBefore(query, S, y) = Place(R, S, y)
      OBVIOUS
    <3>1. {z \in S : ItemBefore(query.order, z, y)} = Ahead(R, S, y)
      BY DEF Ahead, ItemOrder
    <3> QED
      BY <3>1 DEF CameBefore, Place
  <2>4. first <= Place(R, read.always, x) /\ Place(R, read.ever, x) < last
    BY <2>1, <2>3
  <2>5. \A S \in SUBSET AllItems : /\ IsFiniteSet(S) /\ StrictOrder(R, S)
                                   /\ IsListed(InOrder(query, S), R, S)
    BY ItemsOrdered
  <2>6. \A S \in SUBSET AllItems, T \in SUBSET AllItems, y \in AllItems : S \subseteq T =>
          Place(R, S, y) \in Nat /\ Place(R, T, y) \in Nat /\ Place(R, S, y) <= Place(R, T, y)
    BY <2>5, PlaceGrows
  <2> HIDE DEF first, last, R, found, stored, query
  <2> DEFINE shown == IF query.kind \in {"FAILED", "STORED"} THEN union
                      ELSE Elements(Slice(InOrder(query, found), 0, last)) \cup Elements(Slice(InOrder(query, stored), 0, last))
  <2>7. ReviewQueue(query, page, read.rows, read.documents) = Slice(InOrder(query, shown), first, last)
    BY DEF ReviewQueue, Window, first, last, found, stored, query
  <2>8. /\ Elements(Slice(InOrder(query, found), 0, last)) = {y \in found : Place(R, found, y) < last}
        /\ Elements(Slice(InOrder(query, stored), 0, last)) = {y \in stored : Place(R, stored, y) < last}
    <3>1. \A S \in SUBSET AllItems : Elements(Slice(InOrder(query, S), 0, last)) = {y \in S : 0 <= Place(R, S, y) /\ Place(R, S, y) < last}
      BY <2>2, <2>5, SliceHolds
    <3>2. \A S \in SUBSET AllItems : \A y \in S : 0 <= Place(R, S, y)
      BY <2>6
    <3> QED
      BY <2>1, <3>1, <3>2
  <2>9. shown \in SUBSET AllItems /\ shown \subseteq union
    BY <2>1, <2>8
  \* What comes before x, and x, is taken from its table.
  <2>10. ASSUME NEW y \in union, Place(R, read.ever, y) < last PROVE y \in shown
    <3>1. /\ y \in found => Place(R, found, y) < last
          /\ y \in stored => Place(R, stored, y) < last
      <4>1. /\ found \subseteq read.ever /\ stored \subseteq read.ever /\ y \in AllItems
        BY <2>1
      <4>2. /\ Place(R, found, y) \in Nat /\ Place(R, found, y) <= Place(R, read.ever, y)
            /\ Place(R, stored, y) \in Nat /\ Place(R, stored, y) <= Place(R, read.ever, y)
            /\ Place(R, read.ever, y) \in Nat
        BY <2>1, <2>6, <4>1
      <4> QED
        BY <2>2, <2>10, <4>2
    <3> QED
      BY <2>8, <2>10, <3>1
  <2>11. x \in shown
    BY <2>1, <2>4, <2>10
  <2>12. Place(R, shown, x) < last
    <3>1. shown \subseteq read.ever /\ x \in AllItems
      BY <2>1, <2>9
    <3>2. Place(R, shown, x) \in Nat /\ Place(R, read.ever, x) \in Nat /\ Place(R, shown, x) <= Place(R, read.ever, x)
      BY <2>1, <2>6, <2>9, <3>1
    <3> QED
      BY <2>2, <2>4, <3>2
  <2>13. first <= Place(R, shown, x)
    <3>1. Ahead(R, read.always, x) \subseteq Ahead(R, shown, x)
      <4> SUFFICES ASSUME NEW y \in read.always, <<y, x>> \in R PROVE y \in shown
        BY DEF Ahead
      <4>1. Place(R, read.ever, y) < Place(R, read.ever, x)
        BY <2>1, <2>5, Places
      <4>2. Place(R, read.ever, y) \in Nat /\ Place(R, read.ever, x) \in Nat
        BY <2>1, <2>6
      <4> QED
        BY <2>1, <2>2, <2>4, <2>10, <4>1, <4>2
    <3>2. IsFiniteSet(Ahead(R, shown, x))
      <4>1. Ahead(R, shown, x) \in SUBSET shown /\ IsFiniteSet(shown)
        BY <2>5, <2>9 DEF Ahead
      <4> QED
        BY <4>1, FS_Subset
    <3>3. Place(R, read.always, x) <= Place(R, shown, x)
      BY <3>1, <3>2, FS_Subset DEF Place
    <3>4. Place(R, read.always, x) \in Nat /\ Place(R, shown, x) \in Nat
      BY <2>1, <2>6, <2>9
    <3> QED
      BY <2>2, <2>4, <3>3, <3>4
  <2>14. Elements(Slice(InOrder(query, shown), first, last))
           = {y \in shown : first <= Place(R, shown, y) /\ Place(R, shown, y) < last}
    <3> HIDE DEF shown
    <3> QED
      BY <2>2, <2>5, <2>9, SliceHolds
  <2> HIDE DEF shown
  <2> QED
    BY <2>7, <2>11, <2>12, <2>13, <2>14 DEF query
<1> QED
  BY <1>1, ReadsTypeCorrect, PTL

\* The client page loads all the waiting files of a client, when they are no
\* more than its limit.
LEMMA AllLoaded ==
  ASSUME NEW c, Cardinality(WaitingOf(rows, c)) <= PendingItemsLimit
  PROVE  PendingItems(c, rows) = WaitingOf(rows, c)
<1> DEFINE S == WaitingOf(rows, c)
           query == [order |-> "desc"]
<1>1. S \in SUBSET AllItems
  BY DEF WaitingOf, Waiting, AllItems
<1>2. /\ IsFiniteSet(S) /\ StrictOrder(ItemOrder(query), S)
      /\ IsListed(InOrder(query, S), ItemOrder(query), S)
  BY <1>1, ItemsOrdered
<1>3. PendingItemsLimit \in Nat
  BY DashboardAssumption
<1>4. PendingItems(c, rows) = {x \in S : 0 <= Place(ItemOrder(query), S, x) /\ Place(ItemOrder(query), S, x) < PendingItemsLimit}
  BY <1>2, <1>3, SliceHolds DEF PendingItems
<1>5. \A x \in S : Place(ItemOrder(query), S, x) \in 0..Cardinality(S) - 1
  BY <1>2, Places
<1>6. Cardinality(S) \in Nat
  BY <1>2, FS_CardinalityType
<1> HIDE DEF query
<1>7. \A x \in S : 0 <= Place(ItemOrder(query), S, x) /\ Place(ItemOrder(query), S, x) < PendingItemsLimit
  BY <1>3, <1>5, <1>6
<1> QED
  BY <1>4, <1>7

\* The order of the missing documents' list.
MissingCount(requirements, c) == Cardinality(MissingTypes(requirements[c]))
MissingOrder(requirements) ==
  {p \in Clients \X Clients :
     IF MissingCount(requirements, p[1]) = MissingCount(requirements, p[2]) THEN Rank[p[1]] < Rank[p[2]]
     ELSE MissingCount(requirements, p[1]) > MissingCount(requirements, p[2])}

\* The list of missing documents has the clients that are not complete.
LEMMA MissingListed ==
  ASSUME NEW rowTable, NEW table, IsFiniteSet(RequiredTypes)
  PROVE  Elements(MissingDocuments(rowTable, table)) = {c \in Clients : ~Complete(Requirements(c, rowTable, table))}
<1> DEFINE requirements == [c \in Clients |-> Requirements(c, rowTable, table)]
           S == {c \in Clients : ~Complete(requirements[c])}
           R == MissingOrder(requirements)
           list == MissingDocuments(rowTable, table)
           missing(c) == MissingCount(requirements, c)
           Before(c, e) == IF missing(c) = missing(e) THEN Rank[c] < Rank[e] ELSE missing(c) > missing(e)
           at(c) == Cardinality({e \in S : Before(e, c)})
<1>1. S \in SUBSET Clients /\ IsFiniteSet(S)
  <2>1. S \in SUBSET Clients
    OBVIOUS
  <2> QED
    BY <2>1, DashboardAssumption, FS_Subset
<1>2. \A c \in Clients : missing(c) \in Nat
  <2> SUFFICES ASSUME NEW c \in Clients PROVE missing(c) \in Nat
    OBVIOUS
  <2>1. MissingTypes(requirements[c]) \in SUBSET RequiredTypes
    BY DEF MissingTypes
  <2> HIDE DEF requirements
  <2>2. IsFiniteSet(MissingTypes(requirements[c]))
    BY <2>1, FS_Subset
  <2> QED
    BY <2>2, FS_CardinalityType DEF MissingCount
<1>3. list = [k \in 1..Cardinality(S) |-> CHOOSE c \in S : at(c) = k - 1]
  BY DEF MissingDocuments, Listed, MissingCount
<1> HIDE DEF requirements, list
<1>4. \A c \in S, e \in S : <<c, e>> \in R <=> Before(c, e)
  <2> HIDE DEF missing
  <2> QED
    BY <1>1 DEF MissingOrder, missing
<1>5. StrictOrder(R, S)
  <2>1. \A c \in S : missing(c) \in Nat /\ Rank[c] \in Nat
    BY <1>1, <1>2, DashboardAssumption
  <2>2. \A c \in S, e \in S : Rank[c] = Rank[e] => c = e
    BY <1>1, DashboardAssumption
  <2> HIDE DEF missing, R, S
  <2>3. \A c \in S : ~Before(c, c)
    BY <2>1
  <2>4. \A c \in S, e \in S, f \in S : Before(c, e) /\ Before(e, f) => Before(c, f)
    BY <2>1
  <2>5. \A c \in S, e \in S : c = e \/ Before(c, e) \/ Before(e, c)
    BY <2>1, <2>2
  <2> QED
    BY <1>4, <2>3, <2>4, <2>5 DEF StrictOrder
<1>6. \A c \in S : at(c) = Place(R, S, c)
  <2> SUFFICES ASSUME NEW c \in S PROVE at(c) = Place(R, S, c)
    OBVIOUS
  <2> HIDE DEF R, S
  <2>1. {e \in S : Before(e, c)} = Ahead(R, S, c)
    <3> HIDE DEF Before
    <3> QED
      BY <1>4 DEF Ahead
  <2> QED
    BY <2>1 DEF Place
<1> HIDE DEF at, R, S
<1>7. \A k \in 1..Cardinality(S) : \E c \in S : at(c) = k - 1
  BY <1>1, <1>5, <1>6, Places
<1>8. \A k \in 1..Cardinality(S) : list[k] \in S /\ at(list[k]) = k - 1
  BY <1>3, <1>7
<1>9. IsListed(list, R, S)
  BY <1>3, <1>6, <1>8 DEF IsListed
<1>10. /\ DOMAIN list = 1..Cardinality(S)
       /\ \A k \in DOMAIN list : list[k] \in S
       /\ \A c \in S : Place(R, S, c) + 1 \in DOMAIN list /\ list[Place(R, S, c) + 1] = c
  BY <1>1, <1>5, <1>9, ListOrder
<1>11. Elements(list) = S
  BY <1>10 DEF Elements
<1> QED
  BY <1>11 DEF S, list, requirements

\* The two ways to work out a client's documents and its follow-up agree
\* (SameRule; loadClientCompleteness and loadPoliceStatuses against
\* getClientDetails), in every state of the tables.
THEOREM OneRule == ReadsSpec => []SameRule
<1>1. ReadsInv => SameRule
  <2> SUFFICES ASSUME NEW c \in Clients, Cardinality(WaitingOf(rows, c)) <= PendingItemsLimit
               PROVE  /\ Requirements(c, rows, documents) = RequiredDocumentsShown(c, rows, documents)
                      /\ c \in Elements(MissingDocuments(rows, documents))
                           <=> ~Complete(RequiredDocumentsShown(c, rows, documents))
                      /\ \A today : PoliceStatus(c, rows, documents, today) = PoliceStatusShown(c, rows, documents, today)
    BY DEF SameRule
  <2>1. PendingItems(c, rows) = WaitingOf(rows, c)
    BY AllLoaded
  <2>2. Requirements(c, rows, documents) = RequiredDocumentsShown(c, rows, documents)
    BY <2>1 DEF Requirements, RequiredDocumentsShown
  <2>3. c \in Elements(MissingDocuments(rows, documents)) <=> ~Complete(RequiredDocumentsShown(c, rows, documents))
    BY <2>2, MissingListed, DashboardAssumption
  <2>4. ASSUME NEW today
        PROVE  PoliceStatus(c, rows, documents, today) = PoliceStatusShown(c, rows, documents, today)
    <3> DEFINE S == PoliceDocuments(documents) \cap OfClient(documents, c)
               T == {d \in OfClient(documents, c) : documents[d].status # "SUPERSEDED"}
    <3>1. /\ OfType(documents, S, PoliceSlip) = OfType(documents, T, PoliceSlip)
          /\ OfType(documents, S, PoliceReport) = OfType(documents, T, PoliceReport)
      BY DEF OfType, PoliceDocuments, OfClient
    <3> HIDE DEF S, T
    <3>2. \A pending : CountdownFromDocuments(S, documents, pending, today) = CountdownFromDocuments(T, documents, pending, today)
      BY <3>1 DEF CountdownFromDocuments
    <3> QED
      BY <2>1, <3>2 DEF PoliceStatus, PoliceStatusShown, S, T
  <2> QED
    BY <2>2, <2>3, <2>4
<1> QED
  BY <1>1, ReadsTypeCorrect, PTL

\* The places of the words of a follow-up.
LEMMA UrgencyOfWords ==
  /\ Urgency("OVERDUE") = 1 /\ Urgency("DUE_TODAY") = 2 /\ Urgency("DUE_SOON") = 3 /\ Urgency("PENDING") = 4
  /\ Urgency("DATE_MISSING") = 5 /\ Urgency("NOT_UPLOADED") = 6 /\ Urgency("COMPLETED") = 7
<1>1. /\ DOMAIN PoliceStatusOrder = 1..7
      /\ PoliceStatusOrder[1] = "OVERDUE" /\ PoliceStatusOrder[2] = "DUE_TODAY" /\ PoliceStatusOrder[3] = "DUE_SOON"
      /\ PoliceStatusOrder[4] = "PENDING" /\ PoliceStatusOrder[5] = "DATE_MISSING"
      /\ PoliceStatusOrder[6] = "NOT_UPLOADED" /\ PoliceStatusOrder[7] = "COMPLETED"
  BY DEF PoliceStatusOrder
<1>2. \A k \in 1..7 : k = 1 \/ k = 2 \/ k = 3 \/ k = 4 \/ k = 5 \/ k = 6 \/ k = 7
  OBVIOUS
<1>3. \A k \in 1..7, l \in 1..7 : PoliceStatusOrder[k] = PoliceStatusOrder[l] => k = l
  BY <1>1, <1>2
<1>4. \A k \in 1..7 : Urgency(PoliceStatusOrder[k]) = k
  <2> SUFFICES ASSUME NEW k \in 1..7 PROVE Urgency(PoliceStatusOrder[k]) = k
    OBVIOUS
  <2> DEFINE u == CHOOSE l \in 1..7 : PoliceStatusOrder[l] = PoliceStatusOrder[k]
  <2>1. u \in 1..7 /\ PoliceStatusOrder[u] = PoliceStatusOrder[k]
    OBVIOUS
  <2>2. u = k
    BY <1>3, <2>1
  <2> QED
    BY <1>1, <2>2 DEF Urgency
<1> QED
  BY <1>1, <1>4

Words == {"OVERDUE", "DUE_TODAY", "DUE_SOON", "PENDING", "DATE_MISSING", "NOT_UPLOADED", "COMPLETED"}

\* A finite set of numbers that is not empty has a largest one.
LEMMA LatestIsLast ==
  ASSUME NEW S \in SUBSET Nat, IsFiniteSet(S), S # {}
  PROVE  Latest(S) \in S
<1> DEFINE R == {p \in S \X S : p[1] < p[2]}
           n == Cardinality(S)
<1>1. StrictOrder(R, S)
  BY DEF StrictOrder
<1>2. n \in Nat /\ n # 0
  BY FS_CardinalityType, FS_EmptySet
<1>3. PICK x \in S : Place(R, S, x) = n - 1
  <2> HIDE DEF R
  <2>1. \A k \in 1..n : \E x \in S : Place(R, S, x) = k - 1
    BY <1>1, Places
  <2>2. n \in 1..n
    BY <1>2
  <2> QED
    BY <2>1, <2>2
<1>4. \A y \in S : y <= x
  <2> SUFFICES ASSUME NEW y \in S, x < y PROVE FALSE
    OBVIOUS
  <2>1. <<x, y>> \in R
    OBVIOUS
  <2>2. Place(R, S, x) < Place(R, S, y) /\ Place(R, S, y) \in 0..n - 1
    BY <1>1, <2>1, Places
  <2> HIDE DEF n, R
  <2> QED
    BY <1>2, <1>3, <2>2
<1>5. Latest(S) \in S
  <2>1. \E z : z \in S /\ \A y \in S : y <= z
    BY <1>4
  <2>2. Latest(S) = CHOOSE z \in S : \A y \in S : y <= z
    BY DEF Latest
  <2> QED
    BY <1>4, <2>2
<1> QED
  BY <1>5

\* A follow-up that runs has a last day, and says how near it is.
LEMMA FollowUpRuns ==
  ASSUME TablesTyped, NEW c \in Clients, NEW today \in Int
  PROVE  LET status == PoliceStatus(c, rows, documents, today)
             remaining == DaysRemaining(c, documents, today)
         IN /\ status \in Words
            /\ status \in Running => /\ remaining \in Int /\ status = StatusForDaysLeft(remaining)
                                     /\ FollowUpEnds(c) = remaining + today
<1> DEFINE S == PoliceDocuments(documents) \cap OfClient(documents, c)
           slips == OfType(documents, S, PoliceSlip)
           dates == {documents[d].date : d \in slips} \ {NoDate}
           status == PoliceStatus(c, rows, documents, today)
           remaining == DaysRemaining(c, documents, today)
           pending == Slips(WaitingOf(rows, c), rows)
           due == PoliceReportDueDate(Latest(dates))
<1>1. /\ status = CountdownFromDocuments(S, documents, pending, today)
      /\ remaining = due - today
      /\ FollowUpEnds(c) = due
  BY DEF PoliceStatus, DaysRemaining, FollowUpEnds
<1>2. /\ slips \in SUBSET DocIds /\ IsFiniteSet(slips)
      /\ \A d \in slips : documents[d].date \in Nat \/ documents[d].date = NoDate
  <2>1. slips \in SUBSET DocIds
    BY DEF OfType, OfClient
  <2>2. IsFiniteSet(slips)
    BY <2>1, DashboardAssumption, FS_Subset
  <2>3. \A d \in DocIds : documents[d].date \in Dates \cup {NoDate}
    BY DEF TablesTyped, Document, StoredDocument, NoDocument
  <2>4. Dates \subseteq Nat
    BY DashboardAssumption
  <2> QED
    BY <2>1, <2>2, <2>3, <2>4
<1>3. IsFiniteSet(dates) /\ dates \in SUBSET Nat
  <2> HIDE DEF slips
  <2> DEFINE given == {documents[d].date : d \in slips}
             f == [d \in slips |-> documents[d].date]
  <2>1. f \in Surjection(slips, given)
    BY DEF Surjection
  <2> HIDE DEF f
  <2>2. IsFiniteSet(given)
    BY <1>2, <2>1, FS_Surjection
  <2>3. dates \in SUBSET given
    OBVIOUS
  <2>4. dates \in SUBSET Nat
    BY <1>2
  <2> HIDE DEF given, dates
  <2> QED
    BY <2>2, <2>3, <2>4, FS_Subset
<1>4. dates # {} => due \in Int
  <2> HIDE DEF dates
  <2>1. dates # {} => Latest(dates) \in Nat
    BY <1>3, LatestIsLast
  <2> QED
    BY <2>1 DEF PoliceReportDueDate, PoliceReportDueDays
<1>5. /\ status \in {"COMPLETED", "DATE_MISSING", "NOT_UPLOADED"} \/ (dates # {} /\ status = StatusForDaysLeft(due - today))
  BY <1>1 DEF CountdownFromDocuments
<1> HIDE DEF dates, due, remaining, status, slips
<1>6. status \in Words
  BY <1>5, RunningWords DEF Running, Words
<1>7. ASSUME status \in Running
      PROVE  remaining \in Int /\ status = StatusForDaysLeft(remaining) /\ FollowUpEnds(c) = remaining + today
  <2>1. dates # {} /\ status = StatusForDaysLeft(due - today)
    BY <1>5, <1>7 DEF Running
  <2> QED
    BY <1>1, <1>4, <2>1
<1> QED
  BY <1>6, <1>7 DEF status, remaining

\* The nearer the end, the more urgent the word.
LEMMA SoonerIsMoreUrgent ==
  ASSUME NEW m \in Int, NEW n \in Int, Urgency(StatusForDaysLeft(m)) < Urgency(StatusForDaysLeft(n))
  PROVE  m < n
<1>1. \A days \in Int : /\ Urgency(StatusForDaysLeft(days)) = 1 => days < 0
                        /\ Urgency(StatusForDaysLeft(days)) = 2 => days = 0
                        /\ Urgency(StatusForDaysLeft(days)) = 3 => days \in 1..7
                        /\ Urgency(StatusForDaysLeft(days)) = 4 => days > 7
                        /\ Urgency(StatusForDaysLeft(days)) \in 1..4
  BY UrgencyOfWords DEF StatusForDaysLeft, DueSoonDays
<1> QED
  BY <1>1

\* The order of the list of follow-ups, from the words, the days remaining and
\* the ids.
UrgencyOrder(status, remaining) ==
  {p \in Clients \X Clients :
     LET c == p[1]  e == p[2]
     IN IF status[c] # status[e] THEN Urgency(status[c]) < Urgency(status[e])
        ELSE IF status[c] \in Running /\ remaining[c] # remaining[e] THEN remaining[c] < remaining[e]
        ELSE Rank[c] < Rank[e]}

\* The list of follow-ups is in that order.
LEMMA FollowUpsListed ==
  ASSUME TablesTyped, NEW today \in Int
  PROVE  LET status == [c \in Clients |-> PoliceStatus(c, rows, documents, today)]
             remaining == [c \in Clients |-> DaysRemaining(c, documents, today)]
         IN /\ StrictOrder(UrgencyOrder(status, remaining), Clients)
            /\ IsListed(PoliceList(rows, documents, today), UrgencyOrder(status, remaining), Clients)
<1> DEFINE status == [c \in Clients |-> PoliceStatus(c, rows, documents, today)]
           Remaining(c) == DaysRemaining(c, documents, today)
           remaining == [c \in Clients |-> Remaining(c)]
           R == UrgencyOrder(status, remaining)
           list == PoliceList(rows, documents, today)
           Before(c, e) ==
             IF status[c] # status[e] THEN Urgency(status[c]) < Urgency(status[e])
             ELSE IF status[c] \in Running /\ Remaining(c) # Remaining(e) THEN Remaining(c) < Remaining(e)
             ELSE Rank[c] < Rank[e]
           at(c) == Cardinality({e \in Clients : Before(e, c)})
<1>1. list = [k \in 1..Cardinality(Clients) |-> CHOOSE c \in Clients : at(c) = k - 1]
  BY DEF PoliceList, Listed
<1>2. \A c \in Clients : /\ status[c] \in Words
                         /\ status[c] \in Running => Remaining(c) \in Int
                         /\ Rank[c] \in Nat
  BY FollowUpRuns, DashboardAssumption
<1>3. \A c \in Clients : remaining[c] = Remaining(c)
  OBVIOUS
<1> HIDE DEF status, Remaining, remaining, list
<1>4. \A c \in Clients, e \in Clients : <<c, e>> \in R <=> Before(c, e)
  BY <1>3 DEF UrgencyOrder
<1>5. StrictOrder(R, Clients)
  <2>1. /\ \A s \in Words : Urgency(s) \in Int
        /\ \A s \in Words, t \in Words : Urgency(s) = Urgency(t) => s = t
    BY UrgencyOfWords DEF Words
  <2>2. \A c \in Clients, e \in Clients : Rank[c] = Rank[e] => c = e
    BY DashboardAssumption
  <2> HIDE DEF R
  <2>3. \A c \in Clients : ~Before(c, c)
    BY <1>2
  <2>4. \A c \in Clients, e \in Clients, f \in Clients : Before(c, e) /\ Before(e, f) => Before(c, f)
    <3> SUFFICES ASSUME NEW c \in Clients, NEW e \in Clients, NEW f \in Clients, Before(c, e), Before(e, f)
                 PROVE  Before(c, f)
      OBVIOUS
    <3>1. /\ Urgency(status[c]) \in Int /\ Urgency(status[e]) \in Int /\ Urgency(status[f]) \in Int
          /\ Rank[c] \in Nat /\ Rank[e] \in Nat /\ Rank[f] \in Nat
      BY <1>2, <2>1
    <3>2. CASE status[c] = status[e] /\ status[e] = status[f]
      <4>1. CASE status[c] \in Running
        BY <1>2, <3>1, <3>2, <4>1
      <4>2. CASE status[c] \notin Running
        BY <3>1, <3>2, <4>2
      <4> QED
        BY <4>1, <4>2
    <3>3. CASE status[c] # status[e] \/ status[e] # status[f]
      <4>1. Urgency(status[c]) < Urgency(status[f])
        BY <3>1, <3>3
      <4>2. status[c] # status[f]
        BY <3>1, <4>1
      <4> QED
        BY <4>1, <4>2
    <3> QED
      BY <3>2, <3>3
  <2>5. \A c \in Clients, e \in Clients : c = e \/ Before(c, e) \/ Before(e, c)
    <3> SUFFICES ASSUME NEW c \in Clients, NEW e \in Clients PROVE c = e \/ Before(c, e) \/ Before(e, c)
      OBVIOUS
    <3>1. CASE status[c] # status[e]
      <4>1. /\ Urgency(status[c]) \in Int /\ Urgency(status[e]) \in Int
            /\ Urgency(status[c]) # Urgency(status[e])
        BY <1>2, <2>1, <3>1
      <4> QED
        BY <3>1, <4>1
    <3>2. CASE status[c] = status[e]
      BY <1>2, <2>2, <3>2
    <3> QED
      BY <3>1, <3>2
  <2> HIDE DEF Before
  <2> QED
    BY <1>4, <2>3, <2>4, <2>5 DEF StrictOrder
<1>6. IsFiniteSet(Clients)
  BY DashboardAssumption
<1>7. \A c \in Clients : at(c) = Place(R, Clients, c)
  <2> SUFFICES ASSUME NEW c \in Clients PROVE at(c) = Place(R, Clients, c)
    OBVIOUS
  <2> HIDE DEF R
  <2>1. {e \in Clients : Before(e, c)} = Ahead(R, Clients, c)
    <3> HIDE DEF Before
    <3> QED
      BY <1>4 DEF Ahead
  <2> QED
    BY <2>1 DEF Place
<1> HIDE DEF at, R
<1>8. \A k \in 1..Cardinality(Clients) : \E c \in Clients : at(c) = k - 1
  BY <1>5, <1>6, <1>7, Places
<1>9. \A k \in 1..Cardinality(Clients) : list[k] \in Clients /\ at(list[k]) = k - 1
  BY <1>1, <1>8
<1>10. IsListed(list, R, Clients)
  BY <1>1, <1>7, <1>9 DEF IsListed
<1> QED
  BY <1>5, <1>10 DEF R, list, status, remaining, Remaining

\* The most urgent follow-ups come first (MostUrgentFirst; listPoliceFollowUps),
\* whatever the tables hold.
THEOREM UrgentFirst == ReadsSpec => []MostUrgentFirst
<1>1. ReadsInv => MostUrgentFirst
  <2> SUFFICES ASSUME ReadsInv, NEW today \in {PoliceReportDueDate(date) : date \in Dates}
               PROVE  LET list == PoliceList(rows, documents, today)
                          status(k) == PoliceStatus(list[k], rows, documents, today)
                      IN \A k, l \in DOMAIN list : k < l =>
                           /\ status(l) \in Running =>
                                status(k) \in Running /\ FollowUpEnds(list[k]) <= FollowUpEnds(list[l])
                           /\ status(k) = "COMPLETED" => status(l) = "COMPLETED"
    BY DEF MostUrgentFirst
  <2> DEFINE list == PoliceList(rows, documents, today)
             word == [c \in Clients |-> PoliceStatus(c, rows, documents, today)]
             remaining == [c \in Clients |-> DaysRemaining(c, documents, today)]
             R == UrgencyOrder(word, remaining)
  <2>1. today \in Int /\ TablesTyped
    BY DashboardAssumption DEF PoliceReportDueDate, PoliceReportDueDays, ReadsInv, ReadsTypeOK
  <2>2. StrictOrder(R, Clients) /\ IsListed(list, R, Clients) /\ IsFiniteSet(Clients)
    BY <2>1, FollowUpsListed, DashboardAssumption
  <2>3. \A c \in Clients : /\ word[c] = PoliceStatus(c, rows, documents, today) /\ word[c] \in Words
                           /\ word[c] \in Running => /\ remaining[c] \in Int /\ word[c] = StatusForDaysLeft(remaining[c])
                                                     /\ FollowUpEnds(c) = remaining[c] + today
    BY <2>1, FollowUpRuns
  <2> HIDE DEF list, word, remaining
  <2> SUFFICES ASSUME NEW k \in DOMAIN list, NEW l \in DOMAIN list, k < l
               PROVE  /\ word[list[l]] \in Running =>
                           word[list[k]] \in Running /\ FollowUpEnds(list[k]) <= FollowUpEnds(list[l])
                      /\ word[list[k]] = "COMPLETED" => word[list[l]] = "COMPLETED"
    <3>1. \A k \in DOMAIN list : list[k] \in Clients
      BY <2>2, ListOrder
    <3> QED
      BY <2>3, <3>1 DEF list
  <2> DEFINE c == list[k]
             e == list[l]
  <2>4. c \in Clients /\ e \in Clients /\ <<c, e>> \in R
    BY <2>2, ListOrder
  <2> HIDE DEF c, e
  <2>5. IF word[c] # word[e] THEN Urgency(word[c]) < Urgency(word[e])
        ELSE IF word[c] \in Running /\ remaining[c] # remaining[e] THEN remaining[c] < remaining[e]
        ELSE Rank[c] < Rank[e]
    BY <2>4 DEF UrgencyOrder
  <2>6. /\ \A s \in Words : s \in Running <=> Urgency(s) \in 1..4
        /\ \A s \in Words : s = "COMPLETED" <=> Urgency(s) = 7
        /\ \A s \in Words : Urgency(s) \in 1..7
    BY UrgencyOfWords DEF Words, Running
  <2>7. ASSUME word[e] \in Running
        PROVE  word[c] \in Running /\ FollowUpEnds(c) <= FollowUpEnds(e)
    <3>1. word[c] \in Running
      BY <2>3, <2>4, <2>5, <2>6, <2>7
    <3>2. /\ remaining[c] \in Int /\ remaining[e] \in Int
          /\ word[c] = StatusForDaysLeft(remaining[c]) /\ word[e] = StatusForDaysLeft(remaining[e])
          /\ FollowUpEnds(c) = remaining[c] + today /\ FollowUpEnds(e) = remaining[e] + today
      BY <2>3, <2>4, <2>7, <3>1
    <3>3. remaining[c] <= remaining[e]
      <4>1. CASE word[c] # word[e]
        BY <2>5, <3>2, <4>1, SoonerIsMoreUrgent
      <4>2. CASE word[c] = word[e]
        BY <2>5, <3>1, <3>2, <4>2
      <4> QED
        BY <4>1, <4>2
    <3> QED
      BY <2>1, <3>1, <3>2, <3>3
  <2>8. ASSUME word[c] = "COMPLETED" PROVE word[e] = "COMPLETED"
    BY <2>3, <2>4, <2>5, <2>6, <2>8
  <2> QED
    BY <2>7, <2>8 DEF c, e
<1> QED
  BY <1>1, ReadsTypeCorrect, PTL

----------------------------------------------------------------------------
(* Days: the calendar of the reports and of the police follow-up, at every *)
(* instant.                                                                *)

\* A half hour lies in the day that businessDateOf names and in no other.
LEMMA DayOfInstant ==
  ASSUME NEW t \in Int, NEW day \in Int
  PROVE  /\ BusinessDateOf(t) \in Int
         /\ InDay(t, day) <=> day = BusinessDateOf(t)
  BY DEF BusinessDateOf, InDay, DayStart, PerDay, ZoneOffset

\* Days begin in the order of instants: a day has begun once the day of the
\* instant has come to it.
LEMMA DayBegun ==
  ASSUME NEW t \in Int, NEW day \in Int
  PROVE  DayStart(day) <= t <=> day <= BusinessDateOf(t)
  BY DEF BusinessDateOf, DayStart, PerDay, ZoneOffset

LEMMA DaysOrdered ==
  ASSUME NEW t \in Int, NEW u \in Int, t <= u
  PROVE  BusinessDateOf(t) <= BusinessDateOf(u)
  BY DEF BusinessDateOf, PerDay, ZoneOffset

\* The clock and the receptions are instants, and nothing is received later
\* than now (createdDate is the database's now()).
THEOREM ClockTypeCorrect == Spec => []TypeOK
<1>1. Init => TypeOK
  BY DEF Init, TypeOK
<1>2. TypeOK /\ [Next]_vars => TypeOK'
  <2> SUFFICES ASSUME TypeOK, [Next]_vars PROVE TypeOK'
    OBVIOUS
  <2>1. CASE Receive
    BY <2>1, ClockAssumption DEF Receive, TypeOK
  <2>2. CASE TimePasses
    BY <2>2, ClockAssumption DEF TimePasses, TypeOK
  <2>3. CASE UNCHANGED vars
    BY <2>3 DEF vars, TypeOK
  <2> QED
    BY <2>1, <2>2, <2>3 DEF Next
<1> QED
  BY <1>1, <1>2, PTL DEF Spec

\* Every submission ever received is counted in one daily report
\* (adminReportService.js) that may be asked for and in no other, and
\* "received today" counts it exactly while that report is today's.
THEOREM CountedOnce == Spec => []EachInOneReport
<1>1. TypeOK => EachInOneReport
  <2> SUFFICES ASSUME TypeOK, NEW t \in received
               PROVE  /\ CountedIn(t) = {BusinessDateOf(t)}
                      /\ ReceivedToday(t, now) <=> BusinessDateOf(t) = BusinessDateOf(now)
    BY DEF EachInOneReport
  <2>1. /\ t \in Instants /\ t \in Int /\ now \in Int /\ t <= now
        /\ Days \subseteq Int
    BY ClockAssumption DEF TypeOK
  <2>2. BusinessDateOf(t) \in Days /\ EarliestReportDate <= BusinessDateOf(t)
    BY <2>1, ClockAssumption
  <2>3. BusinessDateOf(t) \in Int /\ BusinessDateOf(now) \in Int
    BY <2>1, DayOfInstant
  <2>4. BusinessDateOf(t) <= BusinessDateOf(now)
    BY <2>1, DaysOrdered
  <2>5. \A day \in Days : InDay(t, day) <=> day = BusinessDateOf(t)
    BY <2>1, DayOfInstant
  <2>6. CountedIn(t) = {BusinessDateOf(t)}
    BY <2>2, <2>4, <2>5 DEF CountedIn, MayBeReported
  <2>7. ReceivedToday(t, now) <=> BusinessDateOf(now) <= BusinessDateOf(t)
    BY <2>1, <2>3, DayBegun DEF ReceivedToday
  <2> QED
    BY <2>3, <2>4, <2>6, <2>7
<1> QED
  BY <1>1, ClockTypeCorrect, PTL

\* The police follow-up turns at the midnights of Colombo, for a slip of any
\* day (policeCountdownService.js).
THEOREM FollowUpTurns == Spec => []CountdownRuns
<1>1. TypeOK => CountdownRuns
  <2> SUFFICES ASSUME TypeOK, NEW submitted \in Days
               PROVE  LET status == StatusForDaysLeft(PoliceReportDueDate(submitted) - BusinessDateOf(now))
                      IN /\ status = "DUE_TODAY" <=> InDay(now, submitted + 21)
                         /\ status = "DUE_SOON" <=> (DayStart(submitted + 14) <= now /\ now < DayStart(submitted + 21))
                         /\ status = "OVERDUE" <=> DayStart(submitted + 22) <= now
    BY DEF CountdownRuns
  <2>1. now \in Int /\ submitted \in Int
    BY ClockAssumption DEF TypeOK
  <2> DEFINE left == PoliceReportDueDate(submitted) - BusinessDateOf(now)
             status == StatusForDaysLeft(left)
  <2>2. /\ BusinessDateOf(now) \in Int
        /\ left \in Int
        /\ left = submitted + 21 - BusinessDateOf(now)
    BY <2>1, DayOfInstant DEF PoliceReportDueDate, PoliceReportDueDays
  <2>3. /\ InDay(now, submitted + 21) <=> left = 0
        /\ DayStart(submitted + 14) <= now <=> left <= 7
        /\ DayStart(submitted + 22) <= now <=> left < 0
    <3>1. InDay(now, submitted + 21) <=> submitted + 21 = BusinessDateOf(now)
      BY <2>1, DayOfInstant
    <3>2. DayStart(submitted + 14) <= now <=> submitted + 14 <= BusinessDateOf(now)
      BY <2>1, DayBegun
    <3>3. DayStart(submitted + 22) <= now <=> submitted + 22 <= BusinessDateOf(now)
      BY <2>1, DayBegun
    <3> QED
      BY <2>1, <2>2, <3>1, <3>2, <3>3
  <2>4. now < DayStart(submitted + 21) <=> left > 0
    <3>1. DayStart(submitted + 21) <= now <=> submitted + 21 <= BusinessDateOf(now)
      BY <2>1, DayBegun
    <3>2. DayStart(submitted + 21) \in Int
      BY <2>1 DEF DayStart, PerDay, ZoneOffset
    <3> QED
      BY <2>1, <2>2, <3>1, <3>2
  <2>5. /\ status = "DUE_TODAY" <=> left = 0
        /\ status = "DUE_SOON" <=> left \in 1..7
        /\ status = "OVERDUE" <=> left < 0
    <3> HIDE DEF left
    <3> QED
      BY <2>2 DEF StatusForDaysLeft, DueSoonDays
  <2> HIDE DEF left
  <2> QED
    BY <2>2, <2>3, <2>4, <2>5 DEF left
<1> QED
  BY <1>1, ClockTypeCorrect, PTL
=============================================================================
