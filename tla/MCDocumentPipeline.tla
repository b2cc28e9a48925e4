------------------------- MODULE MCDocumentPipeline -------------------------
(* Small instances of DocumentPipeline: two client records, and files that  *)
(* reach every rule.                                                        *)
EXTENDS DocumentPipeline

MCClients == {"A", "B"}

\* What one passport value may read like.
Good == [mrz |-> "v", check |-> "GOOD", viz |-> None]
Agreed == [Good EXCEPT !.viz = "v"]
Disputed == [Good EXCEPT !.viz = "u"]
Misread == [Good EXCEPT !.check = "BAD"]
Printed == [mrz |-> None, check |-> None, viz |-> "v"]
Unread == [mrz |-> None, check |-> None, viz |-> None]
Number(value, reading) ==
  [mrz |-> IF reading.mrz = "v" THEN value ELSE reading.mrz, check |-> reading.check,
   viz |-> IF reading.viz = "v" THEN value ELSE reading.viz]
Fields(dates, name) ==
  [column \in RECORD_COLUMNS |-> IF column = "firstName" THEN name ELSE dates]

NoPassport == [passportId |-> Unread, fields |-> Fields(Unread, Unread), mrzLines |-> 0]
PassportData(ids, dates, names, lines) ==
  [passportId : ids, fields : {Fields(d, n) : d \in dates, n \in names}, mrzLines : lines]

Content(nameType, contentType, reason, score, extraction, date, data) ==
  [nameType |-> nameType, contentType |-> contentType, reason |-> reason, score |-> score,
   extraction |-> extraction, policeDate |-> date,
   passportId |-> data.passportId, fields |-> data.fields, mrzLines |-> data.mrzLines]

\* Each band's bounds; the scores that give 80 and 100.
Extractions == {39, 40, 60, 90, 96}
NameTypes == {"UNKNOWN", "PASSPORT", "POLICE_REPORT"}
Unclassified ==
  {Content(n, "UNKNOWN", r, 0, e, "NOT_FOUND", NoPassport) :
     n \in NameTypes, r \in CONTENT_REASONS \ {None}, e \in {0, 96}}
Ordinary ==
  {Content(n, t, None, k, e, d, NoPassport) :
     n \in NameTypes, t \in {"POLICE_SLIP", "POLICE_REPORT", "MEDICAL"}, k \in {3, 6}, e \in Extractions,
     d \in {"RESOLVED", "NOT_FOUND"}}
Passports ==
  {Content(n, "PASSPORT", None, 6, e, "NOT_FOUND", p) :
     n \in {"UNKNOWN", "POLICE_REPORT"}, e \in {39, 60, 96},
     p \in PassportData({Number("P1", Good), Number("P1", Printed), Number("P3", Good), Unread},
                        {Agreed, Disputed, Printed, Unread}, {Good, Unread}, {0, 2})}
AllFiles == Unclassified \cup Ordinary \cup Passports

Candidate(passport, sender, columns) == [passport |-> passport, whatsapp |-> sender, columns |-> columns]
Known == [column \in RECORD_COLUMNS |-> "v"]
Differing == [Known EXCEPT !["dateOfBirth"] = "w"]
Partly == [Known EXCEPT !["passportExpiryDate"] = None]
Pair(a, b) == [c \in MCClients |-> IF c = "A" THEN a ELSE b]
AllCandidates ==
  {Pair(Candidate("P1", s, k), Candidate(q, t, NothingOnRecord)) :
     s \in BOOLEAN, t \in BOOLEAN, q \in {"P1", "P2"}, k \in {Known, Differing, Partly}}

Other(c, sha, type, verification) == [sub |-> 2, client |-> c, sha |-> sha, type |-> type, verification |-> verification]
SomeDocuments ==
  {{}, {Other("A", ThisFile, "MEDICAL", "VERIFIED")}, {Other("A", ThisFile, "MEDICAL", "REVIEW_REQUIRED")},
   {Other("B", ThisFile, "MEDICAL", "VERIFIED")}, {Other("A", "other", "MEDICAL", "VERIFIED")},
   {Other("A", "other", "PASSPORT", "VERIFIED")}}

\* A passport and a medical certificate among which the others act.
FewFiles ==
  {Content("UNKNOWN", "MEDICAL", None, 6, 96, "NOT_FOUND", NoPassport)} \cup
  {Content("UNKNOWN", "PASSPORT", None, 6, e, "NOT_FOUND", p) :
     e \in {39, 96}, p \in PassportData({Number("P1", Good)}, {Agreed}, {Good}, {2})}
FewCandidates ==
  {Pair(Candidate("P1", TRUE, k), Candidate("P2", FALSE, NothingOnRecord)) : k \in {Partly, Known}}
SomeFilings ==
  {Other("A", ThisFile, "MEDICAL", "VERIFIED"), Other("B", ThisFile, "MEDICAL", "VERIFIED"),
   Other("A", "other", "PASSPORT", "VERIFIED")}
\* Every file in every setting, left alone; and a few with everyone else about.
MCWorlds ==
  [file : AllFiles, candidates : AllCandidates, documents : SomeDocuments, others : {0}, restarts : {0}]
  \cup [file : FewFiles, candidates : FewCandidates, documents : {{}}, others : {2}, restarts : {1}]
=============================================================================
