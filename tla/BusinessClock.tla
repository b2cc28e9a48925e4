---------------------------- MODULE BusinessClock ----------------------------
(***************************************************************************)
(* The clock of the server and the instants at which submissions were      *)
(* received (TemporaryData.createdDate), against the days of               *)
(* BusinessCalendar in which the reports count them (adminReportService.js,*)
(* adminDashboardService.js) and the police follow-up runs.                 *)
(***************************************************************************)
EXTENDS BusinessCalendar, FiniteSets

CONSTANTS
  Instants,     \* instants at which something happens
  Days,         \* days considered
  MaxReceived   \* bound of the model: submissions considered

VARIABLES
  now,          \* the server's clock
  received      \* when each submission was received

vars == <<now, received>>

ASSUME ClockAssumption ==
  /\ Instants \subseteq Int /\ Days \subseteq Int /\ MaxReceived \in Nat
  /\ \A t \in Instants : BusinessDateOf(t) \in Days /\ EarliestReportDate <= BusinessDateOf(t)

Init == now \in Instants /\ received = {}

Receive ==
  /\ Cardinality(received) < MaxReceived
  /\ received' = received \cup {now}
  /\ UNCHANGED now

TimePasses ==
  /\ \E t \in Instants : now < t /\ now' = t
  /\ UNCHANGED received

Next == Receive \/ TimePasses

Spec == Init /\ [][Next]_vars

----------------------------------------------------------------------------
(* Properties *)

TypeOK == now \in Instants /\ received \subseteq Instants /\ \A t \in received : t <= now

\* The reports that count a submission, among those that may be asked for.
CountedIn(t) == {day \in Days : InDay(t, day) /\ MayBeReported(day, now)}

\* Whatever was received ("received that day", adminReportService.js) is
\* counted in one of the reports that may be asked for and in no other, and
\* "received today" counts it exactly while that report is today's: no half
\* hour near a midnight in UTC or in Colombo is lost or counted twice.
EachInOneReport ==
  \A t \in received :
    /\ CountedIn(t) = {BusinessDateOf(t)}
    /\ ReceivedToday(t, now) <=> BusinessDateOf(t) = BusinessDateOf(now)

\* The follow-up of a slip of any day ("in Sri Lanka calendar days"): due today
\* from the midnight in Colombo that begins the 21st day after the slip's to
\* the next midnight, due soon for the seven days before, overdue from then on.
CountdownRuns ==
  \A submitted \in Days :
    LET status == StatusForDaysLeft(PoliceReportDueDate(submitted) - BusinessDateOf(now))
    IN /\ status = "DUE_TODAY" <=> InDay(now, submitted + 21)
       /\ status = "DUE_SOON" <=> (DayStart(submitted + 14) <= now /\ now < DayStart(submitted + 21))
       /\ status = "OVERDUE" <=> DayStart(submitted + 22) <= now
=============================================================================
