--------------------------- MODULE BusinessCalendar ---------------------------
(***************************************************************************)
(* Days in Sri Lanka against instants in UTC (utils/businessDay.js), and   *)
(* what is counted in such days: the daily reports and the 21 days of the  *)
(* police follow-up (policeCountdownService.js, policeWorkflowService.js). *)
(*                                                                         *)
(* An instant is a number of half hours since 1970-01-01T00:00Z and a day  *)
(* a number of days since 1970-01-01, which order as the strings           *)
(* YYYY-MM-DD do.  Colombo is 5:30 ahead of UTC.                           *)
(* The calendar itself (which strings are dates, leap years) is left to    *)
(* JavaScript's Date.                                                       *)
(***************************************************************************)
EXTENDS Integers

PerDay == 48
ZoneOffset == 11

----------------------------------------------------------------------------
(* Days and instants *)

BusinessDateOf(t) == (t + ZoneOffset) \div PerDay

\* Variant: the day in UTC.
DayStartInUtc(day) == day * PerDay

DayStart(day) == day * PerDay - ZoneOffset

InDay(t, day) == DayStart(day) <= t /\ t < DayStart(day + 1)

EarliestReportDate == 10957  \* 2000-01-01

\* A report is of a day up to today.
MayBeReported(day, now) == EarliestReportDate <= day /\ day <= BusinessDateOf(now)

\* "Received today" on the Overview has no end.
ReceivedToday(t, now) == DayStart(BusinessDateOf(now)) <= t

----------------------------------------------------------------------------
(* The police follow-up *)

PoliceReportDueDays == 21
DueSoonDays == 7

PoliceReportDueDate(submitted) == submitted + PoliceReportDueDays

\* Variant: the due date counts as passed.
StatusPastDue(daysLeft) ==
  IF daysLeft <= 0 THEN "OVERDUE" ELSE IF daysLeft <= DueSoonDays THEN "DUE_SOON" ELSE "PENDING"

StatusForDaysLeft(daysLeft) ==
  CASE daysLeft < 0 -> "OVERDUE"
    [] daysLeft = 0 -> "DUE_TODAY"
    [] daysLeft \in 1..DueSoonDays -> "DUE_SOON"
    [] OTHER -> "PENDING"
=============================================================================
