--------------------------- MODULE MCBusinessClock ---------------------------
EXTENDS BusinessClock

\* From 2000-01-01 in Colombo, the half hours around each midnight there and in
\* UTC, and noon, on the days at which a follow-up begun on the first two turns.
MCDays == 10957..10982
MCInstants == {DayStart(day) + k : day \in {10957, 10958, 10970, 10971, 10972} \cup 10977..10980, k \in {0, 1, 10, 11, 12, 24, 47}}
=============================================================================
