--------------------------- MODULE MCDashboardPage ---------------------------
EXTENDS DashboardPage

Waiting1(existing) == [state |-> "open", by |-> NoKind, existing |-> existing]

\* Two items; one of them competes with a verified document.
MCBeginnings == {[i \in Items |-> Waiting1(IF i = "i1" THEN NoDoc ELSE "d1")]}
=============================================================================
