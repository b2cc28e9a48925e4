--------------------------- MODULE MCAdminAccounts ---------------------------
(* A small instance of AdminAccounts: an administrator who invites, and one  *)
(* other account, which there is not, or is active, or has been deactivated. *)
EXTENDS AdminAccounts, TLC

MCAccount(status, role) == [status |-> status, role |-> role, password |-> None]
MCBeginnings ==
  {[e \in Emails |-> IF e = "boss" THEN MCAccount("ACTIVE", "ADMIN") ELSE MCAccount(s, "VIEWER")] :
     s \in {"NONE", "ACTIVE", "INACTIVE"}}

Symmetry == Permutations(Requests)
=============================================================================
