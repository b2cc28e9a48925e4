SPECIFICATION Spec
CONSTANTS
  Emails = {"boss", "new"}
  Requests = {r1, r2, r3}
  Beginnings <- MCBeginnings
SYMMETRY Symmetry
CHECK_DEADLOCK FALSE
INVARIANTS OldLinksDead OwnLinkLives
PROPERTIES ActivatedByInvitation ActiveKept
