SPECIFICATION Spec
CONSTANTS
  Clients = {c1, c2}
  Emails = {e1}
  Passwords = {p1, p2, p3}
  NoUser = NoUser
  Resolution = 2
  TTL = 3
  MaxIds = 2
  MaxCalls = 4
  MaxTime = 4
SYMMETRY Symmetry
INVARIANTS TypeOK TokenLifetime
PROPERTIES PasswordWasCurrent OnlyOverlapsOverwrite
CHECK_DEADLOCK FALSE
