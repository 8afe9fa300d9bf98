CONSTANTS
  Users = {ana}
  Passwords = {short, good}
  Weak = {short}
  Tokens = {t1, t2}
  Requests = {q1, q2, q3}
  None = none
  ResetTtl = 1
  MaxTime = 2
  MaxFailures = 1
  MaxCrashes = 1
SPECIFICATION Spec
SYMMETRY Symmetry
CHECK_DEADLOCK FALSE
INVARIANTS
  GoodLinkAccepted
PROPERTIES
  ComponentsKept
