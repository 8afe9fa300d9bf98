CONSTANTS
  Users = {ana}
  Agents = {phone}
  SessionIds = {s1, s2}
  Tokens = {t1, t2, t3}
  Requests = {q1, q2, q3, q4}
  None = none
  AccessTtl = 1
  PartialTtl = 1
  RefreshTtl = 1
  RememberTtl = 2
  MaxTime = 2
SPECIFICATION Spec
SYMMETRY Symmetry
CHECK_DEADLOCK FALSE
INVARIANT
  TokenUsedOnce
