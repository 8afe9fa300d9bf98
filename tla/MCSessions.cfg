CONSTANTS
  Users = {ana, bia}
  Agents = {phone, laptop}
  SessionIds = {s1, s2}
  Tokens = {t1, t2, t3}
  Requests = {q1, q2, q3}
  None = none
  AccessTtl = 2
  PartialTtl = 1
  RefreshTtl = 2
  RememberTtl = 3
  MaxTime = 3
SPECIFICATION Spec
SYMMETRY Symmetry
CHECK_DEADLOCK FALSE
INVARIANTS
  TypeOK
  UniqueKeys
  RefreshIsBound
  RefusedOnlyWhenSpent
PROPERTIES
  SessionsEndByOwner
  LedgerSpec
