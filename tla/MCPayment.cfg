CONSTANTS
  Users = {ana, bia}
  Checkouts = {c1, c2}
  Requests = {q1, q2}
  Handlers = {h1, h2}
  None = none
  MaxFaults = 2
SPECIFICATION FairSpec
CHECK_DEADLOCK FALSE
INVARIANTS
  TypeOK
  PlanIsBought
  NoPaymentForgotten
PROPERTIES
  LedgerSpec
  PaymentsConfirmed
