CONSTANTS
  Requests = {q1, q2, q3}
  Timeout = 1
  ResetTimeout = 2
SPECIFICATION FairSpec
INVARIANTS
  TypeOK
  NoFalseAlarm
  ProbeDecides
  AnsweredInTime
PROPERTIES
  Recovers
