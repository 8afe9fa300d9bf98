CONSTANTS
  Requests = {q1, q2, q3}
  Timeout = 2
  ResetTimeout = 3
SPECIFICATION Spec
INVARIANTS
  UnavailableIs503
