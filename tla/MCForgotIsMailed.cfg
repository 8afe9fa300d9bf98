CONSTANTS
  Mails = {m1}
  MaxFailures = 1
  MaxCrashes = 1
SPECIFICATION Spec
CHECK_DEADLOCK FALSE
INVARIANT
  ForgotIsMailed
