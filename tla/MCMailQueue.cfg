CONSTANTS
  Mails = {m1, m2}
  MaxFailures = 4
  MaxCrashes = 2
SPECIFICATION FairSpec
CHECK_DEADLOCK FALSE
INVARIANTS
  TypeOK
  CopiesExcused
  FourCopiesAtMost
PROPERTIES
  EmittedIsSent
