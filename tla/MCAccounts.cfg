CONSTANTS
  Names = {n1, n2}
  Spellings = {lower, mixed}
  Lower = lower
  Aliases = {al1, al2}
  Ids = {u1, u2}
  Tokens = {t1}
  Columns = {peso}
  Values = {v1}
  Points = {p1, p2}
  Radii = {0, 50}
  Bodies <- MCBodies
  Requests = {q1, q2, q3}
  None = none
SPECIFICATION Spec
SYMMETRY Symmetry
CHECK_DEADLOCK FALSE
INVARIANTS
  TypeOK
  OneAccountEach
  RegistrationDecided
  ProfileIsMerge
  AnswerShowsPatch
