CONSTANTS
  Users = {ana, bia}
  Passwords = {short, good}
  Weak = {short}
  Tokens = {t1, t2}
  Requests = {q1, q2, q3, q4}
  None = none
  ResetTtl = 1
  MaxTime = 2
SPECIFICATION Spec
SYMMETRY Symmetry
CHECK_DEADLOCK FALSE
INVARIANTS
  TypeOK
  EffectIsBound
  BurntOnlyByReset
PROPERTIES
  SpentForGood
