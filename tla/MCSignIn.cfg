CONSTANTS
  Users = {ana}
  Agents = {phone, laptop}
  Passwords = {p1, p2}
  Codes = {c1, c2}
  Requests = {q1, q2, q3}
  None = none
  MaxChanges = 2
SPECIFICATION Spec
SYMMETRY Symmetry
CHECK_DEADLOCK FALSE
INVARIANTS
  TypeOK
  OneMoment
  SessionsOnKnownDevices
  MailedCodeStands
