SPECIFICATION Spec
CONSTANTS
  Keys = {a1, a2}
  Slots = {s1, s2}
  small = small
  CAPITALS = CAPITALS
  Emails <- MCEmails
  Lower <- MCLower
  Columns <- MCColumns
  Values <- MCValues
  Phones = {p1, p2}
  UserIds = {u1, u2}
  Passwords = {w1, w2}
  Codes = {k1, k2}
  Profiles = {f1}
  Services = {v1}
  Edited = {a1}
  Old = {a1}
  Yes = Yes
  No = No
  NoCode = NoCode
  NoUserId = NoUserId
  NoKey = NoKey
  Unknown = Unknown
SYMMETRY Alike
INVARIANTS
  TypeOK
  AcknowledgedChangesLast
PROPERTIES
  TwinsOverlap
  
  OneChangeAtATime
