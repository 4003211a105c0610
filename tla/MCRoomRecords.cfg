SPECIFICATION Spec
CONSTANTS
  Keys = {r1, r2}
  Edited = {r1}
  AidKeys = {i1, i2}
  Slots = {s1, s2}
  People = {p1, p2}
  RoomIds = {id1, id2}
  name = name
  blank_name = blank_name
  Names <- MCNames
  Trim <- MCTrim
  Columns <- MCColumns
  Values <- MCValues
  Yes = Yes
  No = No
  NoName = NoName
  NoRoomId = NoRoomId
  NoKey = NoKey
  Unknown = Unknown
SYMMETRY Alike
INVARIANTS
  TypeOK
  AcknowledgedChangesLast
PROPERTIES
  TwinsOverlap
  OneChangeAtATime
