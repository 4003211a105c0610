SPECIFICATION Spec
CONSTANTS
  ana = ana
  guest = guest
  visitor = visitor
  admin = admin
  a1 = a1
  a2 = a2
  g1 = g1
  d1 = d1
  Sockets = {a1, a2, g1, d1}
  People = {ana, guest, visitor, admin}
  Admins = {admin}
  Speaks <- MCSpeaks
  IdOf <- MCIdOf
  NameOf <- MCNameOf
  ChatOf <- MCChatOf
  Official = Official
  NoId = NoId
  NoSocket = NoSocket
INVARIANTS TypeOK OneEntryEach
PROPERTIES AnswersFindTheirUser AdminsAreHeard
CHECK_DEADLOCK FALSE
