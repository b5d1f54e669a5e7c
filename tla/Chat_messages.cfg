\* Two sockets, of one user or of two, and two messages: over a pool of one
\* or two connections, all of which the messages can come to hold, and of
\* three, where both can hold one and still find a third.  Over the smaller two
\* the database may fail the first message.
CONSTANTS
  u1 = u1
  u2 = u2
  adm = adm
  ghost = ghost
  None = None
  Sockets = {1, 2}
  Users <- MCUsers
  Accounts <- MCAccounts
  Admins = {adm}
  TheAdmin = adm
  Brings <- MCBrings
  Messages = {1, 2}
  Asks <- MCAsks
  Pools = {1, 2, 3}
  MaxRestarts = 1
  Frail <- MCFrail
SPECIFICATION Spec
INVARIANTS
  TypeOK
  EntryKnowsItsRooms
  StaleEntryWentEarly
  MissingEntryMetAnother
  SecondRoomNeedsRace
  RefusalHasReason
  EchoNeedsSecondSocket
  WorkGoesOn
PROPERTIES
  ImplementsSupportDesk
  WedgedForGood
CHECK_DEADLOCK FALSE
