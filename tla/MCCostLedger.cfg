SPECIFICATION FairSpec
CONSTANTS
  c1 = c1
  c2 = c2
  Chats = {c1, c2}
  Impatient = {c1, c2}
  Prices = {1, 2}
  MaxTurns = 2
  Cap = 2
  DiskFails = TRUE
  MaxDay = 1
  MaxLaunch = 1
  NoChat = NoChat
INVARIANTS
  TypeOK
  OvershootBounded
  BooksAgree
PROPERTIES
  CapStays
  ChatEnds
