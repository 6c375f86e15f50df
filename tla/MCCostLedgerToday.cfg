SPECIFICATION FairSpec
CONSTANTS
  c1 = c1
  c2 = c2
  Chats = {c1}
  Impatient = {}
  Prices = {1, 2}
  MaxTurns = 2
  Cap = 2
  DiskFails = FALSE
  MaxDay = 1
  MaxLaunch = 1
  NoChat = NoChat
INVARIANT RollupIsToday
