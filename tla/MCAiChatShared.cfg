SPECIFICATION FairSpec
CONSTANTS
  c1 = c1
  c2 = c2
  s1 = s1
  s2 = s2
  r1 = r1
  Sessions = {s1}
  Chats = {c1, c2}
  SessionOf <- Shared
  PlanOnly = {c2}
  Impatient = {c1}
  Requests = {}
  Durations = {}
  TokenScopes <- FullToken
  Names = {"run_python"}
  Bodies <- AnyBody
  MaxUses = 1
  MaxTurns = 2
  MaxDuration = 1
  MaxTime = 0
INVARIANTS
  TypeOK
  NothingLost
  ConversationComplete
PROPERTIES
  TranscriptGrows
  ChatEnds
