SPECIFICATION Spec
CONSTANTS
  c1 = c1
  c2 = c2
  s1 = s1
  s2 = s2
  r1 = r1
  Sessions = {s1, s2}
  Chats = {c1, c2}
  SessionOf <- Apart
  PlanOnly = {c2}
  Impatient = {}
  Requests = {r1}
  Durations = {1, 5}
  TokenScopes <- TwoTokens
  Names = {"fs_read", "run_python", "nonsense"}
  Bodies <- JustTyped
  MaxUses = 1
  MaxTurns = 1
  MaxDuration = 2
  MaxTime = 2
INVARIANTS
  RunsAreApproved
