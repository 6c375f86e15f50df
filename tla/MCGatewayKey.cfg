SPECIFICATION FairSpec
CONSTANTS
  h1 = h1
  r1 = r1
  r2 = r2
  r3 = r3
  none = none
  Requests = {r1, r2}
  Keys = {h1}
  KeyOf <- OfFirst
  Scopes = {"ai"}
  Offers <- NoneOrAi
  Needs <- AiOrNone
  Kind <- OneKey
  Strangers = {}
  Flawed = {}
  Impatient = {}
  Limit = 2
  Window = 2
  MaxSkew = 1
  MaxTime = 1
  TTL = 3
  MaxFaults = 0
  MaxRestarts = 1
  None = none
PROPERTIES
  KeyKept
