SPECIFICATION Spec
CONSTANTS
  h1 = h1
  r1 = r1
  r2 = r2
  r3 = r3
  none = none
  Requests = {r1, r2, r3}
  Keys = {h1}
  KeyOf <- OfFirst
  Scopes = {"ai"}
  Offers <- NoneOrAi
  Needs <- AiOrNone
  Kind <- OneKey
  Strangers = {h1, r1}
  Flawed = {h1, r1}
  Impatient = {h1, r1}
  Limit = 2
  Window = 2
  MaxSkew = 1
  MaxTime = 6
  TTL = 5
  MaxFaults = 1
  MaxRestarts = 1
  None = none
INVARIANTS
  TypeOK
  RateHolds
  RefusalsAreDue
  LossBounded
PROPERTIES
  HandlersAuthorized
  EffectsApproved
