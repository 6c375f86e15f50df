SPECIFICATION FairSpec
CONSTANTS
  Calls = {c1, c2, c3, c4}
  Impatient = {}
  Noisy = {}
  Large = {c1, c2, c3, c4}
  MaxNoise = 0
  NoCall = NoCall
INVARIANT Serialized
PROPERTIES EveryCallReturns ImplementsService
