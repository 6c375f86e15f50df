SPECIFICATION Spec
CONSTANTS
  Calls = {c1, c2}
  Impatient = {c1}
  Noisy = {}
  Large = {}
  MaxNoise = 0
  NoCall = NoCall
INVARIANT AlwaysOwnAnswer
