SPECIFICATION FairSpec
CONSTANTS
  Calls = {c1, c2, c3}
  Impatient = {c1, c2, c3}
  Noisy = {c1}
  Large = {}
  MaxNoise = 2
  NoCall = NoCall
INVARIANTS TypeOK OwnAnswer AnswerOnce NoOrphan
PROPERTY EveryCallReturns
