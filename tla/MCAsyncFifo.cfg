CONSTANTS
  Word = {w1, w2}
  NoWord = NoWord
  AW = 2
  STAGES = 2
  RSTAGES = 2
  AF_LEVEL = 3
  AE_LEVEL = 1
SPECIFICATION FairSpec
INVARIANTS TypeOK NoOverrun FlagsSafe AlmostFlagsSafe
PROPERTIES ImplementsFifo CrossingCompletes
