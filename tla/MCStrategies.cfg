CONSTANTS
  Symbol = {s1, s2}
  Quote <- Quotes
  NO_ASK = 31
  MAX_SPREAD_TICKS = 3
  COOLDOWN_CYCLES = 2
  MAX_PRICE_BAND = 2
  NoProposal = NoProposal
  Ref = {0, 1, 2}
  Price = {1, 2, 3}
  Shares = {1, 2}
  ORDER_DEPTH = 2
  NLEVELS = 2
  EMPTY_ASK = 99
  THRESH = 15
  MAX_SPREAD = 1
  BASE_LOT = 1
  MAX_LOT = 2
  OFI_WINDOW = 1
  OFI_THRESHOLD = 2
  OFI_BASE_LOT = 1
  OFI_MAX_LOT = 2
  ALPHA_SHIFT = 1
  MAX_TILT = 1
  HALF_SPREAD = 1
  SKEW = 1
  QUOTE_SIZE = 1
  MAX_POSITION = 2
  MAX_ORDER_SIZE = 2
  PRICE_BAND = 1
  MaxMsgs = 4
  NoOrder = NoOrder
  NoMsg = NoMsg
  Nothing = Nothing
  Feed <- MCFeed
  Mpid <- MCMpid
SPECIFICATION MCSpec
INVARIANTS Aligned NeedsBook CollarFits BookMatchesGolden DecisionsAgree MakersAgree
PROPERTIES CoolsDown
CHECK_DEADLOCK FALSE
