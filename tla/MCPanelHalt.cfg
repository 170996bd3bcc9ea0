CONSTANTS
  Symbol = {a, b}
  Quote <- MCQuote
  FewQuotes <- MCFewQuotes
  Path = {"panel"}
  max_gross_notional = 259200
  daily_loss_limit = 57600
  THRESH = 15
  SPREAD = 28800
  BASE_LOT = 1
  MAX_LOT = 2
  HALF_SPREAD = 14400
  SKEW = 14400
  OFI_WINDOW = 1
  OFI_THRESHOLD = 3
  ALPHA_DEN = 1
  MAX_TILT = 3600
  AS_SKEW = {7200}
  AS_HALF = {14400}
  BTC = 8
  QTY_PER_SHARE = 2
  MIN_QTY = 4
  MAX_NOTIONAL = 57600
  MAX_EXPOSURE = 57600
  DRIFT_PCT = 40
  Enabled <- MCEnabled
  QUOTE_SIZE = 2
  MAX_INVENTORY = 2
  MIN_EDGE = 3600
  FEE_DEN = 20
  MIN_BOOK = 1
  SOFT_POSITION = 2
  MAX_ORDER = 2
  MAX_NET = 2
  BAND_PCT = 50
  VOL_WINDOW = 3
  MAX_VOL_BPS = 2500
  NoDec = NoDec
  NoQuote = NoQuote
  MaxFills = 3
  MaxPanelFills = 4
  MaxScheduled = 2
  AVAILABLE = {maker}
  Limit = {1, 2}
  MaxFeeds = 2
  MaxRouted = 2
SYMMETRY Alike
SPECIFICATION MCSpec
INVARIANTS StopsEverywhere
CHECK_DEADLOCK FALSE
