CONSTANTS
  AVAILABLE = {taker}
  Limit = {1}
  MaxFeeds = 2
  MaxRouted = 1
SPECIFICATION MonitorSpec
PROPERTIES LiveQuotesOnly
CHECK_DEADLOCK FALSE
