\* Two symbols on tables of two entries: enough for one book to rebuild its cache
\* while a message for the other waits.
CONSTANTS
  Symbol = {s1, s2}
  Ref = {0, 1}
  Price = {1}
  Shares = {1, 2}
  ORDER_DEPTH = 2
  NLEVELS = 2
  NoOrder = NoOrder
  NoMsg = NoMsg
SPECIFICATION Spec
PROPERTIES AcceptOnlyAllIdle
