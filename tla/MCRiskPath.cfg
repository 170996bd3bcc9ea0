\* A position limit of one share with orders of one and two: the order of one goes
\* from one limit to the other in two steps, the order of two is too large; prices
\* are inside or outside the band of the collar.
CONSTANTS
  Size = {1, 2}
  Dev = {0, 1}
  MAX_ORDER_SIZE = 1
  MAX_POSITION = 1
  MAX_PRICE_BAND = 0
  OUT_DEPTH = 2
  STAGES = 2
  NoOrder = NoOrder
  NoEvent = NoEvent
SPECIFICATION FairSpec
INVARIANTS HostExposure HaltStops
PROPERTIES ImplementsGate LossIsTold
