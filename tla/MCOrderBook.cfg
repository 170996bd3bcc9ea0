CONSTANTS
  Ref <- SomeRefs
  Price <- ThreePrices
  Shares <- TwoSizes
  ORDER_DEPTH = 4
  NLEVELS = 2
  NoOrder = NoOrder
  NoMsg = NoMsg
SPECIFICATION FairSpec
INVARIANTS BookExact
PROPERTIES ImplementsBook ReadyAgain
