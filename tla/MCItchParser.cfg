CONSTANTS
  MaxMsgs = 3
  OclTypes = {"D", "S"}
  IF_DEPTH = 2
  DEC_CAP = 2
  HIST_BUCKETS = 3
  MaxDecisions = 3
SPECIFICATION F1Spec
INVARIANTS DeliveredExact ReadBackExact MeasuredOnce
PROPERTIES EveryMessageHandedOver
CHECK_DEADLOCK FALSE
