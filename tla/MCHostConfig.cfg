CONSTANTS
  Word <- Selects
  Zero = 0
  NoWord = NoWord
  STAGES = 2
  RSTAGES = 3
SPECIFICATION FairSpec
INVARIANTS TypeOK OneEdge ConfigInSync
PROPERTIES ImplementsMailbox ConfigDelivered
