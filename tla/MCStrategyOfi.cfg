\* Two quotes of each side that differ in the size by the threshold.
CONSTANTS
  Bid = {1}
  Ask = {2}
  Size = {1, 3}
  NoQuote = NoQuote
  WINDOW = 3
  THRESHOLD = 2
SPECIFICATION Spec
PROPERTIES OrderPerUpdate
