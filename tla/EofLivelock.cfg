CONSTANTS
  Rcopy = Rcopy
  Server = Server
  Children = {c1, c2}
  Blocks <- MCBlocks
  Source <- TwoBlocks
  ZeroByte = ZeroByte
  Hole = Hole
  Part = Part
  Window = 1
  SizeField = 100
  MaxTries = 2
  IOFaults = {}
  HungUp = {}
  MaxLosses = 0
  MaxFlips = 0
  Duplicates = FALSE
  Prompt = FALSE
SPECIFICATION DeliverySpec
PROPERTIES
  EofWaitEnds
CHECK_DEADLOCK FALSE
