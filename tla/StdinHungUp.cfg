CONSTANTS
  Rcopy = Rcopy
  Server = Server
  Children = {c1}
  Blocks <- MCBlocks
  Source <- TwoBlocks
  ZeroByte = ZeroByte
  Hole = Hole
  Part = Part
  Window = 2
  SizeField = 100
  MaxTries = 2
  IOFaults = {}
  HungUp = {"rcopy", "server"}
  MaxLosses = 1
  MaxFlips = 0
  Duplicates = FALSE
  Prompt = TRUE
SPECIFICATION FairSpec
PROPERTIES
  EofWaitEnds
CHECK_DEADLOCK FALSE
