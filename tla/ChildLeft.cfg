CONSTANTS
  Rcopy = Rcopy
  Server = Server
  Children = {c1}
  Blocks <- MCBlocks
  Source <- ThreeBlocks
  ZeroByte = ZeroByte
  Hole = Hole
  Part = Part
  Window = 2
  SizeField = 100
  MaxTries = 1
  IOFaults = {}
  HungUp = {}
  MaxLosses = 0
  MaxFlips = 0
  Duplicates = FALSE
  Prompt = TRUE
SPECIFICATION FairSpec
PROPERTIES
  ChildrenClose
CHECK_DEADLOCK FALSE
