CONSTANTS
  Rcopy = Rcopy
  Server = Server
  Children = {c1, c2, c3}
  Blocks <- MCBlocks
  Source <- FourBlocks
  ZeroByte = ZeroByte
  Hole = Hole
  Part = Part
  Window = 2
  SizeField = 100
  MaxTries = 4
  IOFaults = {}
  HungUp = {}
  MaxLosses = 2
  MaxFlips = 0
  Duplicates = FALSE
  Prompt = TRUE
SPECIFICATION FairSpec
INVARIANTS
  CompleteMeansCopied
PROPERTIES
  CopyCompletes
CHECK_DEADLOCK FALSE
