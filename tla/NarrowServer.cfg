CONSTANTS
  Rcopy = Rcopy
  Server = Server
  Children = {c1}
  Blocks <- MCBlocks
  Source <- FourBlocks
  ZeroByte = ZeroByte
  Hole = Hole
  Part = Part
  Window = 5
  SizeField = 3
  MaxTries = 2
  IOFaults = {"read", "write", "open"}
  HungUp = {}
  MaxLosses = 0
  MaxFlips = 1
  Duplicates = FALSE
  Prompt = FALSE
SPECIFICATION FairSpec
INVARIANTS
  CompleteMeansCopied
  AckedIsOnDisk
  BufferedIsPending
PROPERTIES
  RcopyEnds
CHECK_DEADLOCK FALSE
