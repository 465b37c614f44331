CONSTANTS
  Rcopy = Rcopy
  Server = Server
  Children = {c1}
  Blocks <- MCBlocks
  Source <- ThreeBlocks
  ZeroByte = ZeroByte
  Hole = Hole
  Part = Part
  Window = 2
  SizeField = 100
  MaxTries = 1
  IOFaults = {"read", "write", "open"}
  HungUp = {}
  MaxLosses = 0
  MaxFlips = 1
  Duplicates = TRUE
  Prompt = FALSE
SPECIFICATION Spec
INVARIANTS
  TypeOK
  CompleteMeansCopied
  AckedIsOnDisk
  UnackedIsHeld
  WaitingHasUnacked
  EofAfterAllAcked
  BufferedIsPending
PROPERTIES
  CopiesInOrder
CHECK_DEADLOCK FALSE
