CONSTANTS
  Rcopy = Rcopy
  Server = Server
  Children = {c1, c2}
  Blocks <- MCBlocks
  Source <- ThreeBlocks
  ZeroByte = ZeroByte
  Hole = Hole
  Part = Part
  Window = 2
  SizeField = 100
  MaxTries = 2
  IOFaults = {"open"}
  HungUp = {}
  MaxLosses = 0
  MaxFlips = 0
  Duplicates = FALSE
  Prompt = FALSE
SPECIFICATION Spec
INVARIANTS
  FileBlocksRight
  TransferInv
  CopyInv
  EofAckMeansReceived
  NoWriteWithoutFile
SYMMETRY ChildSymmetry
CHECK_DEADLOCK FALSE
