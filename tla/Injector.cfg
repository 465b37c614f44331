CONSTANTS
  Byte = 4
  Payloads <- MCPayloads
  Draws = 2
  MsgNos = 4
  Undefined = Undefined
  NoNumber = NoNumber
  Environments <- MCEnvironments
  Programs <- MCPrograms
  Unsent = Unsent
  Dropped = Dropped
  MaxSends = 5
SPECIFICATION MCSpec
INVARIANTS
  InjectorTypeOK
  SealedPasses
  FlipIsSeen
  ErrorsAsConfigured
  ListedAreDropped
  ReportMissesOnlyListed
CHECK_DEADLOCK FALSE
