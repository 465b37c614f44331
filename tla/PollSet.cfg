CONSTANTS
  Descriptors = {0, 1, 3, 5}
  POLL_SET_SIZE = 2
SPECIFICATION PollSpec
INVARIANTS
  PollTypeOK
  MembersPolled
  TableNamesMembers
  ReportsLowestMember
  HangUpHidesSockets
