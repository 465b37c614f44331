CONSTANTS
  Datagrams = {d1, d2, d3, d4}
  Children = {c1, c2, c3}
  Nobody = Nobody
SPECIFICATION ServerSpec
INVARIANTS
  ServerTypeOK
  ZombieNoticed
  SeedsDiffer
PROPERTIES
  ZombiesReaped
  ArrivedIsTaken
  HandedToOneChild
CHECK_DEADLOCK FALSE
