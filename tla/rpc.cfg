\* A worker in the root's process group and one in its own, both agents.
CONSTANTS
  Root = Root
  Grouped = {g1}
  Detached = {d1}
CHECK_DEADLOCK FALSE
SPECIFICATION FairSpec
INVARIANTS
  TypeOK
  TurnLeavesNoTree
  FailureIsReported
PROPERTIES
  TurnEnds
