\* The instance of merge.cfg, with the worktree cleanup running beside a live turn.
CONSTANTS
  w1 = w1
  w2 = w2
  b1 = b1
  WorkEdit = {w1, w2}
  BaseEdit = {b1}
  Clash <- MCClash
  Markers = Markers
  MaxCommit = 6
  Quiet = {}
  Overlap = {"prune"}
  StaleMerge = FALSE
SPECIFICATION Spec
CHECK_DEADLOCK FALSE
PROPERTIES
  KeepsWork
