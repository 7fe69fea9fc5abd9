\* Two edits of the agent, one from elsewhere that conflicts with one of them, crashes anywhere.
CONSTANTS
  w1 = w1
  w2 = w2
  b1 = b1
  WorkEdit = {w1, w2}
  BaseEdit = {b1}
  Clash <- MCClash
  Markers = Markers
  MaxCommit = 6
  Quiet = {}
  Overlap = {}
  StaleMerge = FALSE
SPECIFICATION Spec
CHECK_DEADLOCK FALSE
INVARIANTS
  TypeOK
  DiffBaseLanded
  NoMarkersLanded
PROPERTIES
  BaseKeepsCommits
  KeepsWork
