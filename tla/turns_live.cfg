\* Neither /clear nor refusals nor faults: claims, deletions and the queue resolve.
CONSTANTS
  m1 = m1
  m2 = m2
  m3 = m3
  g1 = g1
  c1 = c1
  Msg = {m1, m2, m3}
  GitOp = {g1}
  Clear = {c1}
  Ops = {"stop", "unqueue", "delete", "git", "restart"}
  None = None
SPECIFICATION FairSpec
INVARIANTS
  RunningIsLive
  QueuedHasTurn
PROPERTIES
  ClaimsResolve
  DeletionEnds
  QueueDrains
