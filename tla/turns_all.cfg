\* Every request and fault; safety, up to symmetry.
CONSTANTS
  m1 = m1
  m2 = m2
  m3 = m3
  g1 = g1
  c1 = c1
  c2 = c2
  Msg = {m1, m2, m3}
  GitOp = {g1}
  Clear = {c1, c2}
  Ops = {"stop", "cancel", "unqueue", "clear", "delete", "git", "refuse", "fault", "limit", "restart"}
  None = None
SPECIFICATION Spec
SYMMETRY Symmetric
INVARIANTS
  TypeOK
  LiveTurnIsReachable
  ClearedStaysCleared
  RemovedTaskIsQuiet
PROPERTIES
  WorktreeSpec
