\* A /clear lands while a message is being launched.
CONSTANTS
  m1 = m1
  m2 = m2
  g1 = g1
  c1 = c1
  Msg = {m1, m2}
  GitOp = {g1}
  Clear = {c1}
  Ops = {"clear"}
  None = None
SPECIFICATION Spec
INVARIANTS
  RunningIsLive
