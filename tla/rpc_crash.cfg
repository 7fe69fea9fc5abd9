\* An agent that takes its prompt and dies: the same instance as rpc.cfg.
CONSTANTS
  Root = Root
  Grouped = {g1}
  Detached = {d1}
SPECIFICATION Spec
INVARIANTS
  CrashIsReported
CHECK_DEADLOCK FALSE
