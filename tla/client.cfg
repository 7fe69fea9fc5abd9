\* Two tabs, one of which shows a task's stream; one stream dropped or tab closed.
CONSTANTS
  t1 = t1
  t2 = t2
  None = None
  Tab = {t1, t2}
  Viewer = {t1}
  MaxMsg = 3
  Late = {}
  MaxBusy <- MCBusy
  MaxDrop = 1
  MaxStep <- MCStep
SPECIFICATION Spec
\* The bounds run out.
CHECK_DEADLOCK FALSE
INVARIANTS
  TypeOK
  TranscriptCaughtUp
  ReopenRepairs
