\* Two questions, two turns of any drivers, agents that die, a restart, answers posted twice.
CONSTANTS
  Ask = {a1, a2}
  Turn = {t1, t2}
  None = None
  Faults = {"crash", "restart"}
  MaxPost = 2
SPECIFICATION FairSpec
\* The system rests once every turn is over and every question answered.
CHECK_DEADLOCK FALSE
INVARIANTS
  TypeOK
  OpenQuestionIsAnswerable
  StopDismisses
  AnswerGoesOneWay
PROPERTIES
  WaiterIsHeard
