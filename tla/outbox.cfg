\* Two events; whoever is not the worker alternates between calls and requests.
CONSTANTS
  e1 = e1
  e2 = e2
  a1 = a1
  Event = {e1, e2}
  Worker = Worker
  Tool = {a1}
  Request = {a1}
  None = None
  MaxAttempts = 2
SPECIFICATION FairSpec
INVARIANTS
  TypeOK
PROPERTIES
  DeliversAsAQueue
  LeaseIsRespected
  NoPostUnlessActive
  EveryEventSettles
