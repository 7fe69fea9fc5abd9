\* One service, two requests at once, two process groups, crashes and clean exits.
CONSTANTS
  q1 = q1
  q2 = q2
  p1 = p1
  p2 = p2
  Req = {q1, q2}
  Boot = Boot
  Pid = {p1, p2}
  None = None
SPECIFICATION FairSpec
INVARIANTS
  TypeOK
  Supervised
PROPERTIES
  BootStartsWhatIsWanted
  BootRestores
  RestartComesBack
