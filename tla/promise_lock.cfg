\* Four calls of one key, of either lock.
CONSTANTS
  Call = {c1, c2, c3, c4}
  None = None
SPECIFICATION FairSpec
\* Every call is made once, so a behaviour may end with all of them served.
CHECK_DEADLOCK FALSE
INVARIANTS
  EntryIffLocked
PROPERTIES
  FifoSpec
  EveryCallServed
