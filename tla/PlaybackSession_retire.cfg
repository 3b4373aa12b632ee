\* A restart is resolved, one way or the other, so that the next can begin, and
\* a replaced generation goes away. Readers cannot delay that for longer than a
\* timer, so none is needed.
SPECIFICATION FairSpec
CONSTANTS
  MaxGen = 2
  Attempts = 1
  Readers = {}
PROPERTIES RestartResolves RetireCompletes
CHECK_DEADLOCK FALSE
