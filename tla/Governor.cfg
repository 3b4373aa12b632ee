\* Three callers and two slots; no symmetry, which liveness does not allow.
SPECIFICATION FairSpec
CONSTANTS
  Clients = {c1, c2, c3}
  Capacity = 2
INVARIANT Accounted
PROPERTIES PoolSpec WaitEnds
