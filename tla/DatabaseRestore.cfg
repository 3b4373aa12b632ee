\* Two requests cover a restore that replaces, and one that races, another; one
\* commit falls before, between and after any two steps; one exit nobody asked
\* for besides the restarts. No symmetry: liveness forbids it.
SPECIFICATION FairSpec
CONSTANTS
  Requests = {r1, r2}
  Names = {n1, n2}
  Writes = {w1}
  MaxExits = 1
  None = None
INVARIANTS LiveIsWhole CommittedKept SafetyNet
PROPERTIES DurableSpec RestoreTakesEffect
\* Requests, commits and exits run out.
CHECK_DEADLOCK FALSE
