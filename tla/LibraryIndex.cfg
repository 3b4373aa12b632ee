\* Two calls, each a scan, a reindex or an incremental scan, and a file that comes
\* and goes; files do not depend on each other. No symmetry: liveness forbids it.
SPECIFICATION FairSpec
CONSTANTS
  Scans = {s1, s2}
  None = None
  Files = {f1}
  MaxChanges = 1
INVARIANTS ScanIsExact DeletedIsEmpty
PROPERTIES ScanIsReleased
\* Calls and changes run out.
CHECK_DEADLOCK FALSE
