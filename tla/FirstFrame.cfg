\* Two requests for one video, one slot: the second one queues it while the first
\* one extracts, the worker follows, and a scan replaces and collects its frame.
SPECIFICATION Spec
CONSTANTS
  Media = {m1}
  Requests = {r1, r2}
  MaxSync = 1
  Worker = worker
  Scan = scan
  None = none
SYMMETRY RequestSymmetry
INVARIANTS MarkIsOwned CoversAreDue
PROPERTY CoversKept
