\* A session that is restarted once while two requests read from it.
SPECIFICATION Spec
CONSTANTS
  MaxGen = 2
  Attempts = 1
  Readers = {r1, r2}
SYMMETRY ReaderSymmetry
INVARIANTS
  ProcessBoundary
  QuietAfterCleanup
  CurrentReadable
  PendingIsOwned
  ReaderBoundary
  ClosingProcessResumed
PROPERTY ContractSpec
\* A session that is closed and cleaned up has nothing left to do.
CHECK_DEADLOCK FALSE
