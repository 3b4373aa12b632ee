\* One generation with two attempts, hardware and then the software fallback,
\* and a reader in the way: closing ends.
SPECIFICATION FairSpec
CONSTANTS
  MaxGen = 1
  Attempts = 2
  Readers = {r1}
PROPERTY CloseCompletes
CHECK_DEADLOCK FALSE
