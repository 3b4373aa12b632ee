\* Four changes in two roots: a timer that waits, two that have lost their entry,
\* and an event in the handler's hands.
SPECIFICATION WatcherFairSpec
CONSTANTS
  Roots = {p1, p2}
  MaxChanges = 4
INVARIANTS OneTimerWaits QuietAfterUnwatch
PROPERTIES EventsAreScanned
\* Changes run out.
CHECK_DEADLOCK FALSE
