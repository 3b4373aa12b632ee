\* Channels of one and two events fill up; three events are enough to join late,
\* fall behind, be dropped and miss the rest. No symmetry: liveness forbids it.
SPECIFICATION FairSpec
CONSTANTS
  Clients = {c1, c2}
  HubBuffer = 2
  SendBuffer = 1
  MaxEvents = 3
INVARIANT ClosedWithTheTable
PROPERTIES FeedSpec DeadClientsLeave
\* Events run out, and clients connect once.
CHECK_DEADLOCK FALSE
