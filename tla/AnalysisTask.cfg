\* Two requests at a time and two claims: an old holder and a new one.
SPECIFICATION FairSpec
CONSTANTS
  Requests = {r1, r2}
  MaxClaims = 2
INVARIANTS CompletedHasResult EntryIsWatched
PROPERTIES LeaseSpec AutoFallsBack
