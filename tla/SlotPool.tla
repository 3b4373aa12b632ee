------------------------------- MODULE SlotPool -------------------------------
(***************************************************************************)
(* What one pool of transcode/governor promises its callers: a lease is    *)
(* held by at most Capacity of them at any time, a caller asks only while  *)
(* it has none, and a caller that gives up holds nothing.                  *)
(***************************************************************************)
EXTENDS Naturals, FiniteSets

CONSTANTS Clients, Capacity

VARIABLES
  asking,   \* callers inside Acquire that have no slot yet
  leased    \* callers that occupy a slot

vars == <<asking, leased>>

Init == asking = {} /\ leased = {}

Ask(c) ==
  /\ c \notin asking \cup leased
  /\ asking' = asking \cup {c}
  /\ UNCHANGED leased

Grant(c) ==
  /\ c \in asking
  /\ Cardinality(leased) < Capacity
  /\ asking' = asking \ {c}
  /\ leased' = leased \cup {c}

Abandon(c) ==
  /\ c \in asking
  /\ asking' = asking \ {c}
  /\ UNCHANGED leased

Return(c) ==
  /\ c \in leased
  /\ leased' = leased \ {c}
  /\ UNCHANGED asking

Next == \E c \in Clients : Ask(c) \/ Grant(c) \/ Abandon(c) \/ Return(c)

Spec == Init /\ [][Next]_vars

===============================================================================
