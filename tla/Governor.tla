------------------------------- MODULE Governor -------------------------------
(***************************************************************************)
(* One pool of transcode/governor: the semaphore channel of a Kind and the *)
(* counters the diagnostics show. The pools of different kinds share only  *)
(* the mutex, which every section holds for one step.                      *)
(*                                                                         *)
(* A client is a goroutine in transcode/runtime's Run, which holds its     *)
(* lease while the encoder runs: a playback runner or a remux stream. Its  *)
(* context may end at any moment.                                          *)
(***************************************************************************)
EXTENDS Naturals, FiniteSets

CONSTANTS
  Clients,   \* goroutines that run encoders of this kind
  Capacity   \* slots of the pool, normalized to at least one

ASSUME GovernorAssumption ==
  /\ IsFiniteSet(Clients)
  /\ Capacity \in Nat \ {0}

VARIABLES
  client,     \* where each client is
  contextDone, \* the clients whose context has ended
  slots,      \* values in the semaphore channel
  inUse, waiting, peakInUse   \* Governor's counters

vars == <<client, contextDone, slots, inUse, waiting, peakInUse>>
counters == <<inUse, waiting, peakInUse>>

\* "granted" has a slot and is not counted in yet; "accounted" is counted out
\* and has its slot still.
ClientState == {"idle", "select", "granted", "holding", "accounted",
                "cancelled"}

In(states) == {c \in Clients : client[c] \in states}

TypeOK ==
  /\ client \in [Clients -> ClientState]
  /\ contextDone \in SUBSET Clients
  /\ slots \in 0..Capacity
  /\ inUse \in Nat /\ waiting \in Nat /\ peakInUse \in Nat

Init ==
  /\ client = [c \in Clients |-> "idle"]
  /\ contextDone = {}
  /\ slots = 0 /\ inUse = 0 /\ waiting = 0 /\ peakInUse = 0

Goes(c, to) == client' = [client EXCEPT ![c] = to]

\* Counters are decremented behind `if ... > 0'.
Less(n) == IF n > 0 THEN n - 1 ELSE 0

\* A context ends while its client is in Acquire or runs its encoder.
ContextEnds(c) ==
  /\ client[c] # "idle"
  /\ contextDone' = contextDone \cup {c}
  /\ UNCHANGED <<client, slots, counters>>

\* Run is called with a fresh context. Acquire refuses one that has ended and
\* counts any other in as waiting.
Wait(c) ==
  /\ client[c] = "idle"
  /\ Goes(c, "select")
  /\ contextDone' = contextDone \ {c}
  /\ waiting' = waiting + 1
  /\ UNCHANGED <<slots, inUse, peakInUse>>

\* Mutant of Grant: a channel one value too long.
GrantOneMore(c) ==
  /\ client[c] = "select" /\ slots <= Capacity
  /\ Goes(c, "granted")
  /\ slots' = slots + 1
  /\ UNCHANGED <<contextDone, counters>>

\* The channel takes the client's value: select may choose this even when the
\* context has ended as well.
Grant(c) ==
  /\ client[c] = "select" /\ slots < Capacity
  /\ Goes(c, "granted")
  /\ slots' = slots + 1
  /\ UNCHANGED <<contextDone, counters>>

CountIn(c) ==
  /\ client[c] = "granted"
  /\ Goes(c, "holding")
  /\ waiting' = waiting - 1
  /\ inUse' = inUse + 1
  /\ peakInUse' = IF inUse' > peakInUse THEN inUse' ELSE peakInUse
  /\ UNCHANGED <<contextDone, slots>>

Cancel(c) ==
  /\ client[c] = "select" /\ c \in contextDone
  /\ Goes(c, "cancelled")
  /\ UNCHANGED <<contextDone, slots, counters>>

\* Mutant of CountCancelled: leaves the count to whoever is granted next.
CountCancelledLost(c) ==
  /\ client[c] = "cancelled"
  /\ Goes(c, "idle")
  /\ UNCHANGED <<contextDone, slots, counters>>

CountCancelled(c) ==
  /\ client[c] = "cancelled"
  /\ Goes(c, "idle")
  /\ waiting' = Less(waiting)
  /\ UNCHANGED <<contextDone, slots, inUse, peakInUse>>

\* Mutant of Release: forgets the receive from the channel.
ReleaseCountersOnly(c) ==
  /\ client[c] = "holding"
  /\ Goes(c, "idle")
  /\ inUse' = Less(inUse)
  /\ UNCHANGED <<contextDone, slots, waiting, peakInUse>>

\* Lease.Release, once: counted out under the mutex, and only then the slot
\* goes back to the channel.
Release(c) ==
  \/ /\ client[c] = "holding"
     /\ Goes(c, "accounted")
     /\ inUse' = Less(inUse)
     /\ UNCHANGED <<contextDone, slots, waiting, peakInUse>>
  \/ /\ client[c] = "accounted"
     /\ Goes(c, "idle")
     /\ slots' = slots - 1
     /\ UNCHANGED <<contextDone, counters>>

ClientStep(c) ==
  Wait(c) \/ Grant(c) \/ CountIn(c) \/ Cancel(c) \/ CountCancelled(c)
  \/ Release(c)

Next == \E c \in Clients : ClientStep(c) \/ ContextEnds(c)

Spec == Init /\ [][Next]_vars

(***************************************************************************)
(* Goroutines keep running. Senders blocked on a Go channel are served in  *)
(* order of arrival, so a waiter for which a slot is free again and again  *)
(* gets one. Nothing makes an encoder end: a suspended one may hold its    *)
(* lease for as long as its player stays paused.                           *)
(***************************************************************************)
Fairness ==
  \A c \in Clients :
    /\ SF_vars(Grant(c))
    /\ WF_vars(Cancel(c)) /\ WF_vars(CountCancelled(c)) /\ WF_vars(CountIn(c))
    /\ WF_vars(Release(c) /\ client[c] = "accounted")

FairSpec == Spec /\ Fairness

----------------------------------------------------------------------------

\* The comment on the release closure: no handoff window in which two leases
\* appear active, so PeakInUse proves that the pool never exceeded its capacity.
NotOversubscribed == inUse <= Capacity /\ peakInUse <= Capacity

\* Between calls nothing is left behind, whichever of Acquire's exits every
\* caller took: no slot leaks with a cancelled wait, no waiter stays counted,
\* and the `> 0' guards never hide a count that went wrong. The pool is never
\* exceeded, nor does its peak say so.
Accounted ==
  /\ NotOversubscribed
  /\ inUse = Cardinality(In({"holding"}))
  /\ waiting = Cardinality(In({"select", "granted", "cancelled"}))

\* As long as every encoder ends, a caller that waits gets a slot or sees its
\* context end, however many others come and go: no returned slot is lost.
EncodersEnd == \A c \in Clients : client[c] = "holding" ~> client[c] # "holding"

WaitEnds ==
  EncodersEnd => \A c \in Clients : client[c] = "select" ~> client[c] # "select"

\* The pool without counters: module SlotPool.
Pool == INSTANCE SlotPool WITH
  asking <- In({"select", "cancelled"}),
  leased <- In({"granted", "holding", "accounted"})

PoolSpec == Pool!Spec

===============================================================================
