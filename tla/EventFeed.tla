------------------------------ MODULE EventFeed ------------------------------
(***************************************************************************)
(* What the WebSocket hub promises every client, stated without channels,  *)
(* pumps and the hub's table: events have one order, a client is given     *)
(* those that come after it has joined, each once and none left out, and   *)
(* each time all there are, unless the hub has given the client up.        *)
(* WSHub is shown to implement it.                                         *)
(***************************************************************************)
EXTENDS Naturals, Sequences

CONSTANTS Clients, Events

VARIABLES
  feed,       \* the events, in the order in which the hub has dispatched them
  met,        \* clients that have joined ...
  since,      \* ... and how many events had been dispatched when they did
  following,  \* clients that the hub has not given up and that can be written to
  given       \* what every client has been given

vars == <<feed, met, since, following, given>>

Init ==
  /\ feed = << >> /\ met = {} /\ following = {}
  /\ since = [c \in Clients |-> 0] /\ given = [c \in Clients |-> << >>]

\* Clients that cannot take the event are given up.
Publish ==
  /\ \E e \in Events : feed' = Append(feed, e)
  /\ following' \in SUBSET following
  /\ UNCHANGED <<met, since, given>>

Join(c) ==
  /\ c \notin met
  /\ met' = met \cup {c} /\ following' = following \cup {c}
  /\ since' = [since EXCEPT ![c] = Len(feed)]
  /\ UNCHANGED <<feed, given>>

\* A client that was given up may still be given some of what it has missed.
Give(c) ==
  /\ c \in met
  /\ \E n \in 0..Len(feed) :
       /\ since[c] + Len(given[c]) < n
       /\ c \in following => n = Len(feed)
       /\ given' = [given EXCEPT ![c] = SubSeq(feed, since[c] + 1, n)]
  /\ UNCHANGED <<feed, met, since, following>>

GiveUp(c) ==
  /\ following' = following \ {c}
  /\ UNCHANGED <<feed, met, since, given>>

Next ==
  \/ Publish
  \/ \E c \in Clients : Join(c) \/ Give(c) \/ GiveUp(c)

Spec == Init /\ [][Next]_vars

===============================================================================
