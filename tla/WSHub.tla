-------------------------------- MODULE WSHub --------------------------------
(***************************************************************************)
(* service/ws_hub.go: the hub goroutine that owns the table of WebSocket   *)
(* clients, the two pumps of every client, and the services that broadcast *)
(* events. An event is the number of its broadcast; the second event that  *)
(* BroadcastEvent derives from some of the first ones is a broadcast like  *)
(* any other. In-process observers run on the broadcaster and are left out.*)
(***************************************************************************)
EXTENDS Naturals, Sequences, SequencesExt

CONSTANTS
  Clients,     \* WebSocket connections
  HubBuffer,   \* capacity of WSHub.broadcast (256)
  SendBuffer,  \* capacity of WSClient.send (256)
  MaxEvents    \* bound: events broadcast

ASSUME WSHubAssumption ==
  HubBuffer \in Nat /\ SendBuffer \in Nat \ {0} /\ MaxEvents \in Nat

VARIABLES
  broadcast,   \* the channel of events that the hub has not dispatched
  events,      \* how many events have been broadcast
  table,       \* WSHub.clients
  stale,       \* the clients the hub found full and is about to drop
  send, closes,\* WSClient.send, and how often it has been closed
  conn,        \* clients whose connection is open
  reader,      \* readPump of each client, from RegisterClient to its exit
  writer,      \* writePump of each client
  dispatched,  \* what the hub has dispatched, in order ...
  joined,      \* ... how much of it preceded each client's registration ...
  received     \* ... and what each client's connection has been given of it

hubVars == <<broadcast, events, table, stale, dispatched>>
clientVars == <<send, closes, conn, reader, writer, joined, received>>
vars == <<hubVars, clientVars>>

Event == 1..MaxEvents

TypeOK ==
  /\ broadcast \in Seq(Event) /\ Len(broadcast) <= HubBuffer
  /\ events \in 0..MaxEvents
  /\ table \in SUBSET Clients /\ stale \in SUBSET Clients
  /\ send \in [Clients -> Seq(Event)]
  /\ \A c \in Clients : Len(send[c]) <= SendBuffer
  /\ closes \in [Clients -> Nat]
  /\ conn \in SUBSET Clients
  /\ reader \in [Clients -> {"off", "registering", "registered", "reading",
                             "unregistering", "gone"}]
  /\ writer \in [Clients -> {"off", "writing", "gone"}]
  /\ dispatched \in Seq(Event)
  /\ joined \in [Clients -> Nat] /\ received \in [Clients -> Seq(Event)]

Init ==
  /\ broadcast = << >> /\ events = 0 /\ table = {} /\ stale = {}
  /\ send = [c \in Clients |-> << >>] /\ closes = [c \in Clients |-> 0]
  /\ conn = {}
  /\ reader = [c \in Clients |-> "off"] /\ writer = [c \in Clients |-> "off"]
  /\ dispatched = << >>
  /\ joined = [c \in Clients |-> 0] /\ received = [c \in Clients |-> << >>]

ReaderGoes(c, to) == reader' = [reader EXCEPT ![c] = to]

----------------------------------------------------------------------------
(* Broadcasters: a full channel drops the event for everyone.              *)

Enqueue ==
  /\ events < MaxEvents
  /\ events' = events + 1
  /\ broadcast' = IF Len(broadcast) < HubBuffer
                    THEN Append(broadcast, events') ELSE broadcast
  /\ UNCHANGED <<table, stale, dispatched, clientVars>>

----------------------------------------------------------------------------
(* The hub goroutine. It is in its select whenever no client is stale.     *)

Selecting == stale = {}

\* RegisterClient offers the client on an unbuffered channel.
Connect(c) ==
  /\ reader[c] = "off"
  /\ ReaderGoes(c, "registering")
  /\ conn' = conn \cup {c}
  /\ UNCHANGED <<hubVars, send, closes, writer, joined, received>>

HubRegisters(c) ==
  /\ Selecting /\ reader[c] = "registering"
  /\ ReaderGoes(c, "registered")
  /\ table' = table \cup {c}
  /\ joined' = [joined EXCEPT ![c] = Len(dispatched)]
  /\ UNCHANGED <<broadcast, events, stale, dispatched, send, closes, conn,
                 writer, received>>

\* Mutant of Leave: no look whether the client has been dropped already.
LeaveAgain(c) ==
  /\ table' = table \ {c}
  /\ closes' = [closes EXCEPT ![c] = @ + 1]

\* A client leaves the table and its channel is closed, if it is still there.
Leave(c) ==
  /\ table' = table \ {c}
  /\ closes' = IF c \in table THEN [closes EXCEPT ![c] = @ + 1] ELSE closes

\* The rendezvous with readPump, whose last deferred call closes the connection.
HubUnregisters(c) ==
  /\ Selecting /\ reader[c] = "unregistering"
  /\ Leave(c)
  /\ ReaderGoes(c, "gone")
  /\ conn' = conn \ {c}
  /\ UNCHANGED <<broadcast, events, stale, dispatched, send, writer, joined,
                 received>>

\* Mutant of FullClients: an event is skipped for a client that is behind.
FullClientsSkipped == {}

FullClients == {c \in table : Len(send[c]) >= SendBuffer}

\* The head of the channel goes to every client that has room; the others are
\* remembered and dropped once the read lock is released.
HubDispatches ==
  /\ Selecting /\ broadcast # << >>
  /\ broadcast' = Tail(broadcast)
  /\ dispatched' = Append(dispatched, Head(broadcast))
  /\ send' = [c \in Clients |->
                IF c \in table /\ Len(send[c]) < SendBuffer
                  THEN Append(send[c], Head(broadcast)) ELSE send[c]]
  /\ stale' = FullClients
  /\ UNCHANGED <<events, table, closes, conn, reader, writer, joined, received>>

HubDrops ==
  /\ stale # {}
  /\ stale' = {} /\ table' = table \ stale
  /\ closes' = [c \in Clients |->
                  IF c \in stale \cap table THEN closes[c] + 1 ELSE closes[c]]
  /\ UNCHANGED <<broadcast, events, dispatched, send, conn, reader, writer,
                 joined, received>>

----------------------------------------------------------------------------
(* The pumps of a client.                                                  *)

PumpsStart(c) ==
  /\ reader[c] = "registered"
  /\ ReaderGoes(c, "reading")
  /\ writer' = [writer EXCEPT ![c] = "writing"]
  /\ UNCHANGED <<hubVars, send, closes, conn, joined, received>>

\* The peer closes, no pong arrives in time, or the writer closed the
\* connection: readPump offers the client on the unregister channel.
ReaderFails(c) ==
  /\ reader[c] = "reading"
  /\ ReaderGoes(c, "unregistering")
  /\ UNCHANGED <<hubVars, send, closes, conn, writer, joined, received>>

\* One WebSocket message with everything that is queued.
WriterWrites(c) ==
  /\ writer[c] = "writing" /\ send[c] # << >> /\ c \in conn
  /\ received' = [received EXCEPT ![c] = @ \o send[c]]
  /\ send' = [send EXCEPT ![c] = << >>]
  /\ UNCHANGED <<hubVars, closes, conn, reader, writer, joined>>

\* Mutant of WriterExits: the connection is left to the reader.
WriterExitsOnly(c) ==
  /\ writer' = [writer EXCEPT ![c] = "gone"]
  /\ UNCHANGED conn

\* Whatever ends writePump, its deferred Close ends the connection.
WriterExits(c) ==
  /\ writer' = [writer EXCEPT ![c] = "gone"]
  /\ conn' = conn \ {c}

\* A write or a ping fails, in its write timeout or at once: what the writer
\* had taken from the channel is lost.
WriterFails(c) ==
  /\ writer[c] = "writing"
  /\ WriterExits(c)
  /\ \E taken \in 0..Len(send[c]) :
       send' = [send EXCEPT ![c] = SubSeq(@, taken + 1, Len(@))]
  /\ UNCHANGED <<hubVars, closes, reader, joined, received>>

\* The channel is closed and drained: the close message, and the end.
WriterEnds(c) ==
  /\ writer[c] = "writing" /\ send[c] = << >> /\ closes[c] > 0
  /\ WriterExits(c)
  /\ UNCHANGED <<hubVars, send, closes, reader, joined, received>>

----------------------------------------------------------------------------

Hub ==
  \/ HubDispatches \/ HubDrops
  \/ \E c \in Clients : HubRegisters(c) \/ HubUnregisters(c)

Writer(c) == WriterWrites(c) \/ WriterEnds(c) \/ WriterFails(c)

Next ==
  \/ Enqueue \/ Hub
  \/ \E c \in Clients :
       Connect(c) \/ PumpsStart(c) \/ ReaderFails(c) \/ Writer(c)

Spec == Init /\ [][Next]_vars

(***************************************************************************)
(* Goroutines run, and Go's select takes every case that is ready again    *)
(* and again. A write succeeds or fails within its deadline, a write to a  *)
(* closed connection fails, and a read from one fails; a client that stays *)
(* connected has no reason to leave.                                       *)
(***************************************************************************)
Fairness ==
  /\ WF_vars(HubDispatches) /\ WF_vars(HubDrops)
  /\ \A c \in Clients :
       /\ SF_vars(HubRegisters(c)) /\ SF_vars(HubUnregisters(c))
       /\ WF_vars(PumpsStart(c))
       /\ WF_vars(WriterWrites(c) \/ WriterEnds(c))
       /\ WF_vars(WriterFails(c) /\ c \notin conn)
       /\ WF_vars(ReaderFails(c) /\ c \notin conn)

FairSpec == Spec /\ Fairness

----------------------------------------------------------------------------
(* Properties.                                                             *)

\* Closing a channel twice, or sending to a closed one, panics and ends the
\* hub: the hub drops a client that is full while its readPump unregisters it.
ClosedWithTheTable ==
  \A c \in Clients : closes[c] <= 1 /\ (closes[c] = 1 => c \notin table)

\* A connection is given the events dispatched since its client joined, in
\* their order and without a gap: a client that cannot follow is disconnected,
\* never left with a hole in its events. What a registered client has not been
\* given yet is queued.
NoGap ==
  \A c \in Clients :
    LET due == SubSeq(dispatched, joined[c] + 1, Len(dispatched))
    IN  /\ IsPrefix(received[c], due)
        /\ c \in table \ stale /\ writer[c] # "gone" =>
             received[c] \o send[c] = due

\* A client whose connection has ended leaves the table, and both its goroutines
\* end, whichever of them noticed first: readPump, which asks the hub to unregister
\* the client and leaves the end of the writer to the channel that the hub closes,
\* or writePump, which closes the connection under the reader. A client that is
\* dropped because it is behind is disconnected, so that it can connect again.
DeadClientsLeave ==
  \A c \in Clients :
    /\ reader[c] = "unregistering" ~> c \notin table /\ writer[c] = "gone"
    /\ writer[c] = "gone" ~> c \notin table /\ reader[c] = "gone"
    /\ closes[c] > 0 ~> c \notin conn

\* The feed that the hub's queues, its table and the pumps add up to.
Feed == INSTANCE EventFeed WITH
  Events <- Event,
  feed <- dispatched,
  met <- {c \in Clients : reader[c] \notin {"off", "registering"}},
  since <- joined,
  following <- {c \in table \ stale : writer[c] # "gone"},
  given <- received

\* Every write gives a client the next events of the one order, all of them while
\* the hub keeps it: registration, a slow client, a failed write and both ways to
\* leave may come in between.
FeedSpec == Feed!Spec

===============================================================================
