------------------------------ MODULE WSHubProofs ------------------------------
(***************************************************************************)
(* The safety properties of WSHub, and that it implements EventFeed, for   *)
(* any number of clients and events and any capacity of the channels.      *)
(***************************************************************************)
EXTENDS WSHub, SequenceTheorems, TLAPS

-----------------------------------------------------------------------------
(* Types.                                                                  *)

\* What a writer takes from its queue, or leaves in it, is still a queue.
LEMMA RestOfQueue ==
  ASSUME NEW q \in Seq(Event), Len(q) <= SendBuffer, NEW n \in 0..Len(q)
  PROVE  /\ SubSeq(q, n + 1, Len(q)) \in Seq(Event)
         /\ Len(SubSeq(q, n + 1, Len(q))) <= SendBuffer
<1>1. \A i \in (n + 1)..Len(q) : q[i] \in Event
  BY ElementOfSeq
<1>2. n + 1 \in Int /\ Len(q) \in Int
  OBVIOUS
<1> QED BY <1>1, <1>2, SubSeqProperties, WSHubAssumption

\* One client's queue is replaced by one of the right type.
LEMMA QueueType ==
  ASSUME TypeOK, NEW c \in Clients, NEW q \in Seq(Event), Len(q) <= SendBuffer,
         send' = [send EXCEPT ![c] = q]
  PROVE  /\ send' \in [Clients -> Seq(Event)]
         /\ \A d \in Clients : Len(send'[d]) <= SendBuffer
  BY DEF TypeOK

\* Every step keeps the types.
LEMMA TypeStep == TypeOK /\ [Next]_vars => TypeOK'
<1> SUFFICES ASSUME TypeOK, [Next]_vars PROVE TypeOK'
  OBVIOUS
<1> USE WSHubAssumption DEF hubVars, clientVars, ReaderGoes
<1>1. CASE Enqueue
  <2>1. events' \in 0..MaxEvents /\ events' \in Event
    BY <1>1 DEF Enqueue, TypeOK, Event
  <2>2. broadcast' \in Seq(Event) /\ Len(broadcast') <= HubBuffer
    <3>1. CASE Len(broadcast) < HubBuffer
      <4>1. /\ Append(broadcast, events') \in Seq(Event)
            /\ Len(Append(broadcast, events')) = Len(broadcast) + 1
        BY <2>1, AppendProperties DEF TypeOK
      <4> QED BY <1>1, <3>1, <4>1, LenProperties DEF Enqueue, TypeOK
    <3>2. CASE ~(Len(broadcast) < HubBuffer)
      BY <1>1, <3>2 DEF Enqueue, TypeOK
    <3> QED BY <3>1, <3>2
  <2> QED BY <1>1, <2>1, <2>2 DEF Enqueue, TypeOK
<1>2. CASE HubDispatches
  <2>1. /\ Head(broadcast) \in Event /\ Tail(broadcast) \in Seq(Event)
        /\ Len(Tail(broadcast)) = Len(broadcast) - 1 /\ Len(broadcast) \in Nat
    BY <1>2, HeadTailProperties, LenProperties DEF HubDispatches, TypeOK
  <2>2. ASSUME NEW c \in Clients
        PROVE  /\ Append(send[c], Head(broadcast)) \in Seq(Event)
               /\ Len(Append(send[c], Head(broadcast))) = Len(send[c]) + 1
               /\ Len(send[c]) \in Nat
    BY <2>1, AppendProperties, LenProperties DEF TypeOK
  <2>3. /\ send' \in [Clients -> Seq(Event)]
        /\ \A c \in Clients : Len(send'[c]) <= SendBuffer
    BY <1>2, <2>2 DEF HubDispatches, TypeOK
  <2>4. dispatched' \in Seq(Event)
    BY <1>2, <2>1, AppendProperties DEF HubDispatches, TypeOK
  <2> QED BY <1>2, <2>1, <2>3, <2>4 DEF HubDispatches, FullClients, TypeOK
<1>3. CASE HubDrops
  BY <1>3 DEF HubDrops, TypeOK
<1>4. ASSUME NEW c \in Clients, HubRegisters(c) PROVE TypeOK'
  <2>1. Len(dispatched) \in Nat
    BY LenProperties DEF TypeOK
  <2> QED BY <1>4, <2>1 DEF HubRegisters, TypeOK
<1>5. ASSUME NEW c \in Clients, HubUnregisters(c) PROVE TypeOK'
  BY <1>5 DEF HubUnregisters, Leave, TypeOK
<1>6. ASSUME NEW c \in Clients, Connect(c) \/ PumpsStart(c) \/ ReaderFails(c)
      PROVE  TypeOK'
  BY <1>6 DEF Connect, PumpsStart, ReaderFails, TypeOK
<1>7. ASSUME NEW c \in Clients, WriterWrites(c) PROVE TypeOK'
  <2>1. << >> \in Seq(Event) /\ Len(<< >>) <= SendBuffer
    BY EmptySeq
  <2>2. received[c] \o send[c] \in Seq(Event)
    BY ConcatProperties DEF TypeOK
  <2>3. /\ send' \in [Clients -> Seq(Event)]
        /\ \A d \in Clients : Len(send'[d]) <= SendBuffer
    BY <1>7, <2>1, QueueType DEF WriterWrites
  <2>4. received' \in [Clients -> Seq(Event)]
    BY <1>7, <2>2 DEF WriterWrites, TypeOK
  <2> QED BY <1>7, <2>3, <2>4 DEF WriterWrites, TypeOK
<1>8. ASSUME NEW c \in Clients, WriterFails(c) PROVE TypeOK'
  <2>1. PICK n \in 0..Len(send[c]) :
          send' = [send EXCEPT ![c] = SubSeq(@, n + 1, Len(@))]
    BY <1>8 DEF WriterFails
  <2>2. /\ SubSeq(send[c], n + 1, Len(send[c])) \in Seq(Event)
        /\ Len(SubSeq(send[c], n + 1, Len(send[c]))) <= SendBuffer
    BY RestOfQueue DEF TypeOK
  <2>3. /\ send' \in [Clients -> Seq(Event)]
        /\ \A d \in Clients : Len(send'[d]) <= SendBuffer
    BY <2>1, <2>2, QueueType
  <2> QED BY <1>8, <2>3 DEF WriterFails, WriterExits, TypeOK
<1>9. ASSUME NEW c \in Clients, WriterEnds(c) PROVE TypeOK'
  BY <1>9 DEF WriterEnds, WriterExits, TypeOK
<1>10. CASE UNCHANGED vars
  BY <1>10 DEF vars, TypeOK
<1> QED
  BY <1>1, <1>2, <1>3, <1>4, <1>5, <1>6, <1>7, <1>8, <1>9, <1>10
     DEF Next, Hub, Writer

-----------------------------------------------------------------------------
(* Channels are closed once.                                               *)

\* Until it is registered a client is not in the table, its channel is open, and
\* it has been given nothing; a client's writer starts after that.
Fresh(c) ==
  /\ reader[c] \in {"off", "registering"} =>
       /\ c \notin table /\ closes[c] = 0
       /\ received[c] = << >> /\ send[c] = << >>
  /\ reader[c] \in {"off", "registering", "registered"} => writer[c] = "off"

ClosedOnce(c) == closes[c] <= 1 /\ (closes[c] = 1 => c \notin table)

TableInv == \A c \in Clients : Fresh(c) /\ ClosedOnce(c)

LEMMA TableStep ==
  ASSUME TypeOK, TableInv, [Next]_vars
  PROVE  TableInv'
<1> SUFFICES ASSUME NEW d \in Clients PROVE (Fresh(d) /\ ClosedOnce(d))'
  BY DEF TableInv
<1> Fresh(d) /\ ClosedOnce(d)
  BY DEF TableInv
<1> USE DEF TypeOK, Fresh, ClosedOnce, hubVars, clientVars, ReaderGoes
<1>1. CASE Enqueue
  BY <1>1 DEF Enqueue
<1>2. CASE HubDispatches
  BY <1>2 DEF HubDispatches
<1>3. CASE HubDrops
  BY <1>3 DEF HubDrops
<1>4. ASSUME NEW c \in Clients, HubRegisters(c) \/ HubUnregisters(c)
      PROVE  (Fresh(d) /\ ClosedOnce(d))'
  BY <1>4 DEF HubRegisters, HubUnregisters, Leave
<1>5. ASSUME NEW c \in Clients, Connect(c) \/ PumpsStart(c) \/ ReaderFails(c)
      PROVE  (Fresh(d) /\ ClosedOnce(d))'
  BY <1>5 DEF Connect, PumpsStart, ReaderFails
<1>6. ASSUME NEW c \in Clients, Writer(c) PROVE (Fresh(d) /\ ClosedOnce(d))'
  BY <1>6 DEF Writer, WriterWrites, WriterFails, WriterEnds, WriterExits
<1>7. CASE UNCHANGED vars
  BY <1>7 DEF vars
<1> QED
  BY <1>1, <1>2, <1>3, <1>4, <1>5, <1>6, <1>7 DEF Next, Hub

-----------------------------------------------------------------------------
(* Events come without a gap.                                              *)

\* The i-th event after c joined.
Due(c, i) == dispatched[joined[c] + i]

\* What a client was given, and what its queue holds, is what was dispatched since
\* it joined; while it can follow, all of it.
GapInv(c) ==
  /\ joined[c] + Len(received[c]) <= Len(dispatched)
  /\ \A i \in 1..Len(received[c]) : received[c][i] = Due(c, i)
  /\ writer[c] # "gone" =>
       /\ joined[c] + Len(received[c]) + Len(send[c]) <= Len(dispatched)
       /\ \A i \in 1..Len(send[c]) : send[c][i] = Due(c, Len(received[c]) + i)
  /\ c \in table \ stale /\ writer[c] # "gone" =>
       joined[c] + Len(received[c]) + Len(send[c]) = Len(dispatched)

\* The place of an element in the second of two parts.
LEMMA Shift ==
  ASSUME NEW m \in Nat, NEW n \in Nat, NEW i \in 1..(m + n), ~(i <= m)
  PROVE  i - m \in 1..n /\ m + (i - m) = i
  OBVIOUS

HubInv == TypeOK /\ TableInv /\ \A c \in Clients : GapInv(c)

\* A step that gives a client nothing, and takes nothing from it.
LEMMA GapFrame ==
  ASSUME NEW c \in Clients, GapInv(c), dispatched' = dispatched,
         joined'[c] = joined[c], send'[c] = send[c], received'[c] = received[c],
         writer[c] = "gone" => writer'[c] = "gone",
         c \in table' \ stale' => c \in table \ stale
  PROVE  GapInv(c)'
  BY DEF GapInv, Due

\* An event is dispatched: those that have room get it, the others become stale.
LEMMA GapDispatch ==
  ASSUME TypeOK, NEW c \in Clients, GapInv(c), HubDispatches
  PROVE  GapInv(c)'
<1> DEFINE e == Head(broadcast)
           n == Len(dispatched)
           j == joined[c]
           m == Len(received[c])
           k == Len(send[c])
           D(i) == dispatched'[j + i]
<1>1. e \in Event
  BY HeadTailProperties DEF HubDispatches, TypeOK
<1>2. /\ Len(dispatched') = n + 1
      /\ \A i \in 1..n : dispatched'[i] = dispatched[i]
      /\ dispatched'[n + 1] = e
  BY <1>1, AppendProperties DEF HubDispatches, TypeOK
<1>3. /\ UNCHANGED <<joined, received, writer, table>> /\ stale = {}
      /\ stale' = FullClients
  BY DEF HubDispatches, Selecting
<1>4. n \in Nat /\ j \in Nat /\ m \in Nat /\ k \in Nat /\ SendBuffer \in Nat
  BY LenProperties, WSHubAssumption DEF TypeOK
<1>5. /\ j + m <= n
      /\ writer[c] # "gone" => j + m + k <= n
      /\ c \in table /\ writer[c] # "gone" => j + m + k = n
  BY <1>3 DEF GapInv
<1>6. \A i \in 1..m : received[c][i] = D(i)
  <2>1. \A i \in 1..m : j + i \in 1..n
    <3> HIDE DEF n, j, m
    <3> QED BY <1>4, <1>5
  <2> QED BY <1>2, <2>1 DEF Due, GapInv
<1>7. writer[c] # "gone" => \A i \in 1..k : send[c][i] = D(m + i)
  <2>1. writer[c] # "gone" => \A i \in 1..k : j + (m + i) \in 1..n
    <3> HIDE DEF n, j, m, k
    <3> QED BY <1>4, <1>5
  <2> QED BY <1>2, <2>1 DEF Due, GapInv
<1>8. /\ Len(received'[c]) = m
      /\ \A i \in 1..m : received'[c][i] = D(i)
      /\ \A i : Due(c, i)' = D(i)
  BY <1>3, <1>6 DEF Due
<1>9. CASE c \in table /\ k < SendBuffer
  <2>1. send'[c] = Append(send[c], e)
    BY <1>9 DEF HubDispatches
  <2>2. /\ Len(send'[c]) = k + 1
        /\ \A i \in 1..k : send'[c][i] = send[c][i]
        /\ send'[c][k + 1] = e
    BY <1>1, <2>1, AppendProperties DEF TypeOK
  <2>3. ASSUME writer[c] # "gone"
        PROVE  /\ j + m + (k + 1) = n + 1
               /\ \A i \in 1..(k + 1) : send'[c][i] = D(m + i)
    <3> HIDE DEF e, n, j, m, k
    <3>1. j + m + (k + 1) = n + 1 /\ j + (m + (k + 1)) = n + 1
      BY <1>4, <1>5, <1>9, <2>3
    <3>2. \A i \in 1..(k + 1) : i \in 1..k \/ i = k + 1
      BY <1>4
    <3>3. D(m + (k + 1)) = e
      BY <1>2, <3>1
    <3> QED BY <1>7, <2>2, <2>3, <3>1, <3>2, <3>3
  <2>4. j + m <= n + 1 /\ j + m + (k + 1) <= j + m + (k + 1)
    <3> HIDE DEF n, j, m, k
    <3> QED BY <1>4, <1>5
  <2> HIDE DEF e
  <2> QED BY <1>2, <1>3, <1>8, <2>2, <2>3, <2>4 DEF GapInv
<1>10. CASE ~(c \in table /\ k < SendBuffer)
  <2>1. send'[c] = send[c]
    BY <1>10 DEF HubDispatches
  <2>2. c \notin table' \ stale'
    BY <1>3, <1>4, <1>10 DEF FullClients
  <2>3. j + m <= n + 1 /\ (writer[c] # "gone" => j + m + k <= n + 1)
    <3> HIDE DEF n, j, m, k
    <3> QED BY <1>4, <1>5
  <2> HIDE DEF e
  <2> QED BY <1>2, <1>3, <1>7, <1>8, <2>1, <2>2, <2>3 DEF GapInv
<1> QED BY <1>9, <1>10

\* A message with everything that was queued.
LEMMA GapWrite ==
  ASSUME TypeOK, NEW c \in Clients, GapInv(c), WriterWrites(c)
  PROVE  GapInv(c)'
<1>1. /\ UNCHANGED <<dispatched, joined, writer, table, stale>>
      /\ received'[c] = received[c] \o send[c] /\ send'[c] = << >>
      /\ writer[c] = "writing"
  BY DEF WriterWrites, TypeOK, hubVars
<1>2. /\ Len(dispatched) \in Nat /\ Len(received[c]) \in Nat
      /\ Len(send[c]) \in Nat /\ joined[c] \in Nat
  BY LenProperties DEF TypeOK
<1>3. /\ Len(received'[c]) = Len(received[c]) + Len(send[c])
      /\ \A i \in 1..(Len(received[c]) + Len(send[c])) :
           received'[c][i] = IF i <= Len(received[c]) THEN received[c][i]
                             ELSE send[c][i - Len(received[c])]
  BY <1>1, ConcatProperties DEF TypeOK
<1>4. Len(send'[c]) = 0
  BY <1>1, EmptySeq
<1>5. \A i \in 1..Len(received'[c]) : received'[c][i] = Due(c, i)'
  <2> SUFFICES ASSUME NEW i \in 1..Len(received'[c])
               PROVE  received'[c][i] = Due(c, i)
    BY <1>1 DEF Due
  <2>0. i \in 1..(Len(received[c]) + Len(send[c]))
    BY <1>3
  <2>1. CASE i <= Len(received[c])
    <3>1. i \in 1..Len(received[c])
      BY <1>2, <2>0, <2>1
    <3> QED BY <1>3, <2>0, <2>1, <3>1 DEF GapInv
  <2>2. CASE ~(i <= Len(received[c]))
    <3>1. /\ i - Len(received[c]) \in 1..Len(send[c])
          /\ Len(received[c]) + (i - Len(received[c])) = i
      BY <1>2, <2>0, <2>2, Shift
    <3> QED BY <1>1, <1>3, <2>0, <2>2, <3>1 DEF GapInv
  <2> QED BY <2>1, <2>2
<1>6. UNCHANGED <<dispatched, joined, writer, table, stale>> /\ writer[c] # "gone"
  BY <1>1
<1> DEFINE n == Len(dispatched)
           j == joined[c]
           m == Len(received[c])
           k == Len(send[c])
<1>7. /\ j + m + k <= n
      /\ c \in table \ stale => j + m + k = n
  BY <1>6 DEF GapInv
<1>8. /\ j + (m + k) <= n /\ j + (m + k) + 0 <= n
      /\ c \in table \ stale => j + (m + k) + 0 = n
  <2> HIDE DEF n, j, m, k
  <2> n \in Nat /\ j \in Nat /\ m \in Nat /\ k \in Nat
    BY <1>2 DEF n, j, m, k
  <2> QED BY <1>7
<1>9. \A i \in 1..Len(send'[c]) : FALSE
  BY <1>4
<1>10. Len(received'[c]) = m + k
  BY <1>3
<1> QED BY <1>4, <1>5, <1>6, <1>8, <1>9, <1>10 DEF GapInv

LEMMA GapStep ==
  ASSUME HubInv, [Next]_vars, NEW d \in Clients
  PROVE  GapInv(d)'
<1> TypeOK /\ GapInv(d) /\ Fresh(d)
  BY DEF HubInv, TableInv
<1> USE DEF hubVars, clientVars
<1>1. CASE Enqueue
  BY <1>1, GapFrame DEF Enqueue
<1>2. CASE HubDispatches
  BY <1>2, GapDispatch
<1>3. CASE HubDrops
  <2>1. table' \ stale' \subseteq table \ stale
    BY <1>3 DEF HubDrops
  <2> QED BY <1>3, <2>1, GapFrame DEF HubDrops
<1>4. ASSUME NEW c \in Clients, HubRegisters(c) PROVE GapInv(d)'
  <2>1. CASE c = d
    <3>1. received'[d] = << >> /\ send'[d] = << >> /\ Len(<< >>) = 0
      BY <1>4, <2>1, EmptySeq DEF HubRegisters, Fresh
    <3>2. /\ joined'[d] = Len(dispatched') /\ Len(dispatched') \in Nat
      BY <1>4, <2>1, LenProperties DEF HubRegisters, TypeOK
    <3> QED BY <3>1, <3>2 DEF GapInv
  <2>2. CASE c # d
    BY <1>4, <2>2, GapFrame DEF HubRegisters, TypeOK
  <2> QED BY <2>1, <2>2
<1>5. ASSUME NEW c \in Clients, HubUnregisters(c) PROVE GapInv(d)'
  BY <1>5, GapFrame DEF HubUnregisters, Leave
<1>6. ASSUME NEW c \in Clients, Connect(c) \/ ReaderFails(c) PROVE GapInv(d)'
  BY <1>6, GapFrame DEF Connect, ReaderFails
<1>7. ASSUME NEW c \in Clients, PumpsStart(c) PROVE GapInv(d)'
  <2>1. writer[d] = "gone" => writer'[d] = "gone"
    BY <1>7 DEF PumpsStart, Fresh, TypeOK
  <2> QED BY <1>7, <2>1, GapFrame DEF PumpsStart
<1>8. ASSUME NEW c \in Clients, WriterWrites(c) PROVE GapInv(d)'
  <2>1. CASE c = d
    BY <1>8, <2>1, GapWrite
  <2>2. CASE c # d
    BY <1>8, <2>2, GapFrame DEF WriterWrites, TypeOK
  <2> QED BY <2>1, <2>2
<1>9. ASSUME NEW c \in Clients, WriterFails(c) PROVE GapInv(d)'
  <2>1. CASE c = d
    <3>1. writer'[d] = "gone" /\ UNCHANGED <<received, dispatched, joined>>
      BY <1>9, <2>1 DEF WriterFails, WriterExits, TypeOK
    <3> QED BY <3>1 DEF GapInv, Due
  <2>2. CASE c # d
    BY <1>9, <2>2, GapFrame DEF WriterFails, WriterExits, TypeOK
  <2> QED BY <2>1, <2>2
<1>10. ASSUME NEW c \in Clients, WriterEnds(c) PROVE GapInv(d)'
  <2>1. writer'[d] = "gone" \/ writer'[d] = writer[d]
    BY <1>10 DEF WriterEnds, WriterExits, TypeOK
  <2> QED BY <1>10, <2>1, GapFrame DEF WriterEnds
<1>11. CASE UNCHANGED vars
  BY <1>11, GapFrame DEF vars
<1> QED
  BY <1>1, <1>2, <1>3, <1>4, <1>5, <1>6, <1>7, <1>8, <1>9, <1>10, <1>11
     DEF Next, Hub, Writer

-----------------------------------------------------------------------------
(* The theorems.                                                           *)

\* The inductive invariant: types, the table and the queues.
THEOREM Invariant == Spec => []HubInv
<1>1. Init => HubInv
  <2> SUFFICES ASSUME Init PROVE HubInv
    OBVIOUS
  <2>1. << >> \in Seq(Event) /\ Len(<< >>) = 0
    BY EmptySeq
  <2>2. TypeOK
    BY <2>1, WSHubAssumption DEF Init, TypeOK
  <2>3. TableInv
    BY DEF Init, TableInv, Fresh, ClosedOnce
  <2>4. \A c \in Clients : GapInv(c)
    BY <2>1 DEF Init, GapInv
  <2> QED BY <2>2, <2>3, <2>4 DEF HubInv
<1>2. HubInv /\ [Next]_vars => HubInv'
  BY TypeStep, TableStep, GapStep DEF HubInv
<1> QED BY <1>1, <1>2, PTL DEF Spec

\* No channel is closed twice, and none of a client that is still served.
THEOREM ClosedWithTheTableHolds == Spec => []ClosedWithTheTable
<1>1. HubInv => ClosedWithTheTable
  BY DEF HubInv, TableInv, ClosedOnce, ClosedWithTheTable
<1> QED BY <1>1, Invariant, PTL

\* The elements of a sequence from the place after j up to b.
LEMMA Stretch ==
  ASSUME NEW f \in Seq(Event), NEW j \in Nat, NEW b \in Nat, j <= b, b <= Len(f)
  PROVE  /\ SubSeq(f, j + 1, b) \in Seq(Event)
         /\ Len(SubSeq(f, j + 1, b)) = b - j
         /\ \A i \in 1..(b - j) : SubSeq(f, j + 1, b)[i] = f[j + i]
<1> DEFINE s == SubSeq(f, j + 1, b)
<1>1. Len(f) \in Nat /\ j + 1 \in Int /\ b \in Int
  BY LenProperties
<1>2. \A i \in (j + 1)..b : f[i] \in Event
  <2>1. \A i \in (j + 1)..b : i \in 1..Len(f)
    BY <1>1
  <2> QED BY <2>1, ElementOfSeq
<1>3. /\ s \in Seq(Event)
      /\ Len(s) = IF j + 1 <= b THEN b - (j + 1) + 1 ELSE 0
      /\ \A i \in 1..(b - (j + 1) + 1) : s[i] = f[j + 1 + i - 1]
  BY <1>1, <1>2, SubSeqProperties
<1>4. /\ (IF j + 1 <= b THEN b - (j + 1) + 1 ELSE 0) = b - j
      /\ b - (j + 1) + 1 = b - j
      /\ \A i \in 1..(b - j) : j + 1 + i - 1 = j + i
  OBVIOUS
<1> HIDE DEF s
<1>5. Len(s) = b - j /\ \A i \in 1..(b - j) : s[i] = f[j + i]
  BY <1>3, <1>4
<1> QED BY <1>3, <1>5 DEF s

\* GapInv in terms of sequences.
LEMMA GapMeans ==
  ASSUME TypeOK, NEW c \in Clients, GapInv(c)
  PROVE  LET due == SubSeq(dispatched, joined[c] + 1, Len(dispatched))
         IN  /\ IsPrefix(received[c], due)
             /\ c \in table \ stale /\ writer[c] # "gone" =>
                  received[c] \o send[c] = due
<1> DEFINE due == SubSeq(dispatched, joined[c] + 1, Len(dispatched))
           r == received[c]
<1>1. /\ dispatched \in Seq(Event) /\ r \in Seq(Event) /\ send[c] \in Seq(Event)
      /\ Len(dispatched) \in Nat /\ Len(r) \in Nat /\ Len(send[c]) \in Nat
      /\ joined[c] \in Nat
  BY LenProperties DEF TypeOK
<1>2. /\ due \in Seq(Event) /\ Len(due) = Len(dispatched) - joined[c]
      /\ \A i \in 1..Len(due) : due[i] = Due(c, i)
  <2> DEFINE n == Len(dispatched)
             j == joined[c]
  <2>1. j <= n
    <3> DEFINE m == Len(r)
    <3>1. j + m <= n
      BY DEF GapInv
    <3> HIDE DEF n, j, m
    <3> QED BY <1>1, <3>1 DEF n, j, m
  <2>2. n \in Nat /\ j \in Nat /\ n <= Len(dispatched)
    BY <1>1
  <2>3. /\ due \in Seq(Event) /\ Len(due) = n - j
        /\ \A i \in 1..(n - j) : due[i] = dispatched[j + i]
    <3> HIDE DEF n, j
    <3> QED BY <1>1, <2>1, <2>2, Stretch DEF n, j
  <2> QED BY <2>3 DEF Due
<1> HIDE DEF due
<1>3. IsPrefix(r, due)
  <2>1. Len(r) <= Len(due)
    BY <1>1, <1>2 DEF GapInv
  <2>2. /\ \A i \in 1..Len(r) : r[i] \in Event
        /\ \A i \in 1..Len(r) : due[i] \in Event
    BY <1>1, <1>2, <2>1, ElementOfSeq
  <2>3. /\ SubSeq(r, 1, Len(r)) \in Seq(Event)
        /\ Len(SubSeq(r, 1, Len(r))) = Len(r)
        /\ \A i \in 1..Len(r) : SubSeq(r, 1, Len(r))[i] = r[i]
    BY <1>1, <2>2, SubSeqProperties
  <2>4. /\ SubSeq(due, 1, Len(r)) \in Seq(Event)
        /\ Len(SubSeq(due, 1, Len(r))) = Len(r)
        /\ \A i \in 1..Len(r) : SubSeq(due, 1, Len(r))[i] = due[i]
    BY <1>1, <2>2, SubSeqProperties
  <2>5. \A i \in 1..Len(r) : r[i] = due[i]
    BY <1>1, <1>2, <2>1 DEF GapInv
  <2>6. SubSeq(r, 1, Len(r)) = SubSeq(due, 1, Len(r))
    BY <2>3, <2>4, <2>5, SeqEqual
  <2> QED BY <2>1, <2>6 DEF IsPrefix
<1>4. ASSUME c \in table \ stale, writer[c] # "gone" PROVE r \o send[c] = due
  <2>1. /\ r \o send[c] \in Seq(Event)
        /\ Len(r \o send[c]) = Len(r) + Len(send[c])
        /\ \A i \in 1..(Len(r) + Len(send[c])) :
             (r \o send[c])[i] = IF i <= Len(r) THEN r[i] ELSE send[c][i - Len(r)]
    BY <1>1, ConcatProperties
  <2>2. Len(r \o send[c]) = Len(due)
    <3> DEFINE n == Len(dispatched)
               j == joined[c]
               m == Len(r)
               k == Len(send[c])
    <3>1. j + m + k = n
      BY <1>4 DEF GapInv
    <3>2. n \in Nat /\ j \in Nat /\ m \in Nat /\ k \in Nat
      BY <1>1
    <3>3. m + k = n - j
      <4> HIDE DEF n, j, m, k
      <4> QED BY <3>1, <3>2
    <3> QED BY <1>2, <2>1, <3>3
  <2>3. ASSUME NEW i \in 1..Len(r \o send[c]) PROVE (r \o send[c])[i] = due[i]
    <3>1. due[i] = Due(c, i) /\ i \in 1..(Len(r) + Len(send[c]))
      BY <1>2, <2>1, <2>2
    <3>2. CASE i <= Len(r)
      <4>1. i \in 1..Len(r)
        BY <1>1, <3>1, <3>2
      <4> QED BY <2>1, <3>1, <3>2, <4>1 DEF GapInv
    <3>3. CASE ~(i <= Len(r))
      <4>1. i - Len(r) \in 1..Len(send[c]) /\ Len(r) + (i - Len(r)) = i
        BY <1>1, <3>1, <3>3, Shift
      <4> QED BY <1>4, <2>1, <3>1, <3>3, <4>1 DEF GapInv
    <3> QED BY <3>2, <3>3
  <2> QED BY <1>2, <2>1, <2>2, <2>3, SeqEqual
<1> QED BY <1>3, <1>4 DEF due

\* A connection is given what was dispatched since its client joined, in order
\* and without a hole.
THEOREM NoGapHolds == Spec => []NoGap
<1>1. HubInv => NoGap
  BY GapMeans DEF HubInv, NoGap
<1> QED BY <1>1, Invariant, PTL

-----------------------------------------------------------------------------
(* WSHub implements EventFeed.                                             *)

\* Whom the hub keeps, and who has been registered.
Following == {c \in table \ stale : writer[c] # "gone"}
Met == {c \in Clients : reader[c] \notin {"off", "registering"}}

\* A sequence whose elements are the events after c joined is a stretch of them.
LEMMA StretchOf ==
  ASSUME TypeOK, NEW c \in Clients, NEW q \in Seq(Event),
         joined[c] + Len(q) <= Len(dispatched),
         \A i \in 1..Len(q) : q[i] = Due(c, i)
  PROVE  q = SubSeq(dispatched, joined[c] + 1, joined[c] + Len(q))
<1> DEFINE j == joined[c]
           k == Len(q)
           s == SubSeq(dispatched, j + 1, j + k)
<1>1. j \in Nat /\ k \in Nat /\ dispatched \in Seq(Event)
  BY LenProperties DEF TypeOK
<1>2. j + k \in Nat /\ j <= j + k /\ j + k - j = k /\ j + k <= Len(dispatched)
  <2>1. j + k <= Len(dispatched)
    OBVIOUS
  <2> HIDE DEF j, k
  <2> QED BY <1>1, <2>1
<1>3. s \in Seq(Event) /\ Len(s) = k /\ \A i \in 1..k : s[i] = dispatched[j + i]
  <2> HIDE DEF j, k
  <2> QED BY <1>1, <1>2, Stretch
<1>4. \A i \in 1..k : q[i] = s[i]
  <2> HIDE DEF s
  <2> QED BY <1>3 DEF Due
<1> QED BY <1>3, <1>4, SeqEqual

\* A message is what the client has missed so far, and for one that follows, up to
\* the newest event.
LEMMA WriteGives ==
  ASSUME HubInv, NEW c \in Clients, WriterWrites(c), GapInv(c)', TypeOK'
  PROVE  Feed!Give(c)
<1> DEFINE n == joined[c] + Len(received'[c])
<1>1. /\ UNCHANGED <<dispatched, joined, writer, reader, table, stale>>
      /\ received' = [received EXCEPT ![c] = received[c] \o send[c]]
      /\ writer[c] = "writing" /\ send[c] # << >>
  BY DEF WriterWrites, hubVars
<1>2. c \in Met
  BY <1>1 DEF HubInv, TableInv, Fresh, Met
<1>3. /\ received[c] \in Seq(Event) /\ send[c] \in Seq(Event)
      /\ joined[c] \in Nat /\ Len(dispatched) \in Nat
      /\ Len(received[c]) \in Nat /\ Len(send[c]) \in Nat
  BY LenProperties DEF HubInv, TypeOK
<1>4. /\ received'[c] = received[c] \o send[c] /\ received'[c] \in Seq(Event)
      /\ Len(received'[c]) = Len(received[c]) + Len(send[c])
  BY <1>1, <1>3, ConcatProperties DEF HubInv, TypeOK
<1>5. n \in 0..Len(dispatched) /\ joined[c] + Len(received[c]) < n
  <2>1. joined[c] + Len(received'[c]) <= Len(dispatched)
    BY <1>1 DEF GapInv
  <2>2. Len(send[c]) # 0
    BY <1>1, <1>3, EmptySeq
  <2>3. n = joined[c] + (Len(received[c]) + Len(send[c]))
    BY <1>4
  <2>4. n <= Len(dispatched)
    BY <2>1
  <2> DEFINE j == joined[c]
             m == Len(received[c])
             k == Len(send[c])
             d == Len(dispatched)
  <2>5. j + (m + k) <= d
    BY <2>3, <2>4
  <2>6. j + (m + k) \in 0..d /\ j + m < j + (m + k)
    <3> j \in Nat /\ m \in Nat /\ k \in Nat /\ d \in Nat /\ k # 0
      BY <1>3, <2>2
    <3> HIDE DEF j, m, k, d
    <3> QED BY <2>5
  <2> QED BY <2>3, <2>6
<1>6. c \in Following => n = Len(dispatched)
  <2> SUFFICES ASSUME c \in Following PROVE n = Len(dispatched)
    OBVIOUS
  <2>1. joined[c] + Len(received[c]) + Len(send[c]) = Len(dispatched)
    BY DEF HubInv, GapInv, Following
  <2>2. n = joined[c] + (Len(received[c]) + Len(send[c]))
    BY <1>4
  <2> DEFINE j == joined[c]
             m == Len(received[c])
             k == Len(send[c])
             d == Len(dispatched)
  <2>3. j + (m + k) = d
    <3> j \in Nat /\ m \in Nat /\ k \in Nat /\ d \in Nat
      BY <1>3
    <3>1. j + m + k = d
      BY <2>1
    <3> HIDE DEF j, m, k, d
    <3> QED BY <3>1
  <2> QED BY <2>2, <2>3
<1>7. received'[c] = SubSeq(dispatched, joined[c] + 1, n)
  <2>1. /\ joined[c] + Len(received'[c]) <= Len(dispatched)
        /\ \A i \in 1..Len(received'[c]) : received'[c][i] = Due(c, i)
    BY <1>1 DEF GapInv, Due
  <2> QED BY <1>4, <2>1, StretchOf DEF HubInv
<1>8. received' = [received EXCEPT ![c] = SubSeq(dispatched, joined[c] + 1, n)]
  BY <1>1, <1>4, <1>7
<1>9. Following' = Following /\ Met' = Met
  BY <1>1 DEF Following, Met
<1> HIDE DEF n
<1>10. \E k \in 0..Len(dispatched) :
         /\ joined[c] + Len(received[c]) < k
         /\ c \in Following => k = Len(dispatched)
         /\ received' = [received EXCEPT ![c] = SubSeq(dispatched, joined[c] + 1, k)]
  BY <1>5, <1>6, <1>8
<1> QED BY <1>1, <1>2, <1>9, <1>10 DEF Feed!Give, Following, Met

LEMMA FeedStep ==
  ASSUME HubInv, [Next]_vars, HubInv'
  PROVE  Feed!Next \/ UNCHANGED Feed!vars
<1> TypeOK /\ TableInv
  BY DEF HubInv
<1>0. \A c \in Clients : Feed!Join(c) \/ Feed!Give(c) \/ Feed!GiveUp(c) => Feed!Next
  BY DEF Feed!Next
<1>s. /\ UNCHANGED <<dispatched, joined, received>> /\ Following' = Following /\ Met' = Met
        => UNCHANGED Feed!vars
  BY DEF Feed!vars, Following, Met
<1>g. \A c \in Clients :
        /\ UNCHANGED <<dispatched, joined, received>>
        /\ Following' = Following \ {c} /\ Met' = Met
        => Feed!GiveUp(c)
  BY DEF Feed!GiveUp, Following, Met
<1> USE DEF hubVars, clientVars
<1>1. CASE Enqueue
  BY <1>1, <1>s DEF Enqueue, Following, Met
<1>2. CASE HubDispatches
  <2>1. Head(broadcast) \in Event
    BY <1>2, HeadTailProperties DEF HubDispatches, TypeOK
  <2>2. Following' \subseteq Following
    BY <1>2 DEF HubDispatches, Following, Selecting
  <2>3. UNCHANGED <<Met, joined, received>>
    BY <1>2 DEF HubDispatches, Met
  <2>4. dispatched' = Append(dispatched, Head(broadcast))
    BY <1>2 DEF HubDispatches
  <2>5. Feed!Publish
    BY <2>1, <2>2, <2>3, <2>4 DEF Feed!Publish, Following, Met
  <2> QED BY <2>5 DEF Feed!Next
<1>3. CASE HubDrops
  BY <1>3, <1>s DEF HubDrops, Following, Met
<1>4. ASSUME NEW c \in Clients, HubRegisters(c)
      PROVE  Feed!Next \/ UNCHANGED Feed!vars
  <2>1. c \notin Met /\ writer[c] = "off" /\ Met' = Met \cup {c}
    BY <1>4 DEF HubRegisters, ReaderGoes, Met, TableInv, Fresh, TypeOK
  <2>2. Following' = Following \cup {c}
    BY <1>4, <2>1 DEF HubRegisters, Selecting, Following, TypeOK
  <2>3. /\ joined' = [joined EXCEPT ![c] = Len(dispatched)]
        /\ UNCHANGED <<dispatched, received>>
    BY <1>4 DEF HubRegisters
  <2>4. Feed!Join(c)
    BY <2>1, <2>2, <2>3 DEF Feed!Join, Following, Met
  <2> QED BY <1>0, <2>4
<1>5. ASSUME NEW c \in Clients, HubUnregisters(c)
      PROVE  Feed!Next \/ UNCHANGED Feed!vars
  <2>1. UNCHANGED <<dispatched, joined, received>> /\ Met' = Met
    BY <1>5 DEF HubUnregisters, ReaderGoes, Met, TypeOK
  <2>2. Following' = Following \ {c}
    BY <1>5 DEF HubUnregisters, Leave, Following, TypeOK
  <2> QED BY <1>0, <1>g, <2>1, <2>2
<1>6. ASSUME NEW c \in Clients, Connect(c) \/ PumpsStart(c) \/ ReaderFails(c)
      PROVE  UNCHANGED Feed!vars
  <2>1. UNCHANGED <<dispatched, joined, received, table, stale>> /\ Met' = Met
    BY <1>6 DEF Connect, PumpsStart, ReaderFails, ReaderGoes, Met, TypeOK
  <2>2. \A d \in Clients : (writer'[d] = "gone") <=> (writer[d] = "gone")
    BY <1>6 DEF Connect, PumpsStart, ReaderFails, TableInv, Fresh, TypeOK
  <2>3. Following' = Following
    BY <2>1, <2>2 DEF Following, TypeOK
  <2> QED BY <1>s, <2>1, <2>3
<1>7. ASSUME NEW c \in Clients, WriterWrites(c)
      PROVE  Feed!Next \/ UNCHANGED Feed!vars
  <2>1. GapInv(c)' /\ TypeOK'
    BY DEF HubInv
  <2> QED BY <1>0, <1>7, <2>1, WriteGives
<1>8. ASSUME NEW c \in Clients, WriterFails(c) \/ WriterEnds(c)
      PROVE  Feed!Next \/ UNCHANGED Feed!vars
  <2>1. UNCHANGED <<dispatched, joined, received, table, stale>> /\ Met' = Met
    BY <1>8 DEF WriterFails, WriterEnds, Met
  <2>2. writer' = [writer EXCEPT ![c] = "gone"]
    BY <1>8 DEF WriterFails, WriterEnds, WriterExits
  <2>3. Following' = Following \ {c}
    BY <2>1, <2>2 DEF Following, TypeOK
  <2> QED BY <1>0, <1>g, <2>1, <2>3
<1>9. CASE UNCHANGED vars
  BY <1>9, <1>s DEF vars, Following, Met
<1> QED
  BY <1>1, <1>2, <1>3, <1>4, <1>5, <1>6, <1>7, <1>8, <1>9 DEF Next, Hub, Writer

\* The queues, the table and the pumps add up to the feed of EventFeed, for any
\* number of clients and events and any capacity.
THEOREM ImplementsFeed == Spec => FeedSpec
<1>1. Init => Feed!Init
  BY DEF Init, Feed!Init
<1>2. HubInv /\ HubInv' /\ [Next]_vars => [Feed!Next]_(Feed!vars)
  BY FeedStep
<1> QED BY <1>1, <1>2, Invariant, PTL DEF Spec, FeedSpec, Feed!Spec

=============================================================================
