---------------------------- MODULE GovernorProofs ----------------------------
(***************************************************************************)
(* Proofs about Governor, for any finite set of clients and any capacity.  *)
(*                                                                         *)
(* The counters are right because each of them counts clients: the         *)
(* invariant says which. A release counts its client out before it gives   *)
(* the slot back, so those counted in are always among those with a slot,  *)
(* of which the channel admits at most Capacity.                           *)
(***************************************************************************)
EXTENDS Governor, FiniteSetTheorems, TLAPS

Waiters == In({"select", "granted", "cancelled"})
Holders == In({"holding"})
Occupants == In({"granted", "holding", "accounted"})

\* The inductive invariant: Accounted and what the channel holds.
GovernorInv ==
  /\ TypeOK
  /\ Accounted
  /\ slots = Cardinality(Occupants)
  /\ NotOversubscribed

----------------------------------------------------------------------------
(* How a step of one client changes the number of clients in some states.  *)

LEMMA InFinite ==
  ASSUME NEW S
  PROVE  /\ IsFiniteSet(In(S)) /\ Cardinality(In(S)) \in Nat
         /\ IsFiniteSet(In(S)') /\ Cardinality(In(S)') \in Nat
<1>1. IsFiniteSet(Clients)
  BY GovernorAssumption
<1>2. In(S) \subseteq Clients /\ In(S)' \subseteq Clients
  BY DEF In
<1> QED
  BY <1>1, <1>2, FS_Subset, FS_CardinalityType

LEMMA Moves ==
  ASSUME NEW S, NEW c \in Clients, NEW to,
         client \in [Clients -> ClientState], Goes(c, to)
  PROVE  /\ to \in S => In(S)' = In(S) \cup {c}
         /\ to \notin S => In(S)' = In(S) \ {c}
         /\ c \in In(S) <=> client[c] \in S
<1>1. \A d \in Clients : client'[d] = IF d = c THEN to ELSE client[d]
  BY DEF Goes
<1>2. In(S)' = {d \in Clients : client'[d] \in S}
  BY DEF In
<1> QED
  BY <1>1, <1>2 DEF In

LEMMA CardinalityMoves ==
  ASSUME NEW S, NEW c \in Clients, NEW to,
         client \in [Clients -> ClientState], Goes(c, to)
  PROVE  Cardinality(In(S)') =
           IF client[c] \in S
             THEN IF to \in S THEN Cardinality(In(S)) ELSE Cardinality(In(S)) - 1
             ELSE IF to \in S THEN Cardinality(In(S)) + 1 ELSE Cardinality(In(S))
<1> DEFINE A == In(S)
           B == In(S)'
<1>1. /\ to \in S => B = A \cup {c}
      /\ to \notin S => B = A \ {c}
      /\ c \in A <=> client[c] \in S
  BY Moves
<1>2. IsFiniteSet(A) /\ Cardinality(A) \in Nat
  BY InFinite
<1> HIDE DEF A, B
<1>3. Cardinality(A \cup {c}) =
        IF c \in A THEN Cardinality(A) ELSE Cardinality(A) + 1
  BY <1>2, FS_AddElement
<1>4. Cardinality(A \ {c}) =
        IF c \in A THEN Cardinality(A) - 1 ELSE Cardinality(A)
  BY <1>2, FS_RemoveElement
<1>5. Cardinality(B) =
        IF client[c] \in S
          THEN IF to \in S THEN Cardinality(A) ELSE Cardinality(A) - 1
          ELSE IF to \in S THEN Cardinality(A) + 1 ELSE Cardinality(A)
  BY <1>1, <1>3, <1>4
<1> QED
  BY <1>5 DEF A, B

\* Who is counted in has a slot.
LEMMA HoldersOccupy ==
  /\ Cardinality(Holders) <= Cardinality(Occupants)
  /\ Cardinality(Holders') <= Cardinality(Occupants')
<1>1. Holders \subseteq Occupants /\ Holders' \subseteq Occupants'
  BY DEF Holders, Occupants, In
<1> QED
  BY <1>1, InFinite, FS_Subset DEF Holders, Occupants

----------------------------------------------------------------------------
(* The invariant.                                                          *)

LEMMA InitInv == Init => GovernorInv
<1> SUFFICES ASSUME Init PROVE GovernorInv
  OBVIOUS
<1>1. \A S : "idle" \notin S => In(S) = {}
  BY DEF Init, In
<1>2. Waiters = {} /\ Holders = {} /\ Occupants = {}
  BY <1>1 DEF Waiters, Holders, Occupants
<1>3. TypeOK
  BY GovernorAssumption DEF Init, TypeOK, ClientState
<1> QED
  BY <1>2, <1>3, FS_EmptySet, GovernorAssumption
     DEF Init, GovernorInv, Accounted, NotOversubscribed, Waiters, Holders,
         Occupants

\* The three cardinalities after a step of one client.
LEMMA Counts ==
  ASSUME NEW c \in Clients, NEW to,
         client \in [Clients -> ClientState], Goes(c, to)
  PROVE  LET After(n, S) ==
               IF client[c] \in S THEN IF to \in S THEN n ELSE n - 1
                                 ELSE IF to \in S THEN n + 1 ELSE n
         IN  /\ Cardinality(Waiters') =
                  After(Cardinality(Waiters), {"select", "granted", "cancelled"})
             /\ Cardinality(Holders') = After(Cardinality(Holders), {"holding"})
             /\ Cardinality(Occupants') =
                  After(Cardinality(Occupants),
                        {"granted", "holding", "accounted"})
  BY CardinalityMoves DEF Waiters, Holders, Occupants

LEMMA StepInv ==
  ASSUME GovernorInv, NEW c \in Clients, ClientStep(c)
  PROVE  GovernorInv'
<1> DEFINE W == Cardinality(Waiters)
           H == Cardinality(Holders)
           O == Cardinality(Occupants)
<1>1. /\ TypeOK /\ waiting = W /\ inUse = H /\ slots = O
      /\ inUse <= Capacity /\ peakInUse <= Capacity
  BY DEF GovernorInv, Accounted, NotOversubscribed, Waiters, Holders, Occupants
<1>2. /\ W \in Nat /\ H \in Nat /\ O \in Nat
      /\ W' \in Nat /\ H' \in Nat /\ O' \in Nat
      /\ H <= O /\ H' <= O'
  BY InFinite, HoldersOccupy DEF Waiters, Holders, Occupants
<1>3. /\ client \in [Clients -> ClientState] /\ contextDone \in SUBSET Clients
      /\ slots \in 0..Capacity /\ peakInUse \in Nat
      /\ Capacity \in Nat
  BY <1>1, GovernorAssumption DEF TypeOK
<1> HIDE DEF W, H, O
<1>4. /\ client' \in [Clients -> ClientState]
      /\ contextDone' \in SUBSET Clients
      /\ waiting' = W' /\ inUse' = H' /\ slots' = O'
      /\ slots' <= Capacity
      /\ peakInUse' \in {peakInUse, inUse'}
  <2>1. CASE Wait(c)
    <3>1. /\ client[c] = "idle" /\ Goes(c, "select")
          /\ contextDone' = contextDone \ {c} /\ waiting' = waiting + 1
          /\ UNCHANGED <<slots, inUse, peakInUse>>
      BY <2>1 DEF Wait
    <3>2. W' = W + 1 /\ H' = H /\ O' = O
      BY <1>3, <3>1, Counts DEF W, H, O
    <3> QED
      BY <1>1, <1>2, <1>3, <3>1, <3>2 DEF Goes, ClientState, Less
  <2>2. CASE Grant(c)
    <3>1. /\ client[c] = "select" /\ Goes(c, "granted")
          /\ slots < Capacity /\ slots' = slots + 1
          /\ UNCHANGED <<contextDone, inUse, waiting, peakInUse>>
      BY <2>2 DEF Grant, counters
    <3>2. W' = W /\ H' = H /\ O' = O + 1
      BY <1>3, <3>1, Counts DEF W, H, O
    <3> QED
      BY <1>1, <1>2, <1>3, <3>1, <3>2 DEF Goes, ClientState, Less
  <2>3. CASE CountIn(c)
    <3>1. /\ client[c] = "granted" /\ Goes(c, "holding")
          /\ waiting' = waiting - 1 /\ inUse' = inUse + 1
          /\ peakInUse' = IF inUse' > peakInUse THEN inUse' ELSE peakInUse
          /\ UNCHANGED <<contextDone, slots>>
      BY <2>3 DEF CountIn
    <3>2. W' = W - 1 /\ H' = H + 1 /\ O' = O
      BY <1>3, <3>1, Counts DEF W, H, O
    <3> QED
      BY <1>1, <1>2, <1>3, <3>1, <3>2 DEF Goes, ClientState, Less
  <2>4. CASE Cancel(c)
    <3>1. /\ client[c] = "select" /\ Goes(c, "cancelled")
          /\ UNCHANGED <<contextDone, slots, inUse, waiting, peakInUse>>
      BY <2>4 DEF Cancel, counters
    <3>2. W' = W /\ H' = H /\ O' = O
      BY <1>3, <3>1, Counts DEF W, H, O
    <3> QED
      BY <1>1, <1>2, <1>3, <3>1, <3>2 DEF Goes, ClientState, Less
  <2>5. CASE CountCancelled(c)
    <3>1. /\ client[c] = "cancelled" /\ Goes(c, "idle")
          /\ waiting' = Less(waiting)
          /\ UNCHANGED <<contextDone, slots, inUse, peakInUse>>
      BY <2>5 DEF CountCancelled
    <3>2. W' = W - 1 /\ H' = H /\ O' = O
      BY <1>3, <3>1, Counts DEF W, H, O
    <3> QED
      BY <1>1, <1>2, <1>3, <3>1, <3>2 DEF Goes, ClientState, Less
  <2>6. CASE Release(c)
    <3>1. CASE client[c] = "holding"
      <4>1. /\ Goes(c, "accounted") /\ inUse' = Less(inUse)
            /\ UNCHANGED <<contextDone, slots, waiting, peakInUse>>
        BY <2>6, <3>1 DEF Release
      <4>2. W' = W /\ H' = H - 1 /\ O' = O
        BY <1>3, <3>1, <4>1, Counts DEF W, H, O
      <4> QED
        BY <1>1, <1>2, <1>3, <3>1, <4>1, <4>2 DEF Goes, ClientState, Less
    <3>2. CASE client[c] = "accounted"
      <4>1. /\ Goes(c, "idle") /\ slots' = slots - 1
            /\ UNCHANGED <<contextDone, inUse, waiting, peakInUse>>
        BY <2>6, <3>2 DEF Release, counters
      <4>2. W' = W /\ H' = H /\ O' = O - 1
        BY <1>3, <3>2, <4>1, Counts DEF W, H, O
      <4> QED
        BY <1>1, <1>2, <1>3, <3>2, <4>1, <4>2 DEF Goes, ClientState, Less
    <3> QED
      BY <2>6, <3>1, <3>2 DEF Release
  <2> QED
    BY <2>1, <2>2, <2>3, <2>4, <2>5, <2>6 DEF ClientStep
<1>5. inUse' <= Capacity /\ peakInUse' <= Capacity /\ peakInUse' \in Nat
  BY <1>1, <1>2, <1>3, <1>4
<1> QED
  BY <1>2, <1>3, <1>4, <1>5
     DEF GovernorInv, TypeOK, Accounted, NotOversubscribed, Waiters, Holders,
         Occupants, W, H, O

LEMMA ContextInv ==
  ASSUME GovernorInv, NEW c \in Clients, ContextEnds(c)
  PROVE  GovernorInv'
<1>1. /\ contextDone' \in SUBSET Clients
      /\ UNCHANGED <<client, slots, inUse, waiting, peakInUse>>
  BY DEF ContextEnds, counters, GovernorInv, TypeOK
<1> QED
  BY <1>1 DEF GovernorInv, TypeOK, Accounted, NotOversubscribed, Occupants, In

LEMMA StutterInv ==
  ASSUME GovernorInv, UNCHANGED vars
  PROVE  GovernorInv'
  BY DEF GovernorInv, TypeOK, Accounted, NotOversubscribed, Occupants, In, vars

THEOREM GovernorInvariant == Spec => []GovernorInv
<1>1. GovernorInv /\ [Next]_vars => GovernorInv'
  BY StepInv, ContextInv, StutterInv DEF Next
<1> QED
  BY InitInv, <1>1, PTL DEF Spec

\* In every behaviour of the pool the diagnostics' counters stay within the
\* capacity: PeakInUse is what its comment says it is.
THEOREM NotOversubscribedHolds == Spec => []NotOversubscribed
<1>1. GovernorInv => NotOversubscribed
  BY DEF GovernorInv
<1> QED
  BY GovernorInvariant, <1>1, PTL

\* In every behaviour the counters count the clients that hold and that wait.
THEOREM AccountedHolds == Spec => []Accounted
<1>1. GovernorInv => Accounted
  BY DEF GovernorInv
<1> QED
  BY GovernorInvariant, <1>1, PTL

----------------------------------------------------------------------------
(* The refinement: only the granted value in the channel and its return    *)
(* are steps of the abstract pool.                                         *)

Asking == In({"select", "cancelled"})
Leased == In({"granted", "holding", "accounted"})

LEMMA StepRefines ==
  ASSUME GovernorInv, NEW c \in Clients, ClientStep(c)
  PROVE  Pool!Next \/ UNCHANGED <<Asking, Leased>>
<1>1. client \in [Clients -> ClientState]
  BY DEF GovernorInv, TypeOK
<1>2. slots = Cardinality(Leased)
  BY DEF GovernorInv, Occupants, Leased
<1>3. /\ c \in Asking <=> client[c] \in {"select", "cancelled"}
      /\ c \in Leased <=> client[c] \in {"granted", "holding", "accounted"}
  BY DEF Asking, Leased, In
<1>4. ASSUME NEW from, NEW to, client[c] = from, Goes(c, to)
      PROVE  /\ Asking' = IF to \in {"select", "cancelled"}
                            THEN Asking \cup {c} ELSE Asking \ {c}
             /\ Leased' = IF to \in {"granted", "holding", "accounted"}
                            THEN Leased \cup {c} ELSE Leased \ {c}
  BY <1>1, <1>4, Moves DEF Asking, Leased
<1>5. CASE Wait(c)
  <2>1. client[c] = "idle" /\ Goes(c, "select")
    BY <1>5 DEF Wait
  <2>2. Pool!Ask(c)
    BY <1>2, <1>3, <1>4, <2>1 DEF Pool!Ask, Asking, Leased
  <2> QED
    BY <2>2 DEF Pool!Next
<1>6. CASE Grant(c)
  <2>1. client[c] = "select" /\ Goes(c, "granted") /\ slots < Capacity
    BY <1>6 DEF Grant
  <2>2. /\ c \in Asking /\ Cardinality(Leased) < Capacity
        /\ Asking' = Asking \ {c} /\ Leased' = Leased \cup {c}
    BY <1>2, <1>3, <1>4, <2>1
  <2>3. Pool!Cardinality(Leased) = Cardinality(Leased)
    BY DEF Pool!Cardinality, Cardinality
  <2>4. Pool!Grant(c)
    BY <2>2, <2>3 DEF Pool!Grant, Asking, Leased
  <2> QED
    BY <2>4 DEF Pool!Next
<1>7. CASE CountIn(c)
  <2>1. client[c] = "granted" /\ Goes(c, "holding")
    BY <1>7 DEF CountIn
  <2>2. UNCHANGED <<Asking, Leased>>
    BY <1>2, <1>3, <1>4, <2>1
  <2> QED
    BY <2>2 DEF Pool!Next
<1>8. CASE Cancel(c)
  <2>1. client[c] = "select" /\ Goes(c, "cancelled")
    BY <1>8 DEF Cancel
  <2>2. UNCHANGED <<Asking, Leased>>
    BY <1>2, <1>3, <1>4, <2>1
  <2> QED
    BY <2>2 DEF Pool!Next
<1>9. CASE CountCancelled(c)
  <2>1. client[c] = "cancelled" /\ Goes(c, "idle")
    BY <1>9 DEF CountCancelled
  <2>2. Pool!Abandon(c)
    BY <1>2, <1>3, <1>4, <2>1 DEF Pool!Abandon, Asking, Leased
  <2> QED
    BY <2>2 DEF Pool!Next
<1>10. CASE Release(c)
  <2>1. CASE client[c] = "holding"
    <3>1. Goes(c, "accounted")
      BY <1>10, <2>1 DEF Release
    <3> QED
      BY <1>3, <1>4, <2>1, <3>1
  <2>2. CASE client[c] = "accounted"
    <3>1. Goes(c, "idle")
      BY <1>10, <2>2 DEF Release
    <3>2. Pool!Return(c)
      BY <1>3, <1>4, <2>2, <3>1 DEF Pool!Return, Asking, Leased
    <3> QED
      BY <3>2 DEF Pool!Next
  <2> QED
    BY <1>10, <2>1, <2>2 DEF Release
<1> QED
  BY <1>5, <1>6, <1>7, <1>8, <1>9, <1>10 DEF ClientStep

\* Every behaviour of the pool is one of the abstract pool: at any moment at
\* most Capacity callers have a slot.
THEOREM ImplementsPool == Spec => PoolSpec
<1>1. Init => Pool!Init
  BY DEF Init, Pool!Init, In
<1>2. GovernorInv /\ [Next]_vars => [Pool!Next]_(Pool!vars)
  <2> SUFFICES ASSUME GovernorInv, [Next]_vars
               PROVE  Pool!Next \/ UNCHANGED <<Asking, Leased>>
    BY DEF Pool!vars, Asking, Leased
  <2>1. ASSUME UNCHANGED client PROVE UNCHANGED <<Asking, Leased>>
    BY <2>1 DEF Asking, Leased, In
  <2> QED
    BY <2>1, StepRefines DEF Next, ContextEnds, vars
<1> QED
  BY <1>1, <1>2, GovernorInvariant, PTL DEF Spec, PoolSpec, Pool!Spec

===============================================================================
