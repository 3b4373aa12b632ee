------------------------ MODULE SessionRegistryProofs ------------------------
(***************************************************************************)
(* The safety properties of SessionRegistry, for any number of sessions,   *)
(* any timeouts, and any number of crashes and restarts.                   *)
(***************************************************************************)
EXTENDS SessionRegistry, TLAPS

\* The sessions that the janitor or Shutdown have copied from the table.
Copied == janitor.todo \cup janitor.condemned
            \cup shutdown.todo \cup shutdown.waits

\* One session from its Create to the end of its cleanup: whoever knows it, its
\* Create has registered it; it leaves the table only through its own cleanup;
\* after the move its directory has gone or is left to the next start; and so is
\* the part of a directory that a failed Create leaves.
Life(s) ==
  /\ s \in registered \cup Copied => create[s] = "created"
  /\ s \in closing <=> cleanup[s] # "none"
  /\ cleanup[s] # "none" => create[s] = "created"
  /\ create[s] = "created" =>
       s \in registered \/ cleanup[s] \in {"finish", "done"}
  /\ cleanup[s] \in {"finish", "done"} => s \notin registered
  /\ cleanup[s] \in {"delete", "unregister", "finish", "done"} =>
       s \notin live \ stuck
  /\ up /\ s \in live =>
       create[s] \in {"made", "rejected"} \/ s \in registered \cup stuck

\* A process that is down runs nothing; once Shutdown has begun nothing is
\* registered that it has not copied, and what it has waited for is gone.
Process ==
  /\ ~up => /\ \A s \in Sessions : create[s] \in {"new", "gone"}
            /\ janitor = IdleJanitor /\ shutdown = NoShutdown
  /\ shutdown.pc # "none" => ~accepting /\ registered \subseteq shutdown.waits
  /\ shutdown.pc = "returned" => registered = {} /\ janitor.pc = "stopped"

RegistryInv == TypeOK /\ Process /\ \A s \in Sessions : Life(s)

-----------------------------------------------------------------------------
(* Types.                                                                  *)

LEMMA LongestType == Longest \in Nat /\ Longest + SweepDelay \in Nat
  BY SessionRegistryAssumption DEF Longest

LEMMA IdleTypes == IdleJanitor \in JanitorState /\ NoShutdown \in ShutdownState
  BY SessionRegistryAssumption
     DEF IdleJanitor, NoShutdown, JanitorState, ShutdownState

\* Whoever closes a session keeps the types of what startClose writes.
LEMMA StartCloseType ==
  ASSUME TypeOK, NEW s \in Sessions, NEW result \in {"closed", "expired"},
         StartClose(s, result)
  PROVE  /\ closing' \in SUBSET Sessions
         /\ final' \in [Sessions -> {"open", "closed", "expired"}]
         /\ cleanup' \in [Sessions -> CleanupState]
  BY DEF TypeOK, StartClose, CleanupState

\* Every step keeps the types.
LEMMA TypeStep == TypeOK /\ [Next]_vars => TypeOK'
<1> SUFFICES ASSUME TypeOK, [Next]_vars PROVE TypeOK'
  OBVIOUS
<1> USE LongestType, SessionRegistryAssumption
    DEF TypeOK, lifeVars, tableVars, seenVars, dirVars, CreateState, CleanupState,
        CreateGoes, CleanupGoes
<1>1. ASSUME NEW s \in Sessions, CreateChecks(s) \/ CreateStep(s) PROVE TypeOK'
  BY <1>1 DEF CreateChecks, CreateStep, CreateMakesDirectory, CreateRegisters,
              CreateCleansUp
<1>2. ASSUME NEW s \in Sessions, Heartbeat(s) \/ Touch(s) PROVE TypeOK'
  BY <1>2 DEF Heartbeat, Touch
<1>3. ASSUME NEW s \in Sessions, Close(s) PROVE TypeOK'
  BY <1>3, StartCloseType DEF Close
<1>4. CASE Tick
  <2>1. silent' \in [Sessions -> 0..(Longest + SweepDelay)]
    BY <1>4 DEF Tick
  <2>2. janitor' \in JanitorState
    BY <1>4 DEF Tick, JanitorState
  <2> QED BY <1>4, <2>1, <2>2 DEF Tick
<1>5. CASE JanitorTicks \/ JanitorSweeps \/ JanitorStops
  <2>1. janitor' \in JanitorState
    BY <1>5, IdleTypes DEF JanitorTicks, JanitorSweeps, JanitorStops, JanitorState
  <2> QED BY <1>5, <2>1 DEF JanitorTicks, JanitorSweeps, JanitorStops
<1>6. ASSUME NEW s \in Sessions, JanitorChecks(s) PROVE TypeOK'
  <2>1. janitor' \in JanitorState
    BY <1>6 DEF JanitorChecks, JanitorState
  <2> QED BY <1>6, <2>1 DEF JanitorChecks
<1>7. ASSUME NEW s \in Sessions, JanitorCloses(s) PROVE TypeOK'
  <2>1. janitor' \in JanitorState
    BY <1>7 DEF JanitorCloses, JanitorState
  <2> QED BY <1>7, <2>1, StartCloseType DEF JanitorCloses
<1>8. ASSUME NEW s \in Sessions, CleanupStep(s) PROVE TypeOK'
  BY <1>8 DEF CleanupStep, CleanupQuiet, CleanupMoves, CleanupDeletes,
              CleanupUnregisters, CleanupFinishes
<1>9. CASE ShutdownRejects \/ ShutdownCancels \/ ShutdownWaits \/ ShutdownReturns
  <2>1. shutdown' \in ShutdownState
    BY <1>9 DEF ShutdownRejects, ShutdownCancels, ShutdownWaits, ShutdownReturns,
                ShutdownState
  <2> QED
    BY <1>9, <2>1
       DEF ShutdownRejects, ShutdownCancels, ShutdownWaits, ShutdownReturns
<1>10. ASSUME NEW s \in Sessions, ShutdownCloses(s) PROVE TypeOK'
  <2>1. shutdown' \in ShutdownState
    BY <1>10 DEF ShutdownCloses, ShutdownState
  <2> QED BY <1>10, <2>1, StartCloseType DEF ShutdownCloses
<1>11. CASE Exit
  <2>1. 0 \in 0..(Longest + SweepDelay)
    BY LongestType
  <2>2. silent' \in [Sessions -> 0..(Longest + SweepDelay)]
    BY <1>11, <2>1 DEF Exit
  <2> QED BY <1>11, <2>2, IdleTypes DEF Exit
<1>12. CASE Start
  BY <1>12 DEF Start, CleanupOrphans
<1>13. CASE UNCHANGED vars
  BY <1>13 DEF vars
<1> QED
  BY <1>1, <1>2, <1>3, <1>4, <1>5, <1>6, <1>7, <1>8, <1>9, <1>10, <1>11, <1>12,
     <1>13 DEF Next, Requests, JanitorStep, ShutdownStep

-----------------------------------------------------------------------------
(* The inductive step.                                                     *)

\* Whoever closes a session: one that has left the table is already closing.
LEMMA StartCloseKeeps ==
  ASSUME RegistryInv, NEW s \in Sessions, create[s] = "created", NEW result,
         StartClose(s, result), Copied' \subseteq Copied,
         UNCHANGED <<lifeVars, create, registered, dirVars>>
  PROVE  \A t \in Sessions : Life(t)'
  BY DEF RegistryInv, TypeOK, Life, StartClose, lifeVars, dirVars

\* Only Create, CleanupUnregisters, Exit and Start change whom the table has, or
\* the requests.
LEMMA ProcessFrame ==
  ASSUME RegistryInv, up, Copied' \subseteq Copied,
         UNCHANGED <<lifeVars, shutdown>>, registered' \subseteq registered,
         janitor.pc = "stopped" => janitor'.pc = "stopped"
  PROVE  Process'
  BY DEF RegistryInv, Process, lifeVars

LEMMA InvStep == RegistryInv /\ [Next]_vars => RegistryInv'
<1> SUFFICES ASSUME RegistryInv, [Next]_vars
             PROVE  Process' /\ \A t \in Sessions : Life(t)'
  BY TypeStep DEF RegistryInv
<1> TypeOK /\ Process /\ \A s \in Sessions : Life(s)
  BY DEF RegistryInv
<1> USE DEF lifeVars, tableVars, seenVars, dirVars
<1>1. ASSUME NEW s \in Sessions, CreateChecks(s) \/ CreateStep(s)
      PROVE  Process' /\ \A t \in Sessions : Life(t)'
  <2>1. Process'
    BY <1>1 DEF TypeOK, Process, CreateGoes, CreateChecks, CreateStep,
                CreateMakesDirectory, CreateRegisters, CreateCleansUp
  <2>2. ASSUME NEW t \in Sessions PROVE Life(t)'
    BY <1>1 DEF TypeOK, Life, Copied, CreateGoes, CreateChecks, CreateStep,
                CreateMakesDirectory, CreateRegisters, CreateCleansUp
  <2> QED BY <2>1, <2>2
<1>2. ASSUME NEW s \in Sessions, Heartbeat(s) \/ Touch(s)
      PROVE  Process' /\ \A t \in Sessions : Life(t)'
  BY <1>2 DEF Heartbeat, Touch, Process, Life, Copied
<1>3. ASSUME NEW s \in Sessions, Close(s)
      PROVE  Process' /\ \A t \in Sessions : Life(t)'
  <2>1. Copied' = Copied /\ create[s] = "created"
    BY <1>3 DEF Close, Copied, Life
  <2>2. Process'
    BY <1>3, <2>1, ProcessFrame DEF Close
  <2> QED BY <1>3, <2>1, <2>2, StartCloseKeeps DEF Close
<1>4. CASE Tick
  <2>1. /\ janitor'.pc = janitor.pc /\ janitor'.todo = janitor.todo
        /\ janitor'.condemned = janitor.condemned
    BY <1>4 DEF Tick, TypeOK, JanitorState
  <2> QED BY <1>4, <2>1 DEF Tick, Process, Life, Copied
<1>5. CASE JanitorTicks \/ JanitorSweeps \/ JanitorStops
  <2>1. Copied' \subseteq Copied \cup registered
    BY <1>5 DEF JanitorTicks, JanitorSweeps, JanitorStops, Copied, TypeOK,
                JanitorState, IdleJanitor
  <2>2. janitor.pc # "stopped"
    BY <1>5 DEF JanitorTicks, JanitorSweeps, JanitorStops
  <2>3. Process'
    BY <1>5, <2>2 DEF JanitorTicks, JanitorSweeps, JanitorStops, Process
  <2> QED
    BY <1>5, <2>1, <2>3 DEF JanitorTicks, JanitorSweeps, JanitorStops, Life
<1>6. ASSUME NEW s \in Sessions, JanitorChecks(s)
      PROVE  Process' /\ \A t \in Sessions : Life(t)'
  <2>1. Copied' \subseteq Copied
    BY <1>6 DEF JanitorChecks, Copied, TypeOK, JanitorState
  <2>2. Process'
    BY <1>6, <2>1, ProcessFrame DEF JanitorChecks
  <2> QED BY <1>6, <2>1, <2>2 DEF JanitorChecks, Life
<1>7. ASSUME NEW s \in Sessions, JanitorCloses(s)
      PROVE  Process' /\ \A t \in Sessions : Life(t)'
  <2>1. Copied' \subseteq Copied /\ create[s] = "created"
    BY <1>7 DEF JanitorCloses, Copied, TypeOK, JanitorState, Life
  <2>2. Process'
    BY <1>7, <2>1, ProcessFrame DEF JanitorCloses
  <2> QED BY <1>7, <2>1, <2>2, StartCloseKeeps DEF JanitorCloses
<1>8. ASSUME NEW s \in Sessions, CleanupStep(s)
      PROVE  Process' /\ \A t \in Sessions : Life(t)'
  <2> USE <1>8 DEF CleanupStep, CleanupQuiet, CleanupMoves, CleanupDeletes,
                   CleanupUnregisters, CleanupFinishes, CleanupGoes
  <2>1. up /\ Copied' = Copied /\ registered' \subseteq registered
    BY DEF Copied
  <2>2. Process'
    BY <2>1, ProcessFrame
  <2>3. ASSUME NEW t \in Sessions PROVE Life(t)'
    BY <2>1 DEF TypeOK, Life, CleanupState
  <2> QED BY <2>2, <2>3
<1>9. CASE ShutdownRejects \/ ShutdownCancels \/ ShutdownWaits
  <2>1. Copied' \subseteq Copied \cup registered
    BY <1>9 DEF ShutdownRejects, ShutdownCancels, ShutdownWaits, Copied, TypeOK,
                ShutdownState
  <2>2. Process'
    BY <1>9 DEF ShutdownRejects, ShutdownCancels, ShutdownWaits, Process, TypeOK,
                ShutdownState
  <2> QED
    BY <1>9, <2>1, <2>2 DEF ShutdownRejects, ShutdownCancels, ShutdownWaits, Life
<1>10. CASE ShutdownReturns
  <2>1. Copied' = Copied /\ shutdown'.waits = shutdown.waits
    BY <1>10 DEF ShutdownReturns, Copied, TypeOK, ShutdownState
  <2>2. shutdown'.pc = "returned" => registered = {} /\ janitor.pc = "stopped"
    <3>1. SUFFICES ASSUME shutdown'.pc = "returned"
                   PROVE  registered = {} /\ janitor.pc = "stopped"
      OBVIOUS
    <3>2. /\ \A s \in shutdown.waits : cleanup[s] = "done"
          /\ janitor.pc = "stopped" /\ registered \subseteq shutdown.waits
      BY <1>10, <3>1 DEF ShutdownReturns, TypeOK, ShutdownState, Process
    <3> QED BY <3>2 DEF Life, TypeOK
  <2>3. Process'
    BY <1>10, <2>1, <2>2 DEF ShutdownReturns, Process
  <2> QED BY <1>10, <2>1, <2>3 DEF ShutdownReturns, Life
<1>11. ASSUME NEW s \in Sessions, ShutdownCloses(s)
       PROVE  Process' /\ \A t \in Sessions : Life(t)'
  <2>1. /\ Copied' \subseteq Copied /\ create[s] = "created"
        /\ shutdown'.pc = "close" /\ shutdown'.waits = shutdown.waits
    BY <1>11 DEF ShutdownCloses, Copied, TypeOK, ShutdownState, Life
  <2>2. Process'
    BY <1>11, <2>1 DEF ShutdownCloses, Process
  <2> QED BY <1>11, <2>1, <2>2, StartCloseKeeps DEF ShutdownCloses
<1>12. CASE Exit
  <2>1. Copied' = {}
    BY <1>12 DEF Exit, Copied, IdleJanitor, NoShutdown
  <2>2. Process'
    BY <1>12 DEF Exit, Process, NoShutdown
  <2> QED BY <1>12, <2>1, <2>2 DEF Exit, Life
<1>13. CASE Start
  <2>1. Copied' = {} /\ Copied = {}
    BY <1>13 DEF Start, Process, Copied, IdleJanitor, NoShutdown
  <2>2. Process'
    BY <1>13 DEF Start, Process, NoShutdown
  <2> QED BY <1>13, <2>1, <2>2 DEF Start, CleanupOrphans, Process, Life
<1>14. CASE UNCHANGED vars
  BY <1>14 DEF vars, Process, Life, Copied
<1> QED
  BY <1>1, <1>2, <1>3, <1>4, <1>5, <1>6, <1>7, <1>8, <1>9, <1>10, <1>11, <1>12,
     <1>13, <1>14 DEF Next, Requests, JanitorStep, ShutdownStep

LEMMA InvInit == Init => RegistryInv
<1> SUFFICES ASSUME Init PROVE RegistryInv
  OBVIOUS
<1> USE DEF Init
<1>1. TypeOK
  <2>1. 0 \in 0..(Longest + SweepDelay)
    BY LongestType
  <2>2. silent \in [Sessions -> 0..(Longest + SweepDelay)]
    BY <2>1
  <2> QED BY <2>2, IdleTypes DEF TypeOK, CreateState, CleanupState
<1>2. Process /\ \A s \in Sessions : Life(s)
  BY DEF Process, Life, Copied, IdleJanitor, NoShutdown
<1> QED BY <1>1, <1>2 DEF RegistryInv

-----------------------------------------------------------------------------
(* The theorems.                                                           *)

\* RegistryInv is inductive, and holds in every reachable state.
THEOREM Invariant == Spec => []RegistryInv
  BY InvInit, InvStep, PTL DEF Spec

\* No directory under sessions/ is left without somebody to remove it.
THEOREM DirectoryOwnedHolds == Spec => []DirectoryOwned
<1>1. RegistryInv => DirectoryOwned
  BY DEF RegistryInv, TypeOK, Life, DirectoryOwned
<1> QED BY <1>1, Invariant, PTL

\* After a Shutdown that has not timed out nothing is registered any more.
THEOREM ShutdownIsFinalHolds == Spec => []ShutdownIsFinal
<1>1. RegistryInv => ShutdownIsFinal
  BY DEF RegistryInv, TypeOK, CleanupState, Process, Life, ShutdownIsFinal
<1> QED BY <1>1, Invariant, PTL

\* A close that is over has unregistered the session and removed its directory.
THEOREM CloseIsCompleteHolds == Spec => []CloseIsComplete
<1>1. RegistryInv => CloseIsComplete
  BY DEF RegistryInv, Life, CloseIsComplete
<1> QED BY <1>1, Invariant, PTL

\* The part of ClosedOnce about one session and one step.
Once(s) ==
  up' /\ s \in closing =>
    final'[s] = final[s] /\ (cleanup'[s] = "quiet" => cleanup[s] = "quiet")

\* The first who closes a session decides how it ends, and nobody starts a
\* second cleanup.
THEOREM ClosedOnceHolds == Spec => ClosedOnce
<1>1. ASSUME RegistryInv, [Next]_vars, NEW t \in Sessions PROVE Once(t)
  <2> TypeOK
    BY <1>1 DEF RegistryInv
  <2> USE DEF Once, lifeVars, tableVars
  <2>1. ASSUME NEW s \in Sessions, NEW result, StartClose(s, result) PROVE Once(t)
    BY <2>1 DEF StartClose, TypeOK
  <2>2. ASSUME NEW s \in Sessions, CreateChecks(s) \/ CreateStep(s) PROVE Once(t)
    BY <2>2 DEF CreateChecks, CreateStep, CreateMakesDirectory, CreateRegisters,
                CreateCleansUp
  <2>3. ASSUME NEW s \in Sessions,
               Heartbeat(s) \/ Touch(s) \/ Close(s)
        PROVE  Once(t)
    BY <2>1, <2>3 DEF Heartbeat, Touch, Close
  <2>4. CASE Tick \/ JanitorStep
    BY <2>1, <2>4 DEF Tick, JanitorStep, JanitorTicks, JanitorSweeps, JanitorStops,
                      JanitorChecks, JanitorCloses
  <2>5. ASSUME NEW s \in Sessions, CleanupStep(s) PROVE Once(t)
    BY <2>5 DEF CleanupStep, CleanupQuiet, CleanupMoves, CleanupDeletes,
                CleanupUnregisters, CleanupFinishes, CleanupGoes, TypeOK
  <2>6. CASE ShutdownRejects \/ ShutdownStep
    BY <2>1, <2>6 DEF ShutdownRejects, ShutdownStep, ShutdownCancels,
                      ShutdownWaits, ShutdownReturns, ShutdownCloses
  <2>7. CASE Exit \/ Start
    BY <2>7 DEF Exit, Start
  <2>8. CASE UNCHANGED vars
    BY <2>8 DEF vars
  <2> QED
    BY <1>1, <2>2, <2>3, <2>4, <2>5, <2>6, <2>7, <2>8 DEF Next, Requests
<1>2. RegistryInv /\ [Next]_vars =>
        [\A s \in Sessions :
           up' /\ s \in closing =>
             final'[s] = final[s] /\ (cleanup'[s] = "quiet" => cleanup[s] = "quiet")]_vars
  BY <1>1 DEF Once
<1> QED BY <1>2, Invariant, PTL DEF Spec, ClosedOnce

-----------------------------------------------------------------------------
(* The manager implements SessionLifecycle: each step of the abstract      *)
(* session is one step of the manager, and all others are invisible.       *)

Phases == [s \in Sessions |-> Phase(s)]

\* A session's phase follows its Create and, from then on, its close.
LEMMA PhaseOf ==
  ASSUME TypeOK, NEW s \in Sessions
  PROVE  /\ create[s] \in {"new", "checked"} => Phases[s] = "new"
         /\ create[s] \in {"made", "rejected"} => Phases[s] = "ready"
         /\ create[s] = "gone" => Phases[s] = "gone"
         /\ create[s] = "created" =>
              Phases[s] = IF s \notin closing THEN "open"
                          ELSE IF cleanup[s] = "done" THEN "over" ELSE "closing"
<1>1. Phases[s] = Phase(s)
  BY DEF Phases
<1>2. create[s] \in {"new", "checked", "made", "created", "rejected", "gone"}
  BY DEF TypeOK, CreateState
<1> QED BY <1>1, <1>2 DEF Phase

LEMMA PhaseAfter ==
  ASSUME TypeOK', NEW s \in Sessions
  PROVE  /\ create'[s] \in {"new", "checked"} => Phases'[s] = "new"
         /\ create'[s] \in {"made", "rejected"} => Phases'[s] = "ready"
         /\ create'[s] = "gone" => Phases'[s] = "gone"
         /\ create'[s] = "created" =>
              Phases'[s] = IF s \notin closing' THEN "open"
                           ELSE IF cleanup'[s] = "done" THEN "over" ELSE "closing"
<1>1. Phases'[s] = Phase(s)'
  BY DEF Phases
<1>2. create'[s] \in {"new", "checked", "made", "created", "rejected", "gone"}
  BY DEF TypeOK, CreateState
<1> QED BY <1>1, <1>2 DEF Phase

\* A step that changes one session, and one that changes none.
LEMMA PhaseMoves ==
  ASSUME NEW s \in Sessions, \A t \in Sessions : t # s => Phase(t)' = Phase(t)
  PROVE  Phases' = [Phases EXCEPT ![s] = Phases'[s]]
<1>1. /\ Phases' = [t \in Sessions |-> Phase(t)'] /\ Phases = [t \in Sessions |-> Phase(t)]
  BY DEF Phases
<1> QED BY <1>1

LEMMA PhaseStays ==
  ASSUME UNCHANGED <<create, closing, cleanup>>
  PROVE  Phases' = Phases
<1>1. \A t : Phase(t)' = Phase(t)
  BY DEF Phase
<1> QED BY <1>1 DEF Phases

\* One session goes from one phase to another.
LEMMA LifeGoes ==
  ASSUME up, UNCHANGED up, NEW s \in Sessions, NEW from, NEW to,
         \A t \in Sessions : t # s => Phase(t)' = Phase(t),
         Phases[s] = from, Phases'[s] = to
  PROVE  Lifecycle!Goes(s, from, to) /\ UNCHANGED up
  BY PhaseMoves DEF Lifecycle!Goes, Phases

\* What no step of the session's life changes is invisible.
LEMMA LifeStays ==
  ASSUME UNCHANGED <<up, create, closing, cleanup, final, live, stuck>>
  PROVE  UNCHANGED Lifecycle!vars
  BY PhaseStays DEF Lifecycle!vars, Phases

\* Create.
LEMMA CreateRefines ==
  ASSUME RegistryInv, NEW s \in Sessions, CreateChecks(s) \/ CreateStep(s)
  PROVE  Lifecycle!Next \/ UNCHANGED Lifecycle!vars
<1> TypeOK /\ TypeOK' /\ Life(s)
  <2>1. [Next]_vars
    BY DEF Next, Requests
  <2> QED BY <2>1, TypeStep DEF RegistryInv
<1> USE DEF lifeVars, tableVars, seenVars, dirVars
<1>0. /\ up /\ UNCHANGED <<up, final, closing, cleanup>>
      /\ \E to : create' = [create EXCEPT ![s] = to]
  BY DEF CreateChecks, CreateStep, CreateMakesDirectory, CreateRegisters,
         CreateCleansUp, CreateGoes
<1>1. \A t \in Sessions : t # s => Phase(t)' = Phase(t)
  BY <1>0 DEF Phase, TypeOK
<1>2. CASE CreateChecks(s)
  <2>1. create[s] = "new" /\ create'[s] = "checked" /\ UNCHANGED <<live, stuck>>
    BY <1>2 DEF CreateChecks, CreateGoes, TypeOK
  <2>2. Phases'[s] = Phases[s]
    BY <2>1, PhaseOf, PhaseAfter
  <2>3. Phases' = Phases
    BY <1>1, <2>2, PhaseMoves DEF Phases
  <2> QED BY <1>0, <2>1, <2>3 DEF Lifecycle!vars, Phases
<1>3. CASE CreateMakesDirectory(s)
  <2>1. /\ create[s] = "checked"
        /\ \/ create'[s] = "made" /\ live' = live \cup {s} /\ UNCHANGED stuck
           \/ create'[s] = "gone" /\ UNCHANGED <<live, stuck>>
           \/ /\ create'[s] = "gone"
              /\ live' = live \cup {s} /\ stuck' = stuck \cup {s}
    BY <1>3 DEF CreateMakesDirectory, CreateGoes, TypeOK
  <2>2. Lifecycle!Prepare(s)
    BY <1>0, <1>1, <2>1, PhaseOf, PhaseAfter, LifeGoes DEF Lifecycle!Prepare
  <2> QED BY <2>2 DEF Lifecycle!Next
<1>4. CASE CreateRegisters(s)
  <2>1. /\ create[s] = "made" /\ create'[s] \in {"created", "rejected"}
        /\ UNCHANGED <<live, stuck>>
    BY <1>4 DEF CreateRegisters, CreateGoes, TypeOK
  <2>2. CASE create'[s] = "created"
    <3>1. s \notin closing'
      BY <1>0, <2>1 DEF Life
    <3>2. Lifecycle!Register(s)
      BY <1>0, <1>1, <2>1, <2>2, <3>1, PhaseOf, PhaseAfter, LifeGoes DEF Lifecycle!Register
    <3> QED BY <3>2 DEF Lifecycle!Next
  <2>3. CASE create'[s] = "rejected"
    <3>1. Phases'[s] = Phases[s]
      BY <2>1, <2>3, PhaseOf, PhaseAfter
    <3>2. Phases' = Phases
      BY <1>1, <3>1, PhaseMoves DEF Phases
    <3> QED BY <1>0, <2>1, <3>2 DEF Lifecycle!vars, Phases
  <2> QED BY <2>1, <2>2, <2>3
<1>5. CASE CreateCleansUp(s)
  <2>1. /\ create[s] = "rejected" /\ create'[s] = "gone"
        /\ \/ live' = live \ {s} /\ UNCHANGED stuck
           \/ stuck' = stuck \cup {s} /\ UNCHANGED live
    BY <1>5 DEF CreateCleansUp, CreateGoes, TypeOK
  <2>2. Lifecycle!Reject(s)
    BY <1>0, <1>1, <2>1, PhaseOf, PhaseAfter, LifeGoes DEF Lifecycle!Reject, Lifecycle!Removes
  <2> QED BY <2>2 DEF Lifecycle!Next
<1> QED BY <1>2, <1>3, <1>4, <1>5 DEF CreateStep

\* startClose, by whomever: the first one closes.
LEMMA CloseRefines ==
  ASSUME RegistryInv, RegistryInv', up, NEW s \in Sessions, create[s] = "created",
         NEW result \in {"closed", "expired"}, StartClose(s, result),
         UNCHANGED <<up, create, live, stuck>>
  PROVE  Lifecycle!Next \/ UNCHANGED Lifecycle!vars
<1> TypeOK /\ TypeOK'
  BY DEF RegistryInv
<1>1. CASE s \in closing
  BY <1>1, LifeStays DEF StartClose
<1>2. CASE s \notin closing
  <2>1. /\ s \in closing' /\ final' = [final EXCEPT ![s] = result]
        /\ cleanup'[s] = "quiet"
        /\ \A t \in Sessions : t # s => /\ t \in closing' <=> t \in closing
                                       /\ cleanup'[t] = cleanup[t]
    BY <1>2 DEF StartClose, TypeOK
  <2>2. \A t \in Sessions : t # s => Phase(t)' = Phase(t)
    BY <2>1 DEF Phase
  <2>3. Lifecycle!Close(s)
    BY <1>2, <2>1, <2>2, PhaseOf, PhaseAfter, LifeGoes DEF Lifecycle!Close
  <2> QED BY <2>3 DEF Lifecycle!Next
<1> QED BY <1>1, <1>2

\* The cleanup: its move removes the directory, and its last step ends the close.
LEMMA CleanupRefines ==
  ASSUME RegistryInv, RegistryInv', NEW s \in Sessions, CleanupStep(s)
  PROVE  Lifecycle!Next \/ UNCHANGED Lifecycle!vars
<1> TypeOK /\ TypeOK' /\ Life(s)
  BY DEF RegistryInv
<1> USE DEF lifeVars, seenVars, dirVars
<1>0. /\ up /\ UNCHANGED <<up, create, closing, final>> /\ cleanup[s] \notin {"none", "done"}
      /\ \E to : cleanup' = [cleanup EXCEPT ![s] = to]
      /\ ~CleanupFinishes(s) => cleanup'[s] # "done"
  BY DEF CleanupStep, CleanupQuiet, CleanupMoves, CleanupDeletes, CleanupUnregisters,
         CleanupFinishes, CleanupGoes, TypeOK
<1>1. \A t \in Sessions : t # s => Phase(t)' = Phase(t)
  BY <1>0 DEF Phase, TypeOK
<1>2. create[s] = "created" /\ s \in closing /\ Phases[s] = "closing"
  BY <1>0, PhaseOf, PhaseAfter DEF Life
<1>3. ~CleanupFinishes(s) => Phases' = Phases
  <2>1. ~CleanupFinishes(s) => Phases'[s] = Phases[s]
    BY <1>0, <1>2, PhaseOf, PhaseAfter
  <2> QED BY <1>1, <2>1, PhaseMoves DEF Phases
<1>4. CASE CleanupMoves(s)
  <2>1. \/ live' = live \ {s} /\ UNCHANGED stuck
        \/ stuck' = stuck \cup {s} /\ UNCHANGED live
    BY <1>4 DEF CleanupMoves
  <2>2. ~CleanupFinishes(s)
    BY <1>4 DEF CleanupMoves, CleanupFinishes
  <2>3. Lifecycle!Remove(s)
    BY <1>0, <1>2, <1>3, <2>1, <2>2 DEF Lifecycle!Remove, Lifecycle!Removes, Phases
  <2> QED BY <2>3 DEF Lifecycle!Next
<1>5. CASE CleanupFinishes(s)
  <2>1. /\ cleanup[s] = "finish" /\ cleanup'[s] = "done" /\ UNCHANGED <<live, stuck>>
    BY <1>5 DEF CleanupFinishes, CleanupGoes, TypeOK
  <2>2. Phases'[s] = "over" /\ s \notin live \ stuck
    BY <1>0, <1>2, <2>1, PhaseOf, PhaseAfter DEF Life
  <2>3. Lifecycle!End(s)
    BY <1>0, <1>1, <1>2, <2>1, <2>2, LifeGoes DEF Lifecycle!End
  <2> QED BY <2>3 DEF Lifecycle!Next
<1>6. CASE CleanupQuiet(s) \/ CleanupDeletes(s) \/ CleanupUnregisters(s)
  <2>1. UNCHANGED <<live, stuck>> /\ ~CleanupFinishes(s)
    BY <1>6 DEF CleanupQuiet, CleanupDeletes, CleanupUnregisters, CleanupFinishes
  <2> QED BY <1>0, <1>3, <2>1 DEF Lifecycle!vars, Phases
<1> QED BY <1>4, <1>5, <1>6 DEF CleanupStep

\* A crash, and the start after it.
LEMMA ProcessRefines ==
  ASSUME RegistryInv, RegistryInv', Exit \/ Start
  PROVE  Lifecycle!Next
<1> TypeOK /\ TypeOK'
  BY DEF RegistryInv
<1>1. CASE Exit
  <2> DEFINE unborn == {s \in Sessions : create[s] = "new"}
  <2>1. ASSUME NEW s \in Sessions
        PROVE  /\ Phase(s)' = IF s \in unborn THEN "new" ELSE "gone"
               /\ s \in unborn => Phase(s) = "new"
    <3>1. create'[s] = IF create[s] = "new" THEN "new" ELSE "gone"
      BY <1>1 DEF Exit
    <3> QED BY <3>1 DEF Phase
  <2>2. unborn \in SUBSET {s \in Sessions : Phases[s] = "new"}
    BY <2>1 DEF Phases
  <2>3. Phases' = [s \in Sessions |-> IF s \in unborn THEN "new" ELSE "gone"]
    BY <2>1 DEF Phases
  <2>4. /\ up /\ up' = FALSE /\ final' = [s \in Sessions |-> "open"]
        /\ stuck' = {} /\ UNCHANGED live
    BY <1>1 DEF Exit
  <2> HIDE DEF unborn
  <2>5. Lifecycle!Crash
    BY <2>2, <2>3, <2>4 DEF Lifecycle!Crash, Phases
  <2> QED BY <2>5 DEF Lifecycle!Next
<1>2. CASE Start
  <2>1. /\ ~up /\ up' = TRUE /\ live' \in SUBSET live /\ stuck' = live'
        /\ UNCHANGED <<create, closing, cleanup, final>>
    BY <1>2 DEF Start, CleanupOrphans, tableVars
  <2>2. Lifecycle!Restart
    BY <2>1, PhaseStays DEF Lifecycle!Restart, Phases
  <2> QED BY <2>2 DEF Lifecycle!Next
<1> QED BY <1>1, <1>2

LEMMA StepRefines ==
  ASSUME RegistryInv, RegistryInv', [Next]_vars
  PROVE  Lifecycle!Next \/ UNCHANGED Lifecycle!vars
<1> TypeOK /\ \A s \in Sessions : Life(s)
  BY DEF RegistryInv
<1> USE DEF lifeVars, tableVars, seenVars, dirVars
<1>1. ASSUME NEW s \in Sessions, Close(s)
      PROVE  Lifecycle!Next \/ UNCHANGED Lifecycle!vars
  BY <1>1, CloseRefines DEF Close, Life
<1>2. ASSUME NEW s \in Sessions, JanitorCloses(s)
      PROVE  Lifecycle!Next \/ UNCHANGED Lifecycle!vars
  <2>1. create[s] = "created"
    BY <1>2 DEF JanitorCloses, Life, Copied
  <2> QED BY <1>2, <2>1, CloseRefines DEF JanitorCloses
<1>3. ASSUME NEW s \in Sessions, ShutdownCloses(s)
      PROVE  Lifecycle!Next \/ UNCHANGED Lifecycle!vars
  <2>1. create[s] = "created"
    BY <1>3 DEF ShutdownCloses, Life, Copied
  <2> QED BY <1>3, <2>1, CloseRefines DEF ShutdownCloses
<1>4. ASSUME NEW s \in Sessions, Heartbeat(s) \/ Touch(s) \/ JanitorChecks(s)
      PROVE  UNCHANGED Lifecycle!vars
  BY <1>4, LifeStays DEF Heartbeat, Touch, JanitorChecks
<1>5. CASE \/ Tick \/ JanitorTicks \/ JanitorSweeps \/ JanitorStops
           \/ ShutdownRejects \/ ShutdownCancels \/ ShutdownWaits \/ ShutdownReturns
           \/ UNCHANGED vars
  BY <1>5, LifeStays
     DEF Tick, JanitorTicks, JanitorSweeps, JanitorStops, ShutdownRejects,
         ShutdownCancels, ShutdownWaits, ShutdownReturns, vars
<1> QED
  BY <1>1, <1>2, <1>3, <1>4, <1>5, CreateRefines, CleanupRefines, ProcessRefines
     DEF Next, Requests, JanitorStep, ShutdownStep

\* Whatever clients, the janitor, Shutdown and crashes do, every session lives as
\* SessionLifecycle says.
THEOREM ImplementsLifecycle == Spec => LifecycleSpec
<1>1. Init => Lifecycle!Init
  <2> SUFFICES ASSUME Init PROVE Lifecycle!Init
    OBVIOUS
  <2>1. \A s \in Sessions : Phase(s) = "new"
    BY DEF Init, Phase
  <2> QED BY <2>1 DEF Init, Lifecycle!Init
<1>2. RegistryInv /\ RegistryInv' /\ [Next]_vars => [Lifecycle!Next]_(Lifecycle!vars)
  BY StepRefines
<1> QED BY <1>1, <1>2, Invariant, PTL DEF Spec, LifecycleSpec, Lifecycle!Spec
=============================================================================
