------------------------- MODULE PlaybackSessionProofs -------------------------
(***************************************************************************)
(* What PlaybackSession promises, for any number of generations and        *)
(* readers, in five parts: types, the store, the timeline with the         *)
(* throttle, the readers, and the contract.                                *)
(***************************************************************************)
EXTENDS PlaybackSessionInvariant, FiniteSetTheorems, TLAPS

----------------------------------------------------------------------------
(***************************************************************************)
(* Type correctness of PlaybackSession, for any number of generations and  *)
(* readers: the lemmas about types that the other proofs build on.         *)
(***************************************************************************)

(* What the assumption on the constants says about the ranges in TypeOK.   *)
LEMMA GenRange ==
  /\ 0 \in 0..MaxGen /\ Gen \subseteq 0..MaxGen /\ Gen \subseteq Nat
  /\ 0 \notin Gen /\ 1 \in Gen
BY PlaybackSessionAssumption DEF Gen

LEMMA AttemptRange == 0 \in 0..Attempts /\ 1 \in 0..Attempts
BY PlaybackSessionAssumption

(* Every method of readerGate leaves a gate.                               *)
LEMMA GateTyping ==
  ASSUME NEW x \in GateType
  PROVE  /\ Acquired(x) \in GateType
         /\ Released(x) \in GateType
         /\ ClosedGate(x) \in GateType
<1> USE DEF GateType
<1>1. Acquired(x) \in GateType
  BY DEF Acquired
<1>2. Released(x) \in GateType
  <2>1. CASE x.readers = 0
    BY <2>1 DEF Released
  <2>2. CASE x.readers # 0
    <3>1. x.readers - 1 \in Nat
      BY <2>2
    <3>2. (x.done \/ (x.closing /\ x.readers = 1)) \in BOOLEAN
      OBVIOUS
    <3> QED BY <2>2, <3>1, <3>2 DEF Released
  <2> QED BY <2>1, <2>2
<1>3. ClosedGate(x) \in GateType
  BY DEF ClosedGate
<1> QED BY <1>1, <1>2, <1>3

(* A session that starts to close stays well typed.                        *)
LEMMA StartCloseTyping ==
  ASSUME TypeOK, NEW result \in {"closed", "expired"}, StartClose(result)
  PROVE  /\ state' \in SessionState /\ closing' \in BOOLEAN
         /\ cleanup' \in CleanupType /\ final' \in {"closed", "expired"}
<1> USE DEF TypeOK
<1>1. CASE closing
  BY <1>1 DEF StartClose
<1>2. CASE ~closing
  <2>1. cleanup' = [cleanup EXCEPT !.pc = "snapshot"]
    BY <1>2 DEF StartClose
  <2>2. cleanup' \in CleanupType
    BY <2>1 DEF CleanupType, CleanupState
  <2> QED BY <1>2, <2>2 DEF StartClose, SessionState
<1> QED BY <1>1, <1>2

(* The marks a failed generation leaves.                                   *)
LEMMA MarkFailedTyping ==
  ASSUME TypeOK, NEW g \in Gen, MarkFailed(g)
  PROVE  /\ state' \in SessionState /\ pending' \in 0..MaxGen
         /\ genState' \in [Gen -> GenerationState]
         /\ cancelled' \in SUBSET Gen
         /\ process' \in SUBSET Gen /\ suspended' \in SUBSET Gen
<1> USE DEF TypeOK
<1>1. CASE ~Updatable(g)
  BY <1>1 DEF MarkFailed, throttleVars
<1>2. CASE Updatable(g)
  BY <1>2, GenRange DEF MarkFailed, PendingWithout, SessionState,
     GenerationState
<1> QED BY <1>1, <1>2

(* The switch of the timeline.                                             *)
LEMMA ActivateTyping ==
  ASSUME TypeOK, NEW g \in Gen, Activate(g)
  PROVE  /\ state' \in SessionState
         /\ current' \in 0..MaxGen /\ pending' \in 0..MaxGen
         /\ genState' \in [Gen -> GenerationState]
         /\ retire' \in [Gen -> RetireState]
BY GenRange DEF TypeOK, Activate, SessionState, GenerationState, RetireState

LEMMA ResumeTyping ==
  ASSUME TypeOK, NEW g \in Gen, Resume(g)
  PROVE  /\ suspended' \in SUBSET Gen
         /\ encoder' \in [Gen -> {"none", "running", "stopped"}]
BY DEF TypeOK, Resume

(* Every step keeps the types.                                             *)
LEMMA HandlersTyping == ASSUME TypeOK, Handlers PROVE TypeOK'
<1> USE DEF TypeOK, sessionVars, genVars, throttleVars, gateVars, fileVars,
      runnerVars, cleanupVars, clientVars
<1>1. CASE BeginGeneration
  <2>1. counter + 1 \in Gen
    BY <1>1, PlaybackSessionAssumption DEF BeginGeneration, Gen
  <2>2. counter + 1 \in 0..MaxGen
    BY <2>1, GenRange
  <2> QED BY <1>1, <2>1, <2>2 DEF BeginGeneration, RunnerState, GenerationState
<1>2. CASE Heartbeat
  BY <1>2 DEF Heartbeat, SessionState
<1>3. CASE ReconcileThrottle
  <2>1. current \in Gen
    BY <1>3 DEF ReconcileThrottle
  <2> QED BY <1>3, <2>1, ResumeTyping DEF ReconcileThrottle
<1>4. CASE Close
  BY <1>4, StartCloseTyping DEF Close, CloseUnchanged
<1>5. ASSUME NEW g \in Gen, StartRunner(g) PROVE TypeOK'
  BY <1>5, GateTyping, AttemptRange DEF StartRunner, RunnerState
<1>6. ASSUME NEW g \in Gen, StartRejected(g) PROVE TypeOK'
  BY <1>6 DEF StartRejected, RunnerState
<1>7. ASSUME NEW g \in Gen, StartFailed(g) PROVE TypeOK'
  <2>1. CASE g = 1
    BY <1>7, <2>1, StartCloseTyping DEF StartFailed, RunnerState
  <2>2. CASE g # 1
    BY <1>7, <2>2, MarkFailedTyping DEF StartFailed, RunnerState
  <2> QED BY <2>1, <2>2
<1>8. ASSUME NEW r \in Readers, NEW g \in Gen, AcquireReader(r, g)
      PROVE  TypeOK'
  BY <1>8, GateTyping, GenRange DEF AcquireReader
<1>9. ASSUME NEW r \in Readers, ReleaseReader(r) PROVE TypeOK'
  BY <1>9, GateTyping, GenRange DEF ReleaseReader
<1> QED BY <1>1, <1>2, <1>3, <1>4, <1>5, <1>6, <1>7, <1>8, <1>9 DEF Handlers

LEMMA SweepsTyping == ASSUME TypeOK, Sweeps PROVE TypeOK'
<1> USE DEF TypeOK, sessionVars, genVars, throttleVars, gateVars, fileVars,
      runnerVars, cleanupVars, clientVars
<1>1. CASE Expire
  BY <1>1, StartCloseTyping DEF Expire, CloseUnchanged
<1>2. CASE ShutdownCancels
  BY <1>2 DEF ShutdownCancels
<1>3. CASE ShutdownCloses
  BY <1>3, StartCloseTyping DEF ShutdownCloses, CloseUnchanged
<1> QED BY <1>1, <1>2, <1>3 DEF Sweeps

LEMMA RunnerTyping ==
  ASSUME TypeOK, NEW g \in Gen, RunnerStep(g) PROVE TypeOK'
<1> USE DEF TypeOK, sessionVars, genVars, throttleVars, gateVars, fileVars,
      runnerVars, cleanupVars, clientVars, RunnerGoes, RunnerState
<1>1. CASE AttemptRefused(g)
  BY <1>1 DEF AttemptRefused
<1>2. CASE AttemptBegins(g)
  BY <1>2 DEF AttemptBegins, WatcherState
<1>3. CASE EncoderStarts(g)
  BY <1>3 DEF EncoderStarts
<1>4. CASE EncoderRefused(g)
  BY <1>4 DEF EncoderRefused
<1>5. CASE RecordStarted(g)
  BY <1>5 DEF RecordStarted
<1>6. CASE EncoderJoined(g)
  BY <1>6 DEF EncoderJoined
<1>7. CASE WatcherJoined(g)
  BY <1>7 DEF WatcherJoined
<1>8. CASE RunnerMarksReady(g)
  BY <1>8 DEF RunnerMarksReady
<1>9. CASE RunnerActivates(g)
  <2>1. CASE CanActivate(g)
    BY <1>9, <2>1, ActivateTyping DEF RunnerActivates
  <2>2. CASE ~CanActivate(g)
    BY <1>9, <2>2 DEF RunnerActivates
  <2> QED BY <2>1, <2>2
<1>10. CASE FinishPublished(g)
  BY <1>10, MarkFailedTyping DEF FinishPublished
<1>11. CASE FallBack(g)
  <2>1. attempt[g] + 1 \in 0..Attempts
    <3>1. attempt[g] \in 0..Attempts /\ attempt[g] < Attempts
      BY <1>11 DEF FallBack, CanFallBack
    <3> QED BY <3>1, PlaybackSessionAssumption
  <2> QED BY <1>11, <2>1 DEF FallBack
<1>12. CASE GiveUp(g)
  BY <1>12 DEF GiveUp
<1>13. CASE ReportFailed(g)
  BY <1>13, MarkFailedTyping DEF ReportFailed
<1>14. CASE ReleaseProcess(g)
  BY <1>14, GateTyping DEF ReleaseProcess
<1> QED BY <1>1, <1>2, <1>3, <1>4, <1>5, <1>6, <1>7, <1>8, <1>9, <1>10,
         <1>11, <1>12, <1>13, <1>14 DEF RunnerStep

LEMMA EncoderTyping ==
  ASSUME TypeOK, NEW g \in Gen, EncoderStep(g) PROVE TypeOK'
<1> USE DEF TypeOK, sessionVars, genVars, throttleVars, gateVars, fileVars,
      runnerVars, cleanupVars, clientVars
<1>1. CASE WriteSegment(g)
  BY <1>1 DEF WriteSegment
<1>2. CASE EncoderEnds(g)
  BY <1>2 DEF EncoderEnds
<1>3. CASE StoppedEncoderKilled(g)
  BY <1>3 DEF StoppedEncoderKilled
<1> QED BY <1>1, <1>2, <1>3 DEF EncoderStep

LEMMA WatcherTyping ==
  ASSUME TypeOK, NEW g \in Gen, WatcherStep(g) PROVE TypeOK'
<1> USE DEF TypeOK, sessionVars, genVars, throttleVars, gateVars, fileVars,
      runnerVars, cleanupVars, clientVars, WatcherGoes, WatcherState
<1>1. CASE WatcherSeesSegment(g)
  BY <1>1 DEF WatcherSeesSegment
<1>2. CASE WatcherStops(g)
  BY <1>2 DEF WatcherStops
<1>3. CASE WatcherMarksReady(g)
  BY <1>3 DEF WatcherMarksReady
<1>4. CASE WatcherActivates(g)
  <2>1. CASE CanActivate(g)
    BY <1>4, <2>1, ActivateTyping DEF WatcherActivates
  <2>2. CASE ~CanActivate(g)
    BY <1>4, <2>2 DEF WatcherActivates
  <2> QED BY <2>1, <2>2
<1> QED BY <1>1, <1>2, <1>3, <1>4 DEF WatcherStep

LEMMA RetireTyping ==
  ASSUME TypeOK, NEW g \in Gen, RetireStep(g) PROVE TypeOK'
<1> USE DEF TypeOK, sessionVars, genVars, throttleVars, gateVars, fileVars,
      runnerVars, cleanupVars, clientVars, RetireGoes, RetireState
<1>1. CASE RetireCancels(g)
  BY <1>1, GateTyping, ResumeTyping DEF RetireCancels
<1>2. CASE RetireStopsReaders(g)
  BY <1>2, GateTyping DEF RetireStopsReaders
<1>3. CASE RetireDrained(g)
  BY <1>3 DEF RetireDrained
<1>4. CASE RetireRemoves(g)
  BY <1>4 DEF RetireRemoves, GenerationState
<1> QED BY <1>1, <1>2, <1>3, <1>4 DEF RetireStep

LEMMA CleanupTyping == ASSUME TypeOK, CleanupStep PROVE TypeOK'
<1> USE DEF TypeOK, sessionVars, genVars, throttleVars, gateVars, fileVars,
      runnerVars, cleanupVars, clientVars
<1>1. CASE CleanupSnapshots
  <2>1. cleanup' = [cleanup EXCEPT !.pc = "exit", !.snapshot = generations,
                                   !.todo = generations]
    BY <1>1 DEF CleanupSnapshots
  <2>2. cleanup' \in CleanupType
    BY <2>1 DEF CleanupType, CleanupState
  <2> QED BY <1>1, <2>2 DEF CleanupSnapshots
<1>2. CASE CleanupProcessesGone
  <2>1. cleanup' = [cleanup EXCEPT !.pc = "drain", !.todo = cleanup.snapshot]
    BY <1>2 DEF CleanupProcessesGone
  <2>2. cleanup' \in CleanupType
    BY <2>1 DEF CleanupType, CleanupState
  <2> QED BY <1>2, <2>2 DEF CleanupProcessesGone
<1>3. CASE CleanupTimesOut
  <2>1. cleanup' \in CleanupType
    BY <1>3 DEF CleanupTimesOut, CleanupType
  <2> QED BY <1>3, <2>1 DEF CleanupTimesOut
<1>4. ASSUME NEW to \in CleanupState, cleanup' = [cleanup EXCEPT !.pc = to]
      PROVE  cleanup' \in CleanupType
  BY <1>4 DEF CleanupType
<1>5. CASE CleanupDrained
  BY <1>4, <1>5 DEF CleanupDrained, CleanupState
<1>6. CASE CleanupRemoves
  BY <1>4, <1>6 DEF CleanupRemoves, CleanupState, GenerationState
<1>7. CASE CleanupUnregisters
  BY <1>4, <1>7 DEF CleanupUnregisters, CleanupState
<1>8. CASE CleanupFinishes
  BY <1>4, <1>8 DEF CleanupFinishes, CleanupState, SessionState
<1>9. ASSUME NEW g \in Gen, CleanupStopsProcess(g) PROVE TypeOK'
  <2>1. cleanup' \in CleanupType
    BY <1>9 DEF CleanupStopsProcess, CleanupType
  <2> QED BY <1>9, <2>1, GateTyping, ResumeTyping DEF CleanupStopsProcess
<1>10. ASSUME NEW g \in Gen, CleanupStopsReaders(g) PROVE TypeOK'
  <2>1. cleanup' \in CleanupType
    BY <1>10 DEF CleanupStopsReaders, CleanupType
  <2> QED BY <1>10, <2>1, GateTyping DEF CleanupStopsReaders
<1> QED BY <1>1, <1>2, <1>3, <1>5, <1>6, <1>7, <1>8, <1>9, <1>10
         DEF CleanupStep

LEMMA InitTyping == ASSUME Init PROVE TypeOK
<1> USE GenRange DEF Init
<1>1. NewGate \in GateType
  BY DEF NewGate, GateType
<1>2. processGate \in [Gen -> GateType] /\ gate \in [Gen -> GateType]
  BY <1>1
<1>3. cleanup \in CleanupType
  BY DEF CleanupType, CleanupState
<1>4. /\ genState \in [Gen -> GenerationState]
      /\ runner \in [Gen -> RunnerState] /\ watcher \in [Gen -> WatcherState]
      /\ attempt \in [Gen -> 0..Attempts] /\ retire \in [Gen -> RetireState]
  BY AttemptRange DEF GenerationState, RunnerState, WatcherState, RetireState
<1>5. current \in 0..MaxGen /\ pending \in 0..MaxGen /\ counter \in Gen
  OBVIOUS
<1> QED BY <1>2, <1>3, <1>4, <1>5 DEF TypeOK, SessionState

LEMMA NextTyping == ASSUME TypeOK, [Next]_vars PROVE TypeOK'
<1>1. CASE Next
  BY <1>1, HandlersTyping, SweepsTyping, RunnerTyping, EncoderTyping,
     WatcherTyping, RetireTyping, CleanupTyping DEF Next
<1>2. CASE UNCHANGED vars
  BY <1>2 DEF vars, TypeOK, sessionVars, genVars, throttleVars, gateVars,
     fileVars, runnerVars, cleanupVars, clientVars
<1> QED BY <1>1, <1>2

(* Every variable of a session keeps its type, whatever its goroutines do. *)
THEOREM TypeCorrect == Spec => []TypeOK
BY InitTyping, NextTyping, PTL DEF Spec

----------------------------------------------------------------------------
(***************************************************************************)
(* cleanup.go calls the end of every process "a hard filesystem safety     *)
(* boundary". This module proves that the boundary holds for any number of *)
(* generations: StoreInv is inductive, and implies ProcessBoundary and     *)
(* QuietAfterCleanup.                                                      *)
(***************************************************************************)

(* startClose hands the session to cleanupSession, which has waited for     *)
(* nothing yet.                                                            *)
LEMMA StartCloseWaits ==
  ASSUME TypeOK, CleanupWaited, NEW result, StartClose(result),
         UNCHANGED <<counter, processGate>>
  PROVE  CleanupWaited'
<1>1. CASE closing
  BY <1>1 DEF StartClose, CleanupWaited, Waited, Begun, Drained
<1>2. CASE ~closing
  <2>1. closing' /\ cleanup'.pc = "snapshot"
    BY <1>2 DEF StartClose, TypeOK, CleanupType
  <2> QED BY <2>1 DEF CleanupWaited, Waited
<1> QED BY <1>1, <1>2

(* MarkGenerationFailed can only clear the pending generation.             *)
LEMMA MarkFailedPending ==
  ASSUME NEW g, MarkFailed(g) PROVE pending' \in {pending, 0}
BY DEF MarkFailed, PendingWithout

(* No step lets a runner into a directory that may go, or a directory go    *)
(* under a runner: StoreInv is inductive.                                  *)
LEMMA HandlersStore == ASSUME TypeOK, StoreInv, Handlers PROVE StoreInv'
<1> USE DEF TypeOK, StoreInv, GateCountsRunner, EncoderOwned, Unbegun,
      UnlistedDrained, RetireWaited, Begun, Drained, Running, GateType,
      sessionVars, genVars, throttleVars, gateVars, fileVars, runnerVars,
      cleanupVars, clientVars
<1>1. CASE BeginGeneration
  <2> DEFINE b == counter + 1
  <2>1. /\ b \in Gen /\ ~Begun(b) /\ counter' = b /\ pending' = b
        /\ current' = current /\ current <= b /\ b <= b
    BY <1>1, PlaybackSessionAssumption DEF BeginGeneration, Gen
  <2>2. \A g \in Gen : Begun(g)' <=> Begun(g) \/ g = b
    BY <2>1, GenRange
  <2>3. /\ runner[b] = "none" /\ runner' = [runner EXCEPT ![b] = "starting"]
        /\ ~closing
        /\ UNCHANGED <<closing, retire, processGate, encoder, cleanup,
                       readyPublished>>
        /\ generations' = generations \cup {b} /\ dir' = dir \cup {b}
    BY <1>1, <2>1 DEF BeginGeneration, Open
  <2> HIDE DEF b, Begun
  <2>4. GateCountsRunner' /\ EncoderOwned'
    BY <2>1, <2>3
  <2>5. Unbegun'
    BY <2>1, <2>2, <2>3 DEF Begun
  <2>6. UnlistedDrained' /\ RetireWaited'
    BY <2>1, <2>2, <2>3
  <2>7. CleanupWaited'
    BY <2>3 DEF CleanupWaited, Waited
  <2> QED BY <2>4, <2>5, <2>6, <2>7
<1>2. CASE Heartbeat
  BY <1>2 DEF Heartbeat, CleanupWaited, Waited
<1>3. CASE ReconcileThrottle
  BY <1>3 DEF ReconcileThrottle, Resume, CleanupWaited, Waited
<1>4. CASE Close
  BY <1>4, StartCloseWaits DEF Close, CloseUnchanged
<1>5. ASSUME NEW g \in Gen, StartRunner(g) PROVE StoreInv'
  BY <1>5 DEF StartRunner, Acquired, CanAcquire, CleanupWaited, Waited
<1>6. ASSUME NEW g \in Gen, StartRejected(g) PROVE StoreInv'
  BY <1>6 DEF StartRejected, CleanupWaited, Waited
<1>7. ASSUME NEW g \in Gen, StartFailed(g) PROVE StoreInv'
  <2>1. /\ runner[g] = "startFailed"
        /\ runner' = [runner EXCEPT ![g] = "done"]
        /\ UNCHANGED <<current, counter, generations, dir, processGate,
                       encoder, readyPublished, retire>>
    BY <1>7 DEF StartFailed
  <2>2. CleanupWaited' /\ pending' \in {pending, 0}
    <3>1. CASE g = 1
      BY <1>7, <3>1, StartCloseWaits DEF StartFailed
    <3>2. CASE g # 1
      BY <1>7, <3>2, MarkFailedPending DEF StartFailed, CleanupWaited, Waited
    <3> QED BY <3>1, <3>2
  <2> QED BY <2>1, <2>2, GenRange
<1>8. ASSUME NEW r \in Readers, NEW g \in Gen, AcquireReader(r, g)
      PROVE  StoreInv'
  BY <1>8 DEF AcquireReader, CleanupWaited, Waited
<1>9. ASSUME NEW r \in Readers, ReleaseReader(r) PROVE StoreInv'
  BY <1>9 DEF ReleaseReader, CleanupWaited, Waited
<1> QED BY <1>1, <1>2, <1>3, <1>4, <1>5, <1>6, <1>7, <1>8, <1>9 DEF Handlers

LEMMA SweepsStore == ASSUME TypeOK, StoreInv, Sweeps PROVE StoreInv'
<1> USE DEF StoreInv, GateCountsRunner, EncoderOwned, Unbegun,
      UnlistedDrained, RetireWaited, Begun, Drained, sessionVars, genVars,
      throttleVars, gateVars, fileVars, runnerVars, cleanupVars, clientVars
<1>1. CASE Expire
  BY <1>1, StartCloseWaits DEF Expire, CloseUnchanged
<1>2. CASE ShutdownCancels
  BY <1>2 DEF ShutdownCancels, CleanupWaited, Waited
<1>3. CASE ShutdownCloses
  BY <1>3, StartCloseWaits DEF ShutdownCloses, CloseUnchanged
<1> QED BY <1>1, <1>2, <1>3 DEF Sweeps

(* What an activation does to the facts of StoreInv: it retires an older   *)
(* generation that has begun, and no other.                                *)
LEMMA ActivateStore ==
  ASSUME TypeOK, NEW g \in Gen, Activate(g), CanActivate(g), Unbegun
  PROVE  /\ current' = g /\ Begun(g) /\ pending' = 0
         /\ \A h \in Gen : retire'[h] \in {retire[h], "cancel"}
         /\ \A h \in Gen : ~Begun(h) => retire'[h] = retire[h]
<1>1. pending = g /\ g \in generations
  BY DEF CanActivate, Updatable
<1>2. /\ current' = g /\ pending' = 0
      /\ retire' = [h \in Gen |->
                      IF h \in generations \cap ({current} \ {g})
                        THEN "cancel" ELSE retire[h]]
  BY DEF Activate
<1>3. \A h \in Gen : ~Begun(h) => h \notin generations
  BY DEF Unbegun
<1> QED BY <1>1, <1>2, <1>3

LEMMA RunnerStore ==
  ASSUME TypeOK, StoreInv, NEW g \in Gen, RunnerStep(g) PROVE StoreInv'
<1> USE DEF TypeOK, StoreInv, GateCountsRunner, EncoderOwned, Unbegun,
      UnlistedDrained, RetireWaited, CleanupWaited, Waited, Begun, Drained,
      Running, GateType, sessionVars, genVars, throttleVars, gateVars,
      fileVars, runnerVars, cleanupVars, clientVars,
      RunnerGoes
<1>1. CASE AttemptRefused(g)
  BY <1>1 DEF AttemptRefused
<1>2. CASE AttemptBegins(g)
  BY <1>2 DEF AttemptBegins
<1>3. CASE EncoderStarts(g)
  BY <1>3 DEF EncoderStarts
<1>4. CASE EncoderRefused(g)
  BY <1>4 DEF EncoderRefused
<1>5. CASE RecordStarted(g)
  BY <1>5 DEF RecordStarted
<1>6. CASE EncoderJoined(g)
  BY <1>6 DEF EncoderJoined
<1>7. CASE WatcherJoined(g)
  BY <1>7 DEF WatcherJoined
<1>8. CASE RunnerMarksReady(g)
  <2>1. CASE Updatable(g)
    BY <1>8, <2>1 DEF RunnerMarksReady
  <2>2. CASE ~Updatable(g)
    BY <1>8, <2>2 DEF RunnerMarksReady
  <2> QED BY <2>1, <2>2
<1>9. CASE RunnerActivates(g)
  <2>1. CASE CanActivate(g)
    BY <1>9, <2>1, ActivateStore, GenRange DEF RunnerActivates
  <2>2. CASE ~CanActivate(g)
    BY <1>9, <2>2 DEF RunnerActivates
  <2> QED BY <2>1, <2>2
<1>10. CASE FinishPublished(g)
  <2>1. pending' \in {pending, 0}
    BY <1>10, MarkFailedPending DEF FinishPublished
  <2> QED BY <1>10, <2>1, GenRange DEF FinishPublished
<1>11. CASE FallBack(g)
  BY <1>11 DEF FallBack
<1>12. CASE GiveUp(g)
  BY <1>12 DEF GiveUp
<1>13. CASE ReportFailed(g)
  <2>1. pending' \in {pending, 0}
    BY <1>13, MarkFailedPending DEF ReportFailed
  <2> QED BY <1>13, <2>1, GenRange DEF ReportFailed
<1>14. CASE ReleaseProcess(g)
  BY <1>14 DEF ReleaseProcess, Released
<1> QED BY <1>1, <1>2, <1>3, <1>4, <1>5, <1>6, <1>7, <1>8, <1>9, <1>10,
         <1>11, <1>12, <1>13, <1>14 DEF RunnerStep

LEMMA EncoderStore ==
  ASSUME TypeOK, StoreInv, NEW g \in Gen, EncoderStep(g) PROVE StoreInv'
<1> USE DEF TypeOK, StoreInv, GateCountsRunner, EncoderOwned, Unbegun,
      UnlistedDrained, RetireWaited, CleanupWaited, Waited, Begun, Drained,
      Running, GateType, sessionVars, genVars, throttleVars, gateVars,
      fileVars, runnerVars, cleanupVars, clientVars
<1>1. CASE WriteSegment(g)
  BY <1>1 DEF WriteSegment
<1>2. CASE EncoderEnds(g)
  BY <1>2 DEF EncoderEnds
<1>3. CASE StoppedEncoderKilled(g)
  BY <1>3 DEF StoppedEncoderKilled
<1> QED BY <1>1, <1>2, <1>3 DEF EncoderStep

LEMMA WatcherStore ==
  ASSUME TypeOK, StoreInv, NEW g \in Gen, WatcherStep(g) PROVE StoreInv'
<1> USE DEF TypeOK, StoreInv, GateCountsRunner, EncoderOwned, Unbegun,
      UnlistedDrained, RetireWaited, CleanupWaited, Waited, Begun, Drained,
      Running, GateType, sessionVars, genVars, throttleVars, gateVars,
      fileVars, runnerVars, cleanupVars, clientVars
<1>1. CASE WatcherSeesSegment(g)
  BY <1>1 DEF WatcherSeesSegment
<1>2. CASE WatcherStops(g)
  BY <1>2 DEF WatcherStops
<1>3. CASE WatcherMarksReady(g)
  BY <1>3 DEF WatcherMarksReady
<1>4. CASE WatcherActivates(g)
  <2>1. CASE CanActivate(g)
    <3>1. readyPublished' = readyPublished \cup {g} /\ Activate(g)
      BY <1>4, <2>1 DEF WatcherActivates
    <3>2. /\ current' = g /\ Begun(g) /\ pending' = 0
          /\ \A h \in Gen : retire'[h] \in {retire[h], "cancel"}
          /\ \A h \in Gen : ~Begun(h) => retire'[h] = retire[h]
      BY <2>1, <3>1, ActivateStore
    <3> QED BY <1>4, <2>1, <3>1, <3>2, GenRange DEF WatcherActivates
  <2>2. CASE ~CanActivate(g)
    BY <1>4, <2>2 DEF WatcherActivates
  <2> QED BY <2>1, <2>2
<1> QED BY <1>1, <1>2, <1>3, <1>4 DEF WatcherStep

LEMMA RetireStore ==
  ASSUME TypeOK, StoreInv, NEW g \in Gen, RetireStep(g) PROVE StoreInv'
<1> USE DEF TypeOK, StoreInv, GateCountsRunner, EncoderOwned, Unbegun,
      UnlistedDrained, RetireWaited, CleanupWaited, Waited, Begun, Drained,
      Running, GateType, sessionVars, genVars, throttleVars, gateVars,
      fileVars, runnerVars, cleanupVars, clientVars,
      RetireGoes
<1>1. CASE RetireCancels(g)
  BY <1>1 DEF RetireCancels, Resume, ClosedGate
<1>2. CASE RetireStopsReaders(g)
  BY <1>2 DEF RetireStopsReaders
<1>3. CASE RetireDrained(g)
  BY <1>3 DEF RetireDrained
<1>4. CASE RetireRemoves(g)
  BY <1>4 DEF RetireRemoves
<1> QED BY <1>1, <1>2, <1>3, <1>4 DEF RetireStep

LEMMA CleanupStore == ASSUME TypeOK, StoreInv, CleanupStep PROVE StoreInv'
<1> USE DEF TypeOK, StoreInv, GateCountsRunner, EncoderOwned, Unbegun,
      UnlistedDrained, RetireWaited, CleanupWaited, Waited, Begun, Drained,
      Running, GateType, sessionVars, genVars, throttleVars, gateVars,
      fileVars, runnerVars, cleanupVars, clientVars
<1>1. CASE CleanupSnapshots
  BY <1>1 DEF CleanupSnapshots
<1>2. CASE CleanupProcessesGone
  BY <1>2 DEF CleanupProcessesGone
<1>3. CASE CleanupTimesOut
  BY <1>3 DEF CleanupTimesOut
<1>4. CASE CleanupDrained
  BY <1>4 DEF CleanupDrained
<1>5. CASE CleanupRemoves
  BY <1>5 DEF CleanupRemoves
<1>6. CASE CleanupUnregisters
  BY <1>6 DEF CleanupUnregisters
<1>7. CASE CleanupFinishes
  BY <1>7 DEF CleanupFinishes
<1>8. ASSUME NEW g \in Gen, CleanupStopsProcess(g) PROVE StoreInv'
  BY <1>8 DEF CleanupStopsProcess, Resume, ClosedGate
<1>9. ASSUME NEW g \in Gen, CleanupStopsReaders(g) PROVE StoreInv'
  BY <1>9 DEF CleanupStopsReaders
<1> QED BY <1>1, <1>2, <1>3, <1>4, <1>5, <1>6, <1>7, <1>8, <1>9
         DEF CleanupStep

LEMMA NextStore ==
  ASSUME TypeOK, StoreInv, [Next]_vars PROVE StoreInv'
<1>1. CASE Next
  BY <1>1, HandlersStore, SweepsStore, RunnerStore, EncoderStore,
     WatcherStore, RetireStore, CleanupStore DEF Next
<1>2. CASE UNCHANGED vars
  BY <1>2 DEF vars, StoreInv, GateCountsRunner, EncoderOwned, Unbegun,
     UnlistedDrained, RetireWaited, CleanupWaited, Waited, Begun, Drained,
     sessionVars, genVars, throttleVars, gateVars, fileVars, runnerVars,
     cleanupVars, clientVars
<1> QED BY <1>1, <1>2

LEMMA InitStore == ASSUME Init PROVE StoreInv
BY GenRange DEF Init, NewGate, StoreInv, GateCountsRunner, EncoderOwned,
   Unbegun, UnlistedDrained, RetireWaited, CleanupWaited, Waited, Begun,
   Drained, Running

(* StoreInv gives both promises about processes and files.                 *)
LEMMA StoreSafe ==
  ASSUME TypeOK, StoreInv PROVE ProcessBoundary /\ QuietAfterCleanup
<1> USE DEF StoreInv, GateCountsRunner
<1>1. ASSUME NEW g \in Gen, runner[g] \in Running
      PROVE  Begun(g) /\ ~Drained(g)
  BY <1>1 DEF Unbegun, Running
<1>2. ProcessBoundary
  BY <1>1 DEF ProcessBoundary, UnlistedDrained
<1>3. ASSUME NEW g \in Gen, cleanup.pc \in Waited
      PROVE  runner[g] \notin Running /\ encoder[g] = "none"
  BY <1>1, <1>3 DEF CleanupWaited, EncoderOwned, Running
<1>4. QuietAfterCleanup
  BY <1>3 DEF QuietAfterCleanup, Waited
<1> QED BY <1>2, <1>4

LEMMA StoreInvariant == Spec => [](TypeOK /\ StoreInv)
BY InitTyping, NextTyping, InitStore, NextStore, PTL DEF Spec

(* While a runner may write, its directory is in place: for every number   *)
(* of restarts, attempts and readers, and every interleaving of them.      *)
THEOREM ProcessBoundaryHolds == Spec => []ProcessBoundary
BY StoreInvariant, StoreSafe, PTL

(* When cleanupSession goes on to the readers no runner and no FFmpeg is    *)
(* left, and none will start.                                              *)
THEOREM QuietAfterCleanupHolds == Spec => []QuietAfterCleanup
BY StoreInvariant, StoreSafe, PTL

----------------------------------------------------------------------------
(***************************************************************************)
(* The timeline of a session: TimelineInv is inductive together with       *)
(* StoreInv, and keeps the published generation readable and the pending   *)
(* one owned. ThrottleInv adds that no encoder stays suspended behind a    *)
(* closed process gate.                                                    *)
(***************************************************************************)

(* A failure report by the runner of generation g, or by the handler that  *)
(* could not start one: it never touches a published timeline, and it      *)
(* never leaves g pending.                                                 *)
LEMMA MarkFailedTimeline ==
  ASSUME TypeOK, RegisteredUntilClosed, PendingInv, CurrentInv, NEW g \in Gen,
         MarkFailed(g), \A h \in Gen \ {g} : runner'[h] = runner[h],
         UNCHANGED <<current, closing, counter, generations, fileVars,
                     firstSegmentAt, readyPublished>>
  PROVE  PendingInv' /\ CurrentInv' /\ pending' \in {pending, 0}
<1> USE DEF TypeOK, PendingInv, CurrentInv, fileVars
<1>1. CASE ~Updatable(g)
  <2>1. closing \/ pending # g
    BY <1>1, GenRange DEF Updatable, Open, RegisteredUntilClosed
  <2> QED BY <1>1, <2>1, GenRange DEF MarkFailed
<1>2. CASE Updatable(g) /\ Published(g)
  <2>1. UNCHANGED <<pending, genState>> /\ current = g
    BY <1>2 DEF MarkFailed, Published
  <2> QED BY <2>1, GenRange
<1>3. CASE Updatable(g) /\ ~Published(g)
  <2>1. /\ genState' = [genState EXCEPT ![g] = "failed"]
        /\ pending' = IF pending = g THEN 0 ELSE pending
    BY <1>3 DEF MarkFailed, PendingWithout
  <2>2. closing \/ current # g
    BY <1>3, GenRange DEF Published
  <2> QED BY <2>1, <2>2, GenRange
<1> QED BY <1>1, <1>2, <1>3

(* An activation by a runner or watcher that has seen the first segment    *)
(* and recorded it: the new timeline is readable and the old one retires.  *)
LEMMA ActivateTimeline ==
  ASSUME TypeOK, StoreInv, TimelineInv, NEW g \in Gen, CanActivate(g),
         Activate(g), runner[g] \in Running, g \in segment \cap firstSegmentAt,
         readyPublished' = readyPublished \cup {g},
         UNCHANGED <<closing, registered, counter, generations, fileVars,
                     firstSegmentAt>>
  PROVE  /\ RegisteredUntilClosed' /\ PendingInv' /\ CurrentInv'
         /\ RetiredOlder'
<1>1. /\ ~closing /\ registered /\ pending = g /\ g \in generations
      /\ genState[g] = "preparing" /\ current < g
  BY DEF CanActivate, Updatable, Open, TimelineInv, PendingInv, TypeOK, Gen
<1>2. /\ current' = g /\ pending' = 0
      /\ genState' = [h \in Gen |->
            CASE h = g -> "running"
              [] h \in generations \cap ({current} \ {g}) -> "draining"
              [] OTHER -> genState[h]]
      /\ retire' = [h \in Gen |->
            IF h \in generations \cap ({current} \ {g}) THEN "cancel"
                                                      ELSE retire[h]]
  BY DEF Activate
<1>3. g \in dir
  BY StoreSafe DEF ProcessBoundary
<1>4. genState'[g] = "running"
  BY <1>2
<1>5. CurrentInv' /\ PendingInv' /\ RegisteredUntilClosed'
  BY <1>1, <1>2, <1>3, <1>4 DEF CurrentInv, PendingInv,
     RegisteredUntilClosed, fileVars
<1>6. RetiredOlder'
  <2> SUFFICES ASSUME NEW h \in Gen, retire'[h] # "none"
               PROVE  h < g /\ h # 0
    BY <1>2 DEF RetiredOlder
  <2>1. h < g
    <3>1. CASE h = current
      BY <1>1, <3>1
    <3>2. CASE h # current
      <4>1. retire[h] # "none"
        BY <1>2, <3>2
      <4>2. h < current
        BY <4>1 DEF TimelineInv, RetiredOlder
      <4> QED BY <1>1, <4>2, GenRange DEF TypeOK
    <3> QED BY <3>1, <3>2
  <2> QED BY <2>1, GenRange
<1> QED BY <1>5, <1>6

(* No step takes a published timeline away or leaves a pending one without *)
(* an owner: TimelineInv is inductive.                                     *)
LEMMA HandlersTimeline ==
  ASSUME TypeOK, StoreInv, TimelineInv, Handlers PROVE TimelineInv'
<1> USE DEF TypeOK, StoreInv, TimelineInv, RegisteredUntilClosed, PendingInv,
      CurrentInv, RetiredOlder, WatcherInAttempt, PublishedRunner, SegmentSeen,
      GateCountsRunner, Unbegun, UnlistedDrained, RetireWaited, CleanupWaited,
      Waited, Begun, Drained, Running, Open, Updatable, GateType, sessionVars,
      genVars, throttleVars, gateVars, fileVars, runnerVars, cleanupVars,
      clientVars
<1>1. CASE BeginGeneration
  <2> DEFINE b == counter + 1
  <2>1. /\ b \in Gen /\ counter' = b /\ pending' = b /\ b # 0
        /\ current' = current /\ current < b /\ ~Begun(b)
    BY <1>1, PlaybackSessionAssumption DEF BeginGeneration, Gen
  <2>2. /\ runner' = [runner EXCEPT ![b] = "starting"]
        /\ genState' = [genState EXCEPT ![b] = "preparing"]
        /\ generations' = generations \cup {b} /\ dir' = dir \cup {b}
        /\ ~closing /\ runner[b] = "none" /\ retire[b] = "none"
        /\ b \notin readyPublished
        /\ UNCHANGED <<closing, registered, segment, firstSegmentAt, watcher,
                       readyPublished, retire>>
    BY <1>1, <2>1 DEF BeginGeneration
  <2> HIDE DEF b, Begun
  <2>3. RegisteredUntilClosed' /\ PendingInv' /\ CurrentInv'
    BY <2>1, <2>2
  <2>4. RetiredOlder'
    BY <2>1, <2>2
  <2>5. WatcherInAttempt' /\ PublishedRunner' /\ SegmentSeen'
    BY <2>1, <2>2
  <2> QED BY <2>3, <2>4, <2>5
<1>2. CASE Heartbeat
  BY <1>2 DEF Heartbeat
<1>3. CASE ReconcileThrottle
  BY <1>3 DEF ReconcileThrottle, Resume
<1>4. CASE Close
  BY <1>4 DEF Close, StartClose, CloseUnchanged
<1>5. ASSUME NEW g \in Gen, StartRunner(g) PROVE TimelineInv'
  BY <1>5 DEF StartRunner
<1>6. ASSUME NEW g \in Gen, StartRejected(g) PROVE TimelineInv'
  BY <1>6 DEF StartRejected
<1>7. ASSUME NEW g \in Gen, StartFailed(g) PROVE TimelineInv'
  <2>1. /\ runner[g] = "startFailed"
        /\ runner' = [runner EXCEPT ![g] = "done"]
        /\ UNCHANGED <<current, counter, generations, registered, dir,
                       segment, firstSegmentAt, watcher, readyPublished,
                       retire>>
    BY <1>7 DEF StartFailed
  <2>2. /\ PendingInv' /\ CurrentInv' /\ pending' \in {pending, 0}
        /\ RegisteredUntilClosed'
    <3>1. CASE g = 1
      BY <1>7, <3>1 DEF StartFailed, StartClose
    <3>2. CASE g # 1
      <4>1. MarkFailed(g) /\ closing' = closing
        BY <1>7, <3>2 DEF StartFailed
      <4>2. \A h \in Gen \ {g} : runner'[h] = runner[h]
        BY <2>1
      <4>3. PendingInv' /\ CurrentInv' /\ pending' \in {pending, 0}
        BY <2>1, <4>1, <4>2, MarkFailedTimeline
      <4> QED BY <2>1, <4>1, <4>3
    <3> QED BY <3>1, <3>2
  <2>3. RetiredOlder'
    BY <2>1, <2>2, GenRange
  <2>4. WatcherInAttempt' /\ PublishedRunner' /\ SegmentSeen'
    BY <2>1
  <2> QED BY <2>2, <2>3, <2>4
<1>8. ASSUME NEW r \in Readers, NEW g \in Gen, AcquireReader(r, g)
      PROVE  TimelineInv'
  BY <1>8 DEF AcquireReader
<1>9. ASSUME NEW r \in Readers, ReleaseReader(r) PROVE TimelineInv'
  BY <1>9 DEF ReleaseReader
<1> QED BY <1>1, <1>2, <1>3, <1>4, <1>5, <1>6, <1>7, <1>8, <1>9 DEF Handlers

LEMMA SweepsTimeline ==
  ASSUME TypeOK, StoreInv, TimelineInv, Sweeps PROVE TimelineInv'
<1> USE DEF TypeOK, StoreInv, TimelineInv, RegisteredUntilClosed, PendingInv,
      CurrentInv, RetiredOlder, WatcherInAttempt, PublishedRunner, SegmentSeen,
      GateCountsRunner, Unbegun, UnlistedDrained, RetireWaited, CleanupWaited,
      Waited, Begun, Drained, Running, Open, Updatable, GateType, sessionVars,
      genVars, throttleVars, gateVars, fileVars, runnerVars, cleanupVars,
      clientVars
<1>1. CASE Expire
  BY <1>1 DEF Expire, StartClose, CloseUnchanged
<1>2. CASE ShutdownCancels
  BY <1>2 DEF ShutdownCancels
<1>3. CASE ShutdownCloses
  BY <1>3 DEF ShutdownCloses, StartClose, CloseUnchanged
<1> QED BY <1>1, <1>2, <1>3 DEF Sweeps

LEMMA RunnerTimeline ==
  ASSUME TypeOK, StoreInv, TimelineInv, NEW g \in Gen, RunnerStep(g)
  PROVE  TimelineInv'
<1> USE DEF TypeOK, StoreInv, TimelineInv, RegisteredUntilClosed, PendingInv,
      CurrentInv, RetiredOlder, WatcherInAttempt, PublishedRunner, SegmentSeen,
      GateCountsRunner, Unbegun, UnlistedDrained, RetireWaited, CleanupWaited,
      Waited, Begun, Drained, Running, Open, Updatable, GateType, sessionVars,
      genVars, throttleVars, gateVars, fileVars, runnerVars, cleanupVars,
      clientVars, RunnerGoes
<1>1. CASE AttemptRefused(g)
  BY <1>1 DEF AttemptRefused
<1>2. CASE AttemptBegins(g)
  <2>1. /\ runner[g] = "attempt" /\ runner' = [runner EXCEPT ![g] = "acquire"]
        /\ watcher' = [watcher EXCEPT ![g] = "polling"]
        /\ segment' \in {segment, segment \ {g}}
        /\ firstSegmentAt' \in {firstSegmentAt, firstSegmentAt \ {g}}
        /\ UNCHANGED <<sessionVars, genState, dir, readyPublished, retire>>
    BY <1>2 DEF AttemptBegins
  <2>2. g \notin readyPublished
    BY <2>1
  <2>3. PendingInv' /\ CurrentInv' /\ RetiredOlder'
    BY <2>1, <2>2
  <2>4. WatcherInAttempt' /\ PublishedRunner' /\ SegmentSeen'
    BY <2>1, <2>2
  <2> QED BY <2>1, <2>3, <2>4
<1>3. CASE EncoderStarts(g)
  BY <1>3 DEF EncoderStarts
<1>4. CASE EncoderRefused(g)
  BY <1>4 DEF EncoderRefused
<1>5. CASE RecordStarted(g)
  BY <1>5 DEF RecordStarted
<1>6. CASE EncoderJoined(g)
  BY <1>6 DEF EncoderJoined
<1>7. CASE WatcherJoined(g)
  BY <1>7 DEF WatcherJoined
<1>8. CASE RunnerMarksReady(g)
  <2>1. /\ runner[g] = "markReady"
        /\ UNCHANGED <<sessionVars, genState, fileVars, watcher,
                       readyPublished, retire>>
        /\ \/ /\ firstSegmentAt' = firstSegmentAt \cup {g}
              /\ runner' = [runner EXCEPT ![g] = "activate"]
           \/ /\ firstSegmentAt' = firstSegmentAt
              /\ runner' = [runner EXCEPT ![g] = "decide"]
    BY <1>8 DEF RunnerMarksReady
  <2>2. g \notin readyPublished /\ g \in segment
        /\ watcher[g] \notin {"polling", "markReady", "activate"}
    BY <2>1
  <2>3. PendingInv' /\ CurrentInv' /\ RetiredOlder'
    BY <2>1
  <2>4. WatcherInAttempt' /\ PublishedRunner'
    <3>1. \A h \in Gen \ {g} : runner'[h] = runner[h]
      BY <2>1
    <3>2. UNCHANGED <<watcher, readyPublished>>
      BY <2>1
    <3>3. WatcherInAttempt'
      BY <2>2, <3>1, <3>2
    <3>4. PublishedRunner'
      BY <2>2, <3>1, <3>2
    <3> QED BY <3>3, <3>4
  <2>5. SegmentSeen'
    BY <2>1, <2>2
  <2> QED BY <2>1, <2>3, <2>4, <2>5
<1>9. CASE RunnerActivates(g)
  <2>1. CASE CanActivate(g)
    <3>1. /\ runner[g] = "activate"
          /\ runner' = [runner EXCEPT ![g] = "decide"] /\ Activate(g)
          /\ readyPublished' = readyPublished \cup {g}
          /\ UNCHANGED <<closing, registered, counter, generations, fileVars,
                         firstSegmentAt, watcher>>
      BY <1>9, <2>1 DEF RunnerActivates
    <3>2. /\ RegisteredUntilClosed' /\ PendingInv' /\ CurrentInv'
          /\ RetiredOlder'
      BY <2>1, <3>1, ActivateTimeline
    <3>3. WatcherInAttempt' /\ PublishedRunner' /\ SegmentSeen'
      BY <3>1
    <3> QED BY <3>2, <3>3
  <2>2. CASE ~CanActivate(g)
    BY <1>9, <2>2 DEF RunnerActivates
  <2> QED BY <2>1, <2>2
<1>10. CASE FinishPublished(g)
  <2>1. /\ g \in readyPublished /\ runner[g] = "decide"
        /\ runner' = [runner EXCEPT ![g] = "release"]
        /\ UNCHANGED <<current, closing, counter, generations, registered,
                       fileVars, firstSegmentAt, watcher, readyPublished,
                       retire>>
    BY <1>10 DEF FinishPublished
  <2>2. MarkFailed(g) \/ UNCHANGED <<pending, genState>>
    BY <1>10 DEF FinishPublished
  <2>3. PendingInv' /\ CurrentInv' /\ pending' \in {pending, 0}
    <3>1. CASE MarkFailed(g)
      BY <2>1, <3>1, MarkFailedTimeline
    <3>2. CASE UNCHANGED <<pending, genState>>
      BY <2>1, <3>2
    <3> QED BY <2>2, <3>1, <3>2
  <2>4. RetiredOlder'
    BY <2>1, <2>3, GenRange
  <2>5. WatcherInAttempt' /\ PublishedRunner' /\ SegmentSeen'
    BY <2>1
  <2> QED BY <2>1, <2>3, <2>4, <2>5
<1>11. CASE FallBack(g)
  BY <1>11 DEF FallBack
<1>12. CASE GiveUp(g)
  BY <1>12 DEF GiveUp
<1>13. CASE ReportFailed(g)
  <2>1. /\ runner[g] = "failing" /\ runner' = [runner EXCEPT ![g] = "release"]
        /\ MarkFailed(g)
        /\ UNCHANGED <<current, closing, counter, generations, registered,
                       fileVars, firstSegmentAt, watcher, readyPublished,
                       retire>>
    BY <1>13 DEF ReportFailed
  <2>2. PendingInv' /\ CurrentInv' /\ pending' \in {pending, 0}
    BY <2>1, MarkFailedTimeline
  <2>3. RetiredOlder'
    BY <2>1, <2>2, GenRange
  <2>4. WatcherInAttempt' /\ PublishedRunner' /\ SegmentSeen'
    BY <2>1
  <2> QED BY <2>1, <2>2, <2>3, <2>4
<1>14. CASE ReleaseProcess(g)
  BY <1>14 DEF ReleaseProcess
<1> QED BY <1>1, <1>2, <1>3, <1>4, <1>5, <1>6, <1>7, <1>8, <1>9, <1>10,
         <1>11, <1>12, <1>13, <1>14 DEF RunnerStep

LEMMA EncoderTimeline ==
  ASSUME TypeOK, StoreInv, TimelineInv, NEW g \in Gen, EncoderStep(g)
  PROVE  TimelineInv'
<1> USE DEF TypeOK, StoreInv, TimelineInv, RegisteredUntilClosed, PendingInv,
      CurrentInv, RetiredOlder, WatcherInAttempt, PublishedRunner, SegmentSeen,
      GateCountsRunner, Unbegun, UnlistedDrained, RetireWaited, CleanupWaited,
      Waited, Begun, Drained, Running, Open, Updatable, GateType, sessionVars,
      genVars, throttleVars, gateVars, fileVars, runnerVars, cleanupVars,
      clientVars
<1>1. CASE WriteSegment(g)
  BY <1>1 DEF WriteSegment
<1>2. CASE EncoderEnds(g)
  BY <1>2 DEF EncoderEnds
<1>3. CASE StoppedEncoderKilled(g)
  BY <1>3 DEF StoppedEncoderKilled
<1> QED BY <1>1, <1>2, <1>3 DEF EncoderStep

LEMMA WatcherTimeline ==
  ASSUME TypeOK, StoreInv, TimelineInv, NEW g \in Gen, WatcherStep(g)
  PROVE  TimelineInv'
<1> USE DEF TypeOK, StoreInv, TimelineInv, RegisteredUntilClosed, PendingInv,
      CurrentInv, RetiredOlder, WatcherInAttempt, PublishedRunner, SegmentSeen,
      GateCountsRunner, Unbegun, UnlistedDrained, RetireWaited, CleanupWaited,
      Waited, Begun, Drained, Running, Open, Updatable, GateType, sessionVars,
      genVars, throttleVars, gateVars, fileVars, runnerVars, cleanupVars,
      clientVars, WatcherGoes
<1>1. CASE WatcherSeesSegment(g)
  BY <1>1 DEF WatcherSeesSegment
<1>2. CASE WatcherStops(g)
  BY <1>2 DEF WatcherStops
<1>3. CASE WatcherMarksReady(g)
  BY <1>3 DEF WatcherMarksReady
<1>4. CASE WatcherActivates(g)
  <2>1. CASE CanActivate(g)
    <3>1. /\ watcher[g] = "activate"
          /\ watcher' = [watcher EXCEPT ![g] = "ok"] /\ Activate(g)
          /\ readyPublished' = readyPublished \cup {g}
          /\ UNCHANGED <<closing, registered, counter, generations, fileVars,
                         firstSegmentAt, runner>>
      BY <1>4, <2>1 DEF WatcherActivates
    <3>2. /\ RegisteredUntilClosed' /\ PendingInv' /\ CurrentInv'
          /\ RetiredOlder'
      BY <2>1, <3>1, ActivateTimeline
    <3>3. WatcherInAttempt' /\ PublishedRunner' /\ SegmentSeen'
      BY <3>1
    <3> QED BY <3>2, <3>3
  <2>2. CASE ~CanActivate(g)
    BY <1>4, <2>2 DEF WatcherActivates
  <2> QED BY <2>1, <2>2
<1> QED BY <1>1, <1>2, <1>3, <1>4 DEF WatcherStep

LEMMA RetireTimeline ==
  ASSUME TypeOK, StoreInv, TimelineInv, NEW g \in Gen, RetireStep(g)
  PROVE  TimelineInv'
<1> USE DEF TypeOK, StoreInv, TimelineInv, RegisteredUntilClosed, PendingInv,
      CurrentInv, RetiredOlder, WatcherInAttempt, PublishedRunner, SegmentSeen,
      GateCountsRunner, Unbegun, UnlistedDrained, RetireWaited, CleanupWaited,
      Waited, Begun, Drained, Running, Open, Updatable, GateType, sessionVars,
      genVars, throttleVars, gateVars, fileVars, runnerVars, cleanupVars,
      clientVars, RetireGoes
<1>1. CASE RetireCancels(g)
  BY <1>1 DEF RetireCancels
<1>2. CASE RetireStopsReaders(g)
  BY <1>2 DEF RetireStopsReaders
<1>3. CASE RetireDrained(g)
  BY <1>3 DEF RetireDrained
<1>4. CASE RetireRemoves(g)
  BY <1>4 DEF RetireRemoves
<1> QED BY <1>1, <1>2, <1>3, <1>4 DEF RetireStep

LEMMA CleanupTimeline ==
  ASSUME TypeOK, StoreInv, TimelineInv, CleanupStep PROVE TimelineInv'
<1> USE DEF TypeOK, StoreInv, TimelineInv, RegisteredUntilClosed, PendingInv,
      CurrentInv, RetiredOlder, WatcherInAttempt, PublishedRunner, SegmentSeen,
      GateCountsRunner, Unbegun, UnlistedDrained, RetireWaited, CleanupWaited,
      Waited, Begun, Drained, Running, Open, Updatable, GateType, sessionVars,
      genVars, throttleVars, gateVars, fileVars, runnerVars, cleanupVars,
      clientVars
<1>1. CASE CleanupSnapshots
  BY <1>1 DEF CleanupSnapshots
<1>2. CASE CleanupProcessesGone
  BY <1>2 DEF CleanupProcessesGone
<1>3. CASE CleanupTimesOut
  BY <1>3 DEF CleanupTimesOut
<1>4. CASE CleanupDrained
  BY <1>4 DEF CleanupDrained
<1>5. CASE CleanupRemoves
  BY <1>5 DEF CleanupRemoves
<1>6. CASE CleanupUnregisters
  BY <1>6 DEF CleanupUnregisters
<1>7. CASE CleanupFinishes
  BY <1>7 DEF CleanupFinishes
<1>8. ASSUME NEW g \in Gen, CleanupStopsProcess(g) PROVE TimelineInv'
  BY <1>8 DEF CleanupStopsProcess
<1>9. ASSUME NEW g \in Gen, CleanupStopsReaders(g) PROVE TimelineInv'
  BY <1>9 DEF CleanupStopsReaders
<1> QED BY <1>1, <1>2, <1>3, <1>4, <1>5, <1>6, <1>7, <1>8, <1>9
         DEF CleanupStep

LEMMA NextTimeline ==
  ASSUME TypeOK, StoreInv, TimelineInv, [Next]_vars PROVE TimelineInv'
<1>1. CASE Next
  BY <1>1, HandlersTimeline, SweepsTimeline, RunnerTimeline, EncoderTimeline,
     WatcherTimeline, RetireTimeline, CleanupTimeline DEF Next
<1>2. CASE UNCHANGED vars
  BY <1>2 DEF vars, TimelineInv, RegisteredUntilClosed, PendingInv,
     CurrentInv, RetiredOlder, WatcherInAttempt, PublishedRunner, SegmentSeen,
     sessionVars, genVars, throttleVars, gateVars, fileVars, runnerVars,
     cleanupVars, clientVars
<1> QED BY <1>1, <1>2

LEMMA InitTimeline == ASSUME Init PROVE TimelineInv
BY GenRange DEF Init, TimelineInv, RegisteredUntilClosed, PendingInv,
   CurrentInv, RetiredOlder, WatcherInAttempt, PublishedRunner, SegmentSeen

LEMMA TimelineInvariant == Spec => [](TypeOK /\ StoreInv /\ TimelineInv)
<1>1. Init => TypeOK /\ StoreInv /\ TimelineInv
  BY InitTyping, InitStore, InitTimeline
<1>2. TypeOK /\ StoreInv /\ TimelineInv /\ [Next]_vars
        => (TypeOK /\ StoreInv /\ TimelineInv)'
  BY NextTyping, NextStore, NextTimeline
<1> QED BY <1>1, <1>2, PTL DEF Spec

(* A published timeline stays readable until a newer one replaces it or    *)
(* the session closes.                                                     *)
THEOREM CurrentReadableHolds == Spec => []CurrentReadable
<1>1. TimelineInv => CurrentReadable
  BY DEF TimelineInv, CurrentInv, CurrentReadable
<1> QED BY <1>1, TimelineInvariant, PTL

(* A pending generation always has someone who will activate or fail it.   *)
THEOREM PendingIsOwnedHolds == Spec => []PendingIsOwned
<1>1. TypeOK /\ TimelineInv => PendingIsOwned
  <2> SUFFICES ASSUME TypeOK, TimelineInv, pending # 0, ~closing
               PROVE  /\ pending = counter /\ genState[pending] = "preparing"
                      /\ runner[pending] \notin {"none", "release", "done"}
    BY DEF PendingIsOwned
  <2> QED BY DEF TimelineInv, PendingInv
<1> QED BY <1>1, TimelineInvariant, PTL

(* No step suspends an encoder whose process gate is closed, and no gate is *)
(* closed on a suspended one: ThrottleInv is inductive.                     *)
LEMMA HandlersThrottle ==
  ASSUME TypeOK, StoreInv, TimelineInv, ThrottleInv, Handlers
  PROVE  ThrottleInv'
<1> USE DEF TypeOK, GateType, StoreInv, EncoderOwned, CleanupWaited,
      TimelineInv, RetiredOlder, ThrottleInv, StoppedIsMarked, GateClosedBy,
      ClosingProcessResumed, Open, Updatable, sessionVars, genVars,
      throttleVars, gateVars, fileVars, runnerVars, cleanupVars, clientVars
<1>1. CASE BeginGeneration
  BY <1>1 DEF BeginGeneration
<1>2. CASE Heartbeat
  BY <1>2 DEF Heartbeat
<1>3. CASE ReconcileThrottle
  BY <1>3 DEF ReconcileThrottle, Resume
<1>4. CASE Close
  BY <1>4 DEF Close, StartClose, CloseUnchanged
<1>5. ASSUME NEW g \in Gen, StartRunner(g) PROVE ThrottleInv'
  BY <1>5 DEF StartRunner, Acquired, CanAcquire
<1>6. ASSUME NEW g \in Gen, StartRejected(g) PROVE ThrottleInv'
  BY <1>6 DEF StartRejected
<1>7. ASSUME NEW g \in Gen, StartFailed(g) PROVE ThrottleInv'
  BY <1>7 DEF StartFailed, StartClose, MarkFailed
<1>8. ASSUME NEW r \in Readers, NEW g \in Gen, AcquireReader(r, g)
      PROVE  ThrottleInv'
  BY <1>8 DEF AcquireReader
<1>9. ASSUME NEW r \in Readers, ReleaseReader(r) PROVE ThrottleInv'
  BY <1>9 DEF ReleaseReader
<1> QED BY <1>1, <1>2, <1>3, <1>4, <1>5, <1>6, <1>7, <1>8,
         <1>9 DEF Handlers

LEMMA SweepsThrottle ==
  ASSUME TypeOK, StoreInv, TimelineInv, ThrottleInv, Sweeps
  PROVE  ThrottleInv'
<1> USE DEF TypeOK, GateType, StoreInv, EncoderOwned, CleanupWaited,
      TimelineInv, RetiredOlder, ThrottleInv, StoppedIsMarked, GateClosedBy,
      ClosingProcessResumed, Open, Updatable, sessionVars, genVars,
      throttleVars, gateVars, fileVars, runnerVars, cleanupVars, clientVars
<1>1. CASE Expire
  BY <1>1 DEF Expire, StartClose, CloseUnchanged
<1>2. CASE ShutdownCancels
  BY <1>2 DEF ShutdownCancels
<1>3. CASE ShutdownCloses
  BY <1>3 DEF ShutdownCloses, StartClose, CloseUnchanged
<1> QED BY <1>1, <1>2, <1>3 DEF Sweeps

LEMMA RunnerThrottle ==
  ASSUME TypeOK, StoreInv, TimelineInv, ThrottleInv,
         NEW g \in Gen, RunnerStep(g)
  PROVE  ThrottleInv'
<1> USE DEF TypeOK, GateType, StoreInv, EncoderOwned, CleanupWaited,
      TimelineInv, RetiredOlder, ThrottleInv, StoppedIsMarked, GateClosedBy,
      ClosingProcessResumed, Open, Updatable, sessionVars, genVars,
      throttleVars, gateVars, fileVars, runnerVars, cleanupVars, clientVars,
      RunnerGoes
<1>1. CASE AttemptRefused(g)
  BY <1>1 DEF AttemptRefused
<1>2. CASE AttemptBegins(g)
  BY <1>2 DEF AttemptBegins
<1>3. CASE EncoderStarts(g)
  BY <1>3 DEF EncoderStarts
<1>4. CASE EncoderRefused(g)
  BY <1>4 DEF EncoderRefused
<1>5. CASE RecordStarted(g)
  BY <1>5 DEF RecordStarted
<1>6. CASE EncoderJoined(g)
  BY <1>6 DEF EncoderJoined
<1>7. CASE WatcherJoined(g)
  BY <1>7 DEF WatcherJoined
<1>8. CASE RunnerMarksReady(g)
  BY <1>8 DEF RunnerMarksReady
<1>9. CASE RunnerActivates(g)
  BY <1>9 DEF RunnerActivates, Activate
<1>10. CASE FinishPublished(g)
  BY <1>10 DEF FinishPublished, MarkFailed
<1>11. CASE FallBack(g)
  BY <1>11 DEF FallBack, CanFallBack
<1>12. CASE GiveUp(g)
  BY <1>12 DEF GiveUp
<1>13. CASE ReportFailed(g)
  BY <1>13 DEF ReportFailed, MarkFailed
<1>14. CASE ReleaseProcess(g)
  BY <1>14 DEF ReleaseProcess, Released
<1> QED BY <1>1, <1>2, <1>3, <1>4, <1>5, <1>6, <1>7, <1>8,
         <1>9, <1>10, <1>11, <1>12, <1>13, <1>14 DEF RunnerStep

LEMMA EncoderThrottle ==
  ASSUME TypeOK, StoreInv, TimelineInv, ThrottleInv,
         NEW g \in Gen, EncoderStep(g)
  PROVE  ThrottleInv'
<1> USE DEF TypeOK, GateType, StoreInv, EncoderOwned, CleanupWaited,
      TimelineInv, RetiredOlder, ThrottleInv, StoppedIsMarked, GateClosedBy,
      ClosingProcessResumed, Open, Updatable, sessionVars, genVars,
      throttleVars, gateVars, fileVars, runnerVars, cleanupVars, clientVars
<1>1. CASE WriteSegment(g)
  BY <1>1 DEF WriteSegment
<1>2. CASE EncoderEnds(g)
  BY <1>2 DEF EncoderEnds
<1>3. CASE StoppedEncoderKilled(g)
  BY <1>3 DEF StoppedEncoderKilled
<1> QED BY <1>1, <1>2, <1>3 DEF EncoderStep

LEMMA WatcherThrottle ==
  ASSUME TypeOK, StoreInv, TimelineInv, ThrottleInv,
         NEW g \in Gen, WatcherStep(g)
  PROVE  ThrottleInv'
<1> USE DEF TypeOK, GateType, StoreInv, EncoderOwned, CleanupWaited,
      TimelineInv, RetiredOlder, ThrottleInv, StoppedIsMarked, GateClosedBy,
      ClosingProcessResumed, Open, Updatable, sessionVars, genVars,
      throttleVars, gateVars, fileVars, runnerVars, cleanupVars, clientVars,
      WatcherGoes
<1>1. CASE WatcherSeesSegment(g)
  BY <1>1 DEF WatcherSeesSegment
<1>2. CASE WatcherStops(g)
  BY <1>2 DEF WatcherStops
<1>3. CASE WatcherMarksReady(g)
  BY <1>3 DEF WatcherMarksReady
<1>4. CASE WatcherActivates(g)
  BY <1>4 DEF WatcherActivates, Activate
<1> QED BY <1>1, <1>2, <1>3, <1>4 DEF WatcherStep

LEMMA RetireThrottle ==
  ASSUME TypeOK, StoreInv, TimelineInv, ThrottleInv,
         NEW g \in Gen, RetireStep(g)
  PROVE  ThrottleInv'
<1> USE DEF TypeOK, GateType, StoreInv, EncoderOwned, CleanupWaited,
      TimelineInv, RetiredOlder, ThrottleInv, StoppedIsMarked, GateClosedBy,
      ClosingProcessResumed, Open, Updatable, sessionVars, genVars,
      throttleVars, gateVars, fileVars, runnerVars, cleanupVars, clientVars,
      RetireGoes
<1>1. CASE RetireCancels(g)
  BY <1>1 DEF RetireCancels, Resume, ClosedGate
<1>2. CASE RetireStopsReaders(g)
  BY <1>2 DEF RetireStopsReaders
<1>3. CASE RetireDrained(g)
  BY <1>3 DEF RetireDrained
<1>4. CASE RetireRemoves(g)
  BY <1>4 DEF RetireRemoves
<1> QED BY <1>1, <1>2, <1>3, <1>4 DEF RetireStep

LEMMA CleanupThrottle ==
  ASSUME TypeOK, StoreInv, TimelineInv, ThrottleInv, CleanupStep
  PROVE  ThrottleInv'
<1> USE DEF TypeOK, GateType, StoreInv, EncoderOwned, CleanupWaited,
      TimelineInv, RetiredOlder, ThrottleInv, StoppedIsMarked, GateClosedBy,
      ClosingProcessResumed, Open, Updatable, sessionVars, genVars,
      throttleVars, gateVars, fileVars, runnerVars, cleanupVars, clientVars
<1>1. CASE CleanupSnapshots
  BY <1>1 DEF CleanupSnapshots
<1>2. CASE CleanupProcessesGone
  BY <1>2 DEF CleanupProcessesGone
<1>3. CASE CleanupTimesOut
  BY <1>3 DEF CleanupTimesOut
<1>4. CASE CleanupDrained
  BY <1>4 DEF CleanupDrained
<1>5. CASE CleanupRemoves
  BY <1>5 DEF CleanupRemoves
<1>6. CASE CleanupUnregisters
  BY <1>6 DEF CleanupUnregisters
<1>7. CASE CleanupFinishes
  BY <1>7 DEF CleanupFinishes
<1>8. ASSUME NEW g \in Gen, CleanupStopsProcess(g) PROVE ThrottleInv'
  BY <1>8 DEF CleanupStopsProcess, Resume, ClosedGate
<1>9. ASSUME NEW g \in Gen, CleanupStopsReaders(g) PROVE ThrottleInv'
  BY <1>9 DEF CleanupStopsReaders
<1> QED BY <1>1, <1>2, <1>3, <1>4, <1>5, <1>6, <1>7, <1>8,
         <1>9 DEF CleanupStep

LEMMA NextThrottle ==
  ASSUME TypeOK, StoreInv, TimelineInv, ThrottleInv, [Next]_vars
  PROVE  ThrottleInv'
<1>1. CASE Next
  BY <1>1, HandlersThrottle, SweepsThrottle, RunnerThrottle, EncoderThrottle,
     WatcherThrottle, RetireThrottle, CleanupThrottle DEF Next
<1>2. CASE UNCHANGED vars
  BY <1>2 DEF vars, ThrottleInv, StoppedIsMarked, GateClosedBy,
     ClosingProcessResumed, sessionVars, genVars, throttleVars, gateVars,
     fileVars, runnerVars, cleanupVars, clientVars
<1> QED BY <1>1, <1>2

LEMMA InitThrottle == ASSUME Init PROVE ThrottleInv
BY DEF Init, NewGate, ThrottleInv, StoppedIsMarked, GateClosedBy,
   ClosingProcessResumed

LEMMA SessionInvariant == Spec => []SessionInv
<1>1. Init => SessionInv
  BY InitTyping, InitStore, InitTimeline, InitThrottle DEF SessionInv
<1>2. SessionInv /\ [Next]_vars => SessionInv'
  BY NextTyping, NextStore, NextTimeline, NextThrottle DEF SessionInv
<1> QED BY <1>1, <1>2, PTL DEF Spec

(* A throttle that races with a restart or a close never leaves FFmpeg     *)
(* suspended while a goroutine waits for it to exit.                       *)
THEOREM ClosingProcessResumedHolds == Spec => []ClosingProcessResumed
<1>1. SessionInv => ClosingProcessResumed
  BY DEF SessionInv, ThrottleInv
<1> QED BY <1>1, SessionInvariant, PTL

----------------------------------------------------------------------------
(***************************************************************************)
(* The readers: a directory goes under one only after the drain timeout.   *)
(* ReaderInv is inductive together with SessionInv.                        *)
(***************************************************************************)

(* A step that is not about readers, removals or the end of a retirement.  *)
LEMMA ReaderFrame ==
  ASSUME ReaderInv, UNCHANGED <<reader, gate, counter, generations, retire,
                                retireTimedOut, cleanup, dir>>
  PROVE  ReaderInv'
BY DEF ReaderInv, GateCountsReaders, ReadersOf, ReadersWaited, RemovedUnread,
       Given, Begun, Waited

(* Whoever closes the session.                                             *)
LEMMA StartCloseReaders ==
  ASSUME TypeOK, ReaderInv, NEW result, StartClose(result),
         UNCHANGED <<reader, gate, counter, generations, retire,
                     retireTimedOut, dir>>
  PROVE  ReaderInv'
<1>1. CASE closing
  BY <1>1, ReaderFrame DEF StartClose
<1>2. CASE ~closing
  <2>1. cleanup'.pc = "snapshot" /\ cleanup'.timedOut = cleanup.timedOut
    BY <1>2 DEF StartClose, TypeOK, CleanupType
  <2> QED
    BY <2>1 DEF ReaderInv, GateCountsReaders, ReadersOf, ReadersWaited,
                RemovedUnread, Given, Begun, Waited
<1> QED BY <1>1, <1>2

(* Whoever activates a generation: the one it replaces has not been        *)
(* retired before.                                                         *)
LEMMA ActivateReaders ==
  ASSUME SessionInv, ReaderInv, NEW g \in Gen, CanActivate(g), Activate(g),
         UNCHANGED <<reader, gate, counter, generations, retireTimedOut,
                     cleanup, dir>>
  PROVE  ReaderInv'
<1>1. ASSUME NEW h \in Gen
      PROVE  \/ retire'[h] = retire[h]
             \/ retire'[h] = "cancel" /\ retire[h] # "done"
  <2>1. current \notin Gen \/ retire[current] = "none"
    BY GenRange DEF SessionInv, TimelineInv, RetiredOlder, Gen, TypeOK
  <2> QED BY <2>1 DEF Activate
<1> QED
  BY <1>1 DEF ReaderInv, GateCountsReaders, ReadersOf, ReadersWaited,
              RemovedUnread, Given, Begun, Waited

LEMMA BeginReaders ==
  ASSUME SessionInv, ReaderInv, BeginGeneration
  PROVE  ReaderInv'
<1> DEFINE g == counter + 1
<1>1. /\ counter' = g /\ dir' = dir \cup {g}
      /\ generations' = generations \cup {g}
      /\ UNCHANGED <<reader, gate, retire, retireTimedOut, cleanup>>
      /\ ~closing
  BY DEF BeginGeneration, gateVars, cleanupVars, clientVars, Open
<1>2. cleanup.pc = "none"
  BY <1>1 DEF SessionInv, StoreInv, CleanupWaited
<1>3. /\ counter \in Nat /\ 0..MaxGen \subseteq Nat /\ Gen \subseteq Nat
      /\ reader \in [Readers -> 0..MaxGen]
  BY GenRange DEF SessionInv, TypeOK
<1>4. \A h \in Gen : Begun(h)' => Begun(h) \/ h = g
  BY <1>1, <1>3 DEF Begun
<1>5. \A r \in Readers : reader'[r] # 0 => reader'[r] <= counter'
  BY <1>1, <1>3 DEF ReaderInv, Begun
<1>6. GateCountsReaders'
  BY <1>1 DEF ReaderInv, GateCountsReaders, ReadersOf
<1>7. ReadersWaited'
  BY <1>1, <1>2, <1>4 DEF ReaderInv, ReadersWaited, Given, Waited
<1>8. RemovedUnread'
  BY <1>1, <1>4 DEF ReaderInv, RemovedUnread, Given
<1> QED BY <1>5, <1>6, <1>7, <1>8 DEF ReaderInv, Begun

(* A gate that is used or closed: what it counts is what changes, and a    *)
(* drained one stays so.                                                   *)
LEMMA GateReaders ==
  ASSUME ReaderInv, GateCountsReaders',
         UNCHANGED <<counter, generations, retire, retireTimedOut, cleanup, dir>>,
         \A g \in Gen : gate[g].done => gate'[g].done,
         \A r \in Readers : reader'[r] # 0 => reader'[r] <= counter',
         cleanup.snapshot \subseteq Gen
  PROVE  ReaderInv'
BY DEF ReaderInv, ReadersWaited, RemovedUnread, Given, Begun, Waited

LEMMA AcquireReaders ==
  ASSUME SessionInv, ReaderInv, NEW r \in Readers, NEW g \in Gen,
         AcquireReader(r, g)
  PROVE  ReaderInv'
<1>1. /\ UNCHANGED <<counter, generations, retire, retireTimedOut, cleanup, dir>>
      /\ reader[r] = 0 /\ reader' = [reader EXCEPT ![r] = g]
      /\ gate' = [gate EXCEPT ![g] = Acquired(@)] /\ ~gate[g].closing
      /\ g = current
  BY DEF AcquireReader, CanAcquire, sessionVars, fileVars, cleanupVars
<1>2. /\ TypeOK /\ reader \in [Readers -> 0..MaxGen]
      /\ gate \in [Gen -> GateType]
      /\ cleanup.snapshot \subseteq Gen /\ 0 \notin Gen
  BY GenRange DEF SessionInv, TypeOK, CleanupType
<1>3. /\ ReadersOf(g)' = ReadersOf(g) \cup {r} /\ r \notin ReadersOf(g)
      /\ \A h \in Gen \ {g} : ReadersOf(h)' = ReadersOf(h)
  BY <1>1, <1>2 DEF ReadersOf
<1>4. /\ gate'[g].readers = gate[g].readers + 1 /\ gate'[g].done = gate[g].done
      /\ gate'[g].closing = gate[g].closing
      /\ \A h \in Gen \ {g} : gate'[h] = gate[h]
  BY <1>1, <1>2 DEF Acquired, GateType
<1>5. /\ IsFiniteSet(ReadersOf(g)')
      /\ Cardinality(ReadersOf(g)') = Cardinality(ReadersOf(g)) + 1
  BY <1>3, FS_AddElement DEF ReaderInv, GateCountsReaders
<1>6. ~gate[g].done
  BY <1>1 DEF ReaderInv, GateCountsReaders
<1>7. GateCountsReaders'
  <2> SUFFICES ASSUME NEW h \in Gen
               PROVE  /\ IsFiniteSet(ReadersOf(h)')
                      /\ gate'[h].readers = Cardinality(ReadersOf(h)')
                      /\ gate'[h].done => gate'[h].closing /\ gate'[h].readers = 0
    BY DEF GateCountsReaders, ReadersOf
  <2>1. CASE h = g
    BY <1>4, <1>5, <1>6, <2>1 DEF ReaderInv, GateCountsReaders
  <2>2. CASE h # g
    BY <1>3, <1>4, <2>2 DEF ReaderInv, GateCountsReaders
  <2> QED BY <2>1, <2>2
<1>8. Begun(g)
  BY <1>1 DEF SessionInv, StoreInv, Unbegun, Begun
<1>9. \A q \in Readers : reader'[q] # 0 => reader'[q] <= counter'
  BY <1>1, <1>2, <1>8 DEF ReaderInv, Begun
<1> QED BY <1>1, <1>2, <1>4, <1>7, <1>9, GateReaders

LEMMA ReleaseReaders ==
  ASSUME SessionInv, ReaderInv, NEW r \in Readers, ReleaseReader(r)
  PROVE  ReaderInv'
<1>0. PICK g \in Gen : reader[r] = g
  BY GenRange, PlaybackSessionAssumption
     DEF ReleaseReader, SessionInv, TypeOK, Gen
<1>1. /\ UNCHANGED <<counter, generations, retire, retireTimedOut, cleanup, dir>>
      /\ g # 0 /\ reader' = [reader EXCEPT ![r] = 0]
      /\ gate' = [gate EXCEPT ![g] = Released(@)]
  BY <1>0 DEF ReleaseReader, sessionVars, fileVars, cleanupVars
<1>2. /\ TypeOK /\ reader \in [Readers -> 0..MaxGen]
      /\ gate \in [Gen -> GateType]
      /\ cleanup.snapshot \subseteq Gen /\ 0 \notin Gen
  BY GenRange DEF SessionInv, TypeOK, CleanupType
<1>3. /\ ReadersOf(g)' = ReadersOf(g) \ {r} /\ r \in ReadersOf(g)
      /\ \A h \in Gen \ {g} : ReadersOf(h)' = ReadersOf(h)
  BY <1>0, <1>1, <1>2 DEF ReadersOf
<1>4. /\ IsFiniteSet(ReadersOf(g)')
      /\ Cardinality(ReadersOf(g)') = Cardinality(ReadersOf(g)) - 1
      /\ Cardinality(ReadersOf(g)) \in Nat
  BY <1>3, FS_RemoveElement, FS_CardinalityType
     DEF ReaderInv, GateCountsReaders
<1>5. gate[g].readers = Cardinality(ReadersOf(g)) /\ gate[g].readers # 0
  <2>1. ReadersOf(g) # {} /\ IsFiniteSet(ReadersOf(g))
    BY <1>3 DEF ReaderInv, GateCountsReaders
  <2>2. Cardinality(ReadersOf(g)) # 0
    BY <2>1, FS_EmptySet
  <2> QED BY <2>2 DEF ReaderInv, GateCountsReaders
<1>6. /\ gate'[g].readers = gate[g].readers - 1
      /\ gate'[g].closing = gate[g].closing
      /\ gate[g].done => gate'[g].done
      /\ gate'[g].done => gate[g].done \/ (gate[g].closing /\ gate[g].readers = 1)
      /\ \A h \in Gen \ {g} : gate'[h] = gate[h]
  BY <1>1, <1>2, <1>5 DEF Released, GateType
<1>7. ~gate[g].done
  BY <1>5 DEF ReaderInv, GateCountsReaders
<1>8. GateCountsReaders'
  <2> SUFFICES ASSUME NEW h \in Gen
               PROVE  /\ IsFiniteSet(ReadersOf(h)')
                      /\ gate'[h].readers = Cardinality(ReadersOf(h)')
                      /\ gate'[h].done => gate'[h].closing /\ gate'[h].readers = 0
    BY DEF GateCountsReaders, ReadersOf
  <2>1. CASE h = g
    <3>1. gate'[g].readers = Cardinality(ReadersOf(g)')
      BY <1>4, <1>5, <1>6
    <3>2. gate'[g].done => gate'[g].closing /\ gate'[g].readers = 0
      BY <1>2, <1>6, <1>7 DEF GateType
    <3> QED BY <1>4, <2>1, <3>1, <3>2
  <2>2. CASE h # g
    BY <1>3, <1>6, <2>2 DEF ReaderInv, GateCountsReaders
  <2> QED BY <2>1, <2>2
<1>9. \A h \in Gen : gate[h].done => gate'[h].done
  BY <1>6
<1>10. \A q \in Readers : reader'[q] # 0 => reader'[q] <= counter'
  BY <1>1, <1>2 DEF ReaderInv, Begun
<1> QED BY <1>1, <1>2, <1>8, <1>9, <1>10, GateReaders

(* Whoever closes the gate of a generation's readers.                      *)
LEMMA ClosedGateCounts ==
  ASSUME TypeOK, GateCountsReaders, NEW g \in Gen, UNCHANGED reader,
         gate' = [gate EXCEPT ![g] = ClosedGate(@)]
  PROVE  /\ GateCountsReaders'
         /\ \A h \in Gen : gate[h].done => gate'[h].done
<1>1. gate \in [Gen -> GateType]
  BY DEF TypeOK
<1>2. /\ gate'[g].readers = gate[g].readers /\ gate'[g].closing
      /\ gate'[g].done = (gate[g].done \/ gate[g].readers = 0)
      /\ \A h \in Gen \ {g} : gate'[h] = gate[h]
  BY <1>1 DEF ClosedGate, GateType
<1> QED BY <1>2 DEF GateCountsReaders, ReadersOf

LEMMA HandlersReaders ==
  ASSUME SessionInv, ReaderInv, Handlers PROVE ReaderInv'
<1> USE DEF sessionVars, gateVars, fileVars, cleanupVars, clientVars
<1>0. TypeOK
  BY DEF SessionInv
<1>1. CASE BeginGeneration
  BY <1>1, BeginReaders
<1>2. CASE Heartbeat
  BY <1>2, ReaderFrame DEF Heartbeat
<1>3. CASE ReconcileThrottle
  BY <1>3, ReaderFrame DEF ReconcileThrottle
<1>4. CASE Close
  BY <1>0, <1>4, StartCloseReaders DEF Close, CloseUnchanged
<1>5. ASSUME NEW g \in Gen, StartRunner(g) PROVE ReaderInv'
  BY <1>5, ReaderFrame DEF StartRunner
<1>6. ASSUME NEW g \in Gen, StartRejected(g) PROVE ReaderInv'
  BY <1>6, ReaderFrame DEF StartRejected
<1>7. ASSUME NEW g \in Gen, StartFailed(g) PROVE ReaderInv'
  <2>1. CASE g = 1
    BY <1>0, <1>7, <2>1, StartCloseReaders DEF StartFailed
  <2>2. CASE g # 1
    BY <1>7, <2>2, ReaderFrame DEF StartFailed
  <2> QED BY <2>1, <2>2
<1>8. ASSUME NEW r \in Readers, NEW g \in Gen, AcquireReader(r, g)
      PROVE  ReaderInv'
  BY <1>8, AcquireReaders
<1>9. ASSUME NEW r \in Readers, ReleaseReader(r) PROVE ReaderInv'
  BY <1>9, ReleaseReaders
<1> QED BY <1>1, <1>2, <1>3, <1>4, <1>5, <1>6, <1>7, <1>8, <1>9 DEF Handlers

LEMMA SweepsReaders ==
  ASSUME SessionInv, ReaderInv, Sweeps PROVE ReaderInv'
<1> USE DEF sessionVars, gateVars, fileVars, cleanupVars, clientVars
<1>0. TypeOK
  BY DEF SessionInv
<1>1. CASE Expire
  BY <1>0, <1>1, StartCloseReaders DEF Expire, CloseUnchanged
<1>2. CASE ShutdownCancels
  BY <1>2, ReaderFrame DEF ShutdownCancels
<1>3. CASE ShutdownCloses
  BY <1>0, <1>3, StartCloseReaders DEF ShutdownCloses, CloseUnchanged
<1> QED BY <1>1, <1>2, <1>3 DEF Sweeps

LEMMA RunnerReaders ==
  ASSUME SessionInv, ReaderInv, NEW g \in Gen, RunnerStep(g) PROVE ReaderInv'
<1> USE DEF sessionVars, gateVars, fileVars, cleanupVars, clientVars
<1>1. CASE AttemptRefused(g)
  BY <1>1, ReaderFrame DEF AttemptRefused
<1>2. CASE AttemptBegins(g)
  BY <1>2, ReaderFrame DEF AttemptBegins
<1>3. CASE EncoderStarts(g)
  BY <1>3, ReaderFrame DEF EncoderStarts
<1>4. CASE EncoderRefused(g)
  BY <1>4, ReaderFrame DEF EncoderRefused
<1>5. CASE RecordStarted(g)
  BY <1>5, ReaderFrame DEF RecordStarted
<1>6. CASE EncoderJoined(g)
  BY <1>6, ReaderFrame DEF EncoderJoined
<1>7. CASE WatcherJoined(g)
  BY <1>7, ReaderFrame DEF WatcherJoined
<1>8. CASE RunnerMarksReady(g)
  BY <1>8, ReaderFrame DEF RunnerMarksReady
<1>9. CASE RunnerActivates(g)
  <2>1. CASE CanActivate(g)
    BY <1>9, <2>1, ActivateReaders DEF RunnerActivates
  <2>2. CASE ~CanActivate(g)
    BY <1>9, <2>2, ReaderFrame DEF RunnerActivates
  <2> QED BY <2>1, <2>2
<1>10. CASE FinishPublished(g)
  BY <1>10, ReaderFrame DEF FinishPublished
<1>11. CASE FallBack(g)
  BY <1>11, ReaderFrame DEF FallBack
<1>12. CASE GiveUp(g)
  BY <1>12, ReaderFrame DEF GiveUp
<1>13. CASE ReportFailed(g)
  BY <1>13, ReaderFrame DEF ReportFailed
<1>14. CASE ReleaseProcess(g)
  BY <1>14, ReaderFrame DEF ReleaseProcess
<1> QED
  BY <1>1, <1>2, <1>3, <1>4, <1>5, <1>6, <1>7, <1>8, <1>9, <1>10, <1>11,
     <1>12, <1>13, <1>14 DEF RunnerStep

LEMMA EncoderReaders ==
  ASSUME ReaderInv, NEW g \in Gen, EncoderStep(g) PROVE ReaderInv'
<1> USE DEF sessionVars, gateVars, fileVars, cleanupVars, clientVars
<1>1. CASE WriteSegment(g)
  BY <1>1, ReaderFrame DEF WriteSegment
<1>2. CASE EncoderEnds(g)
  BY <1>2, ReaderFrame DEF EncoderEnds
<1>3. CASE StoppedEncoderKilled(g)
  BY <1>3, ReaderFrame DEF StoppedEncoderKilled
<1> QED BY <1>1, <1>2, <1>3 DEF EncoderStep

LEMMA WatcherReaders ==
  ASSUME SessionInv, ReaderInv, NEW g \in Gen, WatcherStep(g) PROVE ReaderInv'
<1> USE DEF sessionVars, gateVars, fileVars, cleanupVars, clientVars
<1>1. CASE WatcherSeesSegment(g)
  BY <1>1, ReaderFrame DEF WatcherSeesSegment
<1>2. CASE WatcherStops(g)
  BY <1>2, ReaderFrame DEF WatcherStops
<1>3. CASE WatcherMarksReady(g)
  BY <1>3, ReaderFrame DEF WatcherMarksReady
<1>4. CASE WatcherActivates(g)
  <2>1. CASE CanActivate(g)
    BY <1>4, <2>1, ActivateReaders DEF WatcherActivates
  <2>2. CASE ~CanActivate(g)
    BY <1>4, <2>2, ReaderFrame DEF WatcherActivates
  <2> QED BY <2>1, <2>2
<1> QED BY <1>1, <1>2, <1>3, <1>4 DEF WatcherStep

(* A retirement removes a directory after its wait for the readers.        *)
LEMMA RetireReaders ==
  ASSUME SessionInv, ReaderInv, NEW g \in Gen, RetireStep(g) PROVE ReaderInv'
<1> USE DEF sessionVars, gateVars, fileVars, cleanupVars, clientVars
<1>0. /\ TypeOK /\ retire \in [Gen -> RetireState]
      /\ cleanup.snapshot \subseteq Gen
  BY DEF SessionInv, TypeOK, CleanupType
<1>1. CASE RetireCancels(g)
  <2>1. /\ retire' = [retire EXCEPT ![g] = "exit"] /\ retire[g] = "cancel"
        /\ UNCHANGED <<reader, gate, counter, generations, retireTimedOut,
                       cleanup, dir>>
    BY <1>1 DEF RetireCancels, RetireGoes
  <2> QED
    BY <1>0, <2>1 DEF ReaderInv, GateCountsReaders, ReadersOf, ReadersWaited,
                      RemovedUnread, Given, Begun, Waited
<1>2. CASE RetireStopsReaders(g)
  <2>1. /\ retire' = [retire EXCEPT ![g] = "drain"] /\ retire[g] = "exit"
        /\ gate' = [gate EXCEPT ![g] = ClosedGate(@)]
        /\ UNCHANGED <<reader, counter, generations, retireTimedOut, cleanup, dir>>
    BY <1>2 DEF RetireStopsReaders, RetireGoes
  <2>2. GateCountsReaders' /\ \A h \in Gen : gate[h].done => gate'[h].done
    BY <1>0, <2>1, ClosedGateCounts DEF ReaderInv
  <2> QED
    BY <1>0, <2>1, <2>2 DEF ReaderInv, ReadersWaited, RemovedUnread, Given,
                            Begun, Waited
<1>3. CASE RetireDrained(g)
  <2>1. /\ retire' = [retire EXCEPT ![g] = "remove"] /\ retire[g] = "drain"
        /\ Given(g)' /\ retireTimedOut \subseteq retireTimedOut'
        /\ UNCHANGED <<reader, gate, counter, generations, cleanup, dir>>
    BY <1>3 DEF RetireDrained, RetireGoes, Given
  <2> QED
    BY <1>0, <2>1 DEF ReaderInv, GateCountsReaders, ReadersOf, ReadersWaited,
                      RemovedUnread, Given, Begun, Waited
<1>4. CASE RetireRemoves(g)
  <2>1. /\ retire' = [retire EXCEPT ![g] = "done"] /\ retire[g] = "remove"
        /\ dir \ {g} \subseteq dir' /\ generations \ {g} \subseteq generations'
        /\ UNCHANGED <<reader, gate, counter, retireTimedOut, cleanup>>
    BY <1>4 DEF RetireRemoves, RetireGoes
  <2>2. Given(g)
    BY <2>1 DEF ReaderInv, ReadersWaited
  <2> QED
    BY <1>0, <2>1, <2>2 DEF ReaderInv, GateCountsReaders, ReadersOf,
       ReadersWaited, RemovedUnread, Given, Begun, Waited
<1> QED BY <1>1, <1>2, <1>3, <1>4 DEF RetireStep

(* cleanupSession removes the whole directory after the wait for all the   *)
(* readers of what it copied; what it did not copy was retired.            *)
LEMMA CleanupReaders ==
  ASSUME SessionInv, ReaderInv, CleanupStep PROVE ReaderInv'
<1> USE DEF sessionVars, gateVars, fileVars, cleanupVars, clientVars
<1>0. /\ TypeOK /\ cleanup \in CleanupType /\ cleanup.snapshot \subseteq Gen
      /\ generations \subseteq Gen
  BY DEF SessionInv, TypeOK, CleanupType
<1>1. CASE CleanupSnapshots
  <2>1. /\ cleanup'.pc = "exit" /\ cleanup'.snapshot = generations
        /\ cleanup'.timedOut = cleanup.timedOut
        /\ UNCHANGED <<reader, gate, counter, generations, retire,
                       retireTimedOut, dir>>
    BY <1>0, <1>1 DEF CleanupSnapshots, CleanupType
  <2> QED
    BY <2>1 DEF ReaderInv, GateCountsReaders, ReadersOf, ReadersWaited,
                RemovedUnread, Given, Begun, Waited
<1>2. ASSUME NEW g \in Gen, CleanupStopsProcess(g) PROVE ReaderInv'
  <2>1. /\ cleanup'.pc = cleanup.pc /\ cleanup'.snapshot = cleanup.snapshot
        /\ cleanup'.timedOut = cleanup.timedOut
        /\ UNCHANGED <<reader, gate, counter, generations, retire,
                       retireTimedOut, dir>>
    BY <1>0, <1>2 DEF CleanupStopsProcess, CleanupType
  <2> QED
    BY <2>1 DEF ReaderInv, GateCountsReaders, ReadersOf, ReadersWaited,
                RemovedUnread, Given, Begun, Waited
<1>3. CASE CleanupProcessesGone
  <2>1. /\ cleanup'.pc = "drain" /\ cleanup.pc = "exit"
        /\ cleanup'.snapshot = cleanup.snapshot
        /\ cleanup'.timedOut = cleanup.timedOut
        /\ UNCHANGED <<reader, gate, counter, generations, retire,
                       retireTimedOut, dir>>
    BY <1>0, <1>3 DEF CleanupProcessesGone, CleanupType
  <2> QED
    BY <2>1 DEF ReaderInv, GateCountsReaders, ReadersOf, ReadersWaited,
                RemovedUnread, Given, Begun, Waited
<1>4. ASSUME NEW g \in Gen, CleanupStopsReaders(g) PROVE ReaderInv'
  <2>1. /\ cleanup'.pc = cleanup.pc /\ cleanup'.snapshot = cleanup.snapshot
        /\ cleanup'.timedOut = cleanup.timedOut
        /\ gate' = [gate EXCEPT ![g] = ClosedGate(@)]
        /\ UNCHANGED <<reader, counter, generations, retire, retireTimedOut, dir>>
    BY <1>0, <1>4 DEF CleanupStopsReaders, CleanupType
  <2>2. GateCountsReaders' /\ \A h \in Gen : gate[h].done => gate'[h].done
    BY <1>0, <2>1, ClosedGateCounts DEF ReaderInv
  <2> QED
    BY <1>0, <2>1, <2>2 DEF ReaderInv, ReadersWaited, RemovedUnread, Given,
                            Begun, Waited
<1>5. CASE CleanupTimesOut
  <2>1. /\ cleanup'.pc = cleanup.pc /\ cleanup'.snapshot = cleanup.snapshot
        /\ cleanup'.timedOut
        /\ UNCHANGED <<reader, gate, counter, generations, retire,
                       retireTimedOut, dir>>
    BY <1>0, <1>5 DEF CleanupTimesOut, CleanupType
  <2> QED
    BY <2>1 DEF ReaderInv, GateCountsReaders, ReadersOf, ReadersWaited,
                RemovedUnread, Given, Begun, Waited
<1>6. CASE CleanupDrained
  <2>1. /\ cleanup'.pc = "remove" /\ cleanup.pc = "drain"
        /\ cleanup'.snapshot = cleanup.snapshot
        /\ cleanup'.timedOut = cleanup.timedOut
        /\ cleanup.timedOut \/ \A h \in cleanup.snapshot : gate[h].done
        /\ UNCHANGED <<reader, gate, counter, generations, retire,
                       retireTimedOut, dir>>
    BY <1>0, <1>6 DEF CleanupDrained, CleanupType
  <2> QED
    BY <2>1 DEF ReaderInv, GateCountsReaders, ReadersOf, ReadersWaited,
                RemovedUnread, Given, Begun, Waited
<1>7. CASE CleanupRemoves
  <2>1. /\ cleanup'.pc = "unregister" /\ cleanup.pc = "remove"
        /\ cleanup'.snapshot = cleanup.snapshot
        /\ cleanup'.timedOut = cleanup.timedOut
        /\ UNCHANGED <<reader, gate, counter, generations, retire, retireTimedOut>>
    BY <1>0, <1>7 DEF CleanupRemoves, CleanupType
  <2>2. \A g \in Gen : Begun(g) => Given(g) \/ cleanup.timedOut
    BY <2>1 DEF ReaderInv, ReadersWaited, Given, Waited
  <2> QED
    BY <2>1, <2>2 DEF ReaderInv, GateCountsReaders, ReadersOf, ReadersWaited,
                      RemovedUnread, Given, Begun, Waited
<1>8. CASE CleanupUnregisters
  <2>1. /\ cleanup'.pc = "finish" /\ cleanup.pc = "unregister"
        /\ cleanup'.snapshot = cleanup.snapshot
        /\ cleanup'.timedOut = cleanup.timedOut
        /\ UNCHANGED <<reader, gate, counter, generations, retire,
                       retireTimedOut, dir>>
    BY <1>0, <1>8 DEF CleanupUnregisters, CleanupType
  <2> QED
    BY <2>1 DEF ReaderInv, GateCountsReaders, ReadersOf, ReadersWaited,
                RemovedUnread, Given, Begun, Waited
<1>9. CASE CleanupFinishes
  <2>1. /\ cleanup'.pc = "done" /\ cleanup.pc = "finish"
        /\ cleanup'.snapshot = cleanup.snapshot
        /\ cleanup'.timedOut = cleanup.timedOut
        /\ UNCHANGED <<reader, gate, counter, generations, retire,
                       retireTimedOut, dir>>
    BY <1>0, <1>9 DEF CleanupFinishes, CleanupType
  <2> QED
    BY <2>1 DEF ReaderInv, GateCountsReaders, ReadersOf, ReadersWaited,
                RemovedUnread, Given, Begun, Waited
<1> QED
  BY <1>1, <1>2, <1>3, <1>4, <1>5, <1>6, <1>7, <1>8, <1>9 DEF CleanupStep

LEMMA NextReaders ==
  ASSUME SessionInv, ReaderInv, [Next]_vars PROVE ReaderInv'
<1>1. CASE Next
  BY <1>1, HandlersReaders, SweepsReaders, RunnerReaders, EncoderReaders,
     WatcherReaders, RetireReaders, CleanupReaders DEF Next
<1>2. CASE UNCHANGED vars
  BY <1>2, ReaderFrame DEF vars, sessionVars, gateVars, fileVars, cleanupVars,
     clientVars
<1> QED BY <1>1, <1>2

LEMMA InitReaders == ASSUME Init PROVE ReaderInv
<1>1. \A g \in Gen : ReadersOf(g) = {}
  BY GenRange DEF Init, ReadersOf
<1>2. GateCountsReaders
  BY <1>1, FS_EmptySet DEF Init, GateCountsReaders, NewGate
<1>3. \A g \in Gen : Begun(g) => g = 1
  BY GenRange DEF Init, Begun, Gen
<1> QED
  BY <1>2, <1>3 DEF Init, ReaderInv, ReadersWaited, RemovedUnread, Given, Waited

LEMMA ReaderInvariant == Spec => [](SessionInv /\ ReaderInv)
<1>1. Init => ReaderInv
  BY InitReaders
<1>2. SessionInv /\ ReaderInv /\ [Next]_vars => ReaderInv'
  BY NextReaders
<1> QED BY <1>1, <1>2, SessionInvariant, PTL DEF Spec

(* ReaderBoundary: a directory goes under one of its readers only after    *)
(* the drain timeout, because a gate that is drained counts no reader.     *)
THEOREM ReaderBoundaryHolds == Spec => []ReaderBoundary
<1>1. ASSUME SessionInv, ReaderInv PROVE ReaderBoundary
  <2> SUFFICES ASSUME NEW r \in Readers, reader[r] \in Gen \ dir
               PROVE  reader[r] \in retireTimedOut \/ cleanup.timedOut
    BY DEF ReaderBoundary
  <2> DEFINE g == reader[r]
  <2>1. g # 0 /\ g \in Gen
    BY GenRange
  <2>2. Given(g) \/ cleanup.timedOut
    BY <1>1, <2>1 DEF ReaderInv, RemovedUnread
  <2>3. ~gate[g].done
    <3> SUFFICES ASSUME gate[g].done PROVE FALSE
      OBVIOUS
    <3>1. IsFiniteSet(ReadersOf(g)) /\ Cardinality(ReadersOf(g)) = 0
      BY <1>1, <2>1 DEF ReaderInv, GateCountsReaders
    <3>2. ReadersOf(g) = {}
      BY <3>1, FS_EmptySet
    <3> QED BY <3>2 DEF ReadersOf
  <2> QED BY <2>2, <2>3 DEF Given
<1> QED BY <1>1, ReaderInvariant, PTL

----------------------------------------------------------------------------
(***************************************************************************)
(* PlaybackSession implements SessionContract, for any number of           *)
(* generations and readers: every step is a step of the contract, or       *)
(* leaves everything the contract speaks about alone.                      *)
(***************************************************************************)

Writers == {g \in Gen : runner[g] \in Running}

ContractStep == [Contract!Next]_(Contract!vars)

(* A step that moves no runner in or out, and neither files nor timeline.  *)
LEMMA Stutter ==
  ASSUME UNCHANGED <<closing, current, counter, dir>>, Writers' = Writers
  PROVE  ContractStep
BY DEF ContractStep, Contract!vars, Writers

LEMMA RunnerMoves ==
  ASSUME TypeOK, NEW g \in Gen, runner[g] \in Running, NEW to \in Running,
         runner' = [runner EXCEPT ![g] = to],
         UNCHANGED <<closing, current, counter, dir>>
  PROVE  ContractStep
<1>1. Writers' = Writers
  BY DEF TypeOK, Writers
<1> QED BY <1>1, Stutter

(* Whoever closes the session.                                             *)
LEMMA StartCloseImplements ==
  ASSUME TypeOK, NEW result, StartClose(result), Writers' = Writers,
         UNCHANGED <<current, counter, dir>>
  PROVE  ContractStep
<1>1. CASE closing
  BY <1>1, Stutter DEF StartClose
<1>2. CASE ~closing
  <2>1. Contract!Close
    BY <1>2 DEF StartClose, Contract!Close, Writers
  <2> QED BY <2>1 DEF ContractStep, Contract!Next
<1> QED BY <1>1, <1>2

(* Whoever activates a generation.                                         *)
LEMMA ActivateImplements ==
  ASSUME SessionInv, NEW g \in Gen, CanActivate(g), Activate(g),
         runner[g] \in Running, Writers' = Writers,
         UNCHANGED <<closing, counter, dir>>
  PROVE  ContractStep
<1> USE DEF SessionInv
<1>1. ~closing /\ pending = g /\ current' = g
  BY DEF CanActivate, Updatable, Open, Activate
<1>2. g > current
  BY <1>1, GenRange DEF TimelineInv, PendingInv, TypeOK
<1>3. g \in dir
  BY StoreSafe DEF ProcessBoundary
<1>4. Contract!Publish(g)
  BY <1>1, <1>2, <1>3 DEF Contract!Publish, Writers
<1> QED BY <1>4 DEF ContractStep, Contract!Next

(* Whoever removes directories after the wait for their processes.         *)
LEMMA RemoveImplements ==
  ASSUME SessionInv, NEW S \in SUBSET Gen, dir' = dir \ S,
         \A g \in S : Drained(g),
         closing \/ (current # 0 /\ \A g \in S : g < current),
         UNCHANGED <<closing, current, counter, runner>>
  PROVE  ContractStep
<1>1. S \cap Writers = {}
  BY DEF SessionInv, StoreInv, GateCountsRunner, Writers
<1>2. Contract!Reclaim(S)
  BY <1>1 DEF Contract!Reclaim, Writers
<1> QED BY <1>2 DEF ContractStep, Contract!Next

LEMMA HandlersImplements ==
  ASSUME SessionInv, Handlers PROVE ContractStep
<1> USE DEF SessionInv, TypeOK, sessionVars, genVars, throttleVars, gateVars,
      fileVars, runnerVars, cleanupVars, clientVars
<1>1. CASE BeginGeneration
  <2> DEFINE b == counter + 1
  <2>1. /\ b \in Gen /\ ~closing /\ ~closing' /\ current' = current
        /\ counter' = b /\ dir' = dir \cup {b}
    BY <1>1, PlaybackSessionAssumption DEF BeginGeneration, Open, Gen
  <2>2. runner[b] = "none" /\ runner' = [runner EXCEPT ![b] = "starting"]
    <3>1. ~Begun(b)
      BY <2>1, GenRange DEF Begun
    <3> QED BY <1>1, <2>1, <3>1 DEF BeginGeneration, StoreInv, Unbegun
  <2>3. Writers' = Writers
    BY <2>1, <2>2 DEF Writers, Running
  <2>4. Contract!Begin
    BY <2>1, <2>3 DEF Contract!Begin, Writers
  <2> QED BY <2>4 DEF ContractStep, Contract!Next
<1>2. CASE Heartbeat
  BY <1>2, Stutter DEF Heartbeat, Writers
<1>3. CASE ReconcileThrottle
  BY <1>3, Stutter DEF ReconcileThrottle, Writers
<1>4. CASE Close
  <2>1. Writers' = Writers /\ UNCHANGED <<current, counter, dir>>
    BY <1>4 DEF Close, CloseUnchanged, Writers
  <2> QED BY <1>4, <2>1, StartCloseImplements DEF Close
<1>5. ASSUME NEW g \in Gen, StartRunner(g) PROVE ContractStep
  <2>1. /\ ~closing /\ g \in dir
        /\ UNCHANGED <<closing, current, counter, dir>>
    <3>1. Begun(g) /\ ~Drained(g)
      BY <1>5 DEF StartRunner, StoreInv, Unbegun, GateCountsRunner, CanAcquire
    <3> QED BY <1>5, <3>1 DEF StartRunner, Updatable, Open, StoreInv,
                UnlistedDrained
  <2>2. Writers' = Writers \cup {g}
    BY <1>5 DEF StartRunner, Writers, Running
  <2>3. Contract!StartWriting(g)
    BY <2>1, <2>2 DEF Contract!StartWriting, Writers
  <2> QED BY <2>3 DEF ContractStep, Contract!Next
<1>6. ASSUME NEW g \in Gen, StartRejected(g) PROVE ContractStep
  <2>1. Writers' = Writers
    BY <1>6 DEF StartRejected, Writers, Running
  <2> QED BY <1>6, <2>1, Stutter DEF StartRejected
<1>7. ASSUME NEW g \in Gen, StartFailed(g) PROVE ContractStep
  <2>1. Writers' = Writers
    BY <1>7 DEF StartFailed, Writers, Running
  <2>2. CASE g = 1
    BY <1>7, <2>1, <2>2, StartCloseImplements DEF StartFailed
  <2>3. CASE g # 1
    BY <1>7, <2>1, <2>3, Stutter DEF StartFailed
  <2> QED BY <2>2, <2>3
<1>8. ASSUME NEW r \in Readers, NEW g \in Gen, AcquireReader(r, g)
      PROVE  ContractStep
  BY <1>8, Stutter DEF AcquireReader, Writers
<1>9. ASSUME NEW r \in Readers, ReleaseReader(r) PROVE ContractStep
  BY <1>9, Stutter DEF ReleaseReader, Writers
<1> QED BY <1>1, <1>2, <1>3, <1>4, <1>5, <1>6, <1>7, <1>8,
         <1>9 DEF Handlers

LEMMA SweepsImplements ==
  ASSUME SessionInv, Sweeps PROVE ContractStep
<1> USE DEF SessionInv, TypeOK, sessionVars, genVars, throttleVars, gateVars,
      fileVars, runnerVars, cleanupVars, clientVars
<1>1. CASE Expire
  <2>1. Writers' = Writers /\ UNCHANGED <<current, counter, dir>>
    BY <1>1 DEF Expire, CloseUnchanged, Writers
  <2> QED BY <1>1, <2>1, StartCloseImplements DEF Expire
<1>2. CASE ShutdownCancels
  BY <1>2, Stutter DEF ShutdownCancels, Writers
<1>3. CASE ShutdownCloses
  <2>1. Writers' = Writers /\ UNCHANGED <<current, counter, dir>>
    BY <1>3 DEF ShutdownCloses, CloseUnchanged, Writers
  <2> QED BY <1>3, <2>1, StartCloseImplements DEF ShutdownCloses
<1> QED BY <1>1, <1>2, <1>3 DEF Sweeps

LEMMA RunnerImplements ==
  ASSUME SessionInv, NEW g \in Gen, RunnerStep(g) PROVE ContractStep
<1> USE DEF SessionInv, TypeOK, sessionVars, genVars, throttleVars, gateVars,
      fileVars, runnerVars, cleanupVars, clientVars, Running, RunnerGoes
<1>1. CASE AttemptRefused(g)
  BY <1>1, RunnerMoves DEF AttemptRefused
<1>2. CASE AttemptBegins(g)
  BY <1>2, RunnerMoves DEF AttemptBegins
<1>3. CASE EncoderStarts(g)
  BY <1>3, RunnerMoves DEF EncoderStarts
<1>4. CASE EncoderRefused(g)
  BY <1>4, RunnerMoves DEF EncoderRefused
<1>5. CASE RecordStarted(g)
  BY <1>5, RunnerMoves DEF RecordStarted
<1>6. CASE EncoderJoined(g)
  BY <1>6, RunnerMoves DEF EncoderJoined
<1>7. CASE WatcherJoined(g)
  BY <1>7, RunnerMoves DEF WatcherJoined
<1>8. CASE RunnerMarksReady(g)
  <2>1. Writers' = Writers
    BY <1>8 DEF RunnerMarksReady, Writers
  <2> QED BY <1>8, <2>1, Stutter DEF RunnerMarksReady
<1>9. CASE RunnerActivates(g)
  <2>1. CASE CanActivate(g)
    <3>1. /\ Activate(g) /\ runner[g] \in Running /\ Writers' = Writers
          /\ UNCHANGED <<closing, counter, dir>>
      BY <1>9, <2>1 DEF RunnerActivates, Writers
    <3> QED BY <2>1, <3>1, ActivateImplements
  <2>2. CASE ~CanActivate(g)
    BY <1>9, <2>2, RunnerMoves DEF RunnerActivates
  <2> QED BY <2>1, <2>2
<1>10. CASE FinishPublished(g)
  BY <1>10, RunnerMoves DEF FinishPublished
<1>11. CASE FallBack(g)
  BY <1>11, RunnerMoves DEF FallBack
<1>12. CASE GiveUp(g)
  BY <1>12, RunnerMoves DEF GiveUp
<1>13. CASE ReportFailed(g)
  BY <1>13, RunnerMoves DEF ReportFailed
<1>14. CASE ReleaseProcess(g)
  <2>1. /\ g \in Writers /\ Writers' = Writers \ {g}
        /\ UNCHANGED <<closing, current, counter, dir>>
    BY <1>14 DEF ReleaseProcess, Writers
  <2>2. Contract!StopWriting(g)
    BY <2>1 DEF Contract!StopWriting, Writers
  <2> QED BY <2>2 DEF ContractStep, Contract!Next
<1> QED BY <1>1, <1>2, <1>3, <1>4, <1>5, <1>6, <1>7, <1>8,
         <1>9, <1>10, <1>11, <1>12, <1>13, <1>14 DEF RunnerStep

LEMMA EncoderImplements ==
  ASSUME SessionInv, NEW g \in Gen, EncoderStep(g) PROVE ContractStep
<1> USE DEF SessionInv, TypeOK, sessionVars, genVars, throttleVars, gateVars,
      fileVars, runnerVars, cleanupVars, clientVars
<1>1. CASE WriteSegment(g)
  BY <1>1, Stutter DEF WriteSegment, Writers
<1>2. CASE EncoderEnds(g)
  BY <1>2, Stutter DEF EncoderEnds, Writers
<1>3. CASE StoppedEncoderKilled(g)
  BY <1>3, Stutter DEF StoppedEncoderKilled, Writers
<1> QED BY <1>1, <1>2, <1>3 DEF EncoderStep

LEMMA WatcherImplements ==
  ASSUME SessionInv, NEW g \in Gen, WatcherStep(g) PROVE ContractStep
<1> USE DEF SessionInv, TypeOK, sessionVars, genVars, throttleVars, gateVars,
      fileVars, runnerVars, cleanupVars, clientVars
<1>1. CASE WatcherSeesSegment(g)
  BY <1>1, Stutter DEF WatcherSeesSegment, Writers
<1>2. CASE WatcherStops(g)
  BY <1>2, Stutter DEF WatcherStops, Writers
<1>3. CASE WatcherMarksReady(g)
  BY <1>3, Stutter DEF WatcherMarksReady, Writers
<1>4. CASE WatcherActivates(g)
  <2>1. Writers' = Writers
    BY <1>4 DEF WatcherActivates, Writers
  <2>2. CASE CanActivate(g)
    <3>1. /\ Activate(g) /\ runner[g] \in Running
          /\ UNCHANGED <<closing, counter, dir>>
      BY <1>4, <2>2 DEF WatcherActivates, TimelineInv, WatcherInAttempt,
         Running
    <3> QED BY <2>1, <2>2, <3>1, ActivateImplements
  <2>3. CASE ~CanActivate(g)
    BY <1>4, <2>1, <2>3, Stutter DEF WatcherActivates
  <2> QED BY <2>2, <2>3
<1> QED BY <1>1, <1>2, <1>3, <1>4 DEF WatcherStep

LEMMA RetireImplements ==
  ASSUME SessionInv, NEW g \in Gen, RetireStep(g) PROVE ContractStep
<1> USE DEF SessionInv, TypeOK, sessionVars, genVars, throttleVars, gateVars,
      fileVars, runnerVars, cleanupVars, clientVars
<1>1. CASE RetireCancels(g)
  BY <1>1, Stutter DEF RetireCancels, Writers
<1>2. CASE RetireStopsReaders(g)
  BY <1>2, Stutter DEF RetireStopsReaders, Writers
<1>3. CASE RetireDrained(g)
  BY <1>3, Stutter DEF RetireDrained, Writers
<1>4. CASE RetireRemoves(g)
  <2>1. Drained(g) /\ g < current /\ current # 0
    BY <1>4, GenRange DEF RetireRemoves, StoreInv, RetireWaited, TimelineInv,
       RetiredOlder
  <2>2. \/ dir' = dir
        \/ dir' = dir \ {g}
    BY <1>4 DEF RetireRemoves
  <2>3. UNCHANGED <<closing, current, counter, runner>>
    BY <1>4 DEF RetireRemoves
  <2>4. CASE dir' = dir
    BY <2>3, <2>4, Stutter DEF Writers
  <2>5. CASE dir' = dir \ {g}
    <3>1. /\ {g} \in SUBSET Gen
          /\ \A h \in {g} : Drained(h) /\ h < current
      BY <2>1
    <3> QED BY <2>1, <2>3, <2>5, <3>1, RemoveImplements
  <2> QED BY <2>2, <2>4, <2>5
<1> QED BY <1>1, <1>2, <1>3, <1>4 DEF RetireStep

LEMMA CleanupImplements ==
  ASSUME SessionInv, CleanupStep PROVE ContractStep
<1> USE DEF SessionInv, TypeOK, sessionVars, genVars, throttleVars, gateVars,
      fileVars, runnerVars, cleanupVars, clientVars
<1>1. CASE CleanupSnapshots
  BY <1>1, Stutter DEF CleanupSnapshots, Writers
<1>2. CASE CleanupProcessesGone
  BY <1>2, Stutter DEF CleanupProcessesGone, Writers
<1>3. CASE CleanupTimesOut
  BY <1>3, Stutter DEF CleanupTimesOut, Writers
<1>4. CASE CleanupDrained
  BY <1>4, Stutter DEF CleanupDrained, Writers
<1>5. CASE CleanupRemoves
  <2>1. closing /\ \A g \in Gen : Begun(g) => Drained(g)
    BY <1>5 DEF CleanupRemoves, StoreInv, CleanupWaited, Waited
  <2>2. \A g \in dir : Drained(g)
    BY <2>1 DEF StoreInv, Unbegun
  <2>3. dir' = dir \ (dir \ dir') /\ dir \ dir' \in SUBSET Gen
    BY <1>5 DEF CleanupRemoves
  <2>4. UNCHANGED <<closing, current, counter, runner>>
    BY <1>5 DEF CleanupRemoves
  <2> QED BY <2>1, <2>2, <2>3, <2>4, RemoveImplements
<1>6. CASE CleanupUnregisters
  BY <1>6, Stutter DEF CleanupUnregisters, Writers
<1>7. CASE CleanupFinishes
  BY <1>7, Stutter DEF CleanupFinishes, Writers
<1>8. ASSUME NEW g \in Gen, CleanupStopsProcess(g)
      PROVE  ContractStep
  BY <1>8, Stutter DEF CleanupStopsProcess, Writers
<1>9. ASSUME NEW g \in Gen, CleanupStopsReaders(g)
      PROVE  ContractStep
  BY <1>9, Stutter DEF CleanupStopsReaders, Writers
<1> QED BY <1>1, <1>2, <1>3, <1>4, <1>5, <1>6, <1>7, <1>8,
         <1>9 DEF CleanupStep

LEMMA NextImplements ==
  ASSUME SessionInv, [Next]_vars PROVE ContractStep
<1>1. CASE Next
  BY <1>1, HandlersImplements, SweepsImplements, RunnerImplements,
     EncoderImplements, WatcherImplements, RetireImplements,
     CleanupImplements DEF Next
<1>2. CASE UNCHANGED vars
  BY <1>2, Stutter DEF vars, Writers, sessionVars, genVars, throttleVars,
     gateVars, fileVars, runnerVars, cleanupVars, clientVars
<1> QED BY <1>1, <1>2

LEMMA InitImplements == ASSUME Init PROVE Contract!Init
BY GenRange DEF Init, Contract!Init, Running

(* The goroutines, locks and gates of a session keep its contract.         *)
THEOREM ImplementsContract == Spec => ContractSpec
<1>1. Init => Contract!Init
  BY InitImplements
<1>2. SessionInv /\ [Next]_vars => ContractStep
  BY NextImplements
<1> QED BY <1>1, <1>2, SessionInvariant, PTL DEF Spec, ContractStep,
       ContractSpec, Contract!Spec
=============================================================================
