--------------------------- MODULE PlaybackSession ---------------------------
(***************************************************************************)
(* One playback session of internal/playback/session, from the moment      *)
(* Manager.Create has registered it, with every goroutine that acts on it: *)
(*                                                                         *)
(*   - HTTP handlers: restart, heartbeat, playlist and segment reads, and  *)
(*     close (service/playback_session.go);                                *)
(*   - one runner goroutine per generation and the watcher it starts for   *)
(*     every attempt (playback/transcode/runner.go), and FFmpeg itself;    *)
(*   - retireGeneration, one goroutine per replaced generation, and        *)
(*     cleanupSession, one per session (cleanup.go);                       *)
(*   - the janitor's expiry sweep and Manager.Shutdown (manager.go).       *)
(*                                                                         *)
(* A section of code that runs under session.mu is one action. Files,      *)
(* positions and time are abstracted: a generation's directory exists or   *)
(* not, its manifest lists a segment or not, the encoder leads the player  *)
(* by an amount that is chosen freely, and a timer may fire at any moment. *)
(***************************************************************************)
EXTENDS ReaderGate, FiniteSets

CONSTANTS
  MaxGen,    \* bound: generations a session begins
  Attempts,  \* encoder attempts of one runner: 2 is hardware, then software
  Readers    \* HTTP requests that may read generation files at the same time

ASSUME PlaybackSessionAssumption ==
  /\ MaxGen \in Nat \ {0}
  /\ Attempts \in 1..2
  /\ 0 \notin Readers

Gen == 1..MaxGen

VARIABLES
  \* PlaybackSession
  state, closing, current, pending, counter, generations, registered,
  \* Generation
  genState, firstSegmentAt, cancelled, process, suspended, processGate, gate,
  \* the file system and the encoder process
  dir, segment, encoder,
  \* runner goroutines, their watchers, and what they remember
  runner, watcher, attempt, readyPublished, failed, attemptCancelled,
  \* retireGeneration, cleanupSession and the state cleanupSession will leave
  retire, retireTimedOut, cleanup, final,
  \* HTTP readers, and whether Shutdown has cancelled Manager.ctx
  reader, shutdown

sessionVars == <<state, closing, current, pending, counter, generations,
                 registered>>
throttleVars == <<process, suspended>>
gateVars == <<processGate, gate>>
fileVars == <<dir, segment>>
runnerVars == <<runner, watcher, attempt, readyPublished, failed,
                attemptCancelled>>
cleanupVars == <<retire, retireTimedOut, cleanup, final>>
clientVars == <<reader, shutdown>>
genVars == <<genState, firstSegmentAt, cancelled>>
vars == <<sessionVars, genVars, throttleVars, gateVars, fileVars, encoder,
          runnerVars, cleanupVars, clientVars>>

----------------------------------------------------------------------------
(* States of the session, of a generation and of the goroutines.           *)

SessionState == {"starting", "ready", "active", "closing", "closed", "failed",
                 "expired"}

GenerationState == {"none", "preparing", "running", "draining", "retired",
                    "failed"}

RunnerState == {"none", "starting", "startFailed", "attempt", "acquire",
                "spawned", "encoding", "joined", "check", "markReady",
                "activate", "decide", "failing", "release", "done"}

\* The runner goroutine has its ProcessLease from Runner.Start until the
\* deferred Release.
Running == {"attempt", "acquire", "spawned", "encoding", "joined", "check",
            "markReady", "activate", "decide", "failing", "release"}

\* "stopped" is a watcher that saw its context end; "error" one whose
\* publishReady was rejected.
WatcherState == {"off", "polling", "markReady", "activate", "ok", "stopped",
                 "error"}

RetireState == {"none", "cancel", "exit", "drain", "remove", "done"}

CleanupState == {"none", "snapshot", "exit", "drain", "remove", "unregister",
                 "finish", "done"}

CleanupType == [pc: CleanupState, snapshot: SUBSET Gen, todo: SUBSET Gen,
                timedOut: BOOLEAN]

TypeOK ==
  /\ state \in SessionState
  /\ closing \in BOOLEAN /\ registered \in BOOLEAN
  /\ current \in 0..MaxGen /\ pending \in 0..MaxGen /\ counter \in Gen
  /\ generations \in SUBSET Gen
  /\ genState \in [Gen -> GenerationState]
  /\ firstSegmentAt \in SUBSET Gen /\ cancelled \in SUBSET Gen
  /\ process \in SUBSET Gen /\ suspended \in SUBSET Gen
  /\ processGate \in [Gen -> GateType] /\ gate \in [Gen -> GateType]
  /\ dir \in SUBSET Gen /\ segment \in SUBSET Gen
  /\ encoder \in [Gen -> {"none", "running", "stopped"}]
  /\ runner \in [Gen -> RunnerState] /\ watcher \in [Gen -> WatcherState]
  /\ attempt \in [Gen -> 0..Attempts]
  /\ readyPublished \in SUBSET Gen /\ failed \in SUBSET Gen
  /\ attemptCancelled \in SUBSET Gen
  /\ retire \in [Gen -> RetireState] /\ retireTimedOut \in SUBSET Gen
  /\ cleanup \in CleanupType
  /\ final \in {"closed", "expired"}
  /\ reader \in [Readers -> 0..MaxGen]
  /\ shutdown \in BOOLEAN

----------------------------------------------------------------------------
(* The session as Create registers it: generation 1 prepares, and the      *)
(* handler is about to start its runner.                                   *)

Init ==
  /\ state = "starting" /\ closing = FALSE /\ registered = TRUE
  /\ current = 0 /\ pending = 1 /\ counter = 1 /\ generations = {1}
  /\ genState = [g \in Gen |-> IF g = 1 THEN "preparing" ELSE "none"]
  /\ firstSegmentAt = {} /\ cancelled = {} /\ process = {} /\ suspended = {}
  /\ processGate = [g \in Gen |-> NewGate] /\ gate = [g \in Gen |-> NewGate]
  /\ dir = {1} /\ segment = {}
  /\ encoder = [g \in Gen |-> "none"]
  /\ runner = [g \in Gen |-> IF g = 1 THEN "starting" ELSE "none"]
  /\ watcher = [g \in Gen |-> "off"] /\ attempt = [g \in Gen |-> 0]
  /\ readyPublished = {} /\ failed = {} /\ attemptCancelled = {}
  /\ retire = [g \in Gen |-> "none"] /\ retireTimedOut = {}
  /\ cleanup = [pc |-> "none", snapshot |-> {}, todo |-> {},
                timedOut |-> FALSE]
  /\ final = "closed"
  /\ reader = [r \in Readers |-> 0]
  /\ shutdown = FALSE

----------------------------------------------------------------------------
(* Predicates and updates shared by several operations.                    *)

\* Mutant of Open: an operation that only looks the session up.
OpenWhileRegistered == registered

\* getSession finds the session and it is not closing: what every operation
\* checks under session.mu before it changes anything.
Open == registered /\ ~closing

\* updateGeneration lets an execution callback through.
Updatable(g) == Open /\ g \in generations

\* Mutant of ContextDone: a context that the generation's own cancel does not end.
UncancelledContextDone(g) == closing \/ shutdown

\* generation.ctx is a child of session.ctx, which is a child of Manager.ctx.
ContextDone(g) == g \in cancelled \/ closing \/ shutdown

\* Mutant of Resume: clears the mark and does not continue the process.
ResumeMarkOnly(g) == suspended' = suspended \ {g} /\ UNCHANGED encoder

\* resumeIfSuspended: clear the mark, and continue a process that is stopped.
Resume(g) ==
  /\ suspended' = suspended \ {g}
  /\ encoder' = IF g \in suspended \cap process /\ encoder[g] = "stopped"
                  THEN [encoder EXCEPT ![g] = "running"]
                  ELSE encoder

\* ActivateGeneration, past its checks. The previous generation drains, and a
\* retireGeneration goroutine is started for it.
Activate(g) ==
  LET previous == generations \cap ({current} \ {g})
  IN  /\ genState' = [h \in Gen |-> CASE h = g -> "running"
                                      [] h \in previous -> "draining"
                                      [] OTHER -> genState[h]]
      /\ retire' = [h \in Gen |-> IF h \in previous THEN "cancel"
                                                    ELSE retire[h]]
      /\ current' = g /\ pending' = 0 /\ state' = "ready"

\* Mutant of CanActivate: no check that the session is still open.
CanActivateLate(g) == pending = g /\ genState[g] = "preparing"

CanActivate(g) ==
  Updatable(g) /\ pending = g /\ genState[g] = "preparing"

\* Mutant of Published.
PublishedIgnored(g) == FALSE

\* A late encoder failure leaves a published timeline alone ...
Published(g) == g \in firstSegmentAt /\ current = g

\* Mutant of PendingWithout: the failed generation stays pending.
PendingKept(g) == pending

\* ... and the failure of the pending generation lets another one begin.
PendingWithout(g) == IF pending = g THEN 0 ELSE pending

\* MarkGenerationFailed: a published timeline keeps its state, any other
\* generation fails, and with it a session that has no readable generation.
MarkFailed(g) ==
  IF ~Updatable(g)
    THEN UNCHANGED <<state, pending, genState, cancelled, throttleVars>>
    ELSE /\ process' = process \ {g}
         /\ suspended' = suspended \ {g}
         /\ cancelled' = cancelled \cup {g}
         /\ IF Published(g)
              THEN UNCHANGED <<state, pending, genState>>
              ELSE /\ genState' = [genState EXCEPT ![g] = "failed"]
                   /\ pending' = PendingWithout(g)
                   /\ state' = IF current \in {0, g} THEN "failed" ELSE state

\* startClose: only the first caller closes the session and starts the cleanup
\* goroutine.
StartClose(result) ==
  IF closing
    THEN UNCHANGED <<state, closing, cleanup, final>>
    ELSE /\ closing' = TRUE /\ state' = "closing" /\ final' = result
         /\ cleanup' = [cleanup EXCEPT !.pc = "snapshot"]

----------------------------------------------------------------------------
(* HTTP handlers.                                                          *)

\* BeginGeneration, on behalf of PlaybackSessionService.Restart. A failing
\* MkdirAll takes the counter back and changes nothing.
BeginGeneration ==
  LET g == counter + 1
  IN  /\ Open /\ pending = 0
      /\ counter < MaxGen
      /\ counter' = g /\ pending' = g
      /\ generations' = generations \cup {g}
      /\ genState' = [genState EXCEPT ![g] = "preparing"]
      /\ dir' = dir \cup {g}
      /\ runner' = [runner EXCEPT ![g] = "starting"]
      /\ UNCHANGED <<state, closing, current, registered, firstSegmentAt,
                     cancelled, throttleVars, gateVars, segment, encoder,
                     watcher, attempt, readyPublished, failed,
                     attemptCancelled, cleanupVars, clientVars>>

\* Runner.Start: AcquireProcess, then the runner goroutine.
StartRunner(g) ==
  /\ runner[g] = "starting"
  /\ Updatable(g) /\ CanAcquire(processGate[g])
  /\ processGate' = [processGate EXCEPT ![g] = Acquired(@)]
  /\ runner' = [runner EXCEPT ![g] = "attempt"]
  /\ attempt' = [attempt EXCEPT ![g] = 1]
  /\ UNCHANGED <<sessionVars, genVars, throttleVars, gate, fileVars, encoder,
                 watcher, readyPublished, failed, attemptCancelled,
                 cleanupVars, clientVars>>

\* startGeneration returns an error: the request's context has ended, the
\* input or the profile is not available, or Runtime and AcquireProcess reject.
StartRejected(g) ==
  /\ runner[g] = "starting"
  /\ runner' = [runner EXCEPT ![g] = "startFailed"]
  /\ UNCHANGED <<sessionVars, genVars, throttleVars, gateVars, fileVars,
                 encoder, watcher, attempt, readyPublished, failed,
                 attemptCancelled, cleanupVars, clientVars>>

\* What the service does then: Create closes the session, Restart marks the
\* generation failed.
StartFailed(g) ==
  /\ runner[g] = "startFailed"
  /\ runner' = [runner EXCEPT ![g] = "done"]
  /\ IF g = 1
       THEN /\ StartClose("closed")
            /\ UNCHANGED <<pending, genState, cancelled, throttleVars>>
       ELSE /\ MarkFailed(g)
            /\ UNCHANGED <<closing, cleanup, final>>
  /\ UNCHANGED <<current, counter, generations, registered, firstSegmentAt,
                 gateVars, fileVars, encoder, watcher, attempt,
                 readyPublished, failed, attemptCancelled, retire,
                 retireTimedOut, clientVars>>

\* Heartbeat names the current generation, or none.
Heartbeat ==
  /\ Open /\ current # 0
  /\ state' = IF state \in {"ready", "starting"} THEN "active" ELSE state
  /\ UNCHANGED <<closing, current, pending, counter, generations, registered,
                 genVars, throttleVars, gateVars, fileVars, encoder,
                 runnerVars, cleanupVars, clientVars>>

\* ReconcileThrottle, which the heartbeat handler and every progress line of
\* any encoder of the session call. The encoder's lead over the player is at
\* or above the high watermark (suspend) or at or below the low one (resume);
\* a signal to a process that has exited fails and changes nothing.
ReconcileThrottle ==
  LET g == current
  IN  /\ Open /\ g \in generations \cap process
      /\ genState[g] = "running"
      /\ \/ /\ g \notin suspended /\ encoder[g] = "running"
            /\ suspended' = suspended \cup {g}
            /\ encoder' = [encoder EXCEPT ![g] = "stopped"]
         \/ /\ g \in suspended /\ encoder[g] = "stopped"
            /\ Resume(g)
      /\ UNCHANGED <<sessionVars, genVars, process, gateVars, fileVars,
                     runnerVars, cleanupVars, clientVars>>

\* AcquireReader and the Touch that follows it.
AcquireReader(r, g) ==
  /\ reader[r] = 0
  /\ Updatable(g) /\ g = current /\ genState[g] = "running"
  /\ CanAcquire(gate[g])
  /\ gate' = [gate EXCEPT ![g] = Acquired(@)]
  /\ reader' = [reader EXCEPT ![r] = g]
  /\ UNCHANGED <<sessionVars, genVars, throttleVars, processGate, fileVars,
                 encoder, runnerVars, cleanupVars, shutdown>>

\* ReaderLease.Release, once per lease.
ReleaseReader(r) ==
  /\ reader[r] # 0
  /\ gate' = [gate EXCEPT ![reader[r]] = Released(@)]
  /\ reader' = [reader EXCEPT ![r] = 0]
  /\ UNCHANGED <<sessionVars, genVars, throttleVars, processGate, fileVars,
                 encoder, runnerVars, cleanupVars, shutdown>>

CloseUnchanged ==
  UNCHANGED <<current, pending, counter, generations, registered, genVars,
              throttleVars, gateVars, fileVars, encoder, runnerVars, retire,
              retireTimedOut, reader>>

\* Manager.Close, called by the client.
Close ==
  /\ registered
  /\ StartClose("closed")
  /\ UNCHANGED shutdown
  /\ CloseUnchanged

----------------------------------------------------------------------------
(* The janitor and Shutdown.                                               *)

\* reapExpired: lastSeen is older than ActiveTimeout or PausedTimeout. Time is
\* not modelled here, so a session may be found expired at any moment; module
\* SessionRegistry has the clock and the window between check and close.
Expire ==
  /\ Open
  /\ StartClose("expired")
  /\ UNCHANGED shutdown
  /\ CloseUnchanged

\* Shutdown cancels Manager.ctx first, and closes the sessions afterwards.
ShutdownCancels ==
  /\ registered /\ ~shutdown /\ shutdown' = TRUE
  /\ UNCHANGED <<sessionVars, genVars, throttleVars, gateVars, fileVars,
                 encoder, runnerVars, cleanupVars, reader>>

ShutdownCloses ==
  /\ shutdown /\ ~closing
  /\ StartClose("closed")
  /\ UNCHANGED shutdown
  /\ CloseUnchanged

----------------------------------------------------------------------------
(* The runner goroutine and FFmpeg.                                        *)

RunnerGoes(g, to) == runner' = [runner EXCEPT ![g] = to]

\* The top of the loop: the context has ended, or the deadline for the first
\* segment has passed, or a second attempt cannot empty the directory.
AttemptRefused(g) ==
  /\ runner[g] = "attempt"
  /\ RunnerGoes(g, "failing")
  /\ failed' = failed \cup {g}
  /\ UNCHANGED <<sessionVars, genVars, throttleVars, gateVars, fileVars,
                 encoder, watcher, attempt, readyPublished, attemptCancelled,
                 cleanupVars, clientVars>>

\* Otherwise a second attempt empties the directory, every attempt resets what
\* the generation records of the last one, and starts its watcher.
AttemptBegins(g) ==
  /\ runner[g] = "attempt" /\ ~ContextDone(g)
  /\ segment' = IF attempt[g] > 1 THEN segment \ {g} ELSE segment
  /\ IF Updatable(g)
       THEN /\ process' = process \ {g}
            /\ suspended' = suspended \ {g}
            /\ firstSegmentAt' = firstSegmentAt \ {g}
       ELSE UNCHANGED <<throttleVars, firstSegmentAt>>
  /\ RunnerGoes(g, "acquire")
  /\ watcher' = [watcher EXCEPT ![g] = "polling"]
  /\ failed' = failed \ {g}
  /\ attemptCancelled' = attemptCancelled \ {g}
  /\ UNCHANGED <<sessionVars, genState, cancelled, gateVars, dir, encoder,
                 attempt, readyPublished, cleanupVars, clientVars>>

\* Runtime.Run: the governor grants a slot and the process starts ...
EncoderStarts(g) ==
  /\ runner[g] = "acquire"
  /\ ~ContextDone(g) /\ g \notin attemptCancelled
  /\ RunnerGoes(g, "spawned")
  /\ encoder' = [encoder EXCEPT ![g] = "running"]
  /\ UNCHANGED <<sessionVars, genVars, throttleVars, gateVars, fileVars,
                 watcher, attempt, readyPublished, failed, attemptCancelled,
                 cleanupVars, clientVars>>

\* ... or the attempt's context ends first, or the process does not start.
EncoderRefused(g) ==
  /\ runner[g] = "acquire"
  /\ RunnerGoes(g, "joined")
  /\ failed' = failed \cup {g}
  /\ attemptCancelled' = attemptCancelled \cup {g}
  /\ UNCHANGED <<sessionVars, genVars, throttleVars, gateVars, fileVars,
                 encoder, watcher, attempt, readyPublished, cleanupVars,
                 clientVars>>

\* OnStarted: MarkGenerationStarted records the process.
RecordStarted(g) ==
  /\ runner[g] = "spawned"
  /\ RunnerGoes(g, "encoding")
  /\ process' = IF Updatable(g) THEN process \cup {g} ELSE process
  /\ UNCHANGED <<sessionVars, genVars, suspended, gateVars, fileVars, encoder,
                 watcher, attempt, readyPublished, failed, attemptCancelled,
                 cleanupVars, clientVars>>

\* FFmpeg writes a segment and lists it in the manifest.
WriteSegment(g) ==
  /\ encoder[g] = "running" /\ g \in dir
  /\ segment' = segment \cup {g}
  /\ UNCHANGED <<sessionVars, genVars, throttleVars, gateVars, dir, encoder,
                 runnerVars, cleanupVars, clientVars>>

\* The process ends: by itself, well or not, or killed with its context.
EncoderEnds(g) ==
  /\ encoder[g] = "running"
  /\ encoder' = [encoder EXCEPT ![g] = "none"]
  /\ \/ UNCHANGED failed
     \/ failed' = failed \cup {g}
  /\ UNCHANGED <<sessionVars, genVars, throttleVars, gateVars, fileVars,
                 runner, watcher, attempt, readyPublished, attemptCancelled,
                 cleanupVars, clientVars>>

Killed(g) == ContextDone(g) \/ g \in attemptCancelled

\* A stopped process can be killed on some platforms and has to be resumed
\* first on others, so nothing forces this action.
StoppedEncoderKilled(g) ==
  /\ encoder[g] = "stopped" /\ Killed(g)
  /\ encoder' = [encoder EXCEPT ![g] = "none"]
  /\ failed' = failed \cup {g}
  /\ UNCHANGED <<sessionVars, genVars, throttleVars, gateVars, fileVars,
                 runner, watcher, attempt, readyPublished, attemptCancelled,
                 cleanupVars, clientVars>>

\* ProcessRunner.Run returns, with the context's error if that has ended; the
\* runner cancels the attempt and its watcher.
EncoderJoined(g) ==
  /\ runner[g] = "encoding" /\ encoder[g] = "none"
  /\ RunnerGoes(g, "joined")
  /\ failed' = IF Killed(g) THEN failed \cup {g} ELSE failed
  /\ attemptCancelled' = attemptCancelled \cup {g}
  /\ UNCHANGED <<sessionVars, genVars, throttleVars, gateVars, fileVars,
                 encoder, watcher, attempt, readyPublished, cleanupVars,
                 clientVars>>

\* <-watchDone, and a last look at the manifest if nothing is published yet.
WatcherJoined(g) ==
  /\ runner[g] = "joined" /\ watcher[g] \in {"ok", "stopped", "error"}
  /\ RunnerGoes(g, IF g \notin readyPublished /\ g \in segment
                     THEN "markReady" ELSE "decide")
  /\ UNCHANGED <<sessionVars, genVars, throttleVars, gateVars, fileVars,
                 encoder, watcher, attempt, readyPublished, failed,
                 attemptCancelled, cleanupVars, clientVars>>

\* publishReady, first half: MarkFirstSegmentReady.
RunnerMarksReady(g) ==
  /\ runner[g] = "markReady"
  /\ IF Updatable(g)
       THEN /\ firstSegmentAt' = firstSegmentAt \cup {g}
            /\ RunnerGoes(g, "activate")
            /\ UNCHANGED failed
       ELSE /\ RunnerGoes(g, "decide")
            /\ failed' = failed \cup {g}
            /\ UNCHANGED firstSegmentAt
  /\ UNCHANGED <<sessionVars, genState, cancelled, throttleVars, gateVars,
                 fileVars, encoder, watcher, attempt, readyPublished,
                 attemptCancelled, cleanupVars, clientVars>>

\* publishReady, second half: ActivateGeneration.
RunnerActivates(g) ==
  /\ runner[g] = "activate"
  /\ RunnerGoes(g, "decide")
  /\ IF CanActivate(g)
       THEN /\ Activate(g)
            /\ readyPublished' = readyPublished \cup {g}
            /\ UNCHANGED failed
       ELSE /\ failed' = failed \cup {g}
            /\ UNCHANGED <<genState, retire, current, pending, state,
                           readyPublished>>
  /\ UNCHANGED <<closing, counter, generations, registered, firstSegmentAt,
                 cancelled, throttleVars, gateVars, fileVars, encoder,
                 watcher, attempt, attemptCancelled, retireTimedOut, cleanup,
                 final, reader, shutdown>>

\* A published generation whose encoder finished: MarkGenerationCompleted. If
\* it failed, and not because its context ended: MarkGenerationFailed.
FinishPublished(g) ==
  /\ runner[g] = "decide" /\ g \in readyPublished
  /\ RunnerGoes(g, "release")
  /\ IF g \in failed
       THEN IF ContextDone(g)
              THEN UNCHANGED <<state, pending, genState, cancelled,
                               throttleVars>>
              ELSE MarkFailed(g)
       ELSE /\ process' = IF Updatable(g) THEN process \ {g} ELSE process
            /\ suspended' = IF Updatable(g) THEN suspended \ {g} ELSE suspended
            /\ UNCHANGED <<state, pending, genState, cancelled>>
  /\ UNCHANGED <<closing, current, counter, generations, registered,
                 firstSegmentAt, gateVars, fileVars, encoder, watcher,
                 attempt, readyPublished, failed, attemptCancelled,
                 cleanupVars, clientVars>>

CanFallBack(g) ==
  watcher[g] # "error" /\ attempt[g] < Attempts /\ ~ContextDone(g)

\* Nothing published after a hardware attempt, and time left: fall back.
FallBack(g) ==
  /\ runner[g] = "decide" /\ g \notin readyPublished
  /\ CanFallBack(g)
  /\ RunnerGoes(g, "attempt")
  /\ attempt' = [attempt EXCEPT ![g] = @ + 1]
  /\ UNCHANGED <<sessionVars, genVars, throttleVars, gateVars, fileVars,
                 encoder, watcher, readyPublished, failed, attemptCancelled,
                 cleanupVars, clientVars>>

\* Nothing published and no fallback: it was the last attempt, the deadline
\* has passed, or the watcher met an error.
GiveUp(g) ==
  /\ runner[g] = "decide" /\ g \notin readyPublished
  /\ RunnerGoes(g, "failing")
  /\ UNCHANGED <<sessionVars, genVars, throttleVars, gateVars, fileVars,
                 encoder, watcher, attempt, readyPublished, failed,
                 attemptCancelled, cleanupVars, clientVars>>

ReportFailed(g) ==
  /\ runner[g] = "failing"
  /\ RunnerGoes(g, "release")
  /\ MarkFailed(g)
  /\ UNCHANGED <<closing, current, counter, generations, registered,
                 firstSegmentAt, gateVars, fileVars, encoder, watcher,
                 attempt, readyPublished, failed, attemptCancelled,
                 cleanupVars, clientVars>>

\* The deferred ProcessLease.Release.
ReleaseProcess(g) ==
  /\ runner[g] = "release"
  /\ RunnerGoes(g, "done")
  /\ processGate' = [processGate EXCEPT ![g] = Released(@)]
  /\ UNCHANGED <<sessionVars, genVars, throttleVars, gate, fileVars, encoder,
                 watcher, attempt, readyPublished, failed, attemptCancelled,
                 cleanupVars, clientVars>>

----------------------------------------------------------------------------
(* The watcher of an attempt.                                              *)

WatcherGoes(g, to) == watcher' = [watcher EXCEPT ![g] = to]

WatcherSeesSegment(g) ==
  /\ watcher[g] = "polling" /\ g \in segment
  /\ WatcherGoes(g, "markReady")
  /\ UNCHANGED <<sessionVars, genVars, throttleVars, gateVars, fileVars,
                 encoder, runner, attempt, readyPublished, failed,
                 attemptCancelled, cleanupVars, clientVars>>

\* The attempt's deadline passes, or its context ends: stop the encoder.
WatcherStops(g) ==
  /\ watcher[g] = "polling"
  /\ WatcherGoes(g, "stopped")
  /\ attemptCancelled' = attemptCancelled \cup {g}
  /\ UNCHANGED <<sessionVars, genVars, throttleVars, gateVars, fileVars,
                 encoder, runner, attempt, readyPublished, failed,
                 cleanupVars, clientVars>>

WatcherMarksReady(g) ==
  /\ watcher[g] = "markReady"
  /\ IF Updatable(g)
       THEN /\ firstSegmentAt' = firstSegmentAt \cup {g}
            /\ WatcherGoes(g, "activate")
            /\ UNCHANGED attemptCancelled
       ELSE /\ WatcherGoes(g, "error")
            /\ attemptCancelled' = attemptCancelled \cup {g}
            /\ UNCHANGED firstSegmentAt
  /\ UNCHANGED <<sessionVars, genState, cancelled, throttleVars, gateVars,
                 fileVars, encoder, runner, attempt, readyPublished, failed,
                 cleanupVars, clientVars>>

WatcherActivates(g) ==
  /\ watcher[g] = "activate"
  /\ IF CanActivate(g)
       THEN /\ Activate(g)
            /\ WatcherGoes(g, "ok")
            /\ readyPublished' = readyPublished \cup {g}
            /\ UNCHANGED attemptCancelled
       ELSE /\ WatcherGoes(g, "error")
            /\ attemptCancelled' = attemptCancelled \cup {g}
            /\ UNCHANGED <<genState, retire, current, pending, state,
                           readyPublished>>
  /\ UNCHANGED <<closing, counter, generations, registered, firstSegmentAt,
                 cancelled, throttleVars, gateVars, fileVars, encoder,
                 runner, attempt, failed, retireTimedOut, cleanup, final,
                 reader, shutdown>>

----------------------------------------------------------------------------
(* retireGeneration: the goroutine of a replaced generation.               *)

RetireGoes(g, to) == retire' = [retire EXCEPT ![g] = to]

\* Cancel the context, resume a suspended process, and close the process gate.
RetireCancels(g) ==
  /\ retire[g] = "cancel"
  /\ RetireGoes(g, "exit")
  /\ cancelled' = cancelled \cup {g}
  /\ Resume(g)
  /\ processGate' = [processGate EXCEPT ![g] = ClosedGate(@)]
  /\ UNCHANGED <<sessionVars, genState, firstSegmentAt, process, gate,
                 fileVars, runnerVars, retireTimedOut, cleanup, final,
                 clientVars>>

\* The runner has released its lease: turn readers away.
RetireStopsReaders(g) ==
  /\ retire[g] = "exit" /\ processGate[g].done
  /\ RetireGoes(g, "drain")
  /\ gate' = [gate EXCEPT ![g] = ClosedGate(@)]
  /\ UNCHANGED <<sessionVars, genVars, throttleVars, processGate, fileVars,
                 encoder, runnerVars, retireTimedOut, cleanup, final,
                 clientVars>>

\* The last reader leaves, or CloseDrainTimeout passes.
RetireDrained(g) ==
  /\ retire[g] = "drain"
  /\ RetireGoes(g, "remove")
  /\ \/ gate[g].done /\ UNCHANGED retireTimedOut
     \/ retireTimedOut' = retireTimedOut \cup {g}
  /\ UNCHANGED <<sessionVars, genVars, throttleVars, gateVars, fileVars,
                 encoder, runnerVars, cleanup, final, clientVars>>

\* moveAndRemove of the generation's directory, which may fail and leave it;
\* then the generation leaves the session's table.
RetireRemoves(g) ==
  /\ retire[g] = "remove"
  /\ RetireGoes(g, "done")
  /\ dir' \in {dir, dir \ {g}}
  /\ segment' = segment \cap dir'
  /\ genState' = [genState EXCEPT ![g] = "retired"]
  /\ generations' = IF g # current THEN generations \ {g} ELSE generations
  /\ UNCHANGED <<state, closing, current, pending, counter, registered,
                 firstSegmentAt, cancelled, throttleVars, gateVars, encoder,
                 runnerVars, retireTimedOut, cleanup, final, clientVars>>

----------------------------------------------------------------------------
(* cleanupSession: the goroutine of a closing session.                     *)

\* The gates cleanup has closed and has to wait for.
CleanupVisited == cleanup.snapshot \ cleanup.todo

\* Copy the generation table and cancel what it holds.
CleanupSnapshots ==
  /\ cleanup.pc = "snapshot"
  /\ cleanup' = [cleanup EXCEPT !.pc = "exit", !.snapshot = generations,
                                !.todo = generations]
  /\ cancelled' = cancelled \cup generations
  /\ UNCHANGED <<sessionVars, genState, firstSegmentAt, throttleVars,
                 gateVars, fileVars, encoder, runnerVars, retire,
                 retireTimedOut, final, clientVars>>

\* waitForProcessExit, one generation after the other: resume, close the gate,
\* and wait without a limit.
CleanupStopsProcess(g) ==
  /\ cleanup.pc = "exit" /\ g \in cleanup.todo
  /\ \A h \in CleanupVisited : processGate[h].done
  /\ cleanup' = [cleanup EXCEPT !.todo = @ \ {g}]
  /\ Resume(g)
  /\ processGate' = [processGate EXCEPT ![g] = ClosedGate(@)]
  /\ UNCHANGED <<sessionVars, genVars, process, gate, fileVars, runnerVars,
                 retire, retireTimedOut, final, clientVars>>

CleanupProcessesGone ==
  /\ cleanup.pc = "exit" /\ cleanup.todo = {}
  /\ \A h \in cleanup.snapshot : processGate[h].done
  /\ cleanup' = [cleanup EXCEPT !.pc = "drain", !.todo = cleanup.snapshot]
  /\ UNCHANGED <<sessionVars, genVars, throttleVars, gateVars, fileVars,
                 encoder, runnerVars, retire, retireTimedOut, final,
                 clientVars>>

\* The same for the readers, with one CloseDrainTimeout for all of them.
CleanupStopsReaders(g) ==
  /\ cleanup.pc = "drain" /\ g \in cleanup.todo
  /\ cleanup.timedOut \/ \A h \in CleanupVisited : gate[h].done
  /\ cleanup' = [cleanup EXCEPT !.todo = @ \ {g}]
  /\ gate' = [gate EXCEPT ![g] = ClosedGate(@)]
  /\ UNCHANGED <<sessionVars, genVars, throttleVars, processGate, fileVars,
                 encoder, runnerVars, retire, retireTimedOut, final,
                 clientVars>>

CleanupTimesOut ==
  /\ cleanup.pc = "drain" /\ ~cleanup.timedOut
  /\ cleanup' = [cleanup EXCEPT !.timedOut = TRUE]
  /\ UNCHANGED <<sessionVars, genVars, throttleVars, gateVars, fileVars,
                 encoder, runnerVars, retire, retireTimedOut, final,
                 clientVars>>

CleanupDrained ==
  /\ cleanup.pc = "drain" /\ cleanup.todo = {}
  /\ cleanup.timedOut \/ \A h \in cleanup.snapshot : gate[h].done
  /\ cleanup' = [cleanup EXCEPT !.pc = "remove"]
  /\ UNCHANGED <<sessionVars, genVars, throttleVars, gateVars, fileVars,
                 encoder, runnerVars, retire, retireTimedOut, final,
                 clientVars>>

\* moveAndRemove of the session's directory. The rename takes everything; the
\* direct removal it falls back to may leave some of it.
CleanupRemoves ==
  /\ cleanup.pc = "remove"
  /\ cleanup' = [cleanup EXCEPT !.pc = "unregister"]
  /\ dir' \in SUBSET dir
  /\ segment' = segment \cap dir'
  /\ genState' = [g \in Gen |-> IF g \in cleanup.snapshot THEN "retired"
                                                          ELSE genState[g]]
  /\ UNCHANGED <<sessionVars, firstSegmentAt, cancelled, throttleVars,
                 gateVars, encoder, runnerVars, retire, retireTimedOut, final,
                 clientVars>>

CleanupUnregisters ==
  /\ cleanup.pc = "unregister"
  /\ cleanup' = [cleanup EXCEPT !.pc = "finish"]
  /\ registered' = FALSE
  /\ UNCHANGED <<state, closing, current, pending, counter, generations,
                 genVars, throttleVars, gateVars, fileVars, encoder,
                 runnerVars, retire, retireTimedOut, final, clientVars>>

CleanupFinishes ==
  /\ cleanup.pc = "finish"
  /\ cleanup' = [cleanup EXCEPT !.pc = "done"]
  /\ state' = final
  /\ UNCHANGED <<closing, current, pending, counter, generations, registered,
                 genVars, throttleVars, gateVars, fileVars, encoder,
                 runnerVars, retire, retireTimedOut, final, clientVars>>

----------------------------------------------------------------------------

Handlers ==
  \/ BeginGeneration \/ Heartbeat \/ ReconcileThrottle \/ Close
  \/ \E g \in Gen : StartRunner(g) \/ StartRejected(g) \/ StartFailed(g)
  \/ \E r \in Readers :
       ReleaseReader(r) \/ \E g \in Gen : AcquireReader(r, g)

Sweeps == Expire \/ ShutdownCancels \/ ShutdownCloses

RunnerStep(g) ==
  \/ AttemptRefused(g) \/ AttemptBegins(g)
  \/ EncoderStarts(g) \/ EncoderRefused(g) \/ RecordStarted(g)
  \/ EncoderJoined(g) \/ WatcherJoined(g)
  \/ RunnerMarksReady(g) \/ RunnerActivates(g)
  \/ FinishPublished(g) \/ FallBack(g) \/ GiveUp(g) \/ ReportFailed(g)
  \/ ReleaseProcess(g)

EncoderStep(g) == WriteSegment(g) \/ EncoderEnds(g) \/ StoppedEncoderKilled(g)

WatcherStep(g) ==
  \/ WatcherSeesSegment(g) \/ WatcherStops(g)
  \/ WatcherMarksReady(g) \/ WatcherActivates(g)

RetireStep(g) ==
  \/ RetireCancels(g) \/ RetireStopsReaders(g) \/ RetireDrained(g)
  \/ RetireRemoves(g)

CleanupStep ==
  \/ CleanupSnapshots \/ CleanupProcessesGone \/ CleanupTimesOut
  \/ CleanupDrained \/ CleanupRemoves \/ CleanupUnregisters \/ CleanupFinishes
  \/ \E g \in Gen : CleanupStopsProcess(g) \/ CleanupStopsReaders(g)

Next ==
  \/ Handlers
  \/ Sweeps
  \/ \E g \in Gen : RunnerStep(g) \/ EncoderStep(g) \/ WatcherStep(g)
                      \/ RetireStep(g)
  \/ CleanupStep

Spec == Init /\ [][Next]_vars

(***************************************************************************)
(* Goroutines keep running, timers fire, and a killed process that is not  *)
(* stopped dies. Nothing is assumed of the clients, of readers, of the     *)
(* governor, of an encoder that nobody cancels, or of a stopped process.   *)
(***************************************************************************)
Fairness ==
  /\ WF_vars(ShutdownCloses) /\ WF_vars(CleanupStep)
  /\ \A g \in Gen :
       /\ WF_vars(StartRunner(g) \/ StartRejected(g))
       /\ WF_vars(StartFailed(g))
       /\ WF_vars(RunnerStep(g) /\ runner[g] # "acquire")
       /\ WF_vars(EncoderRefused(g) /\ Killed(g))
       /\ WF_vars(EncoderEnds(g) /\ Killed(g))
       /\ WF_vars(WatcherStep(g))
       /\ WF_vars(RetireStep(g))

FairSpec == Spec /\ Fairness

----------------------------------------------------------------------------
(* Safety.                                                                 *)

\* While a runner may still write (cleanup.go calls process completion "a hard
\* filesystem safety boundary"), its output directory is in place: neither
\* retireGeneration nor cleanupSession has removed it, in whatever order they,
\* a fallback attempt and a restart interleave.
ProcessBoundary == \A g \in Gen : runner[g] \in Running => g \in dir

\* Once cleanupSession has passed its wait for processes, no runner is active,
\* none can become active, and FFmpeg is gone: a runner that AcquireProcess let
\* through just before the close is waited for as well.
QuietAfterCleanup ==
  cleanup.pc \in {"drain", "remove", "unregister", "finish", "done"} =>
    \A g \in Gen : runner[g] \notin Running /\ encoder[g] = "none"

\* A published timeline stays readable until a newer one replaces it or the
\* session closes: no late encoder failure, fallback reset, failing restart or
\* retirement takes away its state, its directory or its segments.
CurrentReadable ==
  current # 0 /\ ~closing =>
    /\ genState[current] = "running"
    /\ current \in dir \cap segment \cap firstSegmentAt

\* While a generation is pending BeginGeneration rejects every restart, so each
\* pending generation has a handler or a runner that will still activate it or
\* fail it, and it is the last one begun.
PendingIsOwned ==
  pending # 0 /\ ~closing =>
    /\ pending = counter /\ genState[pending] = "preparing"
    /\ runner[pending] \notin {"none", "release", "done"}

\* A directory is removed under a reader only after the drain timeout: the gate
\* turns away readers that come late, and counts the ones that do not.
ReaderBoundary ==
  \A r \in Readers :
    reader[r] \in Gen \ dir =>
      reader[r] \in retireTimedOut \/ cleanup.timedOut

\* Once the gate of a process is closing nothing stops the encoder any more: a
\* throttle that races with a restart or a close cannot leave FFmpeg suspended
\* with a goroutine waiting for it to exit.
ClosingProcessResumed ==
  \A g \in Gen : processGate[g].closing => encoder[g] # "stopped"

----------------------------------------------------------------------------
(* Liveness.                                                               *)

\* A session that starts to close gets there, whatever its readers do and even
\* if its encoder is suspended (cleanup.go: "this cleanup goroutine remains
\* responsible until every process lease is released").
CloseCompletes == closing ~> state \in {"closed", "expired"}

\* A generation that has begun is activated or given up; a session is never
\* left unable to restart.
RestartResolves == pending # 0 ~> pending = 0 \/ closing

\* A replaced generation is retired, and its encoder with it.
RetireCompletes ==
  \A g \in Gen :
    retire[g] = "cancel" ~> retire[g] = "done" /\ encoder[g] = "none"

----------------------------------------------------------------------------
(* What a session promises, without goroutines: module SessionContract.    *)

Contract == INSTANCE SessionContract WITH
  Generations <- Gen, open <- ~closing, timeline <- current, begun <- counter,
  store <- dir, writers <- {g \in Gen : runner[g] \in Running}

ContractSpec == Contract!Spec

=============================================================================
