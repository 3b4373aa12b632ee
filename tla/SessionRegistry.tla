--------------------------- MODULE SessionRegistry ---------------------------
(***************************************************************************)
(* playback/session.Manager as a whole: the table of sessions and their    *)
(* directories, under concurrent Create requests, heartbeats, Close        *)
(* requests, the janitor and Shutdown, with the server process stopping at *)
(* any moment and starting again.                                          *)
(*                                                                         *)
(* Module PlaybackSession has the inside of one session. Here a session is *)
(* its registration, its close and its directory; the wait of its cleanup  *)
(* for processes and readers is one step.                                  *)
(***************************************************************************)
EXTENDS Naturals

CONSTANTS
  Sessions,       \* the IDs Create will draw; uuids are never drawn again
  ActiveTimeout,  \* silence after which a playing session expires ...
  PausedTimeout,  \* ... and a paused one
  SweepDelay      \* bound: how long the janitor takes for one sweep

ASSUME SessionRegistryAssumption ==
  /\ ActiveTimeout \in Nat \ {0}
  /\ PausedTimeout \in Nat \ {0}
  /\ SweepDelay \in Nat

Longest == IF ActiveTimeout > PausedTimeout THEN ActiveTimeout ELSE PausedTimeout

VARIABLES
  \* the server process, and whether Manager accepts and its ctx is cancelled
  up, accepting, ctxDone,
  \* Create requests, Manager.sessions, and session.closing with its result
  create, registered, closing, final,
  \* cleanupSession goroutines
  cleanup,
  \* time since session.lastSeen, and session.paused
  silent, paused,
  \* the janitor and Shutdown
  janitor, shutdown,
  \* the directories under sessions/ and deleting/, and those under sessions/
  \* that are left to the next start: removing them was tried and failed, or
  \* Create could make only a part of them
  live, deleting, stuck

lifeVars == <<up, accepting, ctxDone>>
tableVars == <<registered, closing, final, cleanup>>
seenVars == <<silent, paused>>
dirVars == <<live, deleting, stuck>>
vars == <<lifeVars, create, tableVars, seenVars, janitor, shutdown, dirVars>>

CreateState == {"new", "checked", "made", "created", "rejected", "gone"}
CleanupState == {"none", "quiet", "move", "delete", "unregister", "finish",
                 "done"}
JanitorState == [pc: {"idle", "visit", "close", "stopped"},
                 todo: SUBSET Sessions, condemned: SUBSET Sessions,
                 late: 0..SweepDelay]
ShutdownState == [pc: {"none", "cancel", "close", "wait", "returned",
                       "timedOut"},
                  todo: SUBSET Sessions, waits: SUBSET Sessions]

TypeOK ==
  /\ up \in BOOLEAN /\ accepting \in BOOLEAN /\ ctxDone \in BOOLEAN
  /\ create \in [Sessions -> CreateState]
  /\ registered \in SUBSET Sessions /\ closing \in SUBSET Sessions
  /\ final \in [Sessions -> {"open", "closed", "expired"}]
  /\ cleanup \in [Sessions -> CleanupState]
  /\ silent \in [Sessions -> 0..(Longest + SweepDelay)]
  /\ paused \in SUBSET Sessions
  /\ janitor \in JanitorState /\ shutdown \in ShutdownState
  /\ live \in SUBSET Sessions /\ deleting \in SUBSET Sessions
  /\ stuck \in SUBSET Sessions

IdleJanitor == [pc |-> "idle", todo |-> {}, condemned |-> {}, late |-> 0]
NoShutdown == [pc |-> "none", todo |-> {}, waits |-> {}]

Init ==
  /\ up = TRUE /\ accepting = TRUE /\ ctxDone = FALSE
  /\ create = [s \in Sessions |-> "new"]
  /\ registered = {} /\ closing = {}
  /\ final = [s \in Sessions |-> "open"]
  /\ cleanup = [s \in Sessions |-> "none"]
  /\ silent = [s \in Sessions |-> 0] /\ paused = {}
  /\ janitor = IdleJanitor /\ shutdown = NoShutdown
  /\ live = {} /\ deleting = {} /\ stuck = {}

CreateGoes(s, to) == create' = [create EXCEPT ![s] = to]

----------------------------------------------------------------------------
(* Create.                                                                 *)

CreateChecks(s) ==
  /\ up /\ accepting /\ create[s] = "new"
  /\ CreateGoes(s, "checked")
  /\ UNCHANGED <<lifeVars, tableVars, seenVars, janitor, shutdown, dirVars>>

\* The clock is read before the directory is made, and becomes lastSeen. Create
\* returns when MkdirAll fails, and leaves what MkdirAll has made by then.
CreateMakesDirectory(s) ==
  /\ up /\ create[s] = "checked"
  /\ \/ CreateGoes(s, "made") /\ live' = live \cup {s} /\ UNCHANGED stuck
     \/ CreateGoes(s, "gone") /\ UNCHANGED <<live, stuck>>
     \/ CreateGoes(s, "gone") /\ live' = live \cup {s} /\ stuck' = stuck \cup {s}
  /\ silent' = [silent EXCEPT ![s] = 0]
  /\ UNCHANGED <<lifeVars, tableVars, paused, janitor, shutdown, deleting>>

\* Mutant of CreateRegisters: relies on the first look at Manager.accepting.
CreateRegistersUnchecked(s) ==
  /\ up /\ create[s] = "made"
  /\ CreateGoes(s, "created") /\ registered' = registered \cup {s}
  /\ UNCHANGED <<lifeVars, closing, final, cleanup, seenVars, janitor,
                 shutdown, dirVars>>

CreateRegisters(s) ==
  /\ up /\ create[s] = "made"
  /\ IF accepting
       THEN CreateGoes(s, "created") /\ registered' = registered \cup {s}
       ELSE CreateGoes(s, "rejected") /\ UNCHANGED registered
  /\ UNCHANGED <<lifeVars, closing, final, cleanup, seenVars, janitor,
                 shutdown, dirVars>>

\* A rejected Create removes its directory, and ignores a failure.
CreateCleansUp(s) ==
  /\ up /\ create[s] = "rejected"
  /\ CreateGoes(s, "gone")
  /\ \/ live' = live \ {s} /\ UNCHANGED stuck
     \/ stuck' = stuck \cup {s} /\ UNCHANGED live
  /\ UNCHANGED <<lifeVars, tableVars, seenVars, janitor, shutdown, deleting>>

----------------------------------------------------------------------------
(* Requests on a session.                                                  *)

Open(s) == up /\ s \in registered \ closing

\* Heartbeat, when the player is on the current generation.
Heartbeat(s) ==
  /\ Open(s)
  /\ silent' = [silent EXCEPT ![s] = 0]
  /\ \/ paused' = paused \cup {s}
     \/ paused' = paused \ {s}
  /\ UNCHANGED <<lifeVars, create, tableVars, janitor, shutdown, dirVars>>

\* Touch, from a playlist or segment request, and ActivateGeneration.
Touch(s) ==
  /\ Open(s)
  /\ silent' = [silent EXCEPT ![s] = 0]
  /\ UNCHANGED <<lifeVars, create, tableVars, paused, janitor, shutdown,
                 dirVars>>

\* Mutant of StartClose: no look at session.closing.
StartCloseAgain(s, result) ==
  /\ closing' = closing \cup {s}
  /\ final' = [final EXCEPT ![s] = result]
  /\ cleanup' = [cleanup EXCEPT ![s] = "quiet"]

\* startClose: the first caller decides the result and starts the cleanup.
StartClose(s, result) ==
  IF s \in closing
    THEN UNCHANGED <<closing, final, cleanup>>
    ELSE /\ closing' = closing \cup {s}
         /\ final' = [final EXCEPT ![s] = result]
         /\ cleanup' = [cleanup EXCEPT ![s] = "quiet"]

Close(s) ==
  /\ up /\ s \in registered
  /\ StartClose(s, "closed")
  /\ UNCHANGED <<lifeVars, create, registered, seenVars, janitor, shutdown,
                 dirVars>>

----------------------------------------------------------------------------
(* Time and the janitor.                                                   *)

\* A session's lastSeen is read by its Create.
Aging(s) == create[s] = "made" \/ s \in registered

\* Time is relative, so it needs no bound: a session that has been silent for
\* longer than every timeout is just silent. A sweep that has read the clock
\* ends within SweepDelay.
Tick ==
  /\ up /\ (janitor.pc \in {"visit", "close"} => janitor.late < SweepDelay)
  /\ silent' = [s \in Sessions |->
                  IF Aging(s) /\ silent[s] < Longest + SweepDelay
                    THEN silent[s] + 1 ELSE silent[s]]
  /\ janitor' = IF janitor.pc \in {"visit", "close"}
                  THEN [janitor EXCEPT !.late = @ + 1] ELSE janitor
  /\ UNCHANGED <<lifeVars, create, tableVars, paused, shutdown, dirVars>>

\* reapExpired reads the clock once and copies the table.
JanitorTicks ==
  /\ up /\ janitor.pc = "idle"
  /\ janitor' = [pc |-> "visit", todo |-> registered, condemned |-> {},
                 late |-> 0]
  /\ UNCHANGED <<lifeVars, create, tableVars, seenVars, shutdown, dirVars>>

\* Mutant of Expired: a paused session never expires.
ExpiredUnlessPaused(s) ==
  s \notin paused /\ silent[s] >= ActiveTimeout + janitor.late

\* now.Sub(session.lastSeen) >= timeout, for the clock of the sweep's start.
Expired(s) ==
  silent[s] >= janitor.late +
                 (IF s \in paused THEN PausedTimeout ELSE ActiveTimeout)

\* One session under its read lock, which is released before startClose.
JanitorChecks(s) ==
  /\ up /\ janitor.pc = "visit" /\ s \in janitor.todo
  /\ janitor' = IF s \notin closing /\ Expired(s)
                  THEN [janitor EXCEPT !.pc = "close", !.todo = @ \ {s},
                                       !.condemned = {s}]
                  ELSE [janitor EXCEPT !.todo = @ \ {s}]
  /\ UNCHANGED <<lifeVars, create, tableVars, seenVars, shutdown, dirVars>>

JanitorCloses(s) ==
  /\ up /\ janitor.pc = "close" /\ s \in janitor.condemned
  /\ janitor' = [janitor EXCEPT !.pc = "visit", !.condemned = {}]
  /\ StartClose(s, "expired")
  /\ UNCHANGED <<lifeVars, create, registered, seenVars, shutdown, dirVars>>

\* Mutant of JanitorSweeps: expiry only.
JanitorSweepsNothing ==
  /\ up /\ janitor.pc = "visit" /\ janitor.todo = {}
  /\ janitor' = IdleJanitor
  /\ UNCHANGED <<lifeVars, create, tableVars, seenVars, shutdown, dirVars>>

\* cleanupDeleting: what it cannot remove stays for the next sweep.
JanitorSweeps ==
  /\ up /\ janitor.pc = "visit" /\ janitor.todo = {}
  /\ janitor' = IdleJanitor
  /\ deleting' \in SUBSET deleting
  /\ UNCHANGED <<lifeVars, create, tableVars, seenVars, shutdown, live, stuck>>

JanitorStops ==
  /\ up /\ janitor.pc = "idle" /\ ctxDone
  /\ janitor' = [janitor EXCEPT !.pc = "stopped"]
  /\ UNCHANGED <<lifeVars, create, tableVars, seenVars, shutdown, dirVars>>

----------------------------------------------------------------------------
(* cleanupSession.                                                         *)

CleanupGoes(s, to) == cleanup' = [cleanup EXCEPT ![s] = to]

\* Every process and reader is gone, or the readers' drain timeout has passed.
CleanupQuiet(s) ==
  /\ up /\ cleanup[s] = "quiet"
  /\ CleanupGoes(s, "move")
  /\ UNCHANGED <<lifeVars, create, registered, closing, final, seenVars,
                 janitor, shutdown, dirVars>>

\* moveAndRemove: rename into deleting/, or remove in place, or fail.
CleanupMoves(s) ==
  /\ up /\ cleanup[s] = "move"
  /\ \/ /\ CleanupGoes(s, "delete")
        /\ live' = live \ {s} /\ deleting' = deleting \cup {s}
        /\ UNCHANGED stuck
     \/ /\ CleanupGoes(s, "unregister")
        /\ live' = live \ {s}
        /\ UNCHANGED <<deleting, stuck>>
     \/ /\ CleanupGoes(s, "unregister")
        /\ stuck' = stuck \cup {s}
        /\ UNCHANGED <<live, deleting>>
  /\ UNCHANGED <<lifeVars, create, registered, closing, final, seenVars,
                 janitor, shutdown>>

CleanupDeletes(s) ==
  /\ up /\ cleanup[s] = "delete"
  /\ CleanupGoes(s, "unregister")
  /\ deleting' \in {deleting, deleting \ {s}}
  /\ UNCHANGED <<lifeVars, create, registered, closing, final, seenVars,
                 janitor, shutdown, live, stuck>>

\* Mutant of CleanupUnregisters: the closed session stays in the table.
CleanupKeepsEntry(s) ==
  /\ up /\ cleanup[s] = "unregister"
  /\ CleanupGoes(s, "finish")
  /\ UNCHANGED <<lifeVars, create, registered, closing, final, seenVars,
                 janitor, shutdown, dirVars>>

CleanupUnregisters(s) ==
  /\ up /\ cleanup[s] = "unregister"
  /\ CleanupGoes(s, "finish")
  /\ registered' = registered \ {s}
  /\ UNCHANGED <<lifeVars, create, closing, final, seenVars, janitor,
                 shutdown, dirVars>>

\* The session's final state, and the channel that Close and Shutdown wait for.
CleanupFinishes(s) ==
  /\ up /\ cleanup[s] = "finish"
  /\ CleanupGoes(s, "done")
  /\ UNCHANGED <<lifeVars, create, registered, closing, final, seenVars,
                 janitor, shutdown, dirVars>>

----------------------------------------------------------------------------
(* Shutdown, and the process.                                              *)

ShutdownRejects ==
  /\ up /\ shutdown.pc = "none"
  /\ accepting' = FALSE
  /\ shutdown' = [pc |-> "cancel", todo |-> registered, waits |-> registered]
  /\ UNCHANGED <<up, ctxDone, create, tableVars, seenVars, janitor, dirVars>>

ShutdownCancels ==
  /\ up /\ shutdown.pc = "cancel"
  /\ ctxDone' = TRUE
  /\ shutdown' = [shutdown EXCEPT !.pc = "close"]
  /\ UNCHANGED <<up, accepting, create, tableVars, seenVars, janitor, dirVars>>

ShutdownCloses(s) ==
  /\ up /\ shutdown.pc = "close" /\ s \in shutdown.todo
  /\ shutdown' = [shutdown EXCEPT !.todo = @ \ {s}]
  /\ StartClose(s, "closed")
  /\ UNCHANGED <<lifeVars, create, registered, seenVars, janitor, dirVars>>

ShutdownWaits ==
  /\ up /\ shutdown.pc = "close" /\ shutdown.todo = {}
  /\ shutdown' = [shutdown EXCEPT !.pc = "wait"]
  /\ UNCHANGED <<lifeVars, create, tableVars, seenVars, janitor, dirVars>>

\* Every closed channel and janitorDone, or the caller's context.
ShutdownReturns ==
  /\ up /\ shutdown.pc = "wait"
  /\ \/ /\ \A s \in shutdown.waits : cleanup[s] = "done"
        /\ janitor.pc = "stopped"
        /\ shutdown' = [shutdown EXCEPT !.pc = "returned"]
     \/ shutdown' = [shutdown EXCEPT !.pc = "timedOut"]
  /\ UNCHANGED <<lifeVars, create, tableVars, seenVars, janitor, dirVars>>

\* The process exits after Shutdown, or dies at any moment: only the file
\* system is left.
Exit ==
  /\ up /\ up' = FALSE
  /\ accepting' = FALSE /\ ctxDone' = TRUE
  /\ create' = [s \in Sessions |->
                  IF create[s] = "new" THEN "new" ELSE "gone"]
  /\ registered' = {} /\ closing' = {}
  /\ final' = [s \in Sessions |-> "open"]
  /\ cleanup' = [s \in Sessions |-> "none"]
  /\ silent' = [s \in Sessions |-> 0] /\ paused' = {}
  /\ janitor' = IdleJanitor /\ shutdown' = NoShutdown
  /\ UNCHANGED <<live, deleting>> /\ stuck' = {}

\* Mutant of CleanupOrphans: looks only where the janitor looks.
CleanupDeletingOnly ==
  /\ UNCHANGED <<live, stuck>>
  /\ deleting' \in SUBSET deleting

\* cleanupOrphans: every directory under sessions/ is moved and removed, then
\* deleting/ is swept. Each of it may fail, which is logged.
CleanupOrphans ==
  /\ live' \in SUBSET live /\ stuck' = live'
  /\ deleting' \in SUBSET (deleting \cup (live \ live'))

\* NewManager.
Start ==
  /\ ~up /\ up' = TRUE
  /\ accepting' = TRUE /\ ctxDone' = FALSE
  /\ CleanupOrphans
  /\ UNCHANGED <<create, tableVars, seenVars, janitor, shutdown>>

----------------------------------------------------------------------------

CreateStep(s) ==
  CreateMakesDirectory(s) \/ CreateRegisters(s) \/ CreateCleansUp(s)

Requests(s) == CreateChecks(s) \/ Heartbeat(s) \/ Touch(s) \/ Close(s)

JanitorStep ==
  \/ JanitorTicks \/ JanitorSweeps \/ JanitorStops
  \/ \E s \in Sessions : JanitorChecks(s) \/ JanitorCloses(s)

CleanupStep(s) ==
  \/ CleanupQuiet(s) \/ CleanupMoves(s) \/ CleanupDeletes(s)
  \/ CleanupUnregisters(s) \/ CleanupFinishes(s)

ShutdownStep ==
  \/ ShutdownCancels \/ ShutdownWaits \/ ShutdownReturns
  \/ \E s \in Sessions : ShutdownCloses(s)

Next ==
  \/ \E s \in Sessions : Requests(s) \/ CreateStep(s) \/ CleanupStep(s)
  \/ Tick \/ JanitorStep
  \/ ShutdownRejects \/ ShutdownStep
  \/ Exit \/ Start

Spec == Init /\ [][Next]_vars

(***************************************************************************)
(* Goroutines run, the janitor's ticker ticks, main returns after Shutdown *)
(* has, a stopped server is started again, and a removal that is tried     *)
(* again and again succeeds. Nothing is assumed of clients, and nobody has *)
(* to call Shutdown.                                                       *)
(***************************************************************************)
Fairness ==
  /\ WF_vars(Tick) /\ WF_vars(JanitorStep) /\ WF_vars(ShutdownStep)
  /\ WF_vars(Start)
  /\ WF_vars(Exit /\ shutdown.pc \in {"returned", "timedOut"})
  /\ \A s \in Sessions :
       /\ WF_vars(CreateStep(s)) /\ WF_vars(CleanupStep(s))
       /\ SF_vars(JanitorSweeps /\ s \notin deleting')
       /\ SF_vars(Start /\ s \notin deleting')

FairSpec == Spec /\ Fairness

----------------------------------------------------------------------------
(* Properties.                                                             *)

\* A directory under sessions/ always has somebody who will remove it: the
\* Create that makes it, the registered session that owns it, or the next start,
\* which alone removes what a failed removal or a Create that failed in the
\* middle of MkdirAll has left. A crash leaves none behind for good.
DirectoryOwned ==
  up => \A s \in live :
          create[s] \in {"made", "rejected"} \/ s \in registered \cup stuck

\* When Shutdown has returned without a timeout the manager is empty and stays
\* so, also if a Create was between its check and its registration. A cleanup
\* that had unregistered its session before Shutdown copied the table may still
\* have its last assignments to make.
ShutdownIsFinal ==
  shutdown.pc = "returned" =>
    /\ registered = {} /\ janitor.pc = "stopped"
    /\ \A s \in Sessions : cleanup[s] \in {"none", "finish", "done"}

\* A client's Close, the janitor and Shutdown may all close a session; one of
\* them decides how it ends and starts its only cleanup.
ClosedOnce ==
  [][\A s \in Sessions :
       up' /\ s \in closing =>
         final'[s] = final[s] /\ (cleanup'[s] = "quiet" => cleanup[s] = "quiet")]_vars

\* Who waits for a session's close finds the session unregistered and its
\* directory gone from sessions/, unless removing it failed.
CloseIsComplete ==
  \A s \in Sessions :
    cleanup[s] = "done" => s \notin registered /\ s \notin live \ stuck

\* A session that nobody asks for is closed, paused or not, whatever the others
\* do and whenever the server shuts down.
SilentIsClosed ==
  \A s \in Sessions :
    silent[s] >= Longest ~> ~(s \in registered \ closing) \/ silent[s] < Longest

\* What cleanup has moved to deleting/ is removed for good, by the cleanup, by
\* a later sweep or by the next start.
DeletingDrains == \A s \in Sessions : s \in deleting ~> s \notin deleting

\* The life of one session as SessionLifecycle has it. Who is told that the session
\* is closed is told by the channel that CleanupFinishes closes.
Phase(s) ==
  CASE create[s] \in {"new", "checked"} -> "new"
    [] create[s] \in {"made", "rejected"} -> "ready"
    [] create[s] = "gone" -> "gone"
    [] create[s] = "created" /\ s \notin closing -> "open"
    [] create[s] = "created" /\ s \in closing ->
         IF cleanup[s] = "done" THEN "over" ELSE "closing"

\* The manager without its table, its clocks and its goroutines: module
\* SessionLifecycle.
Lifecycle == INSTANCE SessionLifecycle WITH
  serving <- up,
  phase <- [s \in Sessions |-> Phase(s)],
  outcome <- final,
  files <- live

\* A client's Close, the janitor and Shutdown may all close a session, and Create,
\* a crash and a start may come between: a session is opened once and only with a
\* directory, one of those who close it decides how it ends, only then does its
\* directory go, and who waits for the close finds it gone or stuck.
LifecycleSpec == Lifecycle!Spec

===============================================================================
