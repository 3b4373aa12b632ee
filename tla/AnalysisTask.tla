----------------------------- MODULE AnalysisTask -----------------------------
(***************************************************************************)
(* One highlight-analysis task of MediaAnalysisService: the goroutine that *)
(* dispatches it, clients that claim it under a lease, and the server's    *)
(* own analysis as the fallback (service/media_analysis_worker.go,         *)
(* media_analysis_worker_compute_node_v2.go, media_analysis.go).           *)
(*                                                                         *)
(* The claim table lives in memory behind a mutex; the task's row lives in *)
(* the database and is read and saved as a whole, by everybody, with       *)
(* nothing held in between. Of a row only the status is modelled, and the  *)
(* database does not fail. Worker views serve display and preference only: *)
(* what they decide is that a claim may be refused.                        *)
(***************************************************************************)
EXTENDS Naturals

CONSTANTS
  Requests,   \* HTTP requests of workers that are served at the same time
  MaxClaims   \* bound: claim tokens handed out; a token is never reused

ASSUME AnalysisTaskAssumption == MaxClaims \in Nat

VARIABLES
  row,         \* status of the task's row
  dispatcher,  \* where dispatchHighlightTask is, runHighlightTask included
  copy,        \* the status in the row it has read
  remote,      \* the entry in remoteTasks: its claim and whether the lease runs
  tokens,      \* how many claims have been made
  delivered,   \* the tokens that have reached their workers
  mode,        \* the execution mode, which an administrator may change
  graceOver,   \* remoteWorkerGrace has passed since the task was registered
  published,   \* highlights of this task have replaced the media's old ones
  request      \* where each request is, its token and the row it has read

taskVars == <<row, published>>
serverVars == <<dispatcher, copy>>
claimVars == <<remote, tokens, delivered>>
vars == <<taskVars, serverVars, claimVars, mode, graceOver, request>>

Active == {"pending", "running"}
Terminal == {"completed", "failed", "interrupted"}
Status == {"none"} \cup Active \cup Terminal

Polling == {"announce", "save", "tick", "mode", "lookAuto", "lookClient",
            "noteExpired", "dropEnd", "dropFail", "dropServer"}
Analysing == {"slot", "server", "complete"}
DispatcherState ==
  {"none", "start", "register", "fail", "done"} \cup Polling \cup Analysing

Token == 1..MaxClaims
NoEntry == [present |-> FALSE, token |-> 0, live |-> FALSE]
Unclaimed == [present |-> TRUE, token |-> 0, live |-> FALSE]
Claim(k) == [present |-> TRUE, token |-> k, live |-> TRUE]

RequestState == {"idle", "claim", "build", "claimRead", "claimSave", "extend",
                 "progressRead", "progressSave", "publish", "completeSave",
                 "drop", "release", "failSave"}
Idle == [pc |-> "idle", token |-> 0, copy |-> "none"]

TypeOK ==
  /\ row \in Status /\ published \in BOOLEAN
  /\ dispatcher \in DispatcherState /\ copy \in Status
  /\ remote \in [present: BOOLEAN, token: Token \cup {0}, live: BOOLEAN]
  /\ tokens \in 0..MaxClaims /\ delivered \in SUBSET Token
  /\ mode \in {"auto", "client", "server", "off"}
  /\ graceOver \in BOOLEAN
  /\ request \in [Requests -> [pc: RequestState, token: Token \cup {0},
                               copy: Status]]

Init ==
  /\ row = "none" /\ published = FALSE
  /\ dispatcher = "none" /\ copy = "none"
  /\ remote = NoEntry /\ tokens = 0 /\ delivered = {}
  /\ mode = "auto" /\ graceOver = FALSE
  /\ request = [r \in Requests |-> Idle]

DispatcherGoes(to) == dispatcher' = to
RequestGoes(r, to) == request' = [request EXCEPT ![r].pc = to]
Returns(r) == request' = [request EXCEPT ![r] = Idle]

\* A claim whose lease has run out is nobody's: claim and dispatcher clear it.
Expired == remote.token # 0 /\ ~remote.live
WithoutExpired == IF Expired THEN Unclaimed ELSE remote

----------------------------------------------------------------------------
(* The administrator, and time.                                            *)

\* AnalyzeHighlightsDistributed: the task is new, its row is created, and it is
\* dispatched.
Analyze ==
  /\ row = "none" /\ dispatcher = "none" /\ mode # "off"
  /\ row' = "pending"
  /\ DispatcherGoes("start")
  /\ UNCHANGED <<published, copy, claimVars, mode, graceOver, request>>

SetMode(m) ==
  /\ mode # m /\ mode' = m
  /\ UNCHANGED <<taskVars, serverVars, claimVars, graceOver, request>>

LeaseExpires ==
  /\ remote.token # 0 /\ remote.live
  /\ remote' = [remote EXCEPT !.live = FALSE]
  /\ UNCHANGED <<taskVars, serverVars, tokens, delivered, mode, graceOver,
                 request>>

GraceEnds ==
  /\ remote.present /\ ~graceOver
  /\ graceOver' = TRUE
  /\ UNCHANGED <<taskVars, serverVars, claimVars, mode, request>>

\* The server stops and starts again: MarkRunningInterrupted.
Restart ==
  /\ row' = IF row \in Active THEN "interrupted" ELSE row
  /\ DispatcherGoes("none")
  /\ copy' = "none" /\ remote' = NoEntry /\ graceOver' = FALSE
  /\ request' = [r \in Requests |-> Idle]
  /\ row # "none"
  /\ UNCHANGED <<published, tokens, delivered, mode>>

----------------------------------------------------------------------------
(* dispatchHighlightTask.                                                  *)

DispatchChooses ==
  /\ dispatcher = "start"
  /\ DispatcherGoes(CASE mode = "off" -> "fail" [] mode = "server" -> "slot"
                      [] OTHER -> "register")
  /\ UNCHANGED <<taskVars, copy, claimVars, mode, graceOver, request>>

\* The media or its file may be gone; otherwise clients may claim the task.
DispatchRegisters ==
  /\ dispatcher = "register"
  /\ \/ DispatcherGoes("fail") /\ UNCHANGED remote
     \/ DispatcherGoes("announce") /\ remote' = Unclaimed
  /\ UNCHANGED <<taskVars, copy, tokens, delivered, mode, graceOver, request>>

DispatchReads ==
  /\ dispatcher = "announce"
  /\ DispatcherGoes("save") /\ copy' = row
  /\ UNCHANGED <<taskVars, claimVars, mode, graceOver, request>>

\* updateTask with the stage "waiting_client", after the registration or after
\* a lease that expired: the row is saved with the status it was read with.
DispatchSaves ==
  /\ dispatcher \in {"save", "noteExpired"}
  /\ DispatcherGoes("tick") /\ row' = copy
  /\ UNCHANGED <<published, copy, claimVars, mode, graceOver, request>>

DispatchTicks ==
  /\ dispatcher = "tick"
  /\ copy' = row
  /\ DispatcherGoes(IF row \in Terminal THEN "dropEnd" ELSE "mode")
  /\ UNCHANGED <<taskVars, claimVars, mode, graceOver, request>>

DispatchReadsMode ==
  /\ dispatcher = "mode"
  /\ DispatcherGoes(CASE mode = "off" -> "dropFail"
                      [] mode = "server" -> "dropServer"
                      [] mode = "client" -> "lookClient"
                      [] mode = "auto" -> "lookAuto")
  /\ UNCHANGED <<taskVars, copy, claimVars, mode, graceOver, request>>

\* Mutant of Claimed: whoever has claimed keeps the task.
ClaimedForever == remote.token # 0

\* What the dispatcher waits for: a claim whose lease runs.
Claimed == remote.token # 0 /\ remote.live

\* One look at the table under the mutex. What follows happens without it.
DispatchLooks ==
  /\ dispatcher \in {"lookAuto", "lookClient"}
  /\ remote' = IF Claimed THEN remote ELSE WithoutExpired
  /\ DispatcherGoes(
       CASE ~remote.present -> "done"
         [] remote.present /\ Claimed -> "tick"
         [] OTHER ->
              IF dispatcher = "lookClient"
                THEN IF Expired THEN "noteExpired" ELSE "tick"
                ELSE IF Expired \/ graceOver THEN "dropServer" ELSE "tick")
  /\ UNCHANGED <<taskVars, copy, tokens, delivered, mode, graceOver, request>>

AfterDrop == [dropEnd |-> "done", dropFail |-> "fail", dropServer |-> "slot"]

\* Mutant of DispatchDrops: the mode is off, and the entry stays.
DispatchDropsUnlessOff ==
  /\ dispatcher \in DOMAIN AfterDrop
  /\ remote' = IF dispatcher = "dropFail" THEN remote ELSE NoEntry
  /\ DispatcherGoes(AfterDrop[dispatcher])
  /\ UNCHANGED <<taskVars, copy, tokens, delivered, mode, graceOver, request>>

\* dropRemoteTask, whoever may have claimed the task by now.
DispatchDrops ==
  /\ dispatcher \in DOMAIN AfterDrop
  /\ remote' = NoEntry
  /\ DispatcherGoes(AfterDrop[dispatcher])
  /\ UNCHANGED <<taskVars, copy, tokens, delivered, mode, graceOver, request>>

DispatchFails ==
  /\ dispatcher = "fail"
  /\ row' = "failed" /\ DispatcherGoes("done")
  /\ UNCHANGED <<published, copy, claimVars, mode, graceOver, request>>

----------------------------------------------------------------------------
(* runHighlightTask: the server saves its own copy of the row throughout.  *)

ServerStarts ==
  /\ dispatcher = "slot"
  /\ row' = "running" /\ DispatcherGoes("server")
  /\ UNCHANGED <<published, copy, claimVars, mode, graceOver, request>>

ServerUpdates ==
  /\ dispatcher = "server"
  /\ row' = "running"
  /\ UNCHANGED <<published, serverVars, claimVars, mode, graceOver, request>>

\* Mutant of ServerPublishes: completed, although the highlights are not saved.
ServerSkipsPersist ==
  /\ dispatcher = "server"
  /\ DispatcherGoes("complete")
  /\ UNCHANGED <<taskVars, copy, claimVars, mode, graceOver, request>>

ServerPublishes ==
  /\ dispatcher = "server"
  /\ published' = TRUE /\ DispatcherGoes("complete")
  /\ UNCHANGED <<row, copy, claimVars, mode, graceOver, request>>

\* The media may be gone before it starts.
ServerFails ==
  /\ dispatcher \in {"slot", "server"}
  /\ row' = "failed" /\ DispatcherGoes("done")
  /\ UNCHANGED <<published, copy, claimVars, mode, graceOver, request>>

ServerCompletes ==
  /\ dispatcher = "complete"
  /\ row' = "completed" /\ DispatcherGoes("done")
  /\ UNCHANGED <<published, copy, claimVars, mode, graceOver, request>>

----------------------------------------------------------------------------
(* ClaimComputeTask.                                                       *)

\* The mode is read before the mutex is taken.
ClaimBegins(r) ==
  /\ request[r].pc = "idle" /\ mode \notin {"server", "off"}
  /\ RequestGoes(r, "claim")
  /\ UNCHANGED <<taskVars, serverVars, claimVars, mode, graceOver>>

\* No task, no capability for it, or a desktop client is to be preferred.
ClaimRefused(r) ==
  /\ request[r].pc \in {"idle", "claim"} /\ remote.present
  /\ remote' = WithoutExpired
  /\ Returns(r)
  /\ UNCHANGED <<taskVars, serverVars, tokens, delivered, mode, graceOver>>

ClaimGranted(r) ==
  /\ request[r].pc = "claim"
  /\ remote.present /\ ~remote.live /\ tokens < MaxClaims
  /\ tokens' = tokens + 1
  /\ remote' = Claim(tokens')
  /\ request' = [request EXCEPT ![r].pc = "build", ![r].token = tokens']
  /\ UNCHANGED <<taskVars, serverVars, delivered, mode, graceOver>>

ClaimFindsNothing(r) ==
  /\ request[r].pc = "claim" /\ ~remote.present
  /\ Returns(r)
  /\ UNCHANGED <<taskVars, serverVars, claimVars, mode, graceOver>>

\* buildMediaComputeClaim fails, and the claim is given back.
ClaimBuilt(r) ==
  /\ request[r].pc = "build"
  /\ \/ RequestGoes(r, "claimRead") \/ RequestGoes(r, "release")
  /\ UNCHANGED <<taskVars, serverVars, claimVars, mode, graceOver>>

\* The row is read ...
RowRead(r, from, to) ==
  /\ request[r].pc = from
  /\ request' = [request EXCEPT ![r].pc = to, ![r].copy = row]
  /\ UNCHANGED <<taskVars, serverVars, claimVars, mode, graceOver>>

ClaimReads(r) == RowRead(r, "claimRead", "claimSave")

\* ... and saved as running; then the worker learns its token.
ClaimSaves(r) ==
  /\ request[r].pc = "claimSave"
  /\ row' = "running"
  /\ delivered' = delivered \cup {request[r].token}
  /\ Returns(r)
  /\ UNCHANGED <<published, serverVars, remote, tokens, mode, graceOver>>

----------------------------------------------------------------------------
(* What a worker sends with its token, validated first.                    *)

Holds(k) == remote.live /\ remote.token = k

\* validateRemoteClaim: what a worker sends with its token goes on from there.
Validated(r, k, to) ==
  /\ request[r].pc = "idle" /\ k \in delivered /\ Holds(k)
  /\ request' = [request EXCEPT ![r] = [pc |-> to, token |-> k, copy |-> "none"]]
  /\ UNCHANGED <<taskVars, serverVars, claimVars, mode, graceOver>>

ProgressBegins(r, k) == Validated(r, k, "extend")
CompleteBegins(r, k) == Validated(r, k, "publish")
FailBegins(r, k) == Validated(r, k, "release")

\* Still the same token, if perhaps an expired lease.
Own(r) == remote.present /\ remote.token = request[r].token

ProgressExtends(r) ==
  /\ request[r].pc = "extend"
  /\ remote' = IF Own(r) THEN [remote EXCEPT !.live = TRUE] ELSE remote
  /\ RequestGoes(r, "progressRead")
  /\ UNCHANGED <<taskVars, serverVars, tokens, delivered, mode, graceOver>>

ProgressReads(r) == RowRead(r, "progressRead", "progressSave")

ProgressSaves(r) ==
  /\ request[r].pc = "progressSave"
  /\ row' = request[r].copy
  /\ Returns(r)
  /\ UNCHANGED <<published, serverVars, claimVars, mode, graceOver>>

\* CompleteWorkerTask works on a copy of the claim: the media may have changed
\* or the result be invalid; otherwise the highlights are replaced.
CompletePublishes(r) ==
  /\ request[r].pc = "publish"
  /\ \/ Returns(r) /\ UNCHANGED published
     \/ RequestGoes(r, "completeSave") /\ published' = TRUE
  /\ UNCHANGED <<row, serverVars, claimVars, mode, graceOver>>

CompleteSaves(r) ==
  /\ request[r].pc = "completeSave"
  /\ row' = "completed" /\ RequestGoes(r, "drop")
  /\ UNCHANGED <<published, serverVars, claimVars, mode, graceOver>>

CompleteDrops(r) ==
  /\ request[r].pc = "drop"
  /\ remote' = NoEntry /\ Returns(r)
  /\ UNCHANGED <<taskVars, serverVars, tokens, delivered, mode, graceOver>>

\* Mutant of Released: whoever holds the task loses it.
ReleasedUnfenced(r) == IF remote.present THEN Unclaimed ELSE remote

Released(r) == IF Own(r) THEN Unclaimed ELSE remote

\* releaseRemoteClaim, for a failed build, which returns an error, and in
\* FailWorkerTask, which goes on to the row.
ClaimReleased(r) ==
  /\ request[r].pc = "release"
  /\ remote' = Released(r)
  /\ IF request[r].token \in delivered THEN RequestGoes(r, "failSave")
                                       ELSE Returns(r)
  /\ UNCHANGED <<taskVars, serverVars, tokens, delivered, mode, graceOver>>

\* The row is pending again, whatever it was.
FailSaves(r) ==
  /\ request[r].pc = "failSave"
  /\ row' = "pending" /\ Returns(r)
  /\ UNCHANGED <<published, serverVars, claimVars, mode, graceOver>>

----------------------------------------------------------------------------

Dispatcher ==
  \/ DispatchChooses \/ DispatchRegisters \/ DispatchReads \/ DispatchSaves
  \/ DispatchTicks \/ DispatchReadsMode \/ DispatchLooks \/ DispatchDrops
  \/ DispatchFails

Server == ServerStarts \/ ServerPublishes \/ ServerFails \/ ServerCompletes

Arrives(r) ==
  \/ ClaimBegins(r) \/ ClaimRefused(r)
  \/ \E k \in Token :
       ProgressBegins(r, k) \/ CompleteBegins(r, k) \/ FailBegins(r, k)

Continues(r) ==
  \/ ClaimGranted(r) \/ ClaimFindsNothing(r) \/ ClaimBuilt(r)
  \/ ClaimReads(r) \/ ClaimSaves(r)
  \/ ProgressExtends(r) \/ ProgressReads(r) \/ ProgressSaves(r)
  \/ CompletePublishes(r) \/ CompleteSaves(r) \/ CompleteDrops(r)
  \/ ClaimReleased(r) \/ FailSaves(r)

Next ==
  \/ Analyze \/ LeaseExpires \/ GraceEnds \/ Restart
  \/ \E m \in {"auto", "client", "server", "off"} : SetMode(m)
  \/ Dispatcher \/ Server \/ ServerUpdates
  \/ \E r \in Requests : Arrives(r) \/ Continues(r)

Spec == Init /\ [][Next]_vars

(***************************************************************************)
(* The dispatcher's ticker ticks, time passes, and the server's analysis   *)
(* gets its slot and ends: each of its stages has a budget of its own.     *)
(* Nothing is assumed of workers, of administrators, or of restarts.       *)
(***************************************************************************)
Fairness == WF_vars(Dispatcher) /\ WF_vars(Server) /\ WF_vars(GraceEnds)

FairSpec == Spec /\ Fairness

----------------------------------------------------------------------------
(* Properties.                                                             *)

\* A row that says completed is never a lie, whoever completed the task and
\* whoever saves an old copy of the row afterwards.
CompletedHasResult == row = "completed" => published

\* A task that workers can claim has a dispatcher that watches its lease, and
\* the server is not analysing it: nobody can be given a task that nobody would
\* take back.
EntryIsWatched == remote.present => dispatcher \in Polling

\* A worker whose lease runs is not robbed of its claim by an older one's late
\* failure report or by another's claim: it gives the claim back itself, or the
\* whole task goes.
ClaimIsFenced ==
  [][\A k \in Token :
       Holds(k) /\ remote'.present /\ remote'.token # k =>
         \E r \in Requests : request[r].pc = "release" /\ request[r].token = k]_vars

\* "auto falls back to the server when no client can be had for a short time"
\* (AnalyzeHighlightsDistributed), also when the one that had claimed the task
\* falls silent.
AutoFallsBack ==
  dispatcher \in Polling /\ mode = "auto"
    ~> dispatcher \notin Polling \/ mode # "auto" \/ remote.live

\* The tokens of the requests that are about to release their claims.
Leaving ==
  {request[r].token : r \in {q \in Requests : request[q].pc = "release"}}

Lease == INSTANCE TaskLease WITH
  offered <- remote.present,
  taken <- dispatcher \in Analysing,
  holder <- remote.token,
  running <- remote.live,
  issued <- tokens,
  leaving <- Leaving

\* The task is offered, claimed, given back and taken over as TaskLease has it,
\* with all that may happen between the steps of two requests and of the
\* dispatcher: the server never analyses what a worker can claim, no token is
\* granted twice, and nobody's late report takes another's claim.
LeaseSpec == Lease!Spec

===============================================================================
