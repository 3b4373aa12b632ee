-------------------------- MODULE AnalysisTaskProofs --------------------------
(***************************************************************************)
(* Proofs about AnalysisTask, for any number of requests and of claims.    *)
(*                                                                         *)
(* A status is saved from a copy of the row that may be old, so that a     *)
(* completed row is truthful only because every copy of it is: once the    *)
(* highlights are published they stay so. The claim table is right because *)
(* only the dispatcher puts the task in and it stays until it has taken    *)
(* the task out: what the requests do, they do to an entry that is there.  *)
(***************************************************************************)
EXTENDS AnalysisTask, TLAPS

\* A request that has got past the claim speaks of a token.
HasToken ==
  \A r \in Requests :
    request[r].pc \notin {"idle", "claim"} => request[r].token # 0

Remote == [present: BOOLEAN, token: Token \cup {0}, live: BOOLEAN]
Request == [pc: RequestState, token: Token \cup {0}, copy: Status]

ClaimStep ==
  \E r \in Requests :
    \/ ClaimBegins(r) \/ ClaimRefused(r) \/ ClaimGranted(r)
    \/ ClaimFindsNothing(r) \/ ClaimBuilt(r) \/ ClaimReads(r) \/ ClaimSaves(r)

TokenStep ==
  \E r \in Requests :
    \/ \E k \in Token :
         ProgressBegins(r, k) \/ CompleteBegins(r, k) \/ FailBegins(r, k)
    \/ ProgressExtends(r) \/ ProgressReads(r) \/ ProgressSaves(r)
    \/ CompletePublishes(r) \/ CompleteSaves(r) \/ CompleteDrops(r)
    \/ ClaimReleased(r) \/ FailSaves(r)

OutsideStep ==
  \/ Analyze \/ LeaseExpires \/ GraceEnds \/ Restart
  \/ \E m \in {"auto", "client", "server", "off"} : SetMode(m)

LEMMA NextCases ==
  Next => OutsideStep \/ Dispatcher \/ Server \/ ServerUpdates
          \/ ClaimStep \/ TokenStep
BY DEF Next, OutsideStep, ClaimStep, TokenStep, Arrives, Continues

----------------------------------------------------------------------------
(* Types.                                                                  *)

LEMMA SmallTypes ==
  /\ NoEntry \in Remote /\ Unclaimed \in Remote /\ Idle \in Request
  /\ \A k \in Token : Claim(k) \in Remote
BY DEF NoEntry, Unclaimed, Claim, Idle, Remote, Request, RequestState, Status

LEMMA RequestUpdates ==
  ASSUME NEW r \in Requests, request \in [Requests -> Request]
  PROVE  /\ \A pc \in RequestState :
              RequestGoes(r, pc) => request' \in [Requests -> Request]
         /\ Returns(r) => request' \in [Requests -> Request]
         /\ \A new \in Request :
              [request EXCEPT ![r] = new] \in [Requests -> Request]
BY SmallTypes DEF RequestGoes, Returns, Request

LEMMA RemoteUpdates ==
  ASSUME remote \in Remote
  PROVE  /\ WithoutExpired \in Remote
         /\ \A r \in Requests : Released(r) \in Remote
         /\ \A b \in BOOLEAN : [remote EXCEPT !.live = b] \in Remote
<1>1. WithoutExpired \in Remote
  BY SmallTypes DEF WithoutExpired
<1>2. \A r \in Requests : Released(r) \in Remote
  BY SmallTypes DEF Released
<1>3. \A b \in BOOLEAN : [remote EXCEPT !.live = b] \in Remote
  BY DEF Remote
<1> QED
  BY <1>1, <1>2, <1>3

LEMMA TypeByParts ==
  TypeOK <=>
    /\ row \in Status /\ published \in BOOLEAN
    /\ dispatcher \in DispatcherState /\ copy \in Status
    /\ remote \in Remote
    /\ tokens \in 0..MaxClaims /\ delivered \in SUBSET Token
    /\ mode \in {"auto", "client", "server", "off"}
    /\ graceOver \in BOOLEAN
    /\ request \in [Requests -> Request]
BY DEF TypeOK, Remote, Request

LEMMA OutsideTypes ==
  ASSUME TypeOK, OutsideStep
  PROVE  TypeOK'
<1>1. CASE Analyze
  BY <1>1 DEF Analyze, TypeOK, Status, Active, DispatcherState, DispatcherGoes,
              serverVars, claimVars
<1>2. CASE LeaseExpires
  BY <1>2, RemoteUpdates, TypeByParts
     DEF LeaseExpires, TypeOK, Remote, taskVars, serverVars
<1>3. CASE GraceEnds
  BY <1>3 DEF GraceEnds, TypeOK, taskVars, serverVars, claimVars
<1>4. CASE Restart
  <2>1. request' \in [Requests -> Request] /\ remote' \in Remote
    BY <1>4, SmallTypes DEF Restart
  <2> QED
    BY <1>4, <2>1 DEF Restart, TypeOK, Status, Terminal, DispatcherState,
                     DispatcherGoes, Remote, Request
<1>5. ASSUME NEW m \in {"auto", "client", "server", "off"}, SetMode(m)
      PROVE  TypeOK'
  BY <1>5 DEF SetMode, TypeOK, taskVars, serverVars, claimVars
<1> QED
  BY <1>1, <1>2, <1>3, <1>4, <1>5 DEF OutsideStep

LEMMA DispatcherTypes ==
  ASSUME TypeOK, Dispatcher
  PROVE  TypeOK'
<1> USE DEF DispatcherGoes, DispatcherState, Polling, Analysing
<1>1. CASE DispatchChooses \/ DispatchReads \/ DispatchTicks \/ DispatchReadsMode
  BY <1>1 DEF DispatchChooses, DispatchReads, DispatchTicks, DispatchReadsMode,
              TypeOK, taskVars, claimVars
<1>2. CASE DispatchSaves \/ DispatchFails
  BY <1>2 DEF DispatchSaves, DispatchFails, TypeOK, Status, Terminal, claimVars
<1>3. CASE DispatchRegisters
  BY <1>3, SmallTypes DEF DispatchRegisters, TypeOK, Remote, taskVars
<1>4. CASE DispatchLooks
  <2>1. remote' \in Remote
    BY <1>4, RemoteUpdates DEF DispatchLooks, TypeOK, Remote
  <2>2. dispatcher' \in DispatcherState
    BY <1>4 DEF DispatchLooks
  <2> QED
    BY <1>4, <2>1, <2>2 DEF DispatchLooks, TypeOK, Remote, taskVars
<1>5. CASE DispatchDrops
  <2>1. dispatcher' \in DispatcherState
    BY <1>5 DEF DispatchDrops, AfterDrop
  <2>2. remote' \in Remote
    BY <1>5, SmallTypes DEF DispatchDrops
  <2> QED
    BY <1>5, <2>1, <2>2 DEF DispatchDrops, TypeOK, Remote, taskVars
<1> QED
  BY <1>1, <1>2, <1>3, <1>4, <1>5 DEF Dispatcher

LEMMA ServerTypes ==
  ASSUME TypeOK, Server \/ ServerUpdates
  PROVE  TypeOK'
BY DEF Server, ServerStarts, ServerUpdates, ServerPublishes, ServerFails,
       ServerCompletes, DispatcherGoes, TypeOK, Status, Active, Terminal,
       DispatcherState, Analysing, serverVars, claimVars, taskVars

LEMMA RowReadTypes ==
  ASSUME TypeOK, NEW r \in Requests, NEW from, NEW to \in RequestState,
         RowRead(r, from, to)
  PROVE  TypeOK'
<1>1. request' \in [Requests -> Request]
  BY DEF RowRead, TypeOK, Request
<1> QED
  BY <1>1 DEF RowRead, TypeOK, Request, taskVars, serverVars, claimVars

LEMMA ClaimTypes ==
  ASSUME TypeOK, HasToken, ClaimStep
  PROVE  TypeOK'
<1>0. PICK r \in Requests :
        \/ ClaimBegins(r) \/ ClaimRefused(r) \/ ClaimGranted(r)
        \/ ClaimFindsNothing(r) \/ ClaimBuilt(r) \/ ClaimReads(r)
        \/ ClaimSaves(r)
  BY DEF ClaimStep
<1>t. remote \in Remote /\ request \in [Requests -> Request]
  BY DEF TypeOK, Remote, Request
<1>1. CASE ClaimBegins(r) \/ ClaimBuilt(r)
  <2>1. request' \in [Requests -> Request]
    BY <1>1, <1>t, RequestUpdates DEF ClaimBegins, ClaimBuilt, RequestState
  <2> QED
    BY <1>1, <2>1 DEF ClaimBegins, ClaimBuilt, TypeOK, Request, taskVars,
                      serverVars, claimVars
<1>2. CASE ClaimRefused(r) \/ ClaimFindsNothing(r)
  <2>1. request' \in [Requests -> Request]
    BY <1>2, <1>t, RequestUpdates DEF ClaimRefused, ClaimFindsNothing
  <2>2. remote' \in Remote
    BY <1>2, <1>t, RemoteUpdates DEF ClaimRefused, ClaimFindsNothing, claimVars
  <2> QED
    BY <1>2, <2>1, <2>2
       DEF ClaimRefused, ClaimFindsNothing, TypeOK, Request, Remote, taskVars,
           serverVars, claimVars
<1>3. CASE ClaimGranted(r)
  <2>1. tokens' \in Token /\ tokens' \in 0..MaxClaims
    BY <1>3, AnalysisTaskAssumption DEF ClaimGranted, TypeOK, Token
  <2>2. remote' \in Remote
    BY <1>3, <2>1, SmallTypes DEF ClaimGranted
  <2>3. request' \in [Requests -> Request]
    BY <1>3, <1>t, <2>1 DEF ClaimGranted, Request, RequestState
  <2> QED
    BY <1>3, <2>1, <2>2, <2>3
       DEF ClaimGranted, TypeOK, Request, Remote, taskVars, serverVars
<1>4. CASE ClaimReads(r)
  BY <1>4, RowReadTypes DEF ClaimReads, RequestState
<1>5. CASE ClaimSaves(r)
  <2>1. request[r].token \in Token
    BY <1>5, <1>t DEF ClaimSaves, HasToken, Request
  <2>2. request' \in [Requests -> Request]
    BY <1>5, <1>t, RequestUpdates DEF ClaimSaves
  <2> QED
    BY <1>5, <2>1, <2>2
       DEF ClaimSaves, TypeOK, Request, Status, Active, serverVars
<1> QED
  BY <1>0, <1>1, <1>2, <1>3, <1>4, <1>5

LEMMA TokenTypes ==
  ASSUME TypeOK, TokenStep
  PROVE  TypeOK'
<1>0. PICK r \in Requests :
        \/ \E k \in Token :
             ProgressBegins(r, k) \/ CompleteBegins(r, k) \/ FailBegins(r, k)
        \/ ProgressExtends(r) \/ ProgressReads(r) \/ ProgressSaves(r)
        \/ CompletePublishes(r) \/ CompleteSaves(r) \/ CompleteDrops(r)
        \/ ClaimReleased(r) \/ FailSaves(r)
  BY DEF TokenStep
<1>t. remote \in Remote /\ request \in [Requests -> Request]
  BY DEF TypeOK, Remote, Request
<1>1. ASSUME NEW k \in Token, NEW to \in RequestState, Validated(r, k, to)
      PROVE  TypeOK'
  <2>1. request' \in [Requests -> Request]
    BY <1>1, <1>t DEF Validated, Request, Status, RequestState
  <2> QED
    BY <1>1, <2>1 DEF Validated, TypeOK, Request, taskVars, serverVars, claimVars
<1>2. CASE ProgressExtends(r) \/ ClaimReleased(r)
  <2>1. request' \in [Requests -> Request]
    BY <1>2, <1>t, RequestUpdates DEF ProgressExtends, ClaimReleased, RequestState
  <2>2. remote' \in Remote
    BY <1>2, <1>t, RemoteUpdates DEF ProgressExtends, ClaimReleased
  <2> QED
    BY <1>2, <2>1, <2>2
       DEF ProgressExtends, ClaimReleased, TypeOK, Request, Remote, taskVars,
           serverVars
<1>3. CASE ProgressReads(r)
  BY <1>3, RowReadTypes DEF ProgressReads, RequestState
<1>4. CASE ProgressSaves(r) \/ CompleteSaves(r) \/ FailSaves(r)
  <2>1. row' \in Status
    BY <1>4, <1>t DEF ProgressSaves, CompleteSaves, FailSaves, Request, Status,
                      Active, Terminal
  <2>2. request' \in [Requests -> Request]
    BY <1>4, <1>t, RequestUpdates
       DEF ProgressSaves, CompleteSaves, FailSaves, RequestState
  <2> QED
    BY <1>4, <2>1, <2>2
       DEF ProgressSaves, CompleteSaves, FailSaves, TypeOK, Request, serverVars,
           claimVars
<1>5. CASE CompletePublishes(r)
  <2>1. request' \in [Requests -> Request]
    BY <1>5, <1>t, RequestUpdates DEF CompletePublishes, RequestState
  <2> QED
    BY <1>5, <2>1 DEF CompletePublishes, TypeOK, Request, serverVars, claimVars
<1>6. CASE CompleteDrops(r)
  <2>1. request' \in [Requests -> Request] /\ remote' \in Remote
    BY <1>6, <1>t, RequestUpdates, SmallTypes DEF CompleteDrops
  <2> QED
    BY <1>6, <2>1 DEF CompleteDrops, TypeOK, Request, Remote, taskVars, serverVars
<1> QED
  BY <1>0, <1>1, <1>2, <1>3, <1>4, <1>5, <1>6
     DEF ProgressBegins, CompleteBegins, FailBegins, RequestState

LEMMA HasTokenKept ==
  ASSUME TypeOK, HasToken, [Next]_vars
  PROVE  HasToken'
<1>t. request \in [Requests -> Request]
  BY DEF TypeOK, Request
<1>1. CASE UNCHANGED request
  BY <1>1 DEF HasToken
<1>2. CASE request' = [r \in Requests |-> Idle]
  BY <1>2 DEF HasToken, Idle
<1>3. ASSUME NEW r \in Requests, NEW to,
             \/ Returns(r)
             \/ request[r].pc \notin {"idle", "claim"} /\ RequestGoes(r, to)
             \/ to = "claim" /\ RequestGoes(r, to)
      PROVE  HasToken'
  <2>1. \A q \in Requests \ {r} : request'[q] = request[q]
    BY <1>3, <1>t DEF Returns, RequestGoes
  <2>2. request'[r].pc \notin {"idle", "claim"} => request'[r].token # 0
    BY <1>3, <1>t DEF Returns, RequestGoes, Idle, HasToken, Request
  <2> QED
    BY <2>1, <2>2 DEF HasToken
<1>4. ASSUME NEW r \in Requests, NEW from, NEW to,
             from \notin {"idle", "claim"}, RowRead(r, from, to)
      PROVE  HasToken'
  BY <1>4, <1>t DEF RowRead, HasToken, Request
<1>5. ASSUME NEW r \in Requests, NEW k \in Token, NEW to, Validated(r, k, to)
      PROVE  HasToken'
  BY <1>5, <1>t DEF Validated, HasToken, Request, Token
<1>6. ASSUME NEW r \in Requests, ClaimGranted(r)
      PROVE  HasToken'
  BY <1>6, <1>t DEF ClaimGranted, HasToken, Request, TypeOK
<1>7. CASE UNCHANGED vars \/ OutsideStep
  BY <1>7, <1>1, <1>2 DEF vars, OutsideStep, Analyze, LeaseExpires, GraceEnds,
                          Restart, SetMode
<1>8. CASE Dispatcher \/ Server \/ ServerUpdates
  BY <1>8, <1>1
     DEF Dispatcher, DispatchChooses, DispatchRegisters, DispatchReads,
         DispatchSaves, DispatchTicks, DispatchReadsMode, DispatchLooks,
         DispatchDrops, DispatchFails, Server, ServerUpdates, ServerStarts,
         ServerPublishes, ServerFails, ServerCompletes
<1>9. CASE ClaimStep
  BY <1>9, <1>3, <1>4, <1>6
     DEF ClaimStep, ClaimBegins, ClaimRefused, ClaimFindsNothing, ClaimBuilt,
         ClaimReads, ClaimSaves
<1>10. CASE TokenStep
  BY <1>10, <1>3, <1>4, <1>5
     DEF TokenStep, ProgressBegins, CompleteBegins, FailBegins, ProgressExtends,
         ProgressReads, ProgressSaves, CompletePublishes, CompleteSaves,
         CompleteDrops, ClaimReleased, FailSaves
<1> QED
  BY <1>7, <1>8, <1>9, <1>10, NextCases

LEMMA TypesKept == TypeOK /\ HasToken /\ [Next]_vars => TypeOK' /\ HasToken'
<1>1. ASSUME TypeOK, UNCHANGED vars PROVE TypeOK'
  BY <1>1 DEF TypeOK, vars, taskVars, serverVars, claimVars
<1> QED
  BY <1>1, NextCases, OutsideTypes, DispatcherTypes, ServerTypes, ClaimTypes,
     TokenTypes, HasTokenKept

LEMMA InitTypes == Init => TypeOK /\ HasToken
<1> SUFFICES ASSUME Init PROVE TypeOK /\ HasToken
  OBVIOUS
<1>1. request \in [Requests -> Request] /\ remote \in Remote
  BY SmallTypes DEF Init
<1>2. 0 \in 0..MaxClaims
  BY AnalysisTaskAssumption
<1>3. TypeOK
  BY <1>1, <1>2, TypeByParts DEF Init, Status, DispatcherState
<1> QED
  BY <1>3 DEF Init, Idle, HasToken

\* In every state the variables have their types, and a request that speaks of
\* a claim has its token.
THEOREM TypeCorrect == Spec => [](TypeOK /\ HasToken)
BY InitTypes, TypesKept, PTL DEF Spec

----------------------------------------------------------------------------
(* The claim table.                                                        *)

\* Only the dispatcher puts the task in, and it is there until it has taken it
\* out: whatever else happens, happens to an entry that is there or takes it out.
TableInv ==
  /\ EntryIsWatched
  /\ remote.token # 0 => remote.present

LEMMA TableKept ==
  ASSUME TypeOK, HasToken, TableInv, [Next]_vars
  PROVE  TableInv'
<1>t. remote \in Remote /\ request \in [Requests -> Request]
  BY DEF TypeOK, Remote, Request
<1>e. /\ NoEntry.present = FALSE /\ NoEntry.token = 0
      /\ Unclaimed.present = TRUE
      /\ \A k \in Token : Claim(k).present = TRUE
  BY DEF NoEntry, Unclaimed, Claim
<1>2. CASE UNCHANGED <<dispatcher, remote>>
  BY <1>2 DEF TableInv, EntryIsWatched
<1>3. /\ WithoutExpired.present = remote.present
      /\ WithoutExpired.token # 0 => WithoutExpired.present
  BY <1>t, <1>e DEF WithoutExpired, Expired, TableInv
<1>4. CASE UNCHANGED vars \/ Server \/ ServerUpdates
  <2>1. CASE UNCHANGED vars \/ ServerUpdates
    BY <2>1, <1>2 DEF vars, serverVars, claimVars, ServerUpdates
  <2>2. CASE Server
    BY <2>2 DEF Server, ServerStarts, ServerPublishes, ServerFails,
                ServerCompletes, claimVars, TableInv, EntryIsWatched, Polling
  <2> QED
    BY <1>4, <2>1, <2>2
<1>5. CASE OutsideStep
  <2>1. CASE Analyze \/ Restart
    <3>1. CASE Analyze
      BY <3>1 DEF Analyze, claimVars, TableInv, EntryIsWatched, Polling
    <3>2. CASE Restart
      BY <3>2, <1>e DEF Restart, TableInv, EntryIsWatched
    <3> QED
      BY <2>1, <3>1, <3>2
  <2>2. CASE LeaseExpires
    BY <2>2, <1>t DEF LeaseExpires, Remote, serverVars, TableInv, EntryIsWatched
  <2>3. CASE GraceEnds \/ \E m \in {"auto", "client", "server", "off"} : SetMode(m)
    BY <2>3, <1>2 DEF GraceEnds, SetMode, serverVars, claimVars
  <2> QED
    BY <1>5, <2>1, <2>2, <2>3 DEF OutsideStep
<1>6. CASE Dispatcher
  <2>1. CASE DispatchRegisters
    BY <2>1, <1>e DEF DispatchRegisters, DispatcherGoes, TableInv,
                      EntryIsWatched, Polling
  <2>2. CASE DispatchLooks
    <3>1. /\ remote'.present = remote.present
          /\ remote'.token # 0 => remote'.present
      BY <2>2, <1>3 DEF DispatchLooks, TableInv
    <3>2. remote.present => dispatcher' \in Polling
      BY <2>2, Zenon DEF DispatchLooks, DispatcherGoes, Polling
    <3> QED
      BY <3>1, <3>2 DEF TableInv, EntryIsWatched
  <2>3. CASE DispatchDrops
    BY <2>3, <1>e DEF DispatchDrops, TableInv, EntryIsWatched
  <2>4. CASE DispatchChooses \/ DispatchFails
    BY <2>4 DEF DispatchChooses, DispatchFails, claimVars, TableInv,
                EntryIsWatched, Polling
  <2>5. CASE DispatchReads \/ DispatchSaves \/ DispatchTicks
    BY <2>5 DEF DispatchReads, DispatchSaves, DispatchTicks, DispatcherGoes,
                claimVars, TableInv, EntryIsWatched, Polling
  <2>6. CASE DispatchReadsMode
    BY <2>6 DEF DispatchReadsMode, DispatcherGoes, claimVars, TableInv,
                EntryIsWatched, Polling, TypeOK
  <2> QED
    BY <1>6, <2>1, <2>2, <2>3, <2>4, <2>5, <2>6 DEF Dispatcher
<1>7. CASE ClaimStep
  <2>0. PICK r \in Requests :
          \/ ClaimBegins(r) \/ ClaimRefused(r) \/ ClaimGranted(r)
          \/ ClaimFindsNothing(r) \/ ClaimBuilt(r) \/ ClaimReads(r)
          \/ ClaimSaves(r)
    BY <1>7 DEF ClaimStep
  <2>1. CASE ClaimRefused(r)
    BY <2>1, <1>3 DEF ClaimRefused, serverVars, TableInv, EntryIsWatched
  <2>2. CASE ClaimGranted(r)
    <3>1. tokens' \in Token
      BY <2>2, AnalysisTaskAssumption DEF ClaimGranted, TypeOK, Token
    <3> QED
      BY <2>2, <3>1, <1>e DEF ClaimGranted, serverVars, TableInv, EntryIsWatched
  <2> QED
    BY <2>0, <2>1, <2>2, <1>2
       DEF ClaimBegins, ClaimFindsNothing, ClaimBuilt, ClaimReads, RowRead,
           ClaimSaves, serverVars, claimVars
<1>8. CASE TokenStep
  <2>0. PICK r \in Requests :
          \/ \E k \in Token :
               ProgressBegins(r, k) \/ CompleteBegins(r, k) \/ FailBegins(r, k)
          \/ ProgressExtends(r) \/ ProgressReads(r) \/ ProgressSaves(r)
          \/ CompletePublishes(r) \/ CompleteSaves(r) \/ CompleteDrops(r)
          \/ ClaimReleased(r) \/ FailSaves(r)
    BY <1>8 DEF TokenStep
  <2>1. CASE ProgressExtends(r)
    <3>1. remote'.present = remote.present /\ remote'.token = remote.token
      BY <2>1, <1>t DEF ProgressExtends, Remote
    <3> QED
      BY <2>1, <3>1 DEF ProgressExtends, serverVars, TableInv, EntryIsWatched
  <2>2. CASE ClaimReleased(r)
    BY <2>2, <1>e DEF ClaimReleased, Released, Own, serverVars, TableInv,
                      EntryIsWatched
  <2>3. CASE CompleteDrops(r)
    BY <2>3, <1>e DEF CompleteDrops, serverVars, TableInv, EntryIsWatched
  <2> QED
    BY <2>0, <2>1, <2>2, <2>3, <1>2
       DEF ProgressBegins, CompleteBegins, FailBegins, Validated, ProgressReads,
           RowRead, ProgressSaves, CompletePublishes, CompleteSaves, FailSaves,
           serverVars, claimVars
<1> QED
  BY <1>4, <1>5, <1>6, <1>7, <1>8, NextCases

LEMMA TableAlways == Spec => [](TypeOK /\ HasToken /\ TableInv)
<1>1. Init => TableInv
  BY DEF Init, TableInv, EntryIsWatched, NoEntry
<1> QED
  BY <1>1, InitTypes, TypesKept, TableKept, PTL DEF Spec

\* A task that workers can claim has a dispatcher that will take it back.
THEOREM EntryIsWatchedHolds == Spec => []EntryIsWatched
<1>1. TableInv => EntryIsWatched
  BY DEF TableInv
<1> QED
  BY <1>1, TableAlways, PTL

----------------------------------------------------------------------------
(* Who may take a claim away.                                              *)

LEMMA StepIsFenced ==
  ASSUME TypeOK, TableInv, [Next]_vars, NEW k \in Token,
         Holds(k), remote'.present, remote'.token # k
  PROVE  \E r \in Requests :
           request[r].pc = "release" /\ request[r].token = k
<1>t. remote \in Remote /\ 0 \notin Token
  BY DEF TypeOK, Remote, Token
<1>h. remote.live /\ remote.token = k /\ remote.present /\ ~Expired
  BY <1>t DEF Holds, TableInv, Expired
<1>1. remote' # remote /\ remote' # NoEntry /\ remote' # WithoutExpired
  BY <1>h DEF NoEntry, WithoutExpired
<1>2. \A b : remote' # [remote EXCEPT !.live = b]
  BY <1>h, <1>t DEF Remote
<1>3. dispatcher # "register"
  BY <1>h DEF TableInv, EntryIsWatched, Polling
<1>4. ~ (UNCHANGED vars \/ OutsideStep \/ Server \/ ServerUpdates)
  BY <1>1, <1>2
     DEF vars, claimVars, OutsideStep, Analyze, LeaseExpires, GraceEnds, Restart,
         SetMode, Server, ServerStarts, ServerPublishes, ServerFails,
         ServerCompletes, ServerUpdates
<1>5. ~ Dispatcher
  BY <1>1, <1>3
     DEF Dispatcher, DispatchChooses, DispatchRegisters, DispatchReads,
         DispatchSaves, DispatchTicks, DispatchReadsMode, DispatchLooks,
         DispatchDrops, DispatchFails, claimVars
<1>6. ~ ClaimStep
  BY <1>1, <1>h
     DEF ClaimStep, ClaimBegins, ClaimRefused, ClaimGranted, ClaimFindsNothing,
         ClaimBuilt, ClaimReads, RowRead, ClaimSaves, claimVars
<1>7. TokenStep
  BY <1>4, <1>5, <1>6, NextCases
<1>8. PICK r \in Requests : ClaimReleased(r)
  BY <1>7, <1>1, <1>2
     DEF TokenStep, ProgressBegins, CompleteBegins, FailBegins, Validated,
         ProgressExtends, ProgressReads, RowRead, ProgressSaves,
         CompletePublishes, CompleteSaves, CompleteDrops, FailSaves, claimVars
<1>9. request[r].pc = "release" /\ Own(r)
  BY <1>8, <1>1 DEF ClaimReleased, Released
<1> QED
  BY <1>9, <1>h DEF Own

\* A worker whose lease runs loses its claim only to its own release, or with
\* the whole task.
THEOREM ClaimIsFencedHolds == Spec => ClaimIsFenced
<1>1. TypeOK /\ TableInv /\ [Next]_vars =>
        [\A k \in Token :
           Holds(k) /\ remote'.present /\ remote'.token # k =>
             \E r \in Requests :
               request[r].pc = "release" /\ request[r].token = k]_vars
  BY StepIsFenced
<1> QED
  BY <1>1, TableAlways, PTL DEF Spec, ClaimIsFenced

----------------------------------------------------------------------------
(* The row.                                                                *)

\* Every copy of a completed row is as truthful as the row, and whoever is about
\* to complete it has published.
TruthInv ==
  /\ CompletedHasResult
  /\ copy = "completed" \/ dispatcher = "complete" => published
  /\ \A r \in Requests :
       request[r].copy = "completed" \/ request[r].pc = "completeSave"
         => published

LEMMA TruthKept ==
  ASSUME TypeOK, TruthInv, [Next]_vars
  PROVE  TruthInv'
<1>t. request \in [Requests -> Request] /\ published \in BOOLEAN
  BY DEF TypeOK, Request
<1>1. ASSUME published' = TRUE
      PROVE  TruthInv'
  BY <1>1 DEF TruthInv, CompletedHasResult
<1>2. ASSUME UNCHANGED published, row' = "completed" => published,
             copy' \in {copy, row, "none"},
             dispatcher' = "complete" => dispatcher = "complete",
             request' \in {request, [r \in Requests |-> Idle]}
      PROVE  TruthInv'
  <2>1. \A r \in Requests : request' = request \/ request'[r] = Idle
    BY <1>2
  <2> QED
    BY <1>2, <2>1 DEF TruthInv, CompletedHasResult, Idle
<1>3. ASSUME NEW r \in Requests, UNCHANGED <<published, serverVars>>,
             row' = "completed" => published,
             \A q \in Requests \ {r} : request'[q] = request[q],
             request'[r].copy = "completed" \/ request'[r].pc = "completeSave"
               => published
      PROVE  TruthInv'
  BY <1>3 DEF TruthInv, CompletedHasResult, serverVars
<1>4. CASE UNCHANGED vars \/ OutsideStep
  BY <1>4, <1>2
     DEF vars, taskVars, serverVars, OutsideStep, Analyze, DispatcherGoes,
         LeaseExpires, GraceEnds, Restart, SetMode, TruthInv, CompletedHasResult
<1>5. CASE Dispatcher
  <2>1. CASE DispatchDrops
    BY <2>1, <1>2 DEF DispatchDrops, DispatcherGoes, AfterDrop, taskVars, TruthInv,
                      CompletedHasResult
  <2>2. CASE DispatchChooses \/ DispatchRegisters
    BY <2>2, <1>2 DEF DispatchChooses, DispatchRegisters, DispatcherGoes, taskVars,
                      TruthInv, CompletedHasResult
  <2>3. CASE DispatchReads \/ DispatchTicks
    BY <2>3, <1>2 DEF DispatchReads, DispatchTicks, DispatcherGoes, taskVars,
                      TruthInv, CompletedHasResult
  <2>4. CASE DispatchSaves \/ DispatchFails
    BY <2>4, <1>2 DEF DispatchSaves, DispatchFails, DispatcherGoes, TruthInv
  <2>5. CASE DispatchReadsMode
    <3>1. dispatcher' # "complete"
      BY <2>5 DEF DispatchReadsMode, DispatcherGoes, TypeOK
    <3> QED
      BY <2>5, <3>1, <1>2 DEF DispatchReadsMode, taskVars, TruthInv,
                              CompletedHasResult
  <2>6. CASE DispatchLooks
    <3>1. dispatcher' # "complete"
      BY <2>6 DEF DispatchLooks, DispatcherGoes
    <3> QED
      BY <2>6, <3>1, <1>2 DEF DispatchLooks, taskVars, TruthInv, CompletedHasResult
  <2> QED
    BY <1>5, <2>1, <2>2, <2>3, <2>4, <2>5, <2>6 DEF Dispatcher
<1>6. CASE Server \/ ServerUpdates
  <2>1. CASE ServerPublishes
    BY <2>1, <1>1 DEF ServerPublishes
  <2> QED
    BY <1>6, <2>1, <1>2
       DEF Server, ServerStarts, ServerFails, ServerCompletes, ServerUpdates,
           DispatcherGoes, serverVars, TruthInv, CompletedHasResult
<1>7. ASSUME NEW r \in Requests, NEW from, NEW to,
             request[r].pc = from, RequestGoes(r, to) \/ Returns(r),
             to = "completeSave" => published,
             UNCHANGED <<published, serverVars>>, row' = "completed" => published
      PROVE  TruthInv'
  BY <1>7, <1>3, <1>t DEF RequestGoes, Returns, Idle, TruthInv, Request
<1>8. ASSUME NEW r \in Requests, NEW from, NEW to,
             to # "completeSave", RowRead(r, from, to)
      PROVE  TruthInv'
  BY <1>8, <1>3, <1>t DEF RowRead, taskVars, TruthInv, CompletedHasResult, Request
<1>9. ASSUME NEW r \in Requests, NEW k \in Token, NEW to, to # "completeSave",
             Validated(r, k, to)
      PROVE  TruthInv'
  BY <1>9, <1>3, <1>t DEF Validated, taskVars, TruthInv, CompletedHasResult
<1>10. CASE ClaimStep
  <2>0. PICK r \in Requests :
          \/ ClaimBegins(r) \/ ClaimRefused(r) \/ ClaimGranted(r)
          \/ ClaimFindsNothing(r) \/ ClaimBuilt(r) \/ ClaimReads(r)
          \/ ClaimSaves(r)
    BY <1>10 DEF ClaimStep
  <2>1. CASE ClaimGranted(r)
    BY <2>1, <1>3, <1>t DEF ClaimGranted, taskVars, TruthInv, CompletedHasResult,
                            Request
  <2> QED
    BY <2>0, <2>1, <1>7, <1>8
       DEF ClaimBegins, ClaimRefused, ClaimFindsNothing, ClaimBuilt, ClaimReads,
           ClaimSaves, taskVars, serverVars, TruthInv, CompletedHasResult
<1>11. CASE TokenStep
  <2>0. PICK r \in Requests :
          \/ \E k \in Token :
               ProgressBegins(r, k) \/ CompleteBegins(r, k) \/ FailBegins(r, k)
          \/ ProgressExtends(r) \/ ProgressReads(r) \/ ProgressSaves(r)
          \/ CompletePublishes(r) \/ CompleteSaves(r) \/ CompleteDrops(r)
          \/ ClaimReleased(r) \/ FailSaves(r)
    BY <1>11 DEF TokenStep
  <2>1. CASE CompletePublishes(r)
    <3>1. CASE published' = TRUE
      BY <3>1, <1>1
    <3>2. CASE Returns(r) /\ UNCHANGED published
      BY <2>1, <3>2, <1>3, <1>t
         DEF CompletePublishes, Returns, Idle, TruthInv, CompletedHasResult
    <3> QED
      BY <2>1, <3>1, <3>2 DEF CompletePublishes
  <2>2. CASE \E k \in Token :
               ProgressBegins(r, k) \/ CompleteBegins(r, k) \/ FailBegins(r, k)
    BY <2>2, <1>9 DEF ProgressBegins, CompleteBegins, FailBegins
  <2>3. CASE ProgressSaves(r) \/ CompleteSaves(r) \/ FailSaves(r)
    BY <2>3, <1>7 DEF ProgressSaves, CompleteSaves, FailSaves, serverVars, TruthInv
  <2> QED
    BY <2>0, <2>1, <2>2, <2>3, <1>7, <1>8
       DEF ProgressExtends, ProgressReads, CompleteDrops, ClaimReleased, taskVars,
           serverVars, TruthInv, CompletedHasResult
<1> QED
  BY <1>4, <1>5, <1>6, <1>10, <1>11, NextCases

\* A task is reported as completed only when its highlights are there.
THEOREM CompletedHasResultHolds == Spec => []CompletedHasResult
<1>1. Init => TruthInv
  BY DEF Init, TruthInv, CompletedHasResult, Idle
<1>2. TruthInv => CompletedHasResult
  BY DEF TruthInv
<1> QED
  BY <1>1, <1>2, InitTypes, TypesKept, TruthKept, PTL DEF Spec

----------------------------------------------------------------------------
(* The claim table implements TaskLease.                                   *)

\* Tokens are counted: none is known to anybody before it has been issued. A
\* lease runs for somebody.
Issued ==
  /\ remote.live => remote.token # 0
  /\ remote.token <= tokens
  /\ \A k \in delivered : k <= tokens
  /\ \A r \in Requests : request[r].token <= tokens

LEMMA IssuedKept ==
  ASSUME TypeOK, HasToken, Issued, [Next]_vars
  PROVE  Issued'
<1>t. /\ remote \in Remote /\ request \in [Requests -> Request]
      /\ tokens \in Nat /\ delivered \in SUBSET Token
  BY AnalysisTaskAssumption DEF TypeOK, Remote, Request
<1>e. /\ NoEntry.live = FALSE /\ NoEntry.token = 0
      /\ Unclaimed.live = FALSE /\ Unclaimed.token = 0 /\ Idle.token = 0
      /\ \A k \in Token : Claim(k).live = TRUE /\ Claim(k).token = k
  BY DEF NoEntry, Unclaimed, Claim, Idle
<1>w. \/ WithoutExpired = remote
      \/ WithoutExpired.live = FALSE /\ WithoutExpired.token = 0
  BY <1>e DEF WithoutExpired
<1>1. CASE UNCHANGED <<remote, tokens, delivered, request>>
  BY <1>1 DEF Issued
<1>2. ASSUME UNCHANGED <<tokens, delivered, request>>,
             remote' = remote \/ (remote'.live = FALSE /\ remote'.token = 0)
      PROVE  Issued'
  BY <1>2, <1>t DEF Issued
<1>3. ASSUME NEW r \in Requests, UNCHANGED tokens,
             \A q \in Requests \ {r} : request'[q] = request[q],
             request'[r].token \in {0, request[r].token},
             remote' = remote \/ (remote'.live = FALSE /\ remote'.token = 0),
             delivered' \in {delivered, delivered \cup {request[r].token}}
      PROVE  Issued'
  <2>1. \A q \in Requests : request'[q].token <= tokens'
    BY <1>3, <1>t DEF Issued
  <2>2. \A k \in delivered' : k <= tokens'
    BY <1>3 DEF Issued
  <2>3. (remote'.live => remote'.token # 0) /\ remote'.token <= tokens'
    BY <1>3, <1>t DEF Issued
  <2> QED BY <2>1, <2>2, <2>3 DEF Issued
<1>4. ASSUME NEW r \in Requests, NEW to, RequestGoes(r, to) \/ Returns(r)
      PROVE  /\ \A q \in Requests \ {r} : request'[q] = request[q]
             /\ request'[r].token \in {0, request[r].token}
  BY <1>4, <1>t, <1>e DEF RequestGoes, Returns, Request
<1>5. ASSUME NEW r \in Requests, NEW from, NEW to, RowRead(r, from, to)
      PROVE  Issued'
  <2>1. /\ \A q \in Requests \ {r} : request'[q] = request[q]
        /\ request'[r].token = request[r].token
    BY <1>5, <1>t DEF RowRead, Request
  <2> QED BY <1>3, <1>5, <2>1 DEF RowRead, claimVars
<1>6. CASE UNCHANGED vars \/ OutsideStep
  <2>1. CASE LeaseExpires
    <3>1. remote'.live = FALSE /\ remote'.token = remote.token
      BY <2>1, <1>t DEF LeaseExpires, Remote
    <3> QED BY <2>1, <3>1 DEF LeaseExpires, Issued
  <2>2. CASE Restart
    BY <2>2, <1>t, <1>e DEF Restart, Issued
  <2> QED
    BY <1>6, <2>1, <2>2, <1>1 DEF vars, claimVars, OutsideStep, Analyze, GraceEnds, SetMode
<1>7. CASE Dispatcher
  BY <1>7, <1>1, <1>2, <1>e, <1>w
     DEF Dispatcher, DispatchChooses, DispatchRegisters, DispatchReads, DispatchSaves,
         DispatchTicks, DispatchReadsMode, DispatchLooks, DispatchDrops, DispatchFails,
         claimVars
<1>8. CASE Server \/ ServerUpdates
  BY <1>8, <1>1
     DEF Server, ServerStarts, ServerUpdates, ServerPublishes, ServerFails,
         ServerCompletes, claimVars
<1>9. CASE ClaimStep
  <2>0. PICK r \in Requests :
          \/ ClaimBegins(r) \/ ClaimRefused(r) \/ ClaimGranted(r)
          \/ ClaimFindsNothing(r) \/ ClaimBuilt(r) \/ ClaimReads(r)
          \/ ClaimSaves(r)
    BY <1>9 DEF ClaimStep
  <2>1. CASE ClaimGranted(r)
    <3>1. tokens' = tokens + 1 /\ tokens' \in Token
      BY <2>1, AnalysisTaskAssumption DEF ClaimGranted, TypeOK, Token
    <3>2. remote'.live /\ remote'.token = tokens' /\ tokens' # 0
      BY <2>1, <3>1, <1>e DEF ClaimGranted, Token
    <3>3. \A q \in Requests : request'[q].token \in {request[q].token, tokens'}
      BY <2>1, <1>t DEF ClaimGranted, Request
    <3>4. \A n : n <= tokens /\ n \in Nat => n <= tokens'
      BY <3>1, <1>t
    <3>5. \A q \in Requests : request[q].token \in Nat
      BY <1>t DEF Request, Token
    <3>6. \A q \in Requests : request'[q].token <= tokens'
      BY <3>1, <3>3, <3>4, <3>5, <1>t DEF Issued
    <3>7. \A k \in delivered' : k <= tokens'
      BY <2>1, <3>4, <1>t DEF ClaimGranted, Issued, Token
    <3> QED BY <3>1, <3>2, <3>6, <3>7, <1>t DEF Issued
  <2>2. CASE ClaimRefused(r)
    BY <2>2, <1>3, <1>4, <1>w DEF ClaimRefused
  <2>3. CASE ClaimReads(r)
    BY <2>3, <1>5 DEF ClaimReads
  <2>4. CASE ClaimSaves(r)
    BY <2>4, <1>3, <1>4 DEF ClaimSaves
  <2>5. CASE ClaimBegins(r) \/ ClaimFindsNothing(r) \/ ClaimBuilt(r)
    BY <2>5, <1>3, <1>4 DEF ClaimBegins, ClaimFindsNothing, ClaimBuilt, claimVars
  <2> QED BY <2>0, <2>1, <2>2, <2>3, <2>4, <2>5
<1>10. CASE TokenStep
  <2>0. PICK r \in Requests :
          \/ \E k \in Token :
               ProgressBegins(r, k) \/ CompleteBegins(r, k) \/ FailBegins(r, k)
          \/ ProgressExtends(r) \/ ProgressReads(r) \/ ProgressSaves(r)
          \/ CompletePublishes(r) \/ CompleteSaves(r) \/ CompleteDrops(r)
          \/ ClaimReleased(r) \/ FailSaves(r)
    BY <1>10 DEF TokenStep
  <2>1. ASSUME NEW k \in Token, NEW to, Validated(r, k, to)
        PROVE  Issued'
    <3>1. /\ k <= tokens /\ UNCHANGED <<remote, tokens, delivered>>
          /\ \A q \in Requests : request'[q].token \in {request[q].token, k}
      BY <2>1, <1>t DEF Validated, Issued, claimVars
    <3> QED BY <3>1 DEF Issued
  <2>2. CASE ProgressExtends(r)
    <3>1. /\ \A q \in Requests \ {r} : request'[q] = request[q]
          /\ request'[r].token = request[r].token
      BY <2>2, <1>t DEF ProgressExtends, RequestGoes, Request
    <3>2. /\ UNCHANGED <<tokens, delivered>> /\ remote'.token = remote.token
          /\ remote'.live => remote.live \/ remote.token = request[r].token
      BY <2>2, <1>t DEF ProgressExtends, Own, Remote
    <3>3. request[r].token # 0
      BY <2>2 DEF ProgressExtends, HasToken
    <3>4. \A q \in Requests : request'[q].token <= tokens'
      BY <3>1, <3>2 DEF Issued
    <3> QED BY <3>2, <3>3, <3>4 DEF Issued
  <2>3. CASE ClaimReleased(r)
    <3>1. remote' = remote \/ (remote'.live = FALSE /\ remote'.token = 0)
      BY <2>3, <1>e DEF ClaimReleased, Released
    <3> QED BY <2>3, <3>1, <1>3, <1>4 DEF ClaimReleased
  <2>4. CASE CompleteDrops(r)
    BY <2>4, <1>3, <1>4, <1>e DEF CompleteDrops
  <2>5. CASE ProgressReads(r)
    BY <2>5, <1>5 DEF ProgressReads
  <2>6. CASE ProgressSaves(r) \/ CompletePublishes(r) \/ CompleteSaves(r) \/ FailSaves(r)
    BY <2>6, <1>3, <1>4
       DEF ProgressSaves, CompletePublishes, CompleteSaves, FailSaves, claimVars
  <2> QED
    BY <2>0, <2>1, <2>2, <2>3, <2>4, <2>5, <2>6 DEF ProgressBegins, CompleteBegins, FailBegins
<1> QED
  BY <1>6, <1>7, <1>8, <1>9, <1>10, NextCases

\* What a step of one request does to the tokens that are being given back.
LEMMA LeavingMoves ==
  ASSUME NEW r \in Requests, \A q \in Requests \ {r} : request'[q] = request[q]
  PROVE  /\ request[r].pc # "release" /\ request'[r].pc # "release"
              => Leaving' = Leaving
         /\ request[r].pc # "release" /\ request'[r].pc = "release"
              => Leaving' = Leaving \cup {request'[r].token}
         /\ request[r].pc = "release" /\ request'[r].pc # "release"
              => Leaving' \in {Leaving, Leaving \ {request[r].token}}
<1>1. /\ \A k : k \in Leaving <=>
              \E q \in Requests : request[q].pc = "release" /\ request[q].token = k
      /\ \A k : k \in Leaving' <=>
              \E q \in Requests : request'[q].pc = "release" /\ request'[q].token = k
  BY DEF Leaving
<1>2. CASE request[r].pc # "release" /\ request'[r].pc # "release"
  <2>1. \A k : k \in Leaving' <=> k \in Leaving
    BY <1>1, <1>2
  <2> QED BY <1>2, <2>1 DEF Leaving
<1>3. CASE request[r].pc # "release" /\ request'[r].pc = "release"
  <2>1. \A k : k \in Leaving' <=> k \in Leaving \/ k = request'[r].token
    BY <1>1, <1>3
  <2>2. Leaving' = Leaving \cup {request'[r].token}
    BY <2>1
  <2> QED BY <1>3, <2>2
<1>4. CASE request[r].pc = "release" /\ request'[r].pc # "release"
  <2>1. \A k : k # request[r].token => (k \in Leaving' <=> k \in Leaving)
    BY <1>1, <1>4
  <2>2. request[r].token \in Leaving
    BY <1>1, <1>4
  <2>3. CASE request[r].token \in Leaving'
    <3>1. \A k : k \in Leaving' <=> k \in Leaving
      BY <2>1, <2>2, <2>3
    <3>2. Leaving' = Leaving
      BY <3>1
    <3> QED BY <1>4, <3>2
  <2>4. CASE request[r].token \notin Leaving'
    <3>1. Leaving' = Leaving \ {request[r].token}
      BY <2>1, <2>2, <2>4
    <3> QED BY <1>4, <3>1
  <2> QED BY <2>3, <2>4
<1> QED BY <1>2, <1>3, <1>4

\* What touches neither the table nor the server's turn is invisible.
LEMMA LeaseStays ==
  ASSUME UNCHANGED <<remote, tokens>>, Leaving' = Leaving,
         (dispatcher' \in Analysing) = (dispatcher \in Analysing)
  PROVE  UNCHANGED Lease!vars
BY DEF Lease!vars

LEMMA SameRequests == request' = request => Leaving' = Leaving
BY DEF Leaving

\* The invariant that the steps are taken from.
LeaseInv == TypeOK /\ HasToken /\ TableInv /\ Issued

\* An expired claim is forgotten, wherever that happens.
LEMMA ForgetsExpired ==
  ASSUME LeaseInv, remote' = WithoutExpired, UNCHANGED tokens, Leaving' = Leaving,
         (dispatcher' \in Analysing) = (dispatcher \in Analysing)
  PROVE  Lease!Next \/ UNCHANGED Lease!vars
<1>1. CASE Expired
  <2>1. /\ remote.token # 0 /\ ~remote.live /\ remote.present
        /\ remote'.present /\ remote'.token = 0 /\ remote'.live = FALSE
    BY <1>1 DEF Expired, WithoutExpired, Unclaimed, LeaseInv, TableInv
  <2>2. remote \in Remote
    BY DEF LeaseInv, TypeOK, Remote
  <2>3. /\ remote'.present = remote.present /\ remote'.live = remote.live
    BY <2>1, <2>2 DEF Remote
  <2>4. Lease!Forget
    BY <2>1, <2>3 DEF Lease!Forget
  <2> QED BY <2>4 DEF Lease!Next
<1>2. CASE ~Expired
  BY <1>2, LeaseStays DEF WithoutExpired
<1> QED BY <1>1, <1>2

\* The task is taken out, by whomever.
LEMMA Withdraws ==
  ASSUME LeaseInv, remote' = NoEntry, UNCHANGED tokens, Leaving' = Leaving,
         (dispatcher' \in Analysing) = (dispatcher \in Analysing)
  PROVE  Lease!Next \/ UNCHANGED Lease!vars
<1>1. remote'.present = FALSE /\ remote'.token = 0 /\ remote'.live = FALSE
  BY DEF NoEntry
<1>2. CASE remote.present
  <2>1. Lease!Withdraw
    BY <1>1, <1>2 DEF Lease!Withdraw, Lease!NoHolder
  <2> QED BY <2>1 DEF Lease!Next
<1>3. CASE ~remote.present
  <2>1. remote \in Remote /\ remote.token = 0 /\ ~remote.live
    BY <1>3 DEF LeaseInv, TypeOK, Remote, TableInv, Issued
  <2>2. /\ remote'.present = remote.present /\ remote'.token = remote.token
        /\ remote'.live = remote.live
    BY <1>1, <1>3, <2>1 DEF Remote
  <2> QED BY <2>2 DEF Lease!vars
<1> QED BY <1>2, <1>3

LEMMA OutsideRefines ==
  ASSUME LeaseInv, OutsideStep
  PROVE  Lease!Next \/ UNCHANGED Lease!vars
<1> TypeOK /\ remote \in Remote
  BY DEF LeaseInv, TypeOK, Remote
<1>1. CASE Analyze
  BY <1>1, SameRequests, LeaseStays DEF Analyze, DispatcherGoes, claimVars, Analysing
<1>2. CASE LeaseExpires
  <2>1. /\ remote.live /\ remote'.live = FALSE
        /\ remote'.present = remote.present /\ remote'.token = remote.token
        /\ UNCHANGED <<tokens, dispatcher>> /\ Leaving' = Leaving
    BY <1>2, SameRequests DEF LeaseExpires, serverVars, Remote
  <2>2. Lease!Lapse
    BY <2>1 DEF Lease!Lapse
  <2> QED BY <2>2 DEF Lease!Next
<1>3. CASE GraceEnds \/ \E m \in {"auto", "client", "server", "off"} : SetMode(m)
  BY <1>3, SameRequests, LeaseStays DEF GraceEnds, SetMode, serverVars, claimVars
<1>4. CASE Restart
  <2>1. /\ remote' = NoEntry /\ dispatcher' = "none"
        /\ request' = [r \in Requests |-> Idle] /\ UNCHANGED tokens
    BY <1>4 DEF Restart, DispatcherGoes
  <2>2. Leaving' = {}
    BY <2>1 DEF Leaving, Idle
  <2>3. (dispatcher' \in Analysing) = FALSE
    BY <2>1 DEF Analysing
  <2>4. Lease!Restart
    BY <2>1, <2>2, <2>3 DEF Lease!Restart, Lease!NoHolder, NoEntry
  <2> QED BY <2>4 DEF Lease!Next
<1> QED BY <1>1, <1>2, <1>3, <1>4 DEF OutsideStep

\* The server takes the task over, from the workers or from nobody.
LEMMA TakesOver ==
  ASSUME dispatcher \notin Analysing, dispatcher' \in Analysing,
         remote'.present = FALSE, remote'.token = 0, remote'.live = FALSE,
         UNCHANGED <<tokens, request>>
  PROVE  Lease!Next
<1>1. (dispatcher \in Analysing) = FALSE /\ (dispatcher' \in Analysing) = TRUE
  OBVIOUS
<1>2. Lease!TakeOver
  BY <1>1, SameRequests DEF Lease!TakeOver, Lease!NoHolder
<1> QED BY <1>2 DEF Lease!Next

LEMMA DispatcherRefines ==
  ASSUME LeaseInv, Dispatcher
  PROVE  Lease!Next \/ UNCHANGED Lease!vars
<1> TypeOK /\ remote \in Remote
  BY DEF LeaseInv, TypeOK, Remote
<1>0. /\ Leaving' = Leaving /\ UNCHANGED <<tokens, request>>
      /\ dispatcher \notin Analysing
  BY SameRequests
     DEF Dispatcher, DispatchChooses, DispatchRegisters, DispatchReads, DispatchSaves,
         DispatchTicks, DispatchReadsMode, DispatchLooks, DispatchDrops, DispatchFails,
         claimVars, Analysing, AfterDrop
<1>n. NoEntry.present = FALSE /\ NoEntry.token = 0 /\ NoEntry.live = FALSE
  BY DEF NoEntry
<1>1. CASE DispatchChooses
  <2>1. dispatcher = "start" /\ UNCHANGED remote
    BY <1>1 DEF DispatchChooses, claimVars
  <2>2. remote.present = FALSE /\ remote.token = 0 /\ remote.live = FALSE
    BY <2>1 DEF LeaseInv, TableInv, EntryIsWatched, Issued, Polling, Remote
  <2>3. CASE dispatcher' \in Analysing
    BY <1>0, <2>1, <2>2, <2>3, TakesOver
  <2>4. CASE dispatcher' \notin Analysing
    BY <1>0, <2>1, <2>4, LeaseStays
  <2> QED BY <2>3, <2>4
<1>2. CASE DispatchRegisters
  <2>1. /\ dispatcher = "register" /\ dispatcher' \notin Analysing
        /\ UNCHANGED remote \/ remote' = Unclaimed
    BY <1>2 DEF DispatchRegisters, DispatcherGoes, Analysing
  <2>2. remote.present = FALSE
    BY <2>1 DEF LeaseInv, TableInv, EntryIsWatched, Polling, Remote
  <2>3. CASE UNCHANGED remote
    BY <1>0, <2>1, <2>3, LeaseStays
  <2>4. CASE remote' = Unclaimed
    <3>1. /\ (dispatcher \in Analysing) = FALSE /\ (dispatcher' \in Analysing) = FALSE
          /\ remote'.present = TRUE /\ remote'.token = 0 /\ remote'.live = FALSE
      BY <1>0, <2>1, <2>4 DEF Unclaimed
    <3>2. Lease!Offer
      BY <1>0, <2>2, <3>1 DEF Lease!Offer, Lease!NoHolder
    <3> QED BY <3>2 DEF Lease!Next
  <2> QED BY <2>1, <2>3, <2>4
<1>3. CASE DispatchLooks
  <2>2. dispatcher' \notin Analysing
    BY <1>3 DEF DispatchLooks, DispatcherGoes, Analysing
  <2>3. CASE remote' = remote
    BY <1>0, <2>2, <2>3, LeaseStays
  <2>4. CASE remote' = WithoutExpired
    BY <1>0, <2>2, <2>4, ForgetsExpired
  <2> QED BY <1>3, <2>3, <2>4 DEF DispatchLooks
<1>4. CASE DispatchDrops
  <2>1. remote' = NoEntry
    BY <1>4 DEF DispatchDrops
  <2>2. CASE dispatcher' \in Analysing
    BY <1>0, <1>n, <2>1, <2>2, TakesOver
  <2>3. CASE dispatcher' \notin Analysing
    BY <1>0, <2>1, <2>3, Withdraws
  <2> QED BY <2>2, <2>3
<1>5. CASE DispatchReads \/ DispatchSaves \/ DispatchTicks \/ DispatchReadsMode
           \/ DispatchFails
  <2>1. UNCHANGED remote /\ dispatcher' \notin Analysing
    BY <1>5 DEF DispatchReads, DispatchSaves, DispatchTicks, DispatchReadsMode,
         DispatchFails, DispatcherGoes, claimVars, Analysing, TypeOK
  <2> QED BY <1>0, <2>1, LeaseStays
<1> QED BY <1>1, <1>2, <1>3, <1>4, <1>5 DEF Dispatcher

LEMMA ServerRefines ==
  ASSUME LeaseInv, Server \/ ServerUpdates
  PROVE  Lease!Next \/ UNCHANGED Lease!vars
<1>1. /\ UNCHANGED <<remote, tokens, request>> /\ dispatcher \in Analysing
      /\ dispatcher' \in Analysing \/ dispatcher' = "done"
  BY DEF Server, ServerStarts, ServerUpdates, ServerPublishes, ServerFails,
         ServerCompletes, DispatcherGoes, serverVars, claimVars, Analysing
<1>2. CASE dispatcher' \in Analysing
  BY <1>1, <1>2, SameRequests, LeaseStays
<1>3. CASE dispatcher' \notin Analysing
  <2>1. (dispatcher \in Analysing) = TRUE /\ (dispatcher' \in Analysing) = FALSE
    BY <1>1, <1>3
  <2>2. Lease!Finish
    BY <1>1, <2>1, SameRequests DEF Lease!Finish
  <2> QED BY <2>2 DEF Lease!Next
<1> QED BY <1>2, <1>3

LEMMA ClaimRefines ==
  ASSUME LeaseInv, ClaimStep
  PROVE  Lease!Next \/ UNCHANGED Lease!vars
<1>t. TypeOK /\ remote \in Remote /\ request \in [Requests -> Request] /\ tokens \in Nat
  BY AnalysisTaskAssumption DEF LeaseInv, TypeOK, Remote, Request
<1>0. PICK r \in Requests :
        \/ ClaimBegins(r) \/ ClaimRefused(r) \/ ClaimGranted(r)
        \/ ClaimFindsNothing(r) \/ ClaimBuilt(r) \/ ClaimReads(r)
        \/ ClaimSaves(r)
  BY DEF ClaimStep
<1>1. /\ UNCHANGED dispatcher
      /\ \A q \in Requests \ {r} : request'[q] = request[q]
      /\ request[r].pc # "release"
  BY <1>0, <1>t
     DEF ClaimBegins, ClaimRefused, ClaimGranted, ClaimFindsNothing, ClaimBuilt,
         ClaimReads, RowRead, ClaimSaves, RequestGoes, Returns, serverVars
<1>2. CASE ClaimRefused(r)
  <2>1. request'[r].pc = "idle"
    BY <1>2, <1>t DEF ClaimRefused, Returns, Idle
  <2>2. Leaving' = Leaving
    BY <1>1, <2>1, LeavingMoves
  <2> QED BY <1>1, <1>2, <2>2, ForgetsExpired DEF ClaimRefused
<1>3. CASE ClaimGranted(r)
  <2>1. request'[r].pc = "build"
    BY <1>3, <1>t DEF ClaimGranted, Request
  <2>2. Leaving' = Leaving
    BY <1>1, <2>1, LeavingMoves
  <2>3. /\ remote.present /\ ~remote.live /\ tokens' = tokens + 1
        /\ remote'.present = TRUE /\ remote'.token = tokens' /\ remote'.live = TRUE
    BY <1>3 DEF ClaimGranted, Claim
  <2>4. remote.present = TRUE
    BY <2>3, <1>t DEF Remote
  <2>5. Lease!Grant
    BY <1>1, <2>2, <2>3, <2>4 DEF Lease!Grant
  <2> QED BY <2>5 DEF Lease!Next
<1>4. CASE ClaimBuilt(r)
  <2>1. /\ UNCHANGED <<remote, tokens>> /\ request'[r].token = request[r].token
        /\ request'[r].pc \in {"claimRead", "release"}
    BY <1>4, <1>t DEF ClaimBuilt, RequestGoes, Request, claimVars
  <2>2. CASE request'[r].pc = "claimRead"
    <3>1. Leaving' = Leaving
      BY <1>1, <2>2, LeavingMoves
    <3> QED BY <1>1, <2>1, <3>1, LeaseStays
  <2>3. CASE request'[r].pc = "release"
    <3>1. Leaving' = Leaving \cup {request[r].token}
      BY <1>1, <2>1, <2>3, LeavingMoves
    <3>2. Lease!Leave(request[r].token)
      BY <1>1, <2>1, <3>1 DEF Lease!Leave
    <3>3. request[r].pc = "build"
      BY <1>4 DEF ClaimBuilt
    <3>4. request[r].token \in 1..tokens
      BY <3>3, <1>t DEF LeaseInv, HasToken, Issued, Request, Token
    <3> QED BY <3>2, <3>4 DEF Lease!Next
  <2> QED BY <2>1, <2>2, <2>3
<1>5. CASE ClaimBegins(r) \/ ClaimFindsNothing(r) \/ ClaimReads(r) \/ ClaimSaves(r)
  <2>1. /\ UNCHANGED <<remote, tokens>> /\ request'[r].pc # "release"
    BY <1>5, <1>t DEF ClaimBegins, ClaimFindsNothing, ClaimReads, RowRead, ClaimSaves,
         RequestGoes, Returns, Idle, Request, claimVars
  <2>2. Leaving' = Leaving
    BY <1>1, <2>1, LeavingMoves
  <2> QED BY <1>1, <2>1, <2>2, LeaseStays
<1> QED BY <1>0, <1>2, <1>3, <1>4, <1>5

LEMMA TokenRefines ==
  ASSUME LeaseInv, TokenStep
  PROVE  Lease!Next \/ UNCHANGED Lease!vars
<1>t. TypeOK /\ remote \in Remote /\ request \in [Requests -> Request] /\ tokens \in Nat
  BY AnalysisTaskAssumption DEF LeaseInv, TypeOK, Remote, Request
<1>0. PICK r \in Requests :
        \/ \E k \in Token :
             ProgressBegins(r, k) \/ CompleteBegins(r, k) \/ FailBegins(r, k)
        \/ ProgressExtends(r) \/ ProgressReads(r) \/ ProgressSaves(r)
        \/ CompletePublishes(r) \/ CompleteSaves(r) \/ CompleteDrops(r)
        \/ ClaimReleased(r) \/ FailSaves(r)
  BY DEF TokenStep
<1>1. ASSUME NEW k \in Token, NEW to, Validated(r, k, to)
      PROVE  Lease!Next \/ UNCHANGED Lease!vars
  <2>1. /\ UNCHANGED <<remote, tokens, dispatcher>> /\ k \in 1..tokens
        /\ \A q \in Requests \ {r} : request'[q] = request[q]
        /\ request[r].pc # "release" /\ request'[r].token = k /\ request'[r].pc = to
    BY <1>1, <1>t DEF Validated, LeaseInv, Issued, Token, serverVars, claimVars
  <2>2. CASE to = "release"
    <3>1. Leaving' = Leaving \cup {k}
      BY <2>1, <2>2, LeavingMoves
    <3>2. Lease!Leave(k)
      BY <2>1, <3>1 DEF Lease!Leave
    <3> QED BY <2>1, <3>2 DEF Lease!Next
  <2>3. CASE to # "release"
    <3>1. Leaving' = Leaving
      BY <2>1, <2>3, LeavingMoves
    <3> QED BY <2>1, <3>1, LeaseStays
  <2> QED BY <2>2, <2>3
<1>2. CASE ProgressExtends(r)
  <2>1. /\ UNCHANGED <<tokens, dispatcher>>
        /\ \A q \in Requests \ {r} : request'[q] = request[q]
        /\ request[r].pc = "extend" /\ request'[r].pc = "progressRead"
    BY <1>2, <1>t DEF ProgressExtends, RequestGoes, Request, serverVars
  <2>2. Leaving' = Leaving
    BY <2>1, LeavingMoves
  <2>3. CASE remote' = remote
    BY <2>1, <2>2, <2>3, LeaseStays
  <2>4. CASE Own(r) /\ ~remote.live
    <3>1. /\ remote'.present = remote.present /\ remote'.token = remote.token
          /\ remote'.live = TRUE
      BY <1>2, <1>t, <2>4 DEF ProgressExtends, Remote
    <3>2. remote.token # 0
      BY <2>1, <2>4 DEF Own, LeaseInv, HasToken
    <3>3. Lease!Renew
      BY <2>1, <2>2, <2>4, <3>1, <3>2 DEF Lease!Renew
    <3> QED BY <3>3 DEF Lease!Next
  <2>5. Own(r) /\ remote.live => remote' = remote
    BY <1>2, <1>t DEF ProgressExtends, Remote
  <2> QED BY <1>2, <2>3, <2>4, <2>5 DEF ProgressExtends
<1>3. CASE ClaimReleased(r)
  <2> DEFINE k == request[r].token
  <2>1. /\ UNCHANGED <<tokens, dispatcher>>
        /\ \A q \in Requests \ {r} : request'[q] = request[q]
        /\ request[r].pc = "release" /\ request'[r].pc \in {"failSave", "idle"}
    BY <1>3, <1>t DEF ClaimReleased, RequestGoes, Returns, Idle, Request, serverVars
  <2>2. Leaving' \in {Leaving, Leaving \ {k}} /\ k \in Leaving
    BY <2>1, LeavingMoves DEF Leaving
  <2>3. k # 0
    BY <2>1 DEF LeaseInv, HasToken
  <2> HIDE DEF k
  <2>4. CASE remote.token = k
    <3>1. remote.present = TRUE
      BY <2>3, <2>4, <1>t DEF LeaseInv, TableInv, Remote
    <3>2. remote' = Unclaimed
      BY <1>3, <2>4, <3>1 DEF ClaimReleased, Released, Own, k
    <3>3. Lease!GiveBack(k)
      BY <2>1, <2>2, <2>4, <3>1, <3>2 DEF Lease!GiveBack, Lease!NoHolder, Unclaimed
    <3> QED BY <2>2, <3>3 DEF Lease!Next
  <2>5. CASE remote.token # k
    <3>1. UNCHANGED remote
      BY <1>3, <2>5 DEF ClaimReleased, Released, Own, k
    <3>2. CASE Leaving' = Leaving
      BY <2>1, <3>1, <3>2, LeaseStays
    <3>3. CASE Leaving' = Leaving \ {k}
      <4>1. Lease!TooLate(k)
        BY <2>1, <2>5, <3>1, <3>3 DEF Lease!TooLate
      <4> QED BY <2>2, <4>1 DEF Lease!Next
    <3> QED BY <2>2, <3>2, <3>3
  <2> QED BY <2>4, <2>5
<1>4. CASE \/ ProgressReads(r) \/ ProgressSaves(r) \/ CompletePublishes(r)
           \/ CompleteSaves(r) \/ CompleteDrops(r) \/ FailSaves(r)
  <2>1. /\ UNCHANGED <<tokens, dispatcher>>
        /\ \A q \in Requests \ {r} : request'[q] = request[q]
        /\ request[r].pc # "release" /\ request'[r].pc # "release"
        /\ remote' \in {remote, NoEntry}
    BY <1>4, <1>t
       DEF ProgressReads, RowRead, ProgressSaves, CompletePublishes, CompleteSaves,
           CompleteDrops, FailSaves, RequestGoes, Returns, Idle, Request, serverVars,
           claimVars
  <2>2. Leaving' = Leaving
    BY <2>1, LeavingMoves
  <2> QED BY <2>1, <2>2, LeaseStays, Withdraws
<1> QED
  BY <1>0, <1>1, <1>2, <1>3, <1>4 DEF ProgressBegins, CompleteBegins, FailBegins

\* For any number of requests and claims, in whatever order the dispatcher, the
\* requests, time and restarts take their steps.
THEOREM ImplementsLease == Spec => LeaseSpec
<1>1. Init => Issued
  BY DEF Init, Issued, NoEntry, Idle
<1>2. Spec => []LeaseInv
  BY <1>1, InitTypes, TypesKept, TableAlways, IssuedKept, PTL DEF Spec, LeaseInv
<1>3. Init => Lease!Init
  BY DEF Init, Lease!Init, NoEntry, Idle, Leaving, Analysing
<1>4. LeaseInv /\ [Next]_vars => [Lease!Next]_(Lease!vars)
  <2>1. UNCHANGED vars => UNCHANGED Lease!vars
    BY SameRequests, LeaseStays DEF vars, serverVars, claimVars
  <2> QED
    BY <2>1, NextCases, OutsideRefines, DispatcherRefines, ServerRefines, ClaimRefines,
       TokenRefines
<1> QED BY <1>2, <1>3, <1>4, PTL DEF Spec, LeaseSpec, Lease!Spec

===============================================================================
