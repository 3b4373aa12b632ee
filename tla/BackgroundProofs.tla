---------------------------- MODULE BackgroundProofs ----------------------------
(***************************************************************************)
(* What the two parts of a library that work in the background promise:    *)
(* FileWatcher of the timers of one library, for any number of roots,      *)
(* events and timers, and FirstFrame of covers and of the queue for them,  *)
(* for any set of videos, any finite set of requests and any MaxSync.      *)
(*                                                                         *)
(* FirstFrame's actors take turns in several small protocols, and each     *)
(* part of its invariant is one of them: who has a marked video (Owned),   *)
(* who extracts and what (Exclusive), what the scan knows of the rows      *)
(* (Knows), and what the timer owes (Due). Whose the slots are             *)
(* (SlotsCounted) comes on top, and with it FirstFrame implements SlotPool. *)
(***************************************************************************)
EXTENDS FileWatcher, FirstFrame, FiniteSetTheorems, TLAPS

----------------------------------------------------------------------------
(* The file watcher.                                                       *)

\* The numbers of changes are those of timers, and none of them is NoTimer.
LEMMA Numbers ==
  0 \in 0..MaxChanges /\ NoTimer \notin Timers /\ Timers \subseteq 0..MaxChanges
  BY FileWatcherAssumption DEF NoTimer, Timers

\* An event in the handler's hands has a timer of its own.
LEMMA HandlerHasTimer ==
  ASSUME WatcherTypeOK, handler # NoEvent
  PROVE  handler \in Event /\ handler.change \in Timers
  BY DEF WatcherTypeOK, Event, Timers

\* Stopping the listed timer leaves every other one as it is, and none of them
\* waits that is listed.
LEMMA StopsListed ==
  ASSUME WatcherTypeOK, NEW t \in Timers, Stopped(entry)[t] = "armed"
  PROVE  t # entry /\ timer[t] = "armed"
  BY Numbers DEF WatcherTypeOK, Stopped

LEMMA StoppedType ==
  WatcherTypeOK => Stopped(entry) \in
    [Timers -> {"unused", "armed", "stopped", "fired", "scanning", "over"}]
  BY Numbers DEF WatcherTypeOK, Stopped

\* Every step keeps the types.
LEMMA TypeStep == WatcherTypeOK /\ [WatcherNext]_watcherVars => WatcherTypeOK'
<1> SUFFICES ASSUME WatcherTypeOK, [WatcherNext]_watcherVars PROVE WatcherTypeOK'
  OBVIOUS
<1> USE Numbers DEF WatcherTypeOK, Turns, watch, history
<1>1. ASSUME NEW p \in Roots, Change(p) PROVE WatcherTypeOK'
  <2>1. disk + 1 \in 1..MaxChanges /\ disk + 1 \in 0..MaxChanges
    BY <1>1, FileWatcherAssumption DEF Change
  <2>2. [change |-> disk + 1, root |-> p] \in Event
    BY <2>1 DEF Event
  <2> QED BY <1>1, <2>1, <2>2 DEF Change
<1>2. ASSUME NEW p \in Roots, Unwatch(p) PROVE WatcherTypeOK'
  BY <1>2, StoppedType DEF Unwatch
<1>3. ASSUME NEW p \in Roots, RemoveWatch(p) PROVE WatcherTypeOK'
  BY <1>3 DEF RemoveWatch
<1>4. ASSUME NEW e \in events, TakeEvent(e) PROVE WatcherTypeOK'
  BY <1>4 DEF TakeEvent
<1>5. CASE DebounceScan
  <2>1. handler.change \in Timers
    BY <1>5, HandlerHasTimer DEF DebounceScan
  <2>2. timer' \in
          [Timers -> {"unused", "armed", "stopped", "fired", "scanning", "over"}]
    BY <1>5, <2>1, StoppedType DEF DebounceScan
  <2> QED BY <1>5, <2>1, <2>2 DEF DebounceScan
<1>6. ASSUME NEW t \in Timers, Trigger(t) PROVE WatcherTypeOK'
  BY <1>6 DEF Trigger, Fire, BeginScan, ScanFails, ScanEnds
<1>7. CASE BeginDelete \/ EndUnwatch \/ EndDelete
  BY <1>7 DEF BeginDelete, EndUnwatch, EndDelete
<1>8. CASE UNCHANGED watcherVars
  BY <1>8 DEF watcherVars
<1> QED
  BY <1>1, <1>2, <1>3, <1>4, <1>5, <1>6, <1>7, <1>8 DEF WatcherNext

\* A step that touches neither timers nor roots keeps both properties.
Waits == OneTimerWaits /\ QuietAfterUnwatch

LEMMA Untouched ==
  ASSUME Waits, UNCHANGED <<timer, entry, watching, orphans, late>>
  PROVE  Waits'
  BY DEF Waits, OneTimerWaits, QuietAfterUnwatch

\* Neither property is lost in a step. The second one needs the first: what
\* Unwatch stops is the listed timer, and the others are orphans.
LEMMA WaitsStep ==
  ASSUME WatcherTypeOK, Waits, [WatcherNext]_watcherVars
  PROVE  Waits'
<1> USE Numbers DEF Turns, watch, history
<1>1. ASSUME NEW p \in Roots, Change(p) PROVE Waits'
  BY <1>1, Untouched DEF Change
<1>2. ASSUME NEW p \in Roots, Unwatch(p) PROVE Waits'
  <2>1. ASSUME NEW t \in Timers, timer'[t] = "armed" PROVE t \in orphans'
    BY <1>2, <2>1, StopsListed DEF Unwatch, Waits, OneTimerWaits
  <2> QED BY <2>1 DEF Waits, OneTimerWaits, QuietAfterUnwatch
<1>3. ASSUME NEW p \in Roots, RemoveWatch(p) PROVE Waits'
  BY <1>3, Untouched DEF RemoveWatch
<1>4. ASSUME NEW e \in events, TakeEvent(e) PROVE Waits'
  BY <1>4, Untouched DEF TakeEvent
<1>5. CASE DebounceScan
  <2> DEFINE h == handler.change
  <2>1. h \in Timers
    BY <1>5, HandlerHasTimer DEF DebounceScan
  <2>2. ASSUME NEW t \in Timers, timer'[t] = "armed", t # h
        PROVE  t \in orphans'
    <3>1. Stopped(entry)[t] = "armed"
      BY <1>5, <2>1, <2>2, StoppedType DEF DebounceScan
    <3> QED
      BY <1>5, <2>2, <3>1, StopsListed DEF DebounceScan, Waits, OneTimerWaits
  <2>3. entry' = h /\ (watching' = {} => h \in late')
    BY <1>5 DEF DebounceScan
  <2> QED BY <2>2, <2>3 DEF Waits, OneTimerWaits, QuietAfterUnwatch
<1>6. ASSUME NEW t \in Timers, Trigger(t) PROVE Waits'
  <2>1. ASSUME NEW u \in Timers, timer'[u] = "armed"
        PROVE  timer[u] = "armed" /\ u # t
    BY <1>6, <2>1
       DEF Trigger, Fire, BeginScan, ScanFails, ScanEnds, WatcherTypeOK
  <2>2. /\ watching' = watching /\ late' = late /\ orphans \subseteq orphans'
        /\ \A u \in Timers : u = entry /\ u # t => u = entry' \/ u \in orphans'
    BY <1>6 DEF Trigger, Fire, BeginScan, ScanFails, ScanEnds
  <2> QED BY <2>1, <2>2 DEF Waits, OneTimerWaits, QuietAfterUnwatch
<1>7. CASE BeginDelete \/ EndUnwatch \/ EndDelete
  BY <1>7, Untouched DEF BeginDelete, EndUnwatch, EndDelete
<1>8. CASE UNCHANGED watcherVars
  BY <1>8, Untouched DEF watcherVars
<1> QED
  BY <1>1, <1>2, <1>3, <1>4, <1>5, <1>6, <1>7, <1>8 DEF WatcherNext

\* Types, and who may wait: the inductive invariant.
THEOREM Invariant == WatcherSpec => [](WatcherTypeOK /\ Waits)
<1>1. WatcherInit => WatcherTypeOK /\ Waits
  BY Numbers DEF WatcherInit, WatcherTypeOK, Waits, OneTimerWaits, QuietAfterUnwatch
<1>2. WatcherTypeOK /\ Waits /\ [WatcherNext]_watcherVars => (WatcherTypeOK /\ Waits)'
  BY TypeStep, WaitsStep
<1> QED BY <1>1, <1>2, PTL DEF WatcherSpec

\* Events are merged into one timer that waits, however events, scans and the
\* deletion of the library come between each other.
THEOREM OneTimerWaitsHolds == WatcherSpec => []OneTimerWaits
<1>1. WatcherTypeOK /\ Waits => OneTimerWaits
  BY DEF Waits
<1> QED BY <1>1, Invariant, PTL

\* After UnwatchLibrary only timers it could not find are left to start a scan.
THEOREM QuietAfterUnwatchHolds == WatcherSpec => []QuietAfterUnwatch
<1>1. WatcherTypeOK /\ Waits => QuietAfterUnwatch
  BY DEF Waits
<1> QED BY <1>1, Invariant, PTL

----------------------------------------------------------------------------
(* First-frame covers: where actors may be, and the types.                 *)

\* The places of each kind of actor.
RequestPlaces ==
  {"idle", "asked", "reusing", "refused", "marking", "sending"} \cup Extracting
WorkerPlaces == {"idle", "made", "told"} \cup Extracting
ScanPlaces == {"idle", "saving", "restoring", "removing"} \cup Extracting
Places(a) ==
  IF a = Worker THEN WorkerPlaces ELSE IF a = Scan THEN ScanPlaces ELSE RequestPlaces

AllPlaces == RequestPlaces \cup WorkerPlaces \cup ScanPlaces
ActorState == [at: AllPlaces, media: Media \cup {None}, shown: BOOLEAN]

\* An actor that is not idle has a video.
ActorTypes ==
  /\ actor \in [Actors -> ActorState]
  /\ \A a \in Actors :
       /\ actor[a].at \in Places(a)
       /\ actor[a].at = "idle" <=> actor[a].media = None

Passes == {"idle", "heal", "stale", "collect", "sweep"}

DataTypes ==
  /\ queue \in Seq(Media) /\ queued \in SUBSET Media /\ lost \in SUBSET Media
  /\ frames \in SUBSET Media /\ made \in SUBSET Media /\ redone \in SUBSET Media
  /\ row \in [Media -> {"none", "frame", "image"}] /\ unknown \in SUBSET Media
  /\ pending \in BOOLEAN /\ callback \in SUBSET {"armed", "calling"}
  /\ silent \in SUBSET Media
  /\ scan \in [pass: Passes, todo: SUBSET Media, shown: SUBSET Media]

CoverTypes == ActorTypes /\ DataTypes

----------------------------------------------------------------------------

\* Requests, the worker and the scan are different actors, and None is none of them.
LEMMA ActorsDiffer ==
  /\ Worker # Scan /\ Worker \notin Requests /\ Scan \notin Requests
  /\ Worker \in Actors /\ Scan \in Actors /\ Requests \subseteq Actors
  /\ None \notin Actors /\ None \notin Media
  BY FirstFrameAssumption DEF Actors

LEMMA ExtractingEverywhere ==
  ASSUME NEW a, NEW place \in Extracting
  PROVE  place \in Places(a) /\ place # "idle"
  BY DEF Places, Extracting, RequestPlaces, WorkerPlaces, ScanPlaces

LEMMA PlacesKnown == \A a : Places(a) \subseteq AllPlaces
  BY DEF Places, AllPlaces

\* A step of one actor that leaves it in a place of its own.
LEMMA Moves ==
  ASSUME ActorTypes, NEW a \in Actors, NEW s \in ActorState,
         s.at \in Places(a), s.at = "idle" <=> s.media = None,
         actor' = [actor EXCEPT ![a] = s]
  PROVE  /\ ActorTypes' /\ actor'[a] = s
         /\ \A b \in Actors : b # a => actor'[b] = actor[b]
<1>1. /\ actor' \in [Actors -> ActorState] /\ actor'[a] = s
      /\ \A b \in Actors : b # a => actor'[b] = actor[b]
  BY DEF ActorTypes
<1> QED
  BY <1>1 DEF ActorTypes

\* Goes, Stops and Begins keep the actors' types and leave other actors alone.
LEMMA GoesMoves ==
  ASSUME ActorTypes, NEW a \in Actors, ~At(a, {"idle"}),
         NEW place \in Places(a), place # "idle", Goes(a, place)
  PROVE  /\ ActorTypes'
         /\ actor'[a].at = place /\ actor'[a].media = actor[a].media
         /\ actor'[a].shown = actor[a].shown
         /\ \A b \in Actors : b # a => actor'[b] = actor[b]
<1> DEFINE s == [actor[a] EXCEPT !.at = place]
<1>1. actor[a] \in ActorState
  BY DEF ActorTypes
<1>2. /\ s \in ActorState /\ s.at = place
      /\ s.media = actor[a].media /\ s.shown = actor[a].shown
  BY <1>1, PlacesKnown DEF ActorState
<1>3. actor' = [actor EXCEPT ![a] = s]
  BY DEF Goes
<1>4. s.media # None
  BY <1>2 DEF ActorTypes, At
<1> HIDE DEF s
<1> QED
  BY <1>2, <1>3, <1>4, Moves

LEMMA StopsMoves ==
  ASSUME ActorTypes, NEW a \in Actors, Stops(a)
  PROVE  /\ ActorTypes'
         /\ actor'[a] = Idle /\ actor'[a].at = "idle" /\ actor'[a].media = None
         /\ \A b \in Actors : b # a => actor'[b] = actor[b]
<1>1. Idle \in ActorState
  BY DEF Idle, ActorState, AllPlaces, RequestPlaces
<1>3. Idle.at = "idle" /\ Idle.media = None
  BY DEF Idle
<1>2. "idle" \in Places(a)
  BY DEF Places, RequestPlaces, WorkerPlaces, ScanPlaces
<1> QED
  BY <1>1, <1>2, <1>3, Moves DEF Stops

LEMMA BeginsMoves ==
  ASSUME ActorTypes, NEW a \in Actors, NEW m \in Media,
         NEW place \in Places(a), place # "idle", Begins(a, place, m)
  PROVE  /\ ActorTypes'
         /\ actor'[a].at = place /\ actor'[a].media = m
         /\ actor'[a].shown = (m \in Shown)
         /\ \A b \in Actors : b # a => actor'[b] = actor[b]
<1> DEFINE s == [at |-> place, media |-> m, shown |-> m \in Shown]
<1>1. /\ s \in ActorState /\ s.at = place /\ s.media = m
      /\ s.shown = (m \in Shown)
  BY PlacesKnown DEF ActorState
<1>2. actor' = [actor EXCEPT ![a] = s] /\ m # None
  BY ActorsDiffer DEF Begins
<1> HIDE DEF s
<1> QED
  BY <1>1, <1>2, Moves

LEMMA HasMedia ==
  ASSUME ActorTypes, NEW a \in Actors, ~At(a, {"idle"})
  PROVE  actor[a].media \in Media
  BY DEF ActorTypes, ActorState, At

\* How a step moves its actor: to another place, with the media it has.
To(a, place) ==
  /\ ActorTypes'
  /\ actor'[a].at = place
  /\ place # "idle" => /\ actor'[a].media = actor[a].media
                       /\ actor'[a].shown = actor[a].shown
  /\ place = "idle" => actor'[a].media = None
  /\ \A b \in Actors : b # a => actor'[b] = actor[b]

\* The beginning of an actor's work.
From(a, place, m) ==
  /\ ActorTypes'
  /\ actor'[a].at = place /\ actor'[a].media = m /\ actor'[a].shown = (m \in Shown)
  /\ \A b \in Actors : b # a => actor'[b] = actor[b]

LEMMA GoesTo ==
  ASSUME ActorTypes, NEW a \in Actors, ~At(a, {"idle"}),
         NEW place \in Places(a), place # "idle", Goes(a, place)
  PROVE  To(a, place)
  BY GoesMoves DEF To

LEMMA StopsTo ==
  ASSUME ActorTypes, NEW a \in Actors, Stops(a)
  PROVE  To(a, "idle")
  BY StopsMoves DEF To

LEMMA BeginsFrom ==
  ASSUME ActorTypes, NEW a \in Actors, NEW m \in Media,
         NEW place \in Places(a), place # "idle", Begins(a, place, m)
  PROVE  From(a, place, m)
  BY BeginsMoves DEF From

\* The three steps of an extraction.
LEMMA ExtractionMoves ==
  ASSUME ActorTypes, NEW a \in Actors, Extraction(a)
  PROVE  /\ actor[a].at \in {"ensuring", "waiting", "extracting"}
         /\ \E place \in {"waiting", "extracting", "writing", "failed"} : To(a, place)
<1> USE ExtractingEverywhere, GoesTo DEF At, Extracting
<1>1. CASE Ensure(a)
  <2>1. \/ Goes(a, "failed") \/ Goes(a, "writing") \/ Goes(a, "waiting")
    BY <1>1 DEF Ensure
  <2> QED BY <1>1, <2>1 DEF Ensure
<1>2. CASE Lock(a)
  <2>1. Goes(a, "writing") \/ Goes(a, "extracting")
    BY <1>2 DEF Lock
  <2> QED BY <1>2, <2>1 DEF Lock
<1>3. CASE Extract(a)
  <2>1. Goes(a, "writing") \/ Goes(a, "failed")
    BY <1>3 DEF Extract
  <2> QED BY <1>3, <2>1 DEF Extract
<1> QED BY <1>1, <1>2, <1>3 DEF Extraction

\* Where each step of a request comes from, and where it leads; and then those of
\* the worker and of the scan.
LEMMA RequestMoves ==
  ASSUME ActorTypes, NEW r \in Requests
  PROVE  /\ \A m \in Media : Ask(r, m) => actor[r].at = "idle" /\ From(r, "asked", m)
         /\ Look(r) =>
              \/ /\ actor[r].at = "asked" /\ sync' = sync
                 /\ To(r, "idle") \/ To(r, "reusing")
              \/ /\ actor[r].at = "asked" /\ sync' = sync + 1
                 /\ To(r, IF sync' <= MaxSync THEN "ensuring" ELSE "refused")
         /\ Reuse(r) => actor[r].at = "reusing" /\ To(r, "idle")
         /\ GiveBack(r) => actor[r].at = "refused" /\ To(r, "marking")
         /\ Mark(r) => /\ actor[r].at = "marking"
                       /\ To(r, "idle") \/ To(r, "sending")
         /\ Send(r) => actor[r].at = "sending" /\ To(r, "idle")
         /\ EndRequest(r) => actor[r].at \in {"writing", "failed"} /\ To(r, "idle")
<1>1. /\ r \in Actors /\ r # Worker /\ r # Scan
      /\ \A p \in {"asked", "reusing", "refused", "marking", "sending", "ensuring"} :
           p \in Places(r) /\ p # "idle"
  BY ActorsDiffer DEF Places, RequestPlaces, Extracting
<1> USE <1>1, GoesTo, StopsTo, BeginsFrom DEF At
<1>2. ASSUME NEW m \in Media, Ask(r, m)
      PROVE  actor[r].at = "idle" /\ From(r, "asked", m)
  BY <1>2 DEF Ask
<1>3. ASSUME Look(r)
      PROVE  \/ /\ actor[r].at = "asked" /\ sync' = sync
                /\ To(r, "idle") \/ To(r, "reusing")
             \/ /\ actor[r].at = "asked" /\ sync' = sync + 1
                /\ To(r, IF sync' <= MaxSync THEN "ensuring" ELSE "refused")
  BY <1>3 DEF Look
<1>4. ASSUME Reuse(r) PROVE actor[r].at = "reusing" /\ To(r, "idle")
  BY <1>4 DEF Reuse
<1>5. ASSUME GiveBack(r) PROVE actor[r].at = "refused" /\ To(r, "marking")
  BY <1>5 DEF GiveBack
<1>6. ASSUME Mark(r)
      PROVE  actor[r].at = "marking" /\ (To(r, "idle") \/ To(r, "sending"))
  BY <1>6 DEF Mark
<1>7. ASSUME Send(r) PROVE actor[r].at = "sending" /\ To(r, "idle")
  BY <1>7 DEF Send
<1>8. ASSUME EndRequest(r) PROVE actor[r].at \in {"writing", "failed"} /\ To(r, "idle")
  BY <1>8 DEF EndRequest
<1> QED BY <1>2, <1>3, <1>4, <1>5, <1>6, <1>7, <1>8

LEMMA WorkerMoves ==
  ASSUME ActorTypes, queue \in Seq(Media)
  PROVE  /\ Receive => /\ actor[Worker].at = "idle"
                       /\ queue # <<>>
                       /\ Head(queue) \in Media /\ Tail(queue) \in Seq(Media)
                       /\ \E p \in {"ensuring", "failed"} : From(Worker, p, Head(queue))
         /\ WorkerWrites => actor[Worker].at = "writing" /\ To(Worker, "made")
         /\ Notify => actor[Worker].at = "made" /\ To(Worker, "told")
         /\ Unmark => actor[Worker].at \in {"told", "failed"} /\ To(Worker, "idle")
<1>1. /\ Worker \in Actors
      /\ \A p \in {"made", "told", "ensuring", "failed"} :
           p \in Places(Worker) /\ p # "idle"
  BY ActorsDiffer DEF Places, WorkerPlaces, Extracting
<1> USE <1>1, GoesTo, StopsTo DEF At
<1>2. ASSUME Receive
      PROVE  /\ actor[Worker].at = "idle"
             /\ queue # <<>> /\ Head(queue) \in Media /\ Tail(queue) \in Seq(Media)
             /\ \E p \in {"ensuring", "failed"} : From(Worker, p, Head(queue))
  <2>1. queue # <<>> /\ Head(queue) \in Media /\ Tail(queue) \in Seq(Media)
    BY <1>2 DEF Receive
  <2> QED BY <1>2, <2>1, BeginsFrom DEF Receive
<1>3. ASSUME WorkerWrites PROVE actor[Worker].at = "writing" /\ To(Worker, "made")
  BY <1>3 DEF WorkerWrites
<1>4. ASSUME Notify PROVE actor[Worker].at = "made" /\ To(Worker, "told")
  BY <1>4 DEF Notify
<1>5. ASSUME Unmark PROVE actor[Worker].at \in {"told", "failed"} /\ To(Worker, "idle")
  BY <1>5 DEF Unmark
<1> QED BY <1>2, <1>3, <1>4, <1>5

LEMMA ScanMoves ==
  ASSUME ActorTypes
  PROVE  /\ \A m \in Media : Heal(m) =>
              /\ actor[Scan].at = "idle"
              /\ \E p \in {"saving", "removing", "ensuring"} : From(Scan, p, m)
         /\ \A m \in Media : Refresh(m) =>
              /\ actor[Scan].at = "idle"
              /\ \/ actor' = actor
                 \/ \E p \in {"saving", "ensuring"} : From(Scan, p, m)
         /\ FoundFrame =>
              \/ /\ actor[Scan].at = "writing" /\ scan.pass = "stale"
                 /\ To(Scan, "restoring")
              \/ actor[Scan].at \in {"writing", "failed"} /\ To(Scan, "idle")
         /\ ScanSaves => /\ actor[Scan].at \in {"saving", "restoring"}
                         /\ IF scan.pass = "heal" THEN To(Scan, "removing")
                                                  ELSE To(Scan, "idle")
         /\ Remove => actor[Scan].at = "removing" /\ To(Scan, "idle")
<1>1. /\ Scan \in Actors
      /\ \A p \in {"saving", "restoring", "removing", "ensuring"} :
           p \in Places(Scan) /\ p # "idle"
  BY ActorsDiffer DEF Places, ScanPlaces, Extracting
<1> USE <1>1, GoesTo, StopsTo, BeginsFrom DEF At
<1>2. ASSUME NEW m \in Media, Heal(m)
      PROVE  /\ actor[Scan].at = "idle"
             /\ \E p \in {"saving", "removing", "ensuring"} : From(Scan, p, m)
  BY <1>2 DEF Heal, Takes
<1>3. ASSUME NEW m \in Media, Refresh(m)
      PROVE  /\ actor[Scan].at = "idle"
             /\ \/ actor' = actor
                \/ \E p \in {"saving", "ensuring"} : From(Scan, p, m)
  BY <1>3 DEF Refresh, Takes
<1>4. ASSUME FoundFrame
      PROVE  \/ /\ actor[Scan].at = "writing" /\ scan.pass = "stale"
                /\ To(Scan, "restoring")
             \/ actor[Scan].at \in {"writing", "failed"} /\ To(Scan, "idle")
  BY <1>4 DEF FoundFrame
<1>5. ASSUME ScanSaves
      PROVE  /\ actor[Scan].at \in {"saving", "restoring"}
             /\ IF scan.pass = "heal" THEN To(Scan, "removing") ELSE To(Scan, "idle")
  BY <1>5 DEF ScanSaves
<1>6. ASSUME Remove PROVE actor[Scan].at = "removing" /\ To(Scan, "idle")
  BY <1>6 DEF Remove
<1> QED BY <1>2, <1>3, <1>4, <1>5, <1>6

----------------------------------------------------------------------------
(* Every step keeps the types.                                             *)

LEMMA PassesNamed == "sweep" \in Passes
  BY DEF Passes

LEMMA SavesType ==
  ASSUME CoverTypes, NEW a \in Actors, ~At(a, {"idle"}), Saves(a)
  PROVE  row' \in [Media -> {"none", "frame", "image"}] /\ unknown' \in SUBSET Media
  BY HasMedia DEF CoverTypes, DataTypes, Saves, rows

LEMMA ExtractionType ==
  ASSUME CoverTypes, NEW a \in Actors, Extraction(a)
  PROVE  CoverTypes'
<1>1. ActorTypes'
  BY ExtractionMoves DEF CoverTypes, To
<1>2. actor[a].media \in Media
  BY ExtractionMoves, HasMedia DEF CoverTypes, At
<1>3. DataTypes'
  BY <1>2 DEF CoverTypes, DataTypes, Extraction, Ensure, Lock, Extract, requests,
              notify, cache, rows
<1> QED BY <1>1, <1>3 DEF CoverTypes

LEMMA CoverTypesStep == CoverTypes /\ [Next]_vars => CoverTypes'
<1> SUFFICES ASSUME CoverTypes, [Next]_vars PROVE CoverTypes'
  OBVIOUS
<1> USE ActorsDiffer DEF CoverTypes, requests, notify, cache, rows
<1>1. ASSUME NEW r \in Requests, NEW m \in Media, Ask(r, m) PROVE CoverTypes'
  BY <1>1, RequestMoves DEF Ask, DataTypes, From
<1>2. ASSUME NEW r \in Requests, RequestStep(r) PROVE CoverTypes'
  <2>1. CASE Look(r)
    BY <2>1, RequestMoves DEF Look, DataTypes, To
  <2>2. CASE Reuse(r)
    BY <2>2, RequestMoves, SavesType DEF Reuse, DataTypes, To, At
  <2>3. CASE GiveBack(r)
    BY <2>3, RequestMoves DEF GiveBack, DataTypes, To
  <2>4. CASE Mark(r)
    BY <2>4, RequestMoves, HasMedia DEF Mark, DataTypes, To, At
  <2>5. CASE Send(r)
    <3>1. actor[r].media \in Media /\ ActorTypes'
      BY <2>5, RequestMoves, HasMedia DEF To, At
    <3>0. queue \in Seq(Media) /\ lost \in SUBSET Media
      BY DEF DataTypes
    <3>3. Append(queue, actor[r].media) \in Seq(Media)
      BY <3>0, <3>1
    <3>2. queue' \in Seq(Media) /\ lost' \in SUBSET Media
      BY <2>5, <3>0, <3>1, <3>3 DEF Send
    <3> QED BY <2>5, <3>1, <3>2 DEF Send, DataTypes
  <2>6. CASE EndRequest(r)
    BY <2>6, RequestMoves, SavesType DEF EndRequest, DataTypes, To, At
  <2> QED BY <1>2, <2>1, <2>2, <2>3, <2>4, <2>5, <2>6, ExtractionType DEF RequestStep
<1>3. CASE WorkerStep
  <2>0. queue \in Seq(Media)
    BY DEF DataTypes
  <2>1. CASE Receive
    BY <2>0, <2>1, WorkerMoves DEF Receive, DataTypes, From
  <2>2. CASE WorkerWrites
    BY <2>0, <2>2, WorkerMoves, SavesType, HasMedia DEF WorkerWrites, DataTypes, To, At
  <2>3. CASE Notify
    BY <2>0, <2>3, WorkerMoves DEF Notify, DataTypes, To
  <2>4. CASE Unmark
    BY <2>0, <2>4, WorkerMoves DEF Unmark, DataTypes, To
  <2> QED BY <1>3, <2>1, <2>2, <2>3, <2>4, ExtractionType DEF WorkerStep
<1>4. CASE Callback
  BY <1>4 DEF Callback, DataTypes, ActorTypes
<1>5. CASE BeginPass
  BY <1>5 DEF BeginPass, DataTypes, ActorTypes, Passes, Shown
<1>6. CASE ScanStep
  <2>1. ASSUME NEW m \in Media, Heal(m) PROVE CoverTypes'
    BY <2>1, ScanMoves DEF Heal, Takes, DataTypes, From
  <2>2. ASSUME NEW m \in Media, Refresh(m) PROVE CoverTypes'
    <3>1. ActorTypes'
      BY <2>2, ScanMoves DEF From, ActorTypes
    <3> QED BY <2>2, <3>1 DEF Refresh, Takes, DataTypes
  <2>3. ASSUME NEW m \in Media, Sweep(m) PROVE CoverTypes'
    BY <2>3 DEF Sweep, Takes, DataTypes, ActorTypes
  <2>4. CASE FoundFrame
    BY <2>4, ScanMoves DEF FoundFrame, DataTypes, To
  <2>5. CASE ScanSaves
    BY <2>5, ScanMoves, HasMedia DEF ScanSaves, DataTypes, To, At
  <2>6. CASE Remove
    BY <2>6, ScanMoves DEF Remove, DataTypes, To
  <2>7. CASE ReadReferences
    <3>1. \/ scan' = [scan EXCEPT !.pass = "sweep", !.todo = @ \ Shown]
          \/ scan' = [scan EXCEPT !.pass = "sweep"]
      BY <2>7 DEF ReadReferences
    <3>2. scan' \in [pass: Passes, todo: SUBSET Media, shown: SUBSET Media]
      <4>1. scan \in [pass: Passes, todo: SUBSET Media, shown: SUBSET Media]
        BY DEF DataTypes
      <4> QED BY <3>1, <4>1, PassesNamed
    <3>3. /\ UNCHANGED <<actor, queue, queued, lost, frames, made, redone, row,
                         pending, callback, silent>>
          /\ unknown' = {} \/ unknown' = Media
      BY <2>7 DEF ReadReferences
    <3> QED BY <3>2, <3>3 DEF DataTypes, ActorTypes
  <2>8. CASE EndScan
    BY <2>8 DEF EndScan, NoScan, DataTypes, ActorTypes, Passes
  <2> QED BY <1>6, <2>1, <2>2, <2>3, <2>4, <2>5, <2>6, <2>7, <2>8, ExtractionType
          DEF ScanStep
<1>7. CASE UNCHANGED vars
  BY <1>7 DEF vars, DataTypes, ActorTypes
<1> QED BY <1>1, <1>2, <1>3, <1>4, <1>5, <1>6, <1>7 DEF Next

----------------------------------------------------------------------------
(* Who has a video that is marked.                                         *)

Sending(m) == {r \in Requests : At(r, {"sending"}) /\ actor[r].media = m}
Positions(m) == {i \in DOMAIN queue : queue[i] = m}

\* Who has a video: nobody unless it is marked, and one otherwise.
Owned(m) ==
  IF m \in queued
    THEN \/ /\ \E r \in Requests : Sending(m) = {r}
            /\ Positions(m) = {} /\ actor[Worker].media # m /\ m \notin lost
         \/ /\ \E i \in DOMAIN queue : Positions(m) = {i}
            /\ Sending(m) = {} /\ actor[Worker].media # m /\ m \notin lost
         \/ /\ actor[Worker].media = m
            /\ Sending(m) = {} /\ Positions(m) = {} /\ m \notin lost
         \/ /\ m \in lost
            /\ Sending(m) = {} /\ Positions(m) = {} /\ actor[Worker].media # m
    ELSE /\ Sending(m) = {} /\ Positions(m) = {}
         /\ actor[Worker].media # m /\ m \notin lost

\* Appending x to the queue, and taking its head.
LEMMA AppendPositions ==
  ASSUME queue \in Seq(Media), NEW x \in Media, queue' = Append(queue, x), NEW m
  PROVE  /\ m # x => Positions(m)' = Positions(m)
         /\ m = x /\ Positions(m) = {} =>
              \E i \in DOMAIN queue' : Positions(m)' = {i}
<1>1. /\ Len(queue') = Len(queue) + 1 /\ Len(queue) \in Nat
      /\ DOMAIN queue' = 1..(Len(queue) + 1) /\ DOMAIN queue = 1..Len(queue)
      /\ \A i \in DOMAIN queue : queue'[i] = queue[i]
      /\ queue'[Len(queue) + 1] = x
  OBVIOUS
<1>2. Positions(m)' = {i \in DOMAIN queue' : queue'[i] = m}
  BY DEF Positions
<1>3. CASE m # x
  BY <1>1, <1>2, <1>3 DEF Positions
<1>4. CASE m = x /\ Positions(m) = {}
  <2>1. Positions(m)' = {Len(queue) + 1}
    BY <1>1, <1>2, <1>4 DEF Positions
  <2> QED BY <1>1, <1>4, <2>1
<1> QED BY <1>3, <1>4

LEMMA TailPositions ==
  ASSUME queue \in Seq(Media), queue # <<>>, queue' = Tail(queue), NEW m
  PROVE  /\ Positions(m) = {} => Positions(m)' = {} /\ m # Head(queue)
         /\ \A i \in DOMAIN queue : Positions(m) = {i} =>
              IF m = Head(queue) THEN Positions(m)' = {}
              ELSE \E j \in DOMAIN queue' : Positions(m)' = {j}
<1>1. /\ Len(queue) \in Nat \ {0} /\ DOMAIN queue = 1..Len(queue)
      /\ DOMAIN queue' = 1..(Len(queue) - 1) /\ Head(queue) = queue[1]
      /\ \A i \in DOMAIN queue' : queue'[i] = queue[i + 1] /\ i + 1 \in DOMAIN queue
  OBVIOUS
<1>2. Positions(m)' = {i \in DOMAIN queue' : queue'[i] = m}
  BY DEF Positions
<1>3. ASSUME Positions(m) = {} PROVE Positions(m)' = {} /\ m # Head(queue)
  BY <1>1, <1>2, <1>3 DEF Positions
<1>4. ASSUME NEW i \in DOMAIN queue, Positions(m) = {i}
      PROVE  IF m = Head(queue) THEN Positions(m)' = {}
             ELSE \E j \in DOMAIN queue' : Positions(m)' = {j}
  <2>1. /\ queue[i] = m
        /\ \A j \in DOMAIN queue : queue[j] = m => j = i
    BY <1>4 DEF Positions
  <2>2. CASE m = Head(queue)
    <3>1. i = 1
      BY <1>1, <2>1, <2>2
    <3> QED BY <1>1, <1>2, <2>1, <2>2, <3>1
  <2>3. CASE m # Head(queue)
    <3>1. i - 1 \in DOMAIN queue' /\ queue'[i - 1] = m
      BY <1>1, <2>1, <2>3
    <3>2. Positions(m)' = {i - 1}
      BY <1>1, <1>2, <2>1, <3>1
    <3> QED BY <2>3, <3>1, <3>2
  <2> QED BY <2>2, <2>3
<1> QED BY <1>3, <1>4

\* A step of one request changes its own sending.
LEMMA SendingAfter ==
  ASSUME NEW r \in Requests, NEW m, \A b \in Actors : b # r => actor'[b] = actor[b]
  PROVE  /\ Sending(m)' = IF actor'[r].at = "sending" /\ actor'[r].media = m
                            THEN Sending(m) \cup {r} ELSE Sending(m) \ {r}
         /\ r \in Sending(m) <=> actor[r].at = "sending" /\ actor[r].media = m
         /\ actor'[Worker] = actor[Worker]
<1>1. /\ \A b \in Requests : b # r => actor'[b] = actor[b]
      /\ actor'[Worker] = actor[Worker]
  BY ActorsDiffer
<1>2. Sending(m)' =
        {b \in Requests : actor'[b].at \in {"sending"} /\ actor'[b].media = m}
  BY DEF Sending, At
<1> QED BY <1>1, <1>2 DEF Sending, At

\* A step that no request makes.
LEMMA SendingStays ==
  ASSUME NEW m, \A r \in Requests : actor'[r] = actor[r]
  PROVE  Sending(m)' = Sending(m)
  BY DEF Sending, At

\* A step that concerns nobody who has the video.
LEMMA OwnedStays ==
  ASSUME NEW m, Owned(m), Sending(m)' = Sending(m), UNCHANGED <<queue, queued, lost>>,
         actor'[Worker].media = actor[Worker].media
  PROVE  Owned(m)'
<1>1. Positions(m)' = Positions(m)
  BY DEF Positions
<1> QED BY <1>1 DEF Owned

\* Requests: only the mark and the queue concern who has a video.
LEMMA RequestOwned ==
  ASSUME CoverTypes, NEW m \in Media, Owned(m), NEW r \in Requests,
         RequestStep(r) \/ \E n \in Media : Ask(r, n)
  PROVE  Owned(m)'
<1> USE DEF CoverTypes
<1>0. r \in Actors
  BY ActorsDiffer
<1>1. CASE /\ \A b \in Actors : b # r => actor'[b] = actor[b]
           /\ actor[r].at # "sending" /\ actor'[r].at # "sending"
           /\ UNCHANGED <<queue, queued, lost>>
  <2>1. /\ Sending(m)' = Sending(m) \ {r} /\ r \notin Sending(m)
        /\ actor'[Worker] = actor[Worker]
    BY <1>1, SendingAfter
  <2>2. Sending(m)' = Sending(m)
    BY <2>1
  <2> QED BY <1>1, <2>1, <2>2, OwnedStays
<1>2. CASE \E n \in Media : Ask(r, n)
  BY <1>1, <1>2, RequestMoves DEF Ask, From, requests
<1>3. CASE Look(r)
  <2>1. /\ actor[r].at = "asked"
        /\ \E p \in {"idle", "reusing", "ensuring", "refused"} : To(r, p)
    BY <1>3, RequestMoves
  <2>2. UNCHANGED <<queue, queued, lost>>
    BY <1>3 DEF Look
  <2> QED BY <1>1, <2>1, <2>2 DEF To
<1>4. CASE Reuse(r)
  BY <1>1, <1>4, RequestMoves DEF Reuse, To, requests
<1>5. CASE GiveBack(r)
  BY <1>1, <1>5, RequestMoves DEF GiveBack, To
<1>6. CASE EndRequest(r)
  BY <1>1, <1>6, RequestMoves DEF EndRequest, To
<1>7. CASE Extraction(r)
  <2>1. \E p \in {"waiting", "extracting", "writing", "failed"} : To(r, p)
    BY <1>0, <1>7, ExtractionMoves
  <2>2. actor[r].at # "sending" /\ UNCHANGED <<queue, queued, lost>>
    BY <1>0, <1>7, ExtractionMoves
       DEF Extraction, Ensure, Lock, Extract, requests
  <2> QED BY <1>1, <2>1, <2>2 DEF To
<1>8. CASE Mark(r)
  <2>1. /\ actor[r].at = "marking" /\ UNCHANGED <<queue, lost>>
        /\ \A b \in Actors : b # r => actor'[b] = actor[b]
    BY <1>8, RequestMoves DEF Mark, To
  <2>2. CASE Stops(r) /\ UNCHANGED queued
    <3>1. actor'[r].at = "idle"
      BY <1>0, <2>2, StopsMoves
    <3> QED BY <1>1, <2>1, <2>2, <3>1
  <2>3. CASE /\ actor[r].media \notin queued /\ Goes(r, "sending")
             /\ queued' = queued \cup {actor[r].media}
    <3>1. actor'[r].at = "sending" /\ actor'[r].media = actor[r].media
      BY <1>8, <2>1, <2>3, RequestMoves, GoesMoves, ActorsDiffer
         DEF At, Places, RequestPlaces
    <3>2. /\ Sending(m)' = IF actor[r].media = m THEN Sending(m) \cup {r}
                                                 ELSE Sending(m) \ {r}
          /\ r \notin Sending(m) /\ actor'[Worker] = actor[Worker]
      BY <2>1, <3>1, SendingAfter
    <3>3. Positions(m)' = Positions(m)
      BY <2>1 DEF Positions
    <3>4. CASE actor[r].media = m
      BY <2>1, <2>3, <3>2, <3>3, <3>4 DEF Owned
    <3>5. CASE actor[r].media # m
      BY <2>1, <2>3, <3>2, <3>3, <3>5 DEF Owned
    <3> QED BY <3>4, <3>5
  <2> QED BY <1>8, <2>2, <2>3 DEF Mark
<1>9. CASE Send(r)
  <2> DEFINE x == actor[r].media
  <2>1. /\ actor[r].at = "sending" /\ actor'[r].at = "idle" /\ UNCHANGED queued
        /\ \A b \in Actors : b # r => actor'[b] = actor[b]
        /\ x \in Media
    BY <1>9, RequestMoves, HasMedia, ActorsDiffer DEF Send, To, At
  <2>2. /\ Sending(m)' = Sending(m) \ {r} /\ (r \in Sending(m) <=> x = m)
        /\ actor'[Worker] = actor[Worker]
    BY <2>1, SendingAfter
  <2>3. CASE queue' = Append(queue, x) /\ UNCHANGED lost
    <3>1. /\ m # x => Positions(m)' = Positions(m)
          /\ m = x /\ Positions(m) = {} => \E i \in DOMAIN queue' : Positions(m)' = {i}
      BY <2>1, <2>3, AppendPositions DEF DataTypes
    <3>2. CASE m # x
      <4>1. Sending(m)' = Sending(m) /\ Positions(m)' = Positions(m)
        BY <2>2, <3>1, <3>2
      <4>2. Positions(m) # {} => \A i : Positions(m) = {i} => i \in DOMAIN queue'
        BY <4>1 DEF Positions
      <4> QED BY <2>1, <2>2, <2>3, <4>1, <4>2 DEF Owned
    <3>3. CASE m = x
      <4>1. /\ m \in queued /\ Positions(m) = {} /\ Sending(m) = {r}
            /\ actor[Worker].media # m /\ m \notin lost
        BY <2>2, <3>3 DEF Owned
      <4> QED BY <2>1, <2>2, <2>3, <3>1, <3>3, <4>1 DEF Owned
    <3> QED BY <3>2, <3>3
  <2>4. CASE lost' = lost \cup {x} /\ UNCHANGED queue
    <3>1. Positions(m)' = Positions(m)
      BY <2>4 DEF Positions
    <3> QED BY <2>1, <2>2, <2>4, <3>1 DEF Owned
  <2> QED BY <1>9, <2>3, <2>4 DEF Send
<1> QED BY <1>2, <1>3, <1>4, <1>5, <1>6, <1>7, <1>8, <1>9 DEF RequestStep

\* The worker takes a video over from the queue, and gives it up with its mark.
LEMMA WorkerOwned ==
  ASSUME CoverTypes, NEW m \in Media, Owned(m), WorkerStep
  PROVE  Owned(m)'
<1> USE DEF CoverTypes
<1>0. /\ queue \in Seq(Media) /\ Worker \in Actors
      /\ \A r \in Requests : r \in Actors /\ r # Worker
      /\ None \notin Media
  BY ActorsDiffer DEF DataTypes
<1>1. CASE /\ \A b \in Actors : b # Worker => actor'[b] = actor[b]
           /\ actor'[Worker].media = actor[Worker].media
           /\ UNCHANGED <<queue, queued, lost>>
  <2>1. Sending(m)' = Sending(m)
    BY <1>0, <1>1, SendingStays
  <2> QED BY <1>1, <2>1, OwnedStays
<1>2. CASE WorkerWrites
  BY <1>0, <1>1, <1>2, WorkerMoves DEF WorkerWrites, To, requests
<1>3. CASE Notify
  BY <1>0, <1>1, <1>3, WorkerMoves DEF Notify, To, requests
<1>4. CASE Extraction(Worker)
  <2>1. \E p \in {"waiting", "extracting", "writing", "failed"} : To(Worker, p)
    BY <1>0, <1>4, ExtractionMoves
  <2>2. UNCHANGED <<queue, queued, lost>>
    BY <1>4 DEF Extraction, Ensure, Lock, Extract, requests
  <2> QED BY <1>1, <2>1, <2>2 DEF To
<1>5. CASE Receive
  <2>1. /\ actor[Worker].media = None /\ queue # <<>> /\ Head(queue) \in Media
        /\ actor'[Worker].media = Head(queue)
        /\ \A b \in Actors : b # Worker => actor'[b] = actor[b]
    BY <1>0, <1>5, WorkerMoves DEF From, ActorTypes
  <2>2. queue' = Tail(queue) /\ UNCHANGED <<queued, lost>>
    BY <1>5 DEF Receive
  <2>3. Sending(m)' = Sending(m)
    BY <1>0, <2>1, SendingStays
  <2>4. /\ Positions(m) = {} => Positions(m)' = {} /\ m # Head(queue)
        /\ \A i \in DOMAIN queue : Positions(m) = {i} =>
             IF m = Head(queue) THEN Positions(m)' = {}
             ELSE \E j \in DOMAIN queue' : Positions(m)' = {j}
    BY <1>0, <2>1, <2>2, TailPositions
  <2> QED BY <1>0, <2>1, <2>2, <2>3, <2>4 DEF Owned
<1>6. CASE Unmark
  <2>1. /\ actor[Worker].media \in Media /\ actor'[Worker].media = None
        /\ \A b \in Actors : b # Worker => actor'[b] = actor[b]
    BY <1>0, <1>6, WorkerMoves, HasMedia DEF To, At
  <2>2. queued' = queued \ {actor[Worker].media} /\ UNCHANGED <<queue, lost>>
    BY <1>6 DEF Unmark
  <2>3. Sending(m)' = Sending(m) /\ Positions(m)' = Positions(m)
    BY <1>0, <2>1, <2>2, SendingStays DEF Positions
  <2> QED BY <1>0, <2>1, <2>2, <2>3 DEF Owned
<1> QED BY <1>2, <1>3, <1>4, <1>5, <1>6 DEF WorkerStep

\* A scan and the timer leave requests, the queue and the worker as they are.
LEMMA ScanAlone ==
  ASSUME CoverTypes, BeginPass \/ ScanStep \/ Callback
  PROVE  /\ UNCHANGED <<queue, queued, lost, sync>>
         /\ \A a \in Actors : a # Scan => actor'[a] = actor[a]
<1>1. CASE BeginPass \/ Callback
  BY <1>1 DEF BeginPass, Callback, requests
<1>2. CASE ScanStep
  <2>1. UNCHANGED requests
    BY <1>2 DEF ScanStep, Heal, Refresh, Sweep, Extraction, Ensure, Lock, Extract,
                FoundFrame, ScanSaves, Remove, ReadReferences, EndScan
  <2>2. \A a \in Actors : a # Scan => actor'[a] = actor[a]
    <3>1. CASE Extraction(Scan)
      BY <3>1, ActorsDiffer, ExtractionMoves DEF To, CoverTypes
    <3>2. CASE \E m \in Media : Heal(m) \/ Refresh(m)
      BY <3>2, ScanMoves DEF From, CoverTypes
    <3>3. CASE FoundFrame \/ ScanSaves \/ Remove
      BY <3>3, ScanMoves DEF To, CoverTypes
    <3>4. CASE ReadReferences \/ EndScan \/ \E m \in Media : Sweep(m)
      BY <3>4 DEF ReadReferences, EndScan, Sweep
    <3> QED BY <1>2, <3>1, <3>2, <3>3, <3>4 DEF ScanStep
  <2> QED BY <2>1, <2>2 DEF requests
<1> QED BY <1>1, <1>2

\* No step changes by more or less than one owner.
LEMMA OwnedStep ==
  ASSUME CoverTypes, \A m \in Media : Owned(m), [Next]_vars
  PROVE  \A m \in Media : Owned(m)'
<1> SUFFICES ASSUME NEW m \in Media PROVE Owned(m)'
  OBVIOUS
<1>1. CASE BeginPass \/ ScanStep \/ Callback
  <2>1. Sending(m)' = Sending(m) /\ actor'[Worker] = actor[Worker]
    BY <1>1, ScanAlone, SendingStays, ActorsDiffer
  <2> QED BY <1>1, <2>1, ScanAlone, OwnedStays
<1>2. CASE UNCHANGED vars
  BY <1>2, SendingStays, OwnedStays DEF vars, requests
<1> QED BY <1>1, <1>2, RequestOwned, WorkerOwned DEF Next

\* One owner is what MarkIsOwned counts.
LEMMA OwnedOnce ==
  ASSUME \A m \in Media : Owned(m)
  PROVE  MarkIsOwned
<1> SUFFICES ASSUME NEW m \in Media
    PROVE  LET sending == {r \in Requests : At(r, {"sending"}) /\ actor[r].media = m}
               places == {i \in DOMAIN queue : queue[i] = m}
               holders == {a \in {Worker} : actor[a].media = m}
               drops == lost \cap {m}
           IN  Cardinality(sending) + Cardinality(places) + Cardinality(holders)
                 + Cardinality(drops) = IF m \in queued THEN 1 ELSE 0
  BY DEF MarkIsOwned
<1> DEFINE holders == {a \in {Worker} : actor[a].media = m}
           drops == lost \cap {m}
           s == Cardinality(Sending(m))
           p == Cardinality(Positions(m))
           h == Cardinality(holders)
           d == Cardinality(drops)
<1>1. /\ Cardinality({}) = 0 /\ \A x : Cardinality({x}) = 1
  BY FS_EmptySet, FS_Singleton
<1>2. h = IF actor[Worker].media = m THEN 1 ELSE 0
  <2>1. holders = IF actor[Worker].media = m THEN {Worker} ELSE {}
    OBVIOUS
  <2> QED BY <1>1, <2>1
<1>3. d = IF m \in lost THEN 1 ELSE 0
  <2>1. drops = IF m \in lost THEN {m} ELSE {}
    OBVIOUS
  <2> QED BY <1>1, <2>1
<1>4. s + p + h + d = IF m \in queued THEN 1 ELSE 0
  <2> HIDE DEF h, d
  <2>1. (Sending(m) = {} => s = 0) /\ (Positions(m) = {} => p = 0)
    BY <1>1
  <2>2. /\ (\E r \in Requests : Sending(m) = {r}) => s = 1
        /\ (\E i \in DOMAIN queue : Positions(m) = {i}) => p = 1
    BY <1>1
  <2> HIDE DEF s, p
  <2> QED BY <1>2, <1>3, <2>1, <2>2 DEF Owned
<1> QED BY <1>4 DEF Sending, Positions

----------------------------------------------------------------------------
(* The broadcast that is due, the lock, and what the scan knows.           *)

\* A pending broadcast has its timer.
Due == (pending => "armed" \in callback) /\ CoversAreDue

\* The lock belongs to the one actor that extracts, and what it makes again although
\* the collection has listed it was found unusable.
Exclusive ==
  \A a \in Actors :
    /\ actor[a].at = "extracting" <=> mutex = a
    /\ actor[a].at = "extracting" =>
         actor[a].media \notin frames \cap Listed \/ actor[a].media \in redone

\* While the first pass removes frames, it knows every row that shows one, as it was
\* read or as one that has changed since; the collection knows it of the frames it
\* has left to remove, which were there before it read the rows, while those made
\* later were not, unless they were unusable.
Knows ==
  /\ scan.pass \in {"idle", "collect", "sweep"} => actor[Scan].at = "idle"
  /\ scan.pass = "heal" => Shown \subseteq scan.shown \cup unknown
  /\ scan.pass = "stale" => actor[Scan].at # "removing"
  /\ actor[Scan].at = "restoring" => scan.pass = "stale"
  /\ actor[Scan].at = "removing" => {actor[Scan].media} \cap Shown \subseteq unknown
  /\ scan.pass \in {"collect", "sweep"} => scan.todo \subseteq frames \cup redone
  /\ scan.pass = "sweep" => scan.todo \cap Shown \subseteq unknown
  /\ scan.pass # "sweep" => made = {}
  /\ made \cap scan.todo \subseteq redone

\* The worker asks for a broadcast before it goes on, and the timer covers what was
\* made before it broadcasts.
LEMMA DueStep ==
  ASSUME CoverTypes, Due, [Next]_vars
  PROVE  Due'
<1> USE DEF CoverTypes
<1>0. /\ queue \in Seq(Media) /\ callback \subseteq {"armed", "calling"}
      /\ Worker \in Actors /\ Worker # Scan
      /\ \A r \in Requests : r \in Actors /\ r # Worker
  BY ActorsDiffer DEF DataTypes
<1>1. CASE /\ UNCHANGED notify
           /\ actor[Worker].at = "made" => actor'[Worker].at = "made"
  BY <1>1 DEF notify, Due, CoversAreDue, At
<1>2. ASSUME NEW r \in Requests, RequestStep(r) \/ \E m \in Media : Ask(r, m)
      PROVE  Due'
  <2>1. UNCHANGED notify
    BY <1>2 DEF RequestStep, Ask, Look, Reuse, GiveBack, Mark, Send, EndRequest,
                Extraction, Ensure, Lock, Extract
  <2>2. \A b \in Actors : b # r => actor'[b] = actor[b]
    <3>1. CASE Extraction(r)
      BY <1>0, <3>1, ExtractionMoves DEF To
    <3>2. CASE Look(r)
      BY <3>2, RequestMoves DEF To
    <3>3. CASE RequestStep(r) /\ ~Extraction(r) /\ ~Look(r)
      BY <3>3, RequestMoves DEF To, RequestStep
    <3>4. CASE \E m \in Media : Ask(r, m)
      BY <3>4, RequestMoves DEF From
    <3> QED BY <1>2, <3>1, <3>2, <3>3, <3>4
  <2> QED BY <1>0, <1>1, <2>1, <2>2
<1>3. CASE WorkerStep
  <2>1. CASE Extraction(Worker)
    <3>1. actor[Worker].at # "made" /\ UNCHANGED notify
      BY <1>0, <2>1, ExtractionMoves DEF Extraction, Ensure, Lock, Extract
    <3> QED BY <1>1, <3>1
  <2>2. CASE Receive \/ Unmark
    <3>1. actor[Worker].at # "made" /\ UNCHANGED notify
      BY <1>0, <2>2, WorkerMoves DEF Receive, Unmark
    <3> QED BY <1>1, <3>1
  <2>3. CASE WorkerWrites
    BY <1>0, <2>3, WorkerMoves DEF WorkerWrites, To, Due, CoversAreDue, At
  <2>4. CASE Notify
    BY <1>0, <2>4 DEF Notify, Due, CoversAreDue
  <2> QED BY <1>3, <2>1, <2>2, <2>3, <2>4 DEF WorkerStep
<1>4. CASE Callback
  BY <1>0, <1>4 DEF Callback, Due, CoversAreDue
<1>5. CASE BeginPass \/ ScanStep
  <2>1. UNCHANGED notify
    BY <1>5 DEF BeginPass, ScanStep, Heal, Refresh, Sweep, Extraction, Ensure, Lock,
                Extract, FoundFrame, ScanSaves, Remove, ReadReferences, EndScan
  <2> QED BY <1>0, <1>1, <1>5, <2>1, ScanAlone
<1>6. CASE UNCHANGED vars
  BY <1>1, <1>6 DEF vars
<1> QED BY <1>2, <1>3, <1>4, <1>5, <1>6 DEF Next

\* Only the beginning of the collection lists frames.
LEMMA ListedShrinks ==
  ASSUME CoverTypes, [Next]_vars, ~BeginPass
  PROVE  Listed' \subseteq Listed
<1>1. scan \in [pass: Passes, todo: SUBSET Media, shown: SUBSET Media]
  BY DEF CoverTypes, DataTypes
<1>2. CASE UNCHANGED scan
  BY <1>2 DEF Listed
<1>3. CASE ScanStep
  <2>1. CASE \E m \in Media : Heal(m) \/ Refresh(m) \/ Sweep(m)
    BY <1>1, <2>1 DEF Heal, Refresh, Sweep, Takes, Listed
  <2>2. CASE ReadReferences
    <3>1. scan.pass = "collect" /\ scan'.todo \subseteq scan.todo
      BY <1>1, <2>2 DEF ReadReferences
    <3> QED BY <3>1 DEF Listed
  <2>4. CASE EndScan
    BY <2>4 DEF EndScan, NoScan, Listed
  <2>3. CASE Extraction(Scan) \/ FoundFrame \/ ScanSaves \/ Remove
    BY <1>2, <2>3 DEF Extraction, Ensure, Lock, Extract, FoundFrame, ScanSaves, Remove
  <2> QED BY <1>3, <2>1, <2>2, <2>3, <2>4 DEF ScanStep
<1>4. CASE ~ScanStep
  BY <1>2, <1>4 DEF Next, vars, Ask, RequestStep, Look, Reuse, GiveBack, Mark, Send,
       EndRequest, Extraction, Ensure, Lock, Extract, WorkerStep, Receive,
       WorkerWrites, Notify, Unmark, Callback
<1> QED BY <1>3, <1>4

\* Whoever does not extract leaves the lock, and no step but an extraction makes a
\* frame.
LEMMA ExclusiveStays ==
  ASSUME CoverTypes, Exclusive, UNCHANGED mutex, frames' \subseteq frames,
         Listed' \subseteq Listed, Listed' \cap redone \subseteq redone',
         \A a \in Actors : \/ actor'[a] = actor[a]
                           \/ actor[a].at # "extracting" /\ actor'[a].at # "extracting"
  PROVE  Exclusive'
  BY DEF Exclusive

\* The lock is taken free, and given back by who has it.
LEMMA ExclusiveExtraction ==
  ASSUME CoverTypes, Exclusive, NEW a \in Actors, Extraction(a)
  PROVE  Exclusive'
<1> USE ExtractingEverywhere DEF CoverTypes, Extracting
<1>0. Listed' = Listed
  BY DEF Extraction, Ensure, Lock, Extract, Listed
<1>1. CASE Ensure(a)
  <2>1. \/ Goes(a, "failed") \/ Goes(a, "writing") \/ Goes(a, "waiting")
    BY <1>1 DEF Ensure
  <2>2. /\ actor[a].at # "extracting" /\ actor'[a].at # "extracting"
        /\ \A b \in Actors : b # a => actor'[b] = actor[b]
    BY <1>1, <2>1, GoesMoves DEF Ensure, At
  <2> QED BY <1>0, <1>1, <2>2, ExclusiveStays DEF Ensure, cache
<1>2. CASE Lock(a)
  <2>1. /\ actor[a].at = "waiting" /\ mutex = None
        /\ frames' \subseteq frames /\ redone \subseteq redone'
        /\ \/ UNCHANGED mutex /\ Goes(a, "writing")
           \/ /\ actor[a].media \notin frames \cap Listed \/ actor[a].media \in redone'
              /\ mutex' = a /\ Goes(a, "extracting")
    BY <1>2 DEF Lock, At
  <2>2. CASE UNCHANGED mutex /\ Goes(a, "writing")
    <3>1. actor'[a].at = "writing" /\ \A b \in Actors : b # a => actor'[b] = actor[b]
      BY <2>1, <2>2, GoesMoves DEF At
    <3> QED BY <1>0, <2>1, <2>2, <3>1, ExclusiveStays
  <2>3. CASE /\ actor[a].media \notin frames \cap Listed \/ actor[a].media \in redone'
             /\ mutex' = a /\ Goes(a, "extracting")
    <3>1. /\ actor'[a].at = "extracting" /\ actor'[a].media = actor[a].media
          /\ \A b \in Actors : b # a => actor'[b] = actor[b]
      BY <2>1, <2>3, GoesMoves DEF At
    <3>2. \A b \in Actors : actor[b].at # "extracting"
      BY <2>1, ActorsDiffer DEF Exclusive
    <3> QED BY <1>0, <2>1, <2>3, <3>1, <3>2 DEF Exclusive
  <2> QED BY <2>1, <2>2, <2>3
<1>3. CASE Extract(a)
  <2>1. actor[a].at = "extracting" /\ mutex' = None
    BY <1>3 DEF Extract, At
  <2>2. Goes(a, "writing") \/ Goes(a, "failed")
    BY <1>3 DEF Extract
  <2>3. /\ actor'[a].at # "extracting"
        /\ \A b \in Actors : b # a => actor'[b] = actor[b]
    BY <2>1, <2>2, GoesMoves DEF At
  <2>4. \A b \in Actors : b # a => actor[b].at # "extracting"
    BY <2>1 DEF Exclusive
  <2> QED BY <2>1, <2>3, <2>4, ActorsDiffer DEF Exclusive
<1> QED BY <1>1, <1>2, <1>3 DEF Extraction

LEMMA ExclusiveStep ==
  ASSUME CoverTypes, Exclusive, [Next]_vars
  PROVE  Exclusive'
<1> USE DEF CoverTypes
<1>0. /\ queue \in Seq(Media) /\ Worker \in Actors /\ Scan \in Actors
      /\ \A r \in Requests : r \in Actors
  BY ActorsDiffer DEF DataTypes
<1>6. CASE BeginPass
  <2>1. /\ UNCHANGED <<actor, mutex, frames>>
        /\ redone' = InWork \cap frames \cap Listed'
    BY <1>6 DEF BeginPass
  <2> QED BY <2>1 DEF Exclusive, InWork, At
<1>7. SUFFICES ASSUME ~BeginPass PROVE Exclusive'
  BY <1>6
<1>8. Listed' \subseteq Listed
  BY <1>7, ListedShrinks
<1> USE <1>8
<1>1. ASSUME NEW r \in Requests, NEW m \in Media, Ask(r, m) PROVE Exclusive'
  BY <1>1, RequestMoves, ExclusiveStays DEF Ask, From, cache
<1>2. ASSUME NEW r \in Requests, RequestStep(r) PROVE Exclusive'
  <2>1. CASE Look(r)
    <3>1. /\ actor[r].at = "asked"
          /\ \E p \in {"idle", "reusing", "ensuring", "refused"} : To(r, p)
      BY <2>1, RequestMoves
    <3>2. UNCHANGED cache
      BY <2>1 DEF Look
    <3> QED BY <3>1, <3>2, ExclusiveStays DEF To, cache
  <2>2. CASE Reuse(r) \/ GiveBack(r) \/ Mark(r) \/ Send(r) \/ EndRequest(r)
    <3>1. /\ actor[r].at # "extracting"
          /\ \E p \in {"idle", "marking", "sending"} : To(r, p)
      BY <2>2, RequestMoves
    <3>2. UNCHANGED cache
      BY <2>2 DEF Reuse, GiveBack, Mark, Send, EndRequest
    <3> QED BY <3>1, <3>2, ExclusiveStays DEF To, cache
  <2> QED BY <1>0, <1>2, <2>1, <2>2, ExclusiveExtraction DEF RequestStep
<1>3. CASE WorkerStep
  <2>1. CASE Receive
    BY <1>0, <2>1, WorkerMoves, ExclusiveStays DEF Receive, From, cache
  <2>2. CASE WorkerWrites
    BY <1>0, <2>2, WorkerMoves, ExclusiveStays DEF WorkerWrites, To, cache
  <2>3. CASE Notify
    BY <1>0, <2>3, WorkerMoves, ExclusiveStays DEF Notify, To, cache
  <2>4. CASE Unmark
    BY <1>0, <2>4, WorkerMoves, ExclusiveStays DEF Unmark, To, cache
  <2> QED BY <1>0, <1>3, <2>1, <2>2, <2>3, <2>4, ExclusiveExtraction DEF WorkerStep
<1>4. CASE Callback \/ UNCHANGED vars
  BY <1>4, ExclusiveStays DEF Callback, vars, cache
<1>5. CASE ScanStep
  <2>1. ASSUME NEW m \in Media, Heal(m) PROVE Exclusive'
    BY <2>1, ScanMoves, ExclusiveStays DEF Heal, From, cache
  <2>2. ASSUME NEW m \in Media, Refresh(m) PROVE Exclusive'
    <3>1. UNCHANGED cache
      BY <2>2 DEF Refresh
    <3> QED BY <2>2, <3>1, ScanMoves, ExclusiveStays DEF From, cache
  <2>3. ASSUME NEW m \in Media, Sweep(m) PROVE Exclusive'
    BY <2>3, ExclusiveStays DEF Sweep
  <2>4. CASE FoundFrame
    BY <2>4, ScanMoves, ExclusiveStays DEF FoundFrame, To, cache
  <2>5. CASE ScanSaves
    BY <2>5, ScanMoves, ExclusiveStays DEF ScanSaves, To, cache
  <2>6. CASE Remove
    BY <2>6, ScanMoves, ExclusiveStays DEF Remove, To
  <2>7. CASE ReadReferences \/ EndScan
    BY <2>7, ExclusiveStays DEF ReadReferences, EndScan, NoScan, Listed, cache
  <2> QED BY <1>0, <1>5, <2>1, <2>2, <2>3, <2>4, <2>5, <2>6, <2>7, ExclusiveExtraction
          DEF ScanStep
<1> QED BY <1>1, <1>2, <1>3, <1>4, <1>5, <1>7 DEF Next

\* A row that gets a frame during a scan is one the scan does not know.
LEMMA SavesKnown ==
  ASSUME CoverTypes, NEW a \in Actors, ~At(a, {"idle"}), Saves(a), scan.pass # "idle"
  PROVE  Shown' \subseteq Shown \cup unknown' /\ unknown \subseteq unknown'
  BY HasMedia DEF CoverTypes, DataTypes, Saves, rows, Shown

\* A step of another actor that removes no frame but one it has found unusable.
LEMMA KnowsStays ==
  ASSUME Knows, UNCHANGED <<scan, made>>, actor'[Scan] = actor[Scan],
         frames \subseteq frames', redone \subseteq redone',
         scan.pass # "idle" =>
           Shown' \subseteq Shown \cup unknown' /\ unknown \subseteq unknown'
  PROVE  Knows'
  BY DEF Knows

LEMMA ShownStays == UNCHANGED row => Shown' = Shown
  BY DEF Shown

\* A frame that is made is not among those left to the collection, unless it was
\* found unusable.
LEMMA KnowsExtraction ==
  ASSUME CoverTypes, Exclusive, Knows, NEW a \in Actors, Extraction(a)
  PROVE  Knows'
<1> USE DEF CoverTypes
<1>0. Scan \in Actors
  BY ActorsDiffer
<1>1. /\ UNCHANGED <<scan, row, unknown>>
      /\ frames \cap Listed \subseteq frames' \cup redone' /\ redone \subseteq redone'
      /\ \/ UNCHANGED made
         \/ /\ scan.pass = "sweep" /\ made' = made \cup {actor[a].media}
            /\ actor[a].at = "extracting"
    BY DEF Extraction, Ensure, Lock, Extract, cache, rows, At
<1>2. Shown' = Shown
  BY <1>1, ShownStays
<1>3. \/ actor'[Scan] = actor[Scan]
      \/ /\ actor[Scan].at \notin {"idle", "removing"}
         /\ actor'[Scan].at \notin {"idle", "removing", "restoring"}
  BY <1>0, ExtractionMoves DEF To
<1>4. made' \cap scan.todo \subseteq redone'
  BY <1>1 DEF Exclusive, Knows, Listed
<1> QED BY <1>1, <1>2, <1>3, <1>4 DEF Knows, Listed

LEMMA RequestKnows ==
  ASSUME CoverTypes, Exclusive, Knows, NEW r \in Requests,
         RequestStep(r) \/ \E m \in Media : Ask(r, m)
  PROVE  Knows'
<1> USE DEF CoverTypes
<1>0. r \in Actors /\ Scan # r /\ Scan \in Actors
  BY ActorsDiffer
<1>1. CASE Extraction(r)
  BY <1>0, <1>1, KnowsExtraction
<1>2. CASE Look(r)
  <2>1. actor'[Scan] = actor[Scan]
    BY <1>0, <1>2, RequestMoves DEF To
  <2> QED BY <1>2, <2>1, KnowsStays, ShownStays DEF Look, cache, rows
<1>3. CASE \E m \in Media : Ask(r, m)
  <2>1. actor'[Scan] = actor[Scan]
    BY <1>0, <1>3, RequestMoves DEF From
  <2> QED BY <1>3, <2>1, KnowsStays, ShownStays DEF Ask, cache, rows
<1>4. CASE GiveBack(r) \/ Mark(r) \/ Send(r)
  <2>1. actor'[Scan] = actor[Scan]
    BY <1>0, <1>4, RequestMoves DEF To
  <2> QED BY <1>4, <2>1, KnowsStays, ShownStays DEF GiveBack, Mark, Send, cache, rows
<1>5. CASE Reuse(r) \/ EndRequest(r)
  <2>1. /\ actor'[Scan] = actor[Scan] /\ actor[r].at # "idle"
    BY <1>0, <1>5, RequestMoves DEF To
  <2>2. UNCHANGED <<cache, scan>> /\ (Saves(r) \/ UNCHANGED rows)
    BY <1>5 DEF Reuse, EndRequest
  <2> QED BY <1>0, <2>1, <2>2, KnowsStays, ShownStays, SavesKnown DEF cache, rows, At
<1> QED BY <1>1, <1>2, <1>3, <1>4, <1>5 DEF RequestStep

LEMMA WorkerKnows ==
  ASSUME CoverTypes, Exclusive, Knows, WorkerStep
  PROVE  Knows'
<1> USE DEF CoverTypes
<1>0. Worker \in Actors /\ Scan # Worker /\ Scan \in Actors /\ queue \in Seq(Media)
  BY ActorsDiffer DEF DataTypes
<1>1. CASE Extraction(Worker)
  BY <1>0, <1>1, KnowsExtraction
<1>2. CASE Receive
  <2>1. actor'[Scan] = actor[Scan]
    BY <1>0, <1>2, WorkerMoves DEF From
  <2> QED BY <1>2, <2>1, KnowsStays, ShownStays DEF Receive, cache, rows
<1>3. CASE WorkerWrites
  <2>1. /\ actor'[Scan] = actor[Scan] /\ actor[Worker].at # "idle"
    BY <1>0, <1>3, WorkerMoves DEF To
  <2>2. UNCHANGED <<cache, scan>> /\ Saves(Worker)
    BY <1>3 DEF WorkerWrites
  <2> QED BY <1>0, <2>1, <2>2, KnowsStays, SavesKnown DEF cache, At
<1>4. CASE Notify \/ Unmark
  <2>1. actor'[Scan] = actor[Scan]
    BY <1>0, <1>4, WorkerMoves DEF To
  <2> QED BY <1>4, <2>1, KnowsStays, ShownStays DEF Notify, Unmark, cache, rows
<1> QED BY <1>1, <1>2, <1>3, <1>4 DEF WorkerStep

\* Every pass begins with what it reads, and a frame is removed only after the row
\* it was read from has been changed, or could not be.
LEMMA ScanKnowsStep ==
  ASSUME CoverTypes, Exclusive, Knows, BeginPass \/ ScanStep
  PROVE  Knows'
<1> USE DEF CoverTypes
<1>0. /\ Scan \in Actors
      /\ scan \in [pass: Passes, todo: SUBSET Media, shown: SUBSET Media]
      /\ row \in [Media -> {"none", "frame", "image"}]
  BY ActorsDiffer DEF DataTypes
<1>1. CASE BeginPass
  <2>1. /\ actor[Scan].at = "idle" /\ UNCHANGED <<actor, row, unknown, frames, made>>
        /\ scan.pass \in {"idle", "heal", "stale"} /\ made = {}
        /\ \/ scan'.pass = "heal" /\ scan'.shown = Shown
           \/ scan'.pass = "stale"
           \/ scan'.pass = "collect" /\ scan'.todo = frames
    BY <1>1 DEF BeginPass, At, rows, Knows
  <2>2. Shown' = Shown
    BY <2>1, ShownStays
  <2> QED BY <2>1, <2>2 DEF Knows
<1>2. ASSUME NEW m \in Media, Heal(m) PROVE Knows'
  <2>1. /\ scan.pass = "heal" /\ scan'.pass = "heal" /\ scan'.shown = scan.shown
        /\ UNCHANGED <<row, unknown, frames, made, redone>>
    BY <1>0, <1>2 DEF Heal, Takes, cache, rows
  <2>2. \E p \in {"saving", "removing", "ensuring"} :
          /\ Begins(Scan, p, m) /\ (p = "removing" => m \notin scan.shown)
    BY <1>2 DEF Heal
  <2>3. /\ actor'[Scan].media = m
        /\ actor'[Scan].at = "removing" => m \notin scan.shown
        /\ actor'[Scan].at # "restoring"
    <3>1. PICK p \in {"saving", "removing", "ensuring"} :
            Begins(Scan, p, m) /\ (p = "removing" => m \notin scan.shown)
      BY <2>2
    <3>2. p \in Places(Scan) /\ p # "idle"
      BY <1>0, ActorsDiffer DEF Places, ScanPlaces, Extracting
    <3> QED BY <1>0, <3>1, <3>2, BeginsMoves
  <2>4. Shown' = Shown
    BY <2>1, ShownStays
  <2> QED BY <2>1, <2>3, <2>4 DEF Knows
<1>3. ASSUME NEW m \in Media, Refresh(m) PROVE Knows'
  <2>1. /\ scan.pass = "stale" /\ scan'.pass = "stale"
        /\ UNCHANGED <<row, unknown, frames, made, redone>>
    BY <1>0, <1>3 DEF Refresh, Takes, cache, rows
  <2>2. actor'[Scan].at \notin {"removing", "restoring"}
    BY <1>0, <1>3, <2>1, ScanMoves DEF From, Knows
  <2> QED BY <2>1, <2>2 DEF Knows
<1>4. ASSUME NEW m \in Media, Sweep(m) PROVE Knows'
  <2>1. /\ scan.pass = "sweep" /\ scan'.pass = "sweep" /\ scan'.todo = scan.todo \ {m}
        /\ frames \ {m} \subseteq frames'
        /\ UNCHANGED <<actor, row, unknown, made, redone>>
    BY <1>0, <1>4 DEF Sweep, Takes, rows
  <2>2. Shown' = Shown
    BY <2>1, ShownStays
  <2> QED BY <2>1, <2>2 DEF Knows
<1>5. CASE FoundFrame
  <2>1. /\ UNCHANGED <<scan, row, unknown, frames, made, redone>>
        /\ actor[Scan].at # "idle" /\ actor'[Scan].at # "removing"
        /\ actor'[Scan].at = "restoring" => scan.pass = "stale"
    BY <1>5, ScanMoves DEF FoundFrame, To, cache, rows
  <2>2. Shown' = Shown
    BY <2>1, ShownStays
  <2> QED BY <2>1, <2>2 DEF Knows
<1>6. CASE ScanSaves
  <2> DEFINE m == actor[Scan].media
  <2>1. /\ UNCHANGED <<scan, frames, made, redone>> /\ actor[Scan].at # "idle"
        /\ actor'[Scan].at # "restoring"
        /\ actor'[Scan].at = "removing" => scan.pass = "heal" /\ actor'[Scan].media = m
    BY <1>6, ScanMoves DEF ScanSaves, To, cache
  <2>2. \/ row' = [row EXCEPT ![m] = "image"] /\ UNCHANGED unknown
        \/ /\ actor[Scan].at = "restoring"
           /\ row' = [row EXCEPT ![m] = "frame"] /\ UNCHANGED unknown
        \/ unknown' = unknown \cup {m} /\ UNCHANGED row
    BY <1>6 DEF ScanSaves, At
  <2> QED BY <1>0, <2>1, <2>2 DEF Knows, Shown
<1>7. CASE Remove
  <2>1. /\ UNCHANGED <<scan, row, unknown, made, redone>>
        /\ actor[Scan].at = "removing" /\ actor'[Scan].at = "idle"
    BY <1>7, ScanMoves DEF Remove, To, rows
  <2>2. Shown' = Shown
    BY <2>1, ShownStays
  <2> QED BY <2>1, <2>2 DEF Knows
<1>8. CASE ReadReferences
  <2>1. /\ scan.pass = "collect" /\ scan'.pass = "sweep"
        /\ UNCHANGED <<actor, row, frames, made, redone>>
        /\ \/ scan'.todo = scan.todo \ Shown
           \/ scan'.todo = scan.todo /\ unknown' = Media
    BY <1>0, <1>8 DEF ReadReferences, cache
  <2>2. Shown' = Shown /\ Shown \subseteq Media
    BY <2>1, ShownStays DEF Shown
  <2> QED BY <2>1, <2>2 DEF Knows
<1>9. CASE EndScan
  <2>1. /\ scan.pass \in {"collect", "sweep"} /\ scan'.pass = "idle"
        /\ UNCHANGED actor /\ made' = {}
    BY <1>9 DEF EndScan, NoScan
  <2> QED BY <2>1 DEF Knows
<1> QED BY <1>0, <1>1, <1>2, <1>3, <1>4, <1>5, <1>6, <1>7, <1>8, <1>9, KnowsExtraction
        DEF ScanStep

LEMMA KnowsStep ==
  ASSUME CoverTypes, Exclusive, Knows, [Next]_vars
  PROVE  Knows'
<1>1. CASE Callback
  BY <1>1, KnowsStays, ShownStays DEF Callback, cache, rows
<1>2. CASE UNCHANGED vars
  BY <1>2, KnowsStays, ShownStays DEF vars, cache, rows
<1> QED BY <1>1, <1>2, RequestKnows, WorkerKnows, ScanKnowsStep DEF Next

----------------------------------------------------------------------------
(* The invariant, and what follows from it.                                *)

\* The inductive invariant: the types, and the parts above.
CoverInv ==
  /\ CoverTypes /\ Exclusive /\ Knows /\ Due
  /\ \A m \in Media : Owned(m)

LEMMA CoverInit == Init => CoverInv
<1> SUFFICES ASSUME Init PROVE CoverInv
  OBVIOUS
<1>1. /\ \A a \in Actors : actor[a] = Idle
      /\ Worker \in Actors /\ Scan \in Actors /\ Requests \subseteq Actors
      /\ None \notin Media /\ None \notin Actors
  BY ActorsDiffer DEF Init
<1>2. /\ Idle \in ActorState /\ Idle.at = "idle" /\ Idle.media = None
      /\ \A a : "idle" \in Places(a)
  BY DEF Idle, ActorState, AllPlaces, Places, RequestPlaces, WorkerPlaces, ScanPlaces
<1>3. ActorTypes
  BY <1>1, <1>2 DEF Init, ActorTypes
<1>4. /\ queue = <<>> /\ queue \in Seq(Media) /\ queued = {} /\ lost = {} /\ frames = {}
      /\ made = {} /\ redone = {} /\ unknown = {} /\ pending = FALSE /\ callback = {} /\ silent = {}
      /\ row \in [Media -> {"none", "frame", "image"}] /\ mutex = None
  BY DEF Init
<1>5. /\ scan \in [pass: Passes, todo: SUBSET Media, shown: SUBSET Media]
      /\ scan.pass = "idle"
  BY DEF Init, NoScan, Passes
<1>6. DataTypes
  BY <1>4, <1>5 DEF DataTypes
<1>7. ASSUME NEW m \in Media PROVE Owned(m)
  <2>1. Sending(m) = {} /\ Positions(m) = {}
    BY <1>1, <1>2, <1>4 DEF Sending, Positions, At
  <2> QED BY <1>1, <1>2, <1>4, <2>1 DEF Owned
<1>8. Exclusive /\ Knows
  BY <1>1, <1>2, <1>4, <1>5 DEF Exclusive, Knows
<1>9. Due
  BY <1>4 DEF Due, CoversAreDue
<1> QED BY <1>3, <1>6, <1>7, <1>8, <1>9 DEF CoverInv, CoverTypes

LEMMA CoverStep == CoverInv /\ [Next]_vars => CoverInv'
  BY CoverTypesStep, ExclusiveStep, KnowsStep, DueStep, OwnedStep DEF CoverInv

\* The lock of nfo.go excludes, the scan knows what it removes, every mark has its
\* owner and every cover its broadcast, in every reachable state.
THEOREM CoverInvariant == Spec => []CoverInv
  BY CoverInit, CoverStep, PTL DEF Spec

\* firstFrameQueued marks a video exactly as long as one has it, so it is never
\* queued twice, and only a full queue leaves a mark behind.
THEOREM MarkIsOwnedHolds == Spec => []MarkIsOwned
<1>1. CoverInv => MarkIsOwned
  BY OwnedOnce DEF CoverInv
<1> QED BY <1>1, CoverInvariant, PTL

\* However notifyFirstFramesReady merges covers, none is left without a broadcast.
THEOREM CoversAreDueHolds == Spec => []CoversAreDue
<1>1. CoverInv => CoversAreDue
  BY DEF CoverInv, Due
<1> QED BY <1>1, CoverInvariant, PTL

\* Only the first pass, the collection and who makes a frame again remove one.
LEMMA RemovalKnown ==
  ASSUME CoverInv, [Next]_vars,
         NEW m \in Media, m \in frames \ frames', row[m] = "frame"
  PROVE  Remakes(m) \/ (m \in unknown /\ (m \in made => m \in redone))
<1> DEFINE P == Remakes(m) \/ (m \in unknown /\ (m \in made => m \in redone))
<1>1. CASE Remove
  BY <1>1, ActorsDiffer DEF Remove, At, CoverInv, Knows, Shown
<1>2. ASSUME NEW n \in Media, Sweep(n) PROVE P
  BY <1>2 DEF Sweep, Takes, CoverInv, Knows, Shown
<1>3. CASE frames \subseteq frames'
  BY <1>3
<1>4. ASSUME NEW a \in Actors, Extraction(a) PROVE P
  <2>1. CASE Lock(a)
    <3>1. m = actor[a].media /\ mutex' = a /\ At(a, {"waiting"})
      BY <2>1 DEF Lock
    <3> QED BY <3>1 DEF Remakes
  <2>2. CASE Ensure(a) \/ Extract(a)
    BY <2>2 DEF Ensure, Extract, cache
  <2> QED BY <1>4, <2>1, <2>2 DEF Extraction
<1>5. ASSUME NEW r \in Requests, RequestStep(r) \/ \E n \in Media : Ask(r, n)
      PROVE  P
  BY <1>4, <1>5, ActorsDiffer
     DEF RequestStep, Ask, Look, Reuse, GiveBack, Mark, Send, EndRequest, cache
<1>6. CASE WorkerStep
  BY <1>3, <1>4, <1>6, ActorsDiffer
     DEF WorkerStep, Receive, WorkerWrites, Notify, Unmark, cache
<1>7. CASE Callback \/ BeginPass \/ UNCHANGED vars
  BY <1>3, <1>7 DEF Callback, BeginPass, vars, cache
<1>8. CASE ScanStep
  <2>1. \/ \E n \in Media : Sweep(n)
        \/ Remove
        \/ Extraction(Scan)
        \/ frames \subseteq frames'
    BY <1>8 DEF ScanStep, Heal, Refresh, FoundFrame, ScanSaves, ReadReferences,
                EndScan, cache
  <2> QED BY <1>1, <1>2, <1>3, <1>4, <2>1, ActorsDiffer
<1> QED BY <1>3, <1>5, <1>6, <1>7, <1>8 DEF Next

\* No scan removes a cover that its row shows, unless it could not know that, and
\* none that was made after it had read the rows, unless in the place of an unusable
\* one; and nobody else removes one but to make it again.
THEOREM CoversKeptHolds == Spec => CoversKept
<1>1. CoverInv /\ [Next]_vars =>
        [\A m \in Media : m \in frames \ frames' /\ row[m] = "frame" =>
           \/ Remakes(m)
           \/ m \in unknown /\ (m \in made => m \in redone)]_vars
  BY RemovalKnown
<1> QED BY <1>1, CoverInvariant, PTL DEF Spec, CoversKept

----------------------------------------------------------------------------
(* The slots of the requests.                                              *)

\* Requests that are counted in firstFrameSync, and those of them that may extract.
Holding == {r \in Requests : actor[r].at \in {"refused"} \cup Extracting}
Granted == {r \in Requests : actor[r].at \in Extracting}

\* The counter counts, and never more than MaxSync requests extract.
SlotsCounted == sync = Cardinality(Holding) /\ Cardinality(Granted) <= MaxSync

LEMMA SlotsFinite ==
  /\ IsFiniteSet(Holding) /\ IsFiniteSet(Granted)
  /\ Cardinality(Holding) \in Nat /\ Cardinality(Granted) \in Nat
  /\ Cardinality(Granted) <= Cardinality(Holding)
<1>1. Holding \subseteq Requests /\ Granted \subseteq Holding
  BY DEF Holding, Granted
<1> QED BY <1>1, FirstFrameAssumption, FS_Subset, FS_CardinalityType

\* A step of one request moves it in and out of these sets.
LEMMA SlotsMove ==
  ASSUME NEW r \in Requests, \A b \in Actors : b # r => actor'[b] = actor[b]
  PROVE  /\ Holding' = IF actor'[r].at \in {"refused"} \cup Extracting
                         THEN Holding \cup {r} ELSE Holding \ {r}
         /\ Granted' = IF actor'[r].at \in Extracting THEN Granted \cup {r}
                                                      ELSE Granted \ {r}
         /\ r \in Holding <=> actor[r].at \in {"refused"} \cup Extracting
         /\ r \in Granted <=> actor[r].at \in Extracting
<1>1. \A b \in Requests : b # r => actor'[b] = actor[b]
  BY ActorsDiffer
<1>2. /\ Holding' = {b \in Requests : actor'[b].at \in {"refused"} \cup Extracting}
      /\ Granted' = {b \in Requests : actor'[b].at \in Extracting}
  BY DEF Holding, Granted
<1>3. Holding' = IF actor'[r].at \in {"refused"} \cup Extracting
                   THEN Holding \cup {r} ELSE Holding \ {r}
  BY <1>1, <1>2 DEF Holding
<1>4. Granted' = IF actor'[r].at \in Extracting THEN Granted \cup {r} ELSE Granted \ {r}
  BY <1>1, <1>2 DEF Granted
<1> QED BY <1>3, <1>4 DEF Holding, Granted

\* A step that concerns no slot.
LEMMA SlotsStay ==
  ASSUME SlotsCounted, UNCHANGED sync, Holding' = Holding, Granted' = Granted
  PROVE  SlotsCounted'
<1>1. /\ Cardinality(Holding') = Cardinality(Holding)
      /\ Cardinality(Granted') = Cardinality(Granted)
  OBVIOUS
<1> QED BY <1>1 DEF SlotsCounted

\* A slot is taken and given back by one request, and granted while there is room.
LEMMA SlotsStep ==
  ASSUME CoverInv, SlotsCounted, [Next]_vars
  PROVE  SlotsCounted'
<1> USE DEF CoverInv, CoverTypes
<1>0. \A r \in Requests : r \in Actors /\ r # Worker
  BY ActorsDiffer
<1>1. CASE UNCHANGED sync /\ \A r \in Requests : actor'[r] = actor[r]
  <2>1. Holding' = Holding /\ Granted' = Granted
    BY <1>1 DEF Holding, Granted
  <2> QED BY <1>1, <2>1, SlotsStay
<1>2. ASSUME NEW r \in Requests, RequestStep(r) \/ \E m \in Media : Ask(r, m)
      PROVE  SlotsCounted'
  <2> DEFINE H == {"refused"} \cup Extracting
  <2>1. CASE /\ UNCHANGED sync /\ \A b \in Actors : b # r => actor'[b] = actor[b]
             /\ actor[r].at \in H <=> actor'[r].at \in H
             /\ actor[r].at \in Extracting <=> actor'[r].at \in Extracting
    <3>1. Holding' = Holding /\ Granted' = Granted
      BY <2>1, SlotsMove
    <3> QED BY <2>1, <3>1, SlotsStay
  <2>2. CASE Extraction(r)
    BY <1>0, <2>1, <2>2, ExtractionMoves
       DEF Extraction, Ensure, Lock, Extract, requests, To, Extracting
  <2>3. CASE \E m \in Media : Ask(r, m)
    BY <2>1, <2>3, RequestMoves DEF Ask, requests, From, Extracting
  <2>4. CASE Reuse(r) \/ Mark(r) \/ Send(r)
    <3>1. /\ actor[r].at \in {"reusing", "marking", "sending"}
          /\ To(r, "idle") \/ To(r, "sending")
      BY <2>4, RequestMoves
    <3>2. UNCHANGED sync
      BY <2>4 DEF Reuse, Mark, Send, requests
    <3> QED BY <2>1, <3>1, <3>2 DEF To, Extracting
  <2>5. CASE GiveBack(r) \/ EndRequest(r)
    <3>1. /\ actor[r].at \in {"refused", "writing", "failed"}
          /\ To(r, "idle") \/ To(r, "marking")
      BY <2>5, RequestMoves
    <3>2. sync' = sync - 1
      BY <2>5 DEF GiveBack, EndRequest
    <3>3. /\ Holding' = Holding \ {r} /\ r \in Holding
          /\ Granted' = Granted \ {r}
      BY <3>1, SlotsMove DEF To, Extracting
    <3>4. /\ Cardinality(Holding') = Cardinality(Holding) - 1
          /\ Cardinality(Granted') \in Nat
          /\ Cardinality(Granted') <= Cardinality(Granted)
      <4>1. /\ Cardinality(Holding \ {r}) = Cardinality(Holding) - 1
            /\ Cardinality(Granted \ {r}) =
                 IF r \in Granted THEN Cardinality(Granted) - 1
                                  ELSE Cardinality(Granted)
        BY <3>3, SlotsFinite, FS_RemoveElement
      <4>2. Cardinality(Granted \ {r}) \in Nat
        BY SlotsFinite, FS_RemoveElement, FS_CardinalityType
      <4> QED BY <3>3, <4>1, <4>2, SlotsFinite
    <3> QED BY <3>2, <3>4, SlotsFinite, FirstFrameAssumption DEF SlotsCounted
  <2>6. CASE Look(r)
    <3>1. CASE /\ actor[r].at = "asked" /\ (To(r, "idle") \/ To(r, "reusing"))
               /\ sync' = sync
      BY <2>1, <3>1 DEF To, Extracting
    <3>2. CASE /\ actor[r].at = "asked" /\ sync' = sync + 1
               /\ To(r, IF sync' <= MaxSync THEN "ensuring" ELSE "refused")
      <4>1. /\ Holding' = Holding \cup {r} /\ r \notin Holding /\ r \notin Granted
            /\ Granted' = IF sync' <= MaxSync THEN Granted \cup {r} ELSE Granted \ {r}
        BY <3>2, SlotsMove DEF To, Extracting
      <4>2. /\ Cardinality(Holding') = Cardinality(Holding) + 1
            /\ Cardinality(Granted') =
                 IF sync' <= MaxSync THEN Cardinality(Granted) + 1
                                     ELSE Cardinality(Granted)
        BY <4>1, SlotsFinite, FS_AddElement, FS_RemoveElement
      <4> QED BY <3>2, <4>2, SlotsFinite, FirstFrameAssumption DEF SlotsCounted
    <3> QED BY <2>6, <3>1, <3>2, RequestMoves
  <2> QED BY <1>2, <2>2, <2>3, <2>4, <2>5, <2>6 DEF RequestStep
<1>3. CASE WorkerStep
  <2>1. UNCHANGED sync
    BY <1>3 DEF WorkerStep, Receive, Extraction, Ensure, Lock, Extract, WorkerWrites,
                Notify, Unmark, requests
  <2>2. \A b \in Actors : b # Worker => actor'[b] = actor[b]
    <3>1. CASE Extraction(Worker)
      BY <3>1, ActorsDiffer, ExtractionMoves DEF To
    <3>2. CASE ~Extraction(Worker)
      BY <1>3, <3>2, WorkerMoves DEF WorkerStep, To, From, DataTypes
    <3> QED BY <3>1, <3>2
  <2> QED BY <1>0, <1>1, <2>1, <2>2
<1>4. CASE BeginPass \/ ScanStep \/ Callback
  BY <1>1, <1>4, ScanAlone, ActorsDiffer
<1>5. CASE UNCHANGED vars
  BY <1>1, <1>5 DEF vars, requests
<1> QED BY <1>2, <1>3, <1>4, <1>5 DEF Next

\* firstFrameSync counts the requests that have a slot or must give one back, and no
\* more than maxSyncFirstFrameGenerations of them extract, whatever fails.
THEOREM SlotsCountedHolds == Spec => []SlotsCounted
<1>1. Init => SlotsCounted
  <2> SUFFICES ASSUME Init PROVE SlotsCounted
    OBVIOUS
  <2>1. \A r \in Requests : actor[r].at = "idle"
    BY ActorsDiffer DEF Init, Idle
  <2>2. Holding = {} /\ Granted = {} /\ sync = 0
    BY <2>1 DEF Init, Holding, Granted, Extracting
  <2> QED BY <2>2, FS_EmptySet, FirstFrameAssumption DEF SlotsCounted
<1>2. CoverInv /\ SlotsCounted /\ [Next]_vars => SlotsCounted'
  BY SlotsStep
<1> QED BY <1>1, <1>2, CoverInvariant, PTL DEF Spec

\* The requests that are about to look for a slot.
Asking == {r \in Requests : actor[r].at = "asked"}

\* One request's step, seen from the pool.
LEMMA PoolMoves ==
  ASSUME CoverInv, NEW r \in Requests, \A b \in Actors : b # r => actor'[b] = actor[b]
  PROVE  /\ (/\ actor[r].at \notin {"asked"} \cup Extracting
             /\ actor'[r].at \notin {"asked"} \cup Extracting) => UNCHANGED Slots!vars
         /\ (/\ actor[r].at \in Extracting
             /\ actor'[r].at \in Extracting) => UNCHANGED Slots!vars
         /\ (/\ actor[r].at \notin {"asked"} \cup Extracting
             /\ actor'[r].at = "asked") => Slots!Ask(r)
         /\ (/\ actor[r].at = "asked"
             /\ actor'[r].at \notin {"asked"} \cup Extracting) => Slots!Abandon(r)
         /\ (/\ actor[r].at = "asked"
             /\ actor'[r].at \in Extracting
             /\ Cardinality(Granted) < MaxSync) => Slots!Grant(r)
         /\ (/\ actor[r].at \in Extracting
             /\ actor'[r].at \notin {"asked"} \cup Extracting) => Slots!Return(r)
<1>1. \A b \in Requests : b # r => actor'[b] = actor[b]
  BY ActorsDiffer
<1>2. /\ Asking' = IF actor'[r].at = "asked" THEN Asking \cup {r} ELSE Asking \ {r}
      /\ Granted' = IF actor'[r].at \in Extracting THEN Granted \cup {r} ELSE Granted \ {r}
      /\ r \in Asking <=> actor[r].at = "asked"
      /\ r \in Granted <=> actor[r].at \in Extracting
  <2>1. Asking' = IF actor'[r].at = "asked" THEN Asking \cup {r} ELSE Asking \ {r}
    <3>1. Asking' = {b \in Requests : actor'[b].at = "asked"}
      BY DEF Asking
    <3> QED BY <1>1, <3>1 DEF Asking
  <2>2. Granted' = IF actor'[r].at \in Extracting THEN Granted \cup {r} ELSE Granted \ {r}
    <3>1. Granted' = {b \in Requests : actor'[b].at \in Extracting}
      BY DEF Granted
    <3> QED BY <1>1, <3>1 DEF Granted
  <2> QED BY <2>1, <2>2 DEF Asking, Granted
<1>3. "asked" \notin Extracting
  BY DEF Extracting
<1>4. Asking' = Asking /\ Granted' = Granted => UNCHANGED Slots!vars
  BY DEF Slots!vars, Asking, Granted
<1>5. r \notin Asking \cup Granted /\ Asking' = Asking \cup {r} /\ Granted' = Granted
        => Slots!Ask(r)
  BY DEF Slots!Ask, Asking, Granted
<1>6. ASSUME r \in Asking, Cardinality(Granted) < MaxSync,
             Asking' = Asking \ {r}, Granted' = Granted \cup {r}
      PROVE  Slots!Grant(r)
  <2>0. Slots!Cardinality(Granted) = Cardinality(Granted)
    BY DEF Slots!Cardinality, Cardinality
  <2>1. Slots!Cardinality({b \in Requests : actor[b].at \in Extracting}) < MaxSync
    BY <1>6, <2>0 DEF Granted
  <2>2. {b \in Requests : actor[b].at = "asked"}'
          = {b \in Requests : actor[b].at = "asked"} \ {r}
    BY <1>6 DEF Asking
  <2>3. {b \in Requests : actor[b].at \in Extracting}'
          = {b \in Requests : actor[b].at \in Extracting} \cup {r}
    BY <1>6 DEF Granted
  <2>4. r \in {b \in Requests : actor[b].at = "asked"}
    BY <1>6 DEF Asking
  <2> QED BY <2>1, <2>2, <2>3, <2>4 DEF Slots!Grant
<1>7. r \in Asking /\ Asking' = Asking \ {r} /\ Granted' = Granted => Slots!Abandon(r)
  BY DEF Slots!Abandon, Asking, Granted
<1>8. r \in Granted /\ Granted' = Granted \ {r} /\ Asking' = Asking => Slots!Return(r)
  BY DEF Slots!Return, Asking, Granted
<1>9. /\ actor'[r].at # "asked" /\ r \notin Asking => Asking' = Asking
      /\ actor'[r].at \notin Extracting /\ r \notin Granted => Granted' = Granted
      /\ actor'[r].at \in Extracting /\ r \in Granted => Granted' = Granted
  BY <1>2
<1>a. ASSUME actor[r].at \notin {"asked"} \cup Extracting,
             actor'[r].at \notin {"asked"} \cup Extracting
      PROVE  UNCHANGED Slots!vars
  <2>1. Asking' = Asking /\ Granted' = Granted
    BY <1>2, <1>3, <1>9, <1>a
  <2> QED BY <1>a, <2>1, <1>4, Zenon
<1>b. ASSUME actor[r].at \in Extracting,
             actor'[r].at \in Extracting
      PROVE  UNCHANGED Slots!vars
  <2>1. Asking' = Asking /\ Granted' = Granted
    BY <1>2, <1>3, <1>9, <1>b
  <2> QED BY <1>b, <2>1, <1>4, Zenon
<1>c. ASSUME actor[r].at \notin {"asked"} \cup Extracting,
             actor'[r].at = "asked"
      PROVE  Slots!Ask(r)
  <2>1. r \notin Asking \cup Granted /\ Asking' = Asking \cup {r} /\ Granted' = Granted
    BY <1>2, <1>3, <1>9, <1>c
  <2> QED BY <1>c, <2>1, <1>5, Zenon
<1>d. ASSUME actor[r].at = "asked",
             actor'[r].at \notin {"asked"} \cup Extracting
      PROVE  Slots!Abandon(r)
  <2>1. r \in Asking /\ Asking' = Asking \ {r} /\ Granted' = Granted
    BY <1>2, <1>3, <1>9, <1>d
  <2> QED BY <1>d, <2>1, <1>7, Zenon
<1>e. ASSUME actor[r].at = "asked",
             actor'[r].at \in Extracting,
             Cardinality(Granted) < MaxSync
      PROVE  Slots!Grant(r)
  <2>1. r \in Asking /\ Asking' = Asking \ {r} /\ Granted' = Granted \cup {r}
    BY <1>2, <1>3, <1>9, <1>e
  <2> QED BY <1>e, <2>1, <1>6, Zenon
<1>f. ASSUME actor[r].at \in Extracting,
             actor'[r].at \notin {"asked"} \cup Extracting
      PROVE  Slots!Return(r)
  <2>1. r \in Granted /\ Granted' = Granted \ {r} /\ Asking' = Asking
    BY <1>2, <1>3, <1>9, <1>f
  <2> QED BY <1>f, <2>1, <1>8, Zenon
<1> QED BY <1>a, <1>b, <1>c, <1>d, <1>e, <1>f, Zenon

LEMMA PoolStays ==
  ASSUME \A r \in Requests : actor'[r] = actor[r]
  PROVE  UNCHANGED Slots!vars
BY DEF Slots!vars

LEMMA PoolStep ==
  ASSUME CoverInv, SlotsCounted, [Next]_vars
  PROVE  Slots!Next \/ UNCHANGED Slots!vars
<1> USE DEF CoverInv, CoverTypes
<1>0. \A r \in Requests : r \in Actors /\ r # Worker
  BY ActorsDiffer
<1>1. ASSUME NEW r \in Requests, RequestStep(r) \/ \E m \in Media : Ask(r, m)
      PROVE  Slots!Next \/ UNCHANGED Slots!vars
  <2>0. Slots!Ask(r) \/ Slots!Grant(r) \/ Slots!Abandon(r) \/ Slots!Return(r) => Slots!Next
    BY DEF Slots!Next
  <2>1. CASE Extraction(r)
    <3>1. /\ \A b \in Actors : b # r => actor'[b] = actor[b]
          /\ actor[r].at \in Extracting /\ actor'[r].at \in Extracting
      BY <1>0, <2>1, ExtractionMoves DEF To, Extracting
    <3> QED BY <3>1, PoolMoves
  <2>2. CASE \E m \in Media : Ask(r, m)
    <3>1. /\ \A b \in Actors : b # r => actor'[b] = actor[b]
          /\ actor[r].at \notin {"asked"} \cup Extracting /\ actor'[r].at = "asked"
      BY <2>2, RequestMoves DEF From, Extracting
    <3> QED BY <2>0, <3>1, PoolMoves
  <2>3. CASE Reuse(r) \/ Mark(r) \/ Send(r) \/ GiveBack(r)
    <3>1. /\ \A b \in Actors : b # r => actor'[b] = actor[b]
          /\ actor[r].at \notin {"asked"} \cup Extracting
          /\ actor'[r].at \notin {"asked"} \cup Extracting
      BY <2>3, RequestMoves DEF To, Extracting
    <3> QED BY <3>1, PoolMoves
  <2>4. CASE EndRequest(r)
    <3>1. /\ \A b \in Actors : b # r => actor'[b] = actor[b]
          /\ actor[r].at \in Extracting /\ actor'[r].at \notin {"asked"} \cup Extracting
      BY <2>4, RequestMoves DEF To, Extracting
    <3> QED BY <2>0, <3>1, PoolMoves
  <2>5. CASE Look(r)
    <3>0. \A b \in Actors : b # r => actor'[b] = actor[b]
      BY <2>5, RequestMoves DEF To
    <3>1. CASE actor'[r].at \in Extracting
      <4>1. actor[r].at = "asked" /\ sync' = sync + 1 /\ sync' <= MaxSync
        BY <2>5, <3>1, RequestMoves DEF To, Extracting
      <4>2. Cardinality(Granted) < MaxSync
        BY <4>1, SlotsFinite, FirstFrameAssumption DEF SlotsCounted
      <4> QED BY <2>0, <3>0, <3>1, <4>1, <4>2, PoolMoves
    <3>2. CASE actor'[r].at \notin Extracting
      <4>1. actor[r].at = "asked" /\ actor'[r].at \notin {"asked"} \cup Extracting
        BY <2>5, <3>2, RequestMoves DEF To
      <4> QED BY <2>0, <3>0, <4>1, PoolMoves
    <3> QED BY <3>1, <3>2
  <2> QED BY <1>1, <2>1, <2>2, <2>3, <2>4, <2>5 DEF RequestStep
<1>2. CASE WorkerStep
  <2>1. \A b \in Actors : b # Worker => actor'[b] = actor[b]
    <3>1. CASE Extraction(Worker)
      BY <3>1, ActorsDiffer, ExtractionMoves DEF To
    <3>2. CASE ~Extraction(Worker)
      BY <1>2, <3>2, WorkerMoves DEF WorkerStep, To, From, DataTypes
    <3> QED BY <3>1, <3>2
  <2> QED BY <1>0, <2>1, PoolStays
<1>3. CASE BeginPass \/ ScanStep \/ Callback
  BY <1>3, ScanAlone, ActorsDiffer, PoolStays
<1>4. CASE UNCHANGED vars
  BY <1>4, PoolStays DEF vars
<1> QED BY <1>1, <1>2, <1>3, <1>4 DEF Next

\* The slots of the requests are a pool of MaxSync slots: one of them is granted only
\* while fewer are held, and whoever holds one gives it back, for any set of requests.
THEOREM ImplementsSlots == Spec => SlotsSpec
<1>1. Init => Slots!Init
  <2> SUFFICES ASSUME Init PROVE Slots!Init
    OBVIOUS
  <2>1. \A r \in Requests : actor[r].at = "idle"
    BY ActorsDiffer DEF Init, Idle
  <2> QED BY <2>1 DEF Slots!Init, Extracting
<1>2. CoverInv /\ SlotsCounted /\ [Next]_vars => [Slots!Next]_(Slots!vars)
  BY PoolStep
<1> QED BY <1>1, <1>2, CoverInvariant, SlotsCountedHolds, PTL DEF Spec, SlotsSpec, Slots!Spec

=================================================================================
