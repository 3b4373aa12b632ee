------------------------------- MODULE FirstFrame -------------------------------
(***************************************************************************)
(* Covers taken from a video's first frame: the requests for a poster and  *)
(* the queue of those that are put off (service/stream.go), the extraction *)
(* (service/nfo.go), and the end of a scan, which gives the videos that    *)
(* have an image of their own that image and collects the frames nothing   *)
(* refers to (service/scanner.go).                                         *)
(*                                                                         *)
(* Images beside a video and failures of ffmpeg come and go, so each place *)
(* of the code that asks for them may find either. A video has one frame:  *)
(* its file does not change. A frame may be damaged, or fail to be read,   *)
(* whenever it is looked at (validFirstFrameFile). The queue also holds    *)
(* videos that are left out here, and may be full at any time. One scan    *)
(* ends at a time.                                                         *)
(***************************************************************************)
EXTENDS Naturals, Sequences, FiniteSets

CONSTANTS
  Media,      \* local videos that have a row
  Requests,   \* requests for a poster that are answered at the same time
  MaxSync,    \* maxSyncFirstFrameGenerations
  Worker, Scan, None

ASSUME FirstFrameAssumption ==
  /\ MaxSync \in Nat /\ IsFiniteSet(Requests)
  /\ Worker # Scan /\ {Worker, Scan, None} \cap Requests = {}
  /\ None \notin {Worker, Scan} \cup Media

Actors == Requests \cup {Worker, Scan}

VARIABLES
  actor,     \* where every actor is, for which video, and whether the row that it
             \* read had the frame
  sync,      \* firstFrameSync
  queue,     \* firstFrameQueue, a sequence of videos
  queued,    \* firstFrameQueued
  mutex,     \* firstFrameMu of nfo.go: who is extracting, or None
  frames,    \* the videos whose frame is in the cache, usable or not
  row,       \* poster_path of every video: none, its frame or an image
  pending,   \* firstFrameNotifyPending, TRUE or FALSE
  callback,  \* notifyFirstFramesReady: a timer is armed, one has fired and is calling
  scan,      \* the end of a scan: its pass, the videos left to it, and those whose
             \* row it read with a frame
  \* History:
  lost,      \* videos that were marked and not queued
  silent,    \* covers made by the worker since the last broadcast
  unknown,   \* rows that have changed since the scan has read them
  made,      \* frames made since the collection has read the rows
  redone     \* frames that the collection has listed and someone has found unusable,
             \* and is making again or has made again since

requests == <<sync, queue, queued, lost>>
notify == <<pending, callback, silent>>
cache == <<mutex, frames, made, redone>>
rows == <<row, unknown>>
vars == <<actor, requests, notify, cache, rows, scan>>

Idle == [at |-> "idle", media |-> None, shown |-> FALSE]
NoScan == [pass |-> "idle", todo |-> {}, shown |-> {}]

\* Videos whose row has the frame.
Shown == {m \in Media : row[m] = "frame"}

\* Frames that the collection has listed and may yet remove.
Listed == IF scan.pass \in {"collect", "sweep"} THEN scan.todo ELSE {}

Init ==
  /\ actor = [a \in Actors |-> Idle]
  /\ sync = 0 /\ queue = <<>> /\ queued = {} /\ lost = {}
  /\ mutex = None /\ frames = {} /\ made = {} /\ redone = {}
  /\ row = [m \in Media |-> "none"] /\ unknown = {}
  /\ pending = FALSE /\ callback = {} /\ silent = {}
  /\ scan = NoScan

At(a, places) == actor[a].at \in places
Goes(a, place) == actor' = [actor EXCEPT ![a].at = place]
Stops(a) == actor' = [actor EXCEPT ![a] = Idle]
Begins(a, place, m) ==
  actor' = [actor EXCEPT ![a] = [at |-> place, media |-> m, shown |-> m \in Shown]]

----------------------------------------------------------------------------
(* EnsureFirstFramePoster, by whoever needs a frame.                       *)

\* It fails where the video cannot be found, or has failed in the last minutes.
Ensure(a) ==
  /\ At(a, {"ensuring"})
  /\ \/ Goes(a, "failed")
     \/ actor[a].media \in frames /\ Goes(a, "writing")
     \/ Goes(a, "waiting")
  /\ UNCHANGED <<requests, notify, cache, rows, scan>>

\* With the lock held, the cache is looked at again. An unusable frame is removed,
\* if it can be, before it is made again.
Lock(a) ==
  /\ At(a, {"waiting"}) /\ mutex = None
  /\ LET m == actor[a].media
     IN  \/ m \in frames /\ Goes(a, "writing") /\ UNCHANGED <<mutex, frames, redone>>
         \/ /\ Goes(a, "extracting") /\ mutex' = a
            /\ frames' \in {frames, frames \ {m}}
            /\ redone' = redone \cup ({m} \cap frames \cap Listed)
  /\ UNCHANGED <<requests, notify, made, rows, scan>>

Extract(a) ==
  /\ At(a, {"extracting"}) /\ mutex' = None
  /\ \/ /\ Goes(a, "writing")
        /\ frames' = frames \cup {actor[a].media}
        /\ made' = IF scan.pass = "sweep" THEN made \cup {actor[a].media} ELSE made
     \/ Goes(a, "failed") /\ UNCHANGED <<frames, made>>
  /\ UNCHANGED <<requests, notify, redone, rows, scan>>

\* The videos whose frame is being made.
InWork == {actor[a].media : a \in {b \in Actors : At(b, {"extracting"})}}

Extraction(a) == Ensure(a) \/ Lock(a) \/ Extract(a)

\* The row is written, unless it had the frame when it was read; that may fail.
Saves(a) ==
  \/ /\ ~actor[a].shown
     /\ row' = [row EXCEPT ![actor[a].media] = "frame"]
     /\ unknown' = IF scan.pass = "idle" THEN unknown ELSE unknown \cup {actor[a].media}
  \/ UNCHANGED rows

----------------------------------------------------------------------------
(* A request for a poster.                                                 *)

Ask(r, m) ==
  /\ At(r, {"idle"}) /\ Begins(r, "asked", m)
  /\ UNCHANGED <<requests, notify, cache, rows, scan>>

\* The row's frame, or an image of the video's own, answers it. A usable frame that
\* the row does not have is used and written to it. Without one, a slot is taken.
Look(r) ==
  /\ At(r, {"asked"})
  /\ \/ Stops(r) /\ UNCHANGED sync
     \/ actor[r].media \in frames /\ ~actor[r].shown
        /\ Goes(r, "reusing") /\ UNCHANGED sync
     \/ /\ actor[r].media \notin frames \/ ~actor[r].shown
        /\ sync' = sync + 1
        /\ Goes(r, IF sync' <= MaxSync THEN "ensuring" ELSE "refused")
  /\ UNCHANGED <<queue, queued, lost, notify, cache, rows, scan>>

Reuse(r) ==
  /\ At(r, {"reusing"}) /\ Saves(r) /\ Stops(r)
  /\ UNCHANGED <<requests, notify, cache, scan>>

GiveBack(r) ==
  /\ At(r, {"refused"}) /\ Goes(r, "marking")
  /\ sync' = sync - 1
  /\ UNCHANGED <<queue, queued, lost, notify, cache, rows, scan>>

\* enqueueFirstFrame, in two steps: the mark, and the queue.
Mark(r) ==
  /\ At(r, {"marking"})
  /\ LET m == actor[r].media
     IN  \/ m \in queued /\ Stops(r) /\ UNCHANGED queued
         \/ m \notin queued /\ Goes(r, "sending") /\ queued' = queued \cup {m}
  /\ UNCHANGED <<sync, queue, lost, notify, cache, rows, scan>>

\* A full queue drops the video, whose mark stays.
Send(r) ==
  /\ At(r, {"sending"}) /\ Stops(r)
  /\ \/ queue' = Append(queue, actor[r].media) /\ UNCHANGED lost
     \/ lost' = lost \cup {actor[r].media} /\ UNCHANGED queue
  /\ UNCHANGED <<sync, queued, notify, cache, rows, scan>>

\* Whether a frame was made or not, the slot is given back.
EndRequest(r) ==
  /\ \/ At(r, {"writing"}) /\ Saves(r)
     \/ At(r, {"failed"}) /\ UNCHANGED rows
  /\ Stops(r) /\ sync' = sync - 1
  /\ UNCHANGED <<queue, queued, lost, notify, cache, scan>>

RequestStep(r) ==
  \/ Look(r) \/ Reuse(r) \/ GiveBack(r) \/ Mark(r) \/ Send(r)
  \/ Extraction(r) \/ EndRequest(r)

----------------------------------------------------------------------------
(* The worker.                                                             *)

\* The video's row may not be found.
Receive ==
  /\ At(Worker, {"idle"}) /\ queue # <<>> /\ queue' = Tail(queue)
  /\ \E place \in {"ensuring", "failed"} : Begins(Worker, place, Head(queue))
  /\ UNCHANGED <<sync, queued, lost, notify, cache, rows, scan>>

WorkerWrites ==
  /\ At(Worker, {"writing"}) /\ Saves(Worker) /\ Goes(Worker, "made")
  /\ silent' = silent \cup {actor[Worker].media}
  /\ UNCHANGED <<requests, pending, callback, cache, scan>>

\* notifyFirstFramesReady: one timer for all that is made before it fires.
Notify ==
  /\ At(Worker, {"made"}) /\ Goes(Worker, "told")
  /\ \/ pending /\ UNCHANGED <<pending, callback>>
     \/ ~pending /\ pending' = TRUE /\ callback' = callback \cup {"armed"}
  /\ UNCHANGED <<requests, silent, cache, rows, scan>>

\* Mutant of Unmark: a job that has failed keeps its mark.
UnmarkReady ==
  /\ At(Worker, {"told", "failed"}) /\ Stops(Worker)
  /\ queued' = IF At(Worker, {"told"}) THEN queued \ {actor[Worker].media} ELSE queued
  /\ UNCHANGED <<sync, queue, lost, notify, cache, rows, scan>>

Unmark ==
  /\ At(Worker, {"told", "failed"}) /\ Stops(Worker)
  /\ queued' = queued \ {actor[Worker].media}
  /\ UNCHANGED <<sync, queue, lost, notify, cache, rows, scan>>

WorkerStep == Receive \/ Extraction(Worker) \/ WorkerWrites \/ Notify \/ Unmark

\* Mutant of Callback: the broadcast comes before the critical section.
CallbackAnnouncesFirst ==
  /\ \/ /\ "armed" \in callback /\ callback' = {"calling"}
        /\ silent' = {} /\ UNCHANGED pending
     \/ /\ "calling" \in callback /\ callback' = callback \ {"calling"}
        /\ pending' = FALSE /\ UNCHANGED silent
  /\ UNCHANGED <<actor, requests, cache, rows, scan>>

\* The timer fires, and then broadcasts; the next one, if there is one, fires only
\* after that.
Callback ==
  /\ \/ /\ callback = {"armed"} /\ callback' = {"calling"}
        /\ pending' = FALSE /\ UNCHANGED silent
     \/ /\ "calling" \in callback /\ callback' = callback \ {"calling"}
        /\ silent' = {} /\ UNCHANGED pending
  /\ UNCHANGED <<actor, requests, cache, rows, scan>>

----------------------------------------------------------------------------
(* The end of a scan: healFirstFramePosters, healStaleArtwork and          *)
(* firstFrameCacheGC. Each of the first two reads all rows and goes        *)
(* through them, and is left out if it cannot read them.                   *)

\* Mutant of BeginPass: the directory is read when the frames are removed.
BeginPassUnread ==
  /\ At(Scan, {"idle"}) /\ scan.todo = {}
  /\ \/ /\ scan.pass = "idle"
        /\ scan' = [pass |-> "heal", todo |-> Media, shown |-> Shown]
     \/ /\ scan.pass \in {"idle", "heal"}
        /\ scan' = [pass |-> "stale", todo |-> {m \in Media : row[m] # "none"},
                    shown |-> Shown]
     \/ /\ scan.pass \in {"idle", "heal", "stale"}
        /\ scan' = [pass |-> "collect", todo |-> Media, shown |-> {}]
  /\ redone' = InWork \cap frames \cap Listed'
  /\ UNCHANGED <<actor, requests, notify, mutex, frames, made, rows>>

BeginPass ==
  /\ At(Scan, {"idle"}) /\ scan.todo = {}
  /\ \/ /\ scan.pass = "idle"
        /\ scan' = [pass |-> "heal", todo |-> Media, shown |-> Shown]
     \/ /\ scan.pass \in {"idle", "heal"}
        /\ scan' = [pass |-> "stale", todo |-> {m \in Media : row[m] # "none"},
                    shown |-> Shown]
     \/ /\ scan.pass \in {"idle", "heal", "stale"}
        /\ scan' = [pass |-> "collect", todo |-> frames, shown |-> {}]
  /\ redone' = InWork \cap frames \cap Listed'
  /\ UNCHANGED <<actor, requests, notify, mutex, frames, made, rows>>

Takes(pass, m) ==
  /\ At(Scan, {"idle"}) /\ scan.pass = pass /\ m \in scan.todo
  /\ scan' = [scan EXCEPT !.todo = @ \ {m}]

\* A video with an image of its own loses its frame, and first its row is changed
\* if it was read with the frame. For another video a frame is made, for no row.
Heal(m) ==
  /\ Takes("heal", m)
  /\ \/ m \in scan.shown /\ Begins(Scan, "saving", m)
     \/ m \notin scan.shown /\ Begins(Scan, "removing", m)
     \/ Begins(Scan, "ensuring", m)
  /\ UNCHANGED <<requests, notify, cache, rows>>

\* A row gets another cover if the one it was read with is gone.
Refresh(m) ==
  /\ Takes("stale", m)
  /\ \/ (m \in frames \/ m \notin scan.shown) /\ UNCHANGED actor
     \/ /\ m \notin frames \cap scan.shown
        /\ \E place \in {"saving", "ensuring"} : Begins(Scan, place, m)
  /\ UNCHANGED <<requests, notify, cache, rows>>

FoundFrame ==
  /\ \/ At(Scan, {"writing"}) /\ scan.pass = "stale" /\ Goes(Scan, "restoring")
     \/ At(Scan, {"writing"}) /\ scan.pass = "heal" /\ Stops(Scan)
     \/ At(Scan, {"failed"}) /\ Stops(Scan)
  /\ UNCHANGED <<requests, notify, cache, rows, scan>>

\* The row as it was read is saved with the new cover, which may fail.
ScanSaves ==
  /\ At(Scan, {"saving", "restoring"})
  /\ LET m == actor[Scan].media
     IN  \/ At(Scan, {"saving"}) /\ row' = [row EXCEPT ![m] = "image"]
            /\ UNCHANGED unknown
         \/ At(Scan, {"restoring"}) /\ row' = [row EXCEPT ![m] = "frame"]
            /\ UNCHANGED unknown
         \/ unknown' = unknown \cup {m} /\ UNCHANGED row
  /\ IF scan.pass = "heal" THEN Goes(Scan, "removing") ELSE Stops(Scan)
  /\ UNCHANGED <<requests, notify, cache, scan>>

Remove ==
  /\ At(Scan, {"removing"}) /\ Stops(Scan)
  /\ frames' \in {frames, frames \ {actor[Scan].media}}
  /\ UNCHANGED <<requests, notify, mutex, made, redone, rows, scan>>

\* The rows are read after the directory. A query that fails finds nothing that
\* refers to a frame.
ReadReferences ==
  /\ scan.pass = "collect"
  /\ \/ /\ scan' = [scan EXCEPT !.pass = "sweep", !.todo = @ \ Shown]
        /\ unknown' = {}
     \/ scan' = [scan EXCEPT !.pass = "sweep"] /\ unknown' = Media
  /\ UNCHANGED <<actor, requests, notify, cache, row>>

Sweep(m) ==
  /\ Takes("sweep", m)
  /\ frames' \in {frames, frames \ {m}}
  /\ UNCHANGED <<actor, requests, notify, mutex, made, redone, rows>>

\* If the directory cannot be read, nothing is collected.
EndScan ==
  /\ scan.pass = "collect" \/ (scan.pass = "sweep" /\ scan.todo = {})
  /\ scan' = NoScan /\ unknown' = {} /\ made' = {} /\ redone' = {}
  /\ UNCHANGED <<actor, requests, notify, mutex, frames, row>>

ScanStep ==
  \/ \E m \in Media : Heal(m) \/ Refresh(m) \/ Sweep(m)
  \/ Extraction(Scan) \/ FoundFrame \/ ScanSaves \/ Remove
  \/ ReadReferences \/ EndScan

----------------------------------------------------------------------------

Next ==
  \/ \E r \in Requests, m \in Media : Ask(r, m)
  \/ \E r \in Requests : RequestStep(r)
  \/ WorkerStep \/ Callback \/ BeginPass \/ ScanStep

Spec == Init /\ [][Next]_vars

----------------------------------------------------------------------------
(* Properties.                                                             *)

\* Who takes the lock of nfo.go makes m's frame again.
Remakes(m) ==
  \E a \in Actors : At(a, {"waiting"}) /\ mutex' = a /\ actor[a].media = m

\* A cover is not removed from under the row that shows it, unless it was unusable
\* and is about to be made again, or the row was written, or could not be, after
\* the scan had read it; and no collection removes a frame that was made after it
\* had read the rows, unless in the place of an unusable one that it may have listed.
CoversKept ==
  [][\A m \in Media :
       m \in frames \ frames' /\ row[m] = "frame" =>
         \/ Remakes(m)
         \/ m \in unknown /\ (m \in made => m \in redone)]_vars

\* A video is marked exactly while one request is about to queue it, it is in the
\* queue once, the worker has it, or the full queue has dropped it: no video is
\* queued twice, and no mark is left behind in any other way.
MarkIsOwned ==
  \A m \in Media :
    LET sending == {r \in Requests : At(r, {"sending"}) /\ actor[r].media = m}
        places == {i \in DOMAIN queue : queue[i] = m}
        holders == {a \in {Worker} : actor[a].media = m}
        drops == lost \cap {m}
    IN  Cardinality(sending) + Cardinality(places) + Cardinality(holders)
          + Cardinality(drops) = IF m \in queued THEN 1 ELSE 0

\* A cover made by the worker has a broadcast before it: the worker is about to
\* ask for one, or a timer is armed or has fired and not yet broadcast. However the
\* covers are merged, none is left without.
CoversAreDue ==
  silent # {} => At(Worker, {"made"}) \/ callback # {}

\* Where one extracts, from ensureFirstFrame until the row is written or not.
Extracting == {"ensuring", "waiting", "extracting", "writing", "failed"}

\* The slots of the requests that make a cover themselves are a pool like the
\* governor's, in which nobody waits: who finds no slot gives up.
Slots == INSTANCE SlotPool WITH
  Clients <- Requests, Capacity <- MaxSync,
  asking <- {r \in Requests : actor[r].at = "asked"},
  leased <- {r \in Requests : actor[r].at \in Extracting}

\* However requests are refused, fail or overlap, a slot is granted only while one
\* is free, and given back once.
SlotsSpec == Slots!Spec

================================================================================
