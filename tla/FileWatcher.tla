------------------------------ MODULE FileWatcher ------------------------------
(***************************************************************************)
(* The file watcher (service/file_watcher.go) for one library with several *)
(* roots: changes on disk, the event loop, the debounce timers and the     *)
(* incremental scans they start, while the library is deleted              *)
(* (service/library.go, Delete). fw.mu makes each access to the maps       *)
(* atomic, and nothing more: an event is handled in two critical sections. *)
(*                                                                         *)
(* Timers are not timed: an armed timer may fire at any moment, and must   *)
(* in the end, if it is not stopped. What a scan does is LibraryIndex's.   *)
(***************************************************************************)
EXTENDS Naturals

CONSTANTS
  Roots,       \* directories of the library
  MaxChanges   \* bound: changes on disk, and so events and timers

ASSUME FileWatcherAssumption == MaxChanges \in Nat

Timers == 1..MaxChanges

VARIABLES
  there,     \* the library has a row
  watching,  \* roots in fw.watching
  toRemove,  \* roots whose Unwatch has not come to watcher.Remove
  disk,      \* changes so far
  events,    \* events in the channel, each the number of its change and a root
  handler,   \* the event loop's event, once findLibraryID has found the library
  timer,     \* every timer, and the scan that it starts
  entry,     \* fw.debounce[library], or NoTimer
  deleting,  \* LibraryService.Delete
  \* History:
  heard,     \* the last change that debounceScan has armed a timer for
  begun,     \* the last change before a scan began
  orphans,   \* timers whose entry was deleted by the end of another's scan
  late       \* timers armed by a handler that found the library before Unwatch

watch == <<watching, toRemove>>
history == <<heard, begun, orphans, late>>
watcherVars == <<there, watch, disk, events, handler, timer, entry, deleting, history>>

NoTimer == 0
NoEvent == [change |-> 0, root |-> 0]
Event == [change: 1..MaxChanges, root: Roots]

WatcherTypeOK ==
  /\ there \in BOOLEAN
  /\ watching \in SUBSET Roots /\ toRemove \in SUBSET Roots
  /\ disk \in 0..MaxChanges
  /\ events \in SUBSET Event
  /\ handler \in Event \cup {NoEvent}
  /\ timer \in [Timers -> {"unused", "armed", "stopped", "fired", "scanning", "over"}]
  /\ entry \in Timers \cup {NoTimer}
  /\ deleting \in {"idle", "unwatching", "deleting", "over"}
  /\ heard \in 0..MaxChanges /\ begun \in 0..MaxChanges
  /\ orphans \in SUBSET Timers /\ late \in SUBSET Timers

\* The library as Start has registered it: a library that is created or changed
\* later is not watched before the next start.
WatcherInit ==
  /\ there = TRUE /\ watching = Roots /\ toRemove = {}
  /\ disk = 0 /\ events = {} /\ handler = NoEvent
  /\ timer = [t \in Timers |-> "unused"] /\ entry = NoTimer /\ deleting = "idle"
  /\ heard = 0 /\ begun = 0 /\ orphans = {} /\ late = {}

Turns(t, from, to) == timer[t] = from /\ timer' = [timer EXCEPT ![t] = to]

\* Timer.Stop, which does not stop a timer that has fired.
Stopped(t) ==
  IF t # NoTimer /\ timer[t] = "armed" THEN [timer EXCEPT ![t] = "stopped"] ELSE timer

----------------------------------------------------------------------------

\* A change is reported only if its directory is registered with fsnotify, and
\* not when it overflows.
Change(p) ==
  /\ disk < MaxChanges /\ disk' = disk + 1
  /\ \/ p \in watching \cup toRemove
        /\ events' = events \cup {[change |-> disk + 1, root |-> p]}
     \/ UNCHANGED events
  /\ UNCHANGED <<there, watch, handler, timer, entry, deleting, history>>

\* handleEvent up to findLibraryID: an event of a root that is not watched any
\* more is dropped.
TakeEvent(e) ==
  /\ handler = NoEvent /\ e \in events
  /\ \A other \in events : e.change <= other.change
  /\ events' = events \ {e}
  /\ handler' = IF e.root \in watching THEN e ELSE NoEvent
  /\ UNCHANGED <<there, watch, disk, timer, entry, deleting, history>>

\* Mutant of DebounceScan: a timer that is listed is taken to be still waiting.
DebounceUnlessListed ==
  /\ handler # NoEvent /\ handler' = NoEvent
  /\ IF entry = NoTimer
       THEN \E t \in Timers :
              /\ timer[t] = "unused"
              /\ timer' = [timer EXCEPT ![t] = "armed"]
              /\ entry' = t
              /\ late' = IF handler.root \in watching THEN late ELSE late \cup {t}
       ELSE UNCHANGED <<timer, entry, late>>
  /\ heard' = handler.change
  /\ UNCHANGED <<there, watch, disk, events, deleting, begun, orphans>>

\* Mutant of DebounceScan: the listed timer is not stopped.
DebounceLeavesTimer ==
  /\ handler # NoEvent /\ handler' = NoEvent
  /\ LET t == handler.change
     IN  /\ timer' = [timer EXCEPT ![t] = "armed"]
         /\ entry' = t
         /\ late' = IF handler.root \in watching THEN late ELSE late \cup {t}
         /\ heard' = t
  /\ UNCHANGED <<there, watch, disk, events, deleting, begun, orphans>>

\* debounceScan: the listed timer is stopped and a new one is listed.
DebounceScan ==
  /\ handler # NoEvent /\ handler' = NoEvent
  /\ LET t == handler.change
     IN  /\ timer' = [Stopped(entry) EXCEPT ![t] = "armed"]
         /\ entry' = t
         /\ late' = IF handler.root \in watching THEN late ELSE late \cup {t}
         /\ heard' = t
  /\ UNCHANGED <<there, watch, disk, events, deleting, begun, orphans>>

Fire(t) ==
  /\ Turns(t, "armed", "fired")
  /\ UNCHANGED <<there, watch, disk, events, handler, entry, deleting, history>>

\* triggerIncrementalScan: without a row there is no scan; the entry stays.
BeginScan(t) ==
  /\ \/ there /\ Turns(t, "fired", "scanning") /\ begun' = disk
     \/ Turns(t, "fired", "over") /\ ~there /\ UNCHANGED begun
  /\ UNCHANGED <<there, watch, disk, events, handler, entry, deleting, heard,
                 orphans, late>>

\* A scan that fails leaves the entry as well.
ScanFails(t) ==
  /\ Turns(t, "scanning", "over")
  /\ UNCHANGED <<there, watch, disk, events, handler, entry, deleting, history>>

\* The end of a scan deletes the entry, whosever it is.
ScanEnds(t) ==
  /\ Turns(t, "scanning", "over")
  /\ entry' = NoTimer
  /\ orphans' = orphans \cup ({entry} \ {t, NoTimer})
  /\ UNCHANGED <<there, watch, disk, events, handler, deleting, heard, begun, late>>

----------------------------------------------------------------------------
(* Delete.                                                                 *)

BeginDelete ==
  /\ deleting = "idle" /\ deleting' = "unwatching"
  /\ UNCHANGED <<there, watch, disk, events, handler, timer, entry, history>>

\* Mutant of Unwatch: the entry is deleted and its timer runs on.
UnwatchKeepsTimer(p) ==
  /\ deleting = "unwatching" /\ p \in watching /\ toRemove = {}
  /\ watching' = watching \ {p} /\ toRemove' = {p}
  /\ entry' = NoTimer
  /\ UNCHANGED <<there, disk, events, handler, timer, deleting, history>>

\* The critical section of UnwatchLibrary, which comes to one root after another.
Unwatch(p) ==
  /\ deleting = "unwatching" /\ p \in watching /\ toRemove = {}
  /\ watching' = watching \ {p} /\ toRemove' = {p}
  /\ timer' = Stopped(entry) /\ entry' = NoTimer
  /\ UNCHANGED <<there, disk, events, handler, deleting, history>>

RemoveWatch(p) ==
  /\ p \in toRemove /\ toRemove' = toRemove \ {p}
  /\ UNCHANGED <<there, watching, disk, events, handler, timer, entry, deleting,
                 history>>

EndUnwatch ==
  /\ deleting = "unwatching" /\ watching \cup toRemove = {}
  /\ deleting' = "deleting"
  /\ UNCHANGED <<there, watch, disk, events, handler, timer, entry, history>>

\* The rest of Delete may fail; the library is then no longer watched.
EndDelete ==
  /\ deleting = "deleting" /\ deleting' = "over"
  /\ there' \in {FALSE, there}
  /\ UNCHANGED <<watch, disk, events, handler, timer, entry, history>>

Trigger(t) == Fire(t) \/ BeginScan(t) \/ ScanFails(t) \/ ScanEnds(t)

WatcherNext ==
  \/ \E p \in Roots : Change(p) \/ Unwatch(p) \/ RemoveWatch(p)
  \/ \E e \in events : TakeEvent(e)
  \/ DebounceScan
  \/ \E t \in Timers : Trigger(t)
  \/ BeginDelete \/ EndUnwatch \/ EndDelete

WatcherSpec == WatcherInit /\ [][WatcherNext]_watcherVars

\* The event loop and the timers' goroutines run.
WatcherFairSpec ==
  /\ WatcherSpec
  /\ WF_watcherVars(DebounceScan) /\ WF_watcherVars(\E e \in events : TakeEvent(e))
  /\ \A t \in Timers : WF_watcherVars(Trigger(t))

----------------------------------------------------------------------------
(* Properties.                                                             *)

\* Events are merged: one timer of the library waits, the listed one, but for
\* timers whose entry the end of another scan has deleted.
OneTimerWaits ==
  \A t \in Timers : timer[t] = "armed" => t = entry \/ t \in orphans

\* After UnwatchLibrary no timer is left to start a scan of a library that is
\* being deleted, but for those it cannot find: timers that have lost their
\* entry, and the one of an event that was being handled.
QuietAfterUnwatch ==
  watching = {} =>
    \A t \in Timers : timer[t] = "armed" => t \in orphans \cup late

\* Whatever the event loop has handled is followed by a scan that begins later,
\* whichever timers are replaced and whichever scans fail, unless the library is
\* deleted.
EventsAreScanned ==
  \A c \in 1..MaxChanges : heard = c ~> begun >= c \/ deleting # "idle"
=============================================================================
