------------------------------ MODULE LibraryIndex ------------------------------
(***************************************************************************)
(* The index of one media library: service/library.go (Scan, Reindex,      *)
(* Delete, Update), scanner_movie.go (the scan itself), file_watcher.go    *)
(* (incremental scans, records of removed files), media_cleanup.go and the *)
(* handlers and services that save, import, move or remove one record.     *)
(* Everything runs concurrently: only Scan and Reindex exclude one         *)
(* another. The process may end at any moment and starts again.            *)
(*                                                                         *)
(* A record is present or absent; what it says of its file is abstracted,  *)
(* and so is the time of the last scan, so that a file may always count as *)
(* changed. The library's own row, too, is there or not: what is saved     *)
(* whole and brings old settings back brings a deleted row back. Files are *)
(* those that qualify: no extras, samples, hidden or undersized ones.      *)
(***************************************************************************)
EXTENDS Naturals

CONSTANTS
  Scans,       \* calls of Scan and Reindex, and incremental scans of the watcher
  None,        \* no scan
  Files,       \* video files of the library
  MaxChanges   \* bound: files that appear or disappear, edits and imports

ASSUME LibraryIndexAssumption ==
  MaxChanges \in Nat /\ None \notin Scans

VARIABLES
  there,       \* the library has a row
  disk, rows,  \* files on disk, files with a record
  changes,
  removals,    \* files whose Remove event the watcher has not handled
  scanning,    \* the call that put the library into LibraryService.scanning
  pc,          \* every scan
  known,       \* recorded files the scan has still to deal with: existingPaths,
               \* and later those whose artwork it repairs
  todo,        \* files the walk has not come to
  pending, updates,  \* pendingList, updateList
  deleting,    \* Delete
  updating,    \* Update has read the row and not yet saved it
  residue,     \* files CleanupResidualData is about to purge
  editing,     \* files whose record someone has read to save it changed, or has
               \* found missing to add it, and has not yet saved
  \* History:
  excused,     \* for each scan, the files that anyone else changed or recorded
               \* since it began, or that an error made it pass over
  raced        \* a scan, an edit or an import that could write to the index was
               \* under way when Delete emptied it, or began later, and no start
               \* has cleaned up since

index == <<disk, rows, changes, removals, excused>>
work == <<known, todo, pending, updates>>
others == <<deleting, updating, residue, editing>>
vars == <<there, index, scanning, pc, work, others, raced>>

Walking == {"walking", "unlisted"}
Exact == {"walking", "healing", "storing"}
Writing == {"requested", "checking", "cleaning", "listing", "healing", "storing"}
             \cup Walking

TypeOK ==
  /\ there \in BOOLEAN /\ updating \in BOOLEAN
  /\ disk \in SUBSET Files /\ rows \in SUBSET Files
  /\ changes \in 0..MaxChanges
  /\ removals \in SUBSET Files
  /\ scanning \in Scans \cup {None}
  /\ pc \in [Scans -> Writing \cup {"idle", "finishing", "over"}]
  /\ known \in [Scans -> SUBSET Files] /\ todo \in [Scans -> SUBSET Files]
  /\ pending \in [Scans -> SUBSET Files] /\ updates \in [Scans -> SUBSET Files]
  /\ deleting \in {"idle", "unwatched", "emptied"}
  /\ residue \in SUBSET Files /\ editing \in SUBSET Files
  /\ excused \in [Scans -> SUBSET Files]
  /\ raced \in BOOLEAN

Init ==
  /\ there = TRUE /\ updating = FALSE
  /\ disk \in SUBSET Files /\ rows \in SUBSET Files
  /\ changes = 0 /\ removals = {} /\ scanning = None
  /\ pc = [s \in Scans |-> "idle"]
  /\ known = [s \in Scans |-> {}] /\ todo = [s \in Scans |-> {}]
  /\ pending = [s \in Scans |-> {}] /\ updates = [s \in Scans |-> {}]
  /\ deleting = "idle" /\ residue = {} /\ editing = {}
  /\ excused = [s \in Scans |-> {}] /\ raced = FALSE

Goes(s, from, to) == pc[s] = from /\ pc' = [pc EXCEPT ![s] = to]

\* Somebody other than the scans of S writes or changes the files of F.
Disturbs(F, S) ==
  excused' = [s \in Scans |->
                excused[s] \cup IF pc[s] \in Exact /\ s \notin S THEN F ELSE {}]

----------------------------------------------------------------------------
(* The disk, and the events of the watcher that touch the index at once.   *)

Appear(f) ==
  /\ f \notin disk /\ changes < MaxChanges
  /\ disk' = disk \cup {f} /\ changes' = changes + 1
  /\ Disturbs({f}, {})
  /\ UNCHANGED <<there, rows, removals, scanning, pc, work, others, raced>>

Vanish(f) ==
  /\ f \in disk /\ changes < MaxChanges
  /\ disk' = disk \ {f} /\ changes' = changes + 1
  /\ removals' = removals \cup {f}
  /\ Disturbs({f}, {})
  /\ UNCHANGED <<there, rows, scanning, pc, work, others, raced>>

\* handleEvent purges the record of a file it heard was removed, whether or not
\* the file is back; an event may also be lost, or the purge fail.
HandleRemoval(f) ==
  /\ f \in removals
  /\ removals' = removals \ {f}
  /\ \/ rows' = rows \ {f} /\ Disturbs({f}, {})
     \/ UNCHANGED <<rows, excused>>
  /\ UNCHANGED <<there, disk, changes, scanning, pc, work, others, raced>>

----------------------------------------------------------------------------
(* Scan, Reindex and triggerIncrementalScan up to the scan itself.         *)

\* Every one of them reads the library's row first; an incremental scan asks
\* for nothing else.
ReadLibrary(s) ==
  /\ there
  /\ Goes(s, "idle", "requested") \/ Goes(s, "idle", "listing")
  /\ raced' = (raced \/ deleting = "emptied")
  /\ UNCHANGED <<there, index, scanning, work, others>>

\* scanning.LoadOrStore.
Claim(s) ==
  /\ \/ scanning # None /\ Goes(s, "requested", "over") /\ UNCHANGED scanning
     \/ scanning = None /\ Goes(s, "requested", "checking") /\ scanning' = s
  /\ UNCHANGED <<there, index, work, others, raced>>

\* Mutant of CheckPaths: an unreachable path returns without the deferred
\* release.
CheckPathsHeld(s) ==
  /\ \/ Goes(s, "checking", "over") \/ Goes(s, "checking", "listing")
     \/ Goes(s, "checking", "cleaning")
  /\ UNCHANGED <<there, index, scanning, work, others, raced>>

\* A path that cannot be reached ends it; Reindex goes on to empty the index.
CheckPaths(s) ==
  /\ \/ Goes(s, "checking", "over") /\ scanning' = None
     \/ Goes(s, "checking", "listing") /\ UNCHANGED scanning
     \/ Goes(s, "checking", "cleaning") /\ UNCHANGED scanning
  /\ UNCHANGED <<there, index, work, others, raced>>

\* cleanLibraryIndexData, which may fail before it reaches the records.
CleanIndex(s) ==
  /\ \/ /\ Goes(s, "cleaning", "listing") /\ UNCHANGED scanning
        /\ rows' = {} /\ Disturbs(rows, {s})
     \/ /\ Goes(s, "cleaning", "over") /\ scanning' = None
        /\ UNCHANGED <<rows, excused>>
  /\ UNCHANGED <<there, disk, changes, removals, work, others, raced>>

----------------------------------------------------------------------------
(* scanMovieLibrary.                                                       *)

\* If the records cannot be listed, the walk looks every file up and saves what
\* is new all the same, and the scan fails.
ListRows(s) ==
  /\ \/ Goes(s, "listing", "walking") /\ known' = [known EXCEPT ![s] = rows]
     \/ Goes(s, "listing", "unlisted") /\ UNCHANGED known
  /\ todo' = [todo EXCEPT ![s] = Files]
  /\ UNCHANGED <<there, index, scanning, pending, updates, others, raced>>

\* walkFn: a known file is looked up when it seems changed, and forgotten when
\* its record is gone; an unknown one is new. Where an organized hardlink of the
\* file has a record, the file's own is deleted if it is looked up, and none is
\* made. A file it cannot reach is passed over, and so is one that is not there:
\* if it is known, Purge will look again.
Visit(s, f) ==
  /\ pc[s] \in Walking /\ f \in todo[s]
  /\ todo' = [todo EXCEPT ![s] = @ \ {f}]
  /\ \/ f \in disk \cap known[s]
        /\ known' = [known EXCEPT ![s] = @ \ {f}]
        /\ \/ f \in rows /\ updates' = [updates EXCEPT ![s] = @ \cup {f}]
           \/ UNCHANGED updates
        /\ UNCHANGED <<rows, pending, excused>>
     \/ f \in disk \ known[s]
        /\ pending' = [pending EXCEPT ![s] = @ \cup {f}]
        /\ UNCHANGED <<rows, known, updates, excused>>
     \/ f \in disk \cap rows /\ (f \in known[s] \/ pc[s] = "unlisted")
        /\ known' = [known EXCEPT ![s] = @ \ {f}]
        /\ rows' = rows \ {f} /\ Disturbs({f}, {})
        /\ UNCHANGED <<pending, updates>>
     \/ f \notin disk
        /\ UNCHANGED <<rows, known, pending, updates, excused>>
     \/ excused' = [excused EXCEPT ![s] = @ \cup ({f} \ known[s])]
        /\ UNCHANGED <<rows, known, pending, updates>>
  /\ UNCHANGED <<there, disk, changes, removals, scanning, pc, others, raced>>

\* MediaRepo.Update saves the whole record: one that was purged is back.
SaveUpdated(s, f) ==
  /\ pc[s] \in Walking /\ todo[s] = {} /\ f \in updates[s]
  /\ updates' = [updates EXCEPT ![s] = @ \ {f}]
  /\ \/ rows' = rows \cup {f} /\ Disturbs({f}, {s})
     \/ UNCHANGED <<rows, excused>>
  /\ UNCHANGED <<there, disk, changes, removals, scanning, pc, known, todo,
                 pending, others, raced>>

\* MediaRepo.Create inserts or updates the record of the path; a failure is
\* logged.
SaveNew(s, f) ==
  /\ pc[s] \in Walking /\ todo[s] \cup updates[s] = {} /\ f \in pending[s]
  /\ pending' = [pending EXCEPT ![s] = @ \ {f}]
  /\ \/ rows' = rows \cup {f} /\ Disturbs({f}, {s})
     \/ UNCHANGED rows /\ excused' = [excused EXCEPT ![s] = @ \cup {f}]
  /\ UNCHANGED <<there, disk, changes, removals, scanning, pc, known, todo,
                 updates, others, raced>>

\* Mutant of Purge: a known file the walk did not meet is purged unseen.
PurgeUnseen(s, f) ==
  /\ pc[s] = "walking" /\ todo[s] \cup updates[s] \cup pending[s] = {}
  /\ f \in known[s]
  /\ known' = [known EXCEPT ![s] = @ \ {f}]
  /\ rows' = rows \ {f} /\ Disturbs({f}, {s})
  /\ UNCHANGED <<there, disk, changes, removals, scanning, pc, todo, pending,
                 updates, others, raced>>

\* Known files the walk did not meet: the record goes if the file has gone.
Purge(s, f) ==
  /\ pc[s] = "walking" /\ todo[s] \cup updates[s] \cup pending[s] = {}
  /\ f \in known[s]
  /\ known' = [known EXCEPT ![s] = @ \ {f}]
  /\ \/ f \in disk /\ UNCHANGED <<rows, excused>>
     \/ f \notin disk /\ rows' = rows \ {f} /\ Disturbs({f}, {s})
     \/ UNCHANGED rows /\ excused' = [excused EXCEPT ![s] = @ \cup {f}]
  /\ UNCHANGED <<there, disk, changes, removals, scanning, pc, todo, pending,
                 updates, others, raced>>

EndScan(s) ==
  /\ todo[s] \cup updates[s] \cup pending[s] \cup known[s] = {}
  /\ Goes(s, "walking", "healing")
  /\ UNCHANGED <<there, index, scanning, work, others, raced>>

\* A root that cannot be walked, or no list to walk by: nothing is purged, and
\* the scan ends here.
ScanFails(s) ==
  /\ todo[s] \cup updates[s] \cup pending[s] = {}
  /\ Goes(s, "walking", "over") \/ Goes(s, "unlisted", "over")
  /\ known' = [known EXCEPT ![s] = {}]
  /\ excused' = [excused EXCEPT ![s] = {}]
  /\ scanning' = IF scanning = s THEN None ELSE scanning
  /\ UNCHANGED <<there, disk, rows, changes, removals, todo, pending, updates,
                 others, raced>>

\* healFirstFramePosters and healStaleArtwork, one pass here, list the records
\* anew; some of them want other artwork.
ListArtwork(s) ==
  /\ Goes(s, "healing", "storing")
  /\ \E F \in SUBSET rows : known' = [known EXCEPT ![s] = F]
  /\ UNCHANGED <<there, index, scanning, todo, pending, updates, others, raced>>

\* The whole record is saved: one that was purged since is back.
HealArtwork(s, f) ==
  /\ pc[s] = "storing" /\ f \in known[s]
  /\ known' = [known EXCEPT ![s] = @ \ {f}]
  /\ rows' = rows \cup {f} /\ Disturbs({f}, {s})
  /\ UNCHANGED <<there, disk, changes, removals, scanning, pc, todo, pending,
                 updates, others, raced>>

\* LastScan is set in the copy read at the start and the whole row is saved: a
\* row deleted since comes back.
StoreLibrary(s) ==
  /\ known[s] = {} /\ Goes(s, "storing", "finishing")
  /\ there' = TRUE
  /\ excused' = [excused EXCEPT ![s] = {}]
  /\ UNCHANGED <<disk, rows, changes, removals, scanning, work, others, raced>>

\* Merging and matching change no record's presence; scraping saves records like
\* any other edit.
Finish(s) ==
  /\ Goes(s, "finishing", "over")
  /\ scanning' = IF scanning = s THEN None ELSE scanning
  /\ UNCHANGED <<there, index, work, others, raced>>

----------------------------------------------------------------------------
(* Delete, Update, and the cleanup of residues.                            *)

BeginDelete ==
  /\ there /\ deleting = "idle" /\ deleting' = "unwatched"
  /\ UNCHANGED <<there, index, scanning, pc, work, updating, residue, editing,
                 raced>>

\* Somebody may yet write to the index.
InUse == editing # {} \/ \E s \in Scans : pc[s] \in Writing

\* Mutant of EmptyIndex: a failure to delete the records is not returned.
EmptyUnchecked ==
  /\ deleting = "unwatched" /\ deleting' = "emptied"
  /\ \/ rows' = {} /\ Disturbs(rows, {})
     \/ UNCHANGED <<rows, excused>>
  /\ raced' = InUse
  /\ UNCHANGED <<there, disk, changes, removals, scanning, pc, work, updating,
                 residue, editing>>

EmptyIndex ==
  /\ deleting = "unwatched" /\ deleting' = "emptied"
  /\ rows' = {} /\ Disturbs(rows, {})
  /\ raced' = InUse
  /\ UNCHANGED <<there, disk, changes, removals, scanning, pc, work, updating,
                 residue, editing>>

DeleteFails ==
  /\ deleting \in {"unwatched", "emptied"} /\ deleting' = "idle"
  /\ UNCHANGED <<there, index, scanning, pc, work, updating, residue, editing,
                 raced>>

DeleteLibrary ==
  /\ deleting = "emptied" /\ deleting' = "idle"
  /\ there' = FALSE
  /\ UNCHANGED <<index, scanning, pc, work, updating, residue, editing, raced>>

\* The handler reads the row, and later saves it whole with new settings.
BeginUpdate ==
  /\ there /\ ~updating /\ updating' = TRUE
  /\ UNCHANGED <<there, index, scanning, pc, work, deleting, residue, editing,
                 raced>>

EndUpdate ==
  /\ updating /\ updating' = FALSE
  /\ there' = TRUE
  /\ UNCHANGED <<index, scanning, pc, work, deleting, residue, editing, raced>>

\* CleanupResidualData checks every record against the disk, and purges those
\* that failed the check one by one.
FindResidue ==
  /\ residue = {} /\ residue' = rows \ disk /\ residue' # {}
  /\ UNCHANGED <<there, index, scanning, pc, work, deleting, updating, editing,
                 raced>>

PurgeResidue(f) ==
  /\ f \in residue /\ residue' = residue \ {f}
  /\ \/ rows' = rows \ {f} /\ Disturbs({f}, {})
     \/ UNCHANGED <<rows, excused>>
  /\ UNCHANGED <<there, disk, changes, removals, scanning, pc, work, deleting,
                 updating, editing, raced>>

----------------------------------------------------------------------------
(* Single records, from the administrator's pages and the scrapers.        *)

\* DeleteMedia: an administrator removes a record, not the file, or moves it to
\* another library.
DeleteMedia(f) ==
  /\ f \in rows /\ rows' = rows \ {f} /\ Disturbs({f}, {})
  /\ UNCHANGED <<there, disk, changes, removals, scanning, pc, work, others, raced>>

\* A record is read to be changed: its fields, its poster, what was scraped.
BeginEdit(f) ==
  /\ f \in rows \ editing /\ editing' = editing \cup {f}
  /\ changes < MaxChanges /\ changes' = changes + 1
  /\ UNCHANGED <<there, disk, rows, removals, excused, scanning, pc, work,
                 deleting, updating, residue, raced>>

\* ImportFile looks at the file and for its record, never at the library;
\* BatchMoveMedia looks at the library that a record is to be moved to.
BeginImport(f) ==
  /\ f \notin rows \cup editing /\ (f \in disk \/ there)
  /\ editing' = editing \cup {f}
  /\ changes < MaxChanges /\ changes' = changes + 1
  /\ raced' = (raced \/ deleting = "emptied" \/ ~there)
  /\ UNCHANGED <<there, disk, rows, removals, excused, scanning, pc, work,
                 deleting, updating, residue>>

\* The whole record is saved: one that was deleted since it was read is back.
EndEdit(f) ==
  /\ f \in editing /\ editing' = editing \ {f}
  /\ \/ rows' = rows \cup {f} /\ Disturbs({f}, {})
     \/ UNCHANGED <<rows, excused>>
  /\ UNCHANGED <<there, disk, changes, removals, scanning, pc, work, deleting,
                 updating, residue, raced>>

\* The process ends, whatever it was doing, and starts again: CleanOrphanedData
\* removes the records of a library that is gone, or logs that it cannot.
Restart ==
  /\ pc' = [s \in Scans |-> IF pc[s] = "idle" THEN "idle" ELSE "over"]
  /\ scanning' = None /\ removals' = {}
  /\ known' = [s \in Scans |-> {}] /\ todo' = [s \in Scans |-> {}]
  /\ pending' = [s \in Scans |-> {}] /\ updates' = [s \in Scans |-> {}]
  /\ deleting' = "idle" /\ updating' = FALSE /\ residue' = {}
  /\ editing' = {}
  /\ excused' = [s \in Scans |-> {}]
  /\ \/ rows' = (IF there THEN rows ELSE {}) /\ raced' = FALSE
     \/ UNCHANGED <<rows, raced>>
  /\ UNCHANGED <<there, disk, changes>>

Scan(s) ==
  \/ ReadLibrary(s) \/ Claim(s) \/ CheckPaths(s) \/ CleanIndex(s)
  \/ ListRows(s) \/ EndScan(s) \/ ScanFails(s) \/ ListArtwork(s)
  \/ \E f \in Files :
       \/ Visit(s, f) \/ SaveUpdated(s, f) \/ SaveNew(s, f) \/ Purge(s, f)
       \/ HealArtwork(s, f)
  \/ StoreLibrary(s) \/ Finish(s)

Next ==
  \/ \E f \in Files : Appear(f) \/ Vanish(f) \/ HandleRemoval(f) \/ DeleteMedia(f)
  \/ \E s \in Scans : Scan(s)
  \/ BeginDelete \/ EmptyIndex \/ DeleteFails \/ DeleteLibrary
  \/ BeginUpdate \/ EndUpdate
  \/ FindResidue
  \/ \E f \in Files :
       PurgeResidue(f) \/ BeginEdit(f) \/ BeginImport(f) \/ EndEdit(f)
  \/ Restart

Spec == Init /\ [][Next]_vars

\* A scan that has begun runs on; nothing is assumed of anyone else.
FairSpec ==
  Spec /\ \A s \in Scans : WF_vars(pc[s] # "idle" /\ Scan(s))

----------------------------------------------------------------------------
(* Properties.                                                             *)

\* When a scan has done its work (ScanLibraryWithOptions returns), a file has a
\* record exactly if it is on disk: unless somebody else changed it or its record
\* since the scan listed the records, an error made the scan pass it over, or an
\* organized hardlink stands for it.
ScanIsExact ==
  \A s \in Scans :
    pc[s] \in {"healing", "storing"} =>
      \A f \in Files \ excused[s] : f \in rows <=> f \in disk

\* A library that has been deleted leaves no record behind, except when a scan was
\* running or a record was being saved while Delete emptied the index (it does not
\* look whether one is), or one was scanned or imported into the library after
\* that, and then only until the next start.
DeletedIsEmpty == ~there => rows = {} \/ raced

\* Whichever way a Scan or a Reindex ends, the library can be scanned again.
ScanIsReleased == \A s \in Scans : scanning = s ~> scanning # s
=============================================================================
