---------------------------- MODULE DatabaseRestore ----------------------------
(***************************************************************************)
(* service/system_backup.go: full backups (Create), restore requests       *)
(* (Restore, which stages a database file and a marker for the next start) *)
(* and ApplyPendingDatabaseRestore, which runs before the database is      *)
(* opened. The process may exit between any two steps: what it had written *)
(* to the file system stays, what it was doing is gone.                    *)
(*                                                                         *)
(* A database is the archive it came from and the transactions committed   *)
(* since; the archive a request uploads is named by the request. The       *)
(* files of a backup other than the database are abstracted, except that   *)
(* writing them back may fail. stageDatabase's removal of what an earlier  *)
(* restore has left is taken to succeed; the removals of a start are not,  *)
(* nor are its reads.                                                      *)
(***************************************************************************)
EXTENDS Naturals, FiniteSets

CONSTANTS
  Requests,    \* requests to the backup service, each a backup or a restore
  Names,       \* file names of backups that may be chosen within a minute
  Writes,      \* bound: transactions committed while the server is up
  MaxExits,    \* bound: exits that no restore asked for
  None         \* no file

VARIABLES
  server,      \* the process: down, a step of its start, or up
  exits,
  live, wal,   \* the database file, and the transactions only its -wal holds
  staged,      \* .restore/nowen.db
  marker,      \* .restore/marker.json
  marking,     \* the requests that hold marker.json open for writing
  rollback,    \* .restore/rollback-nowen.db
  pc, name,    \* each request, and the file name its backup takes
  snapshot,    \* .backup-<name>.db
  backup,      \* <name>, the published archive
  \* History, read by the properties alone:
  expected,    \* what the users of the database have been told it holds
  before,      \* what the database held when a request began
  installed,   \* requests whose database has replaced the live one
  deleted,     \* names an administrator deleted
  mishap       \* "rename": a staged database could not be moved into place;
               \* "log": the -wal of the old one could not be removed;
               \* "unread": a whole marker, or the file beside it, could not be
               \* read;
               \* "overlap": two requests restored at once;
               \* "name": two requests chose one file name

disk == <<live, wal, staged, marker, marking, rollback>>
archive == <<name, snapshot, backup, before, deleted>>
vars == <<server, exits, disk, pc, archive, expected, installed, mishap>>

Torn == "torn"
Bases == Requests \cup {"original", "fresh", Torn}
Database == [base : Bases, log : SUBSET Writes]
StagedFile == [of : Requests, writers : SUBSET Requests, whole : BOOLEAN]

ASSUME DatabaseRestoreAssumption ==
  /\ MaxExits \in Nat
  /\ {"original", "fresh", Torn} \cap Requests = {}
  /\ None \notin Database \cup StagedFile \cup Names

Creating == {"named", "snapped"}
Staging == {"cleared", "unmarked", "copying", "copied", "marking"}
Running == Creating \cup Staging \cup {"published", "staged"}
Ended == {"filesOnly", "accepted", "over"}
Starting == {"moved", "unlogged", "installed", "sweep", "open"}

\* The files a database is read from, together.
Contents == [live EXCEPT !.log = @ \cup wal]

\* What a staged file holds if it is taken now: two writers, or one that was
\* interrupted, leave a file that is no database.
DatabaseIn(f) ==
  [base |-> IF f.writers = {} /\ f.whole THEN f.of ELSE Torn, log |-> {}]

TypeOK ==
  /\ server \in {"down", "up"} \cup Starting
  /\ exits \in 0..MaxExits
  /\ live \in Database \cup {None} /\ wal \in SUBSET Writes
  /\ staged \in StagedFile \cup {None}
  /\ marker \in {"none", "torn", "pending", "applied"}
  /\ marking \in SUBSET Requests
  /\ rollback \in Database \cup {None}
  /\ pc \in [Requests -> {"idle"} \cup Running \cup Ended]
  /\ name \in [Requests -> Names \cup {None}]
  /\ snapshot \in [Names -> Database \cup {None}]
  /\ backup \in [Names -> Database \cup {None}]
  /\ expected \in Database
  /\ before \in [Requests -> Database \cup {None}]
  /\ installed \in SUBSET Requests /\ deleted \in SUBSET Names
  /\ mishap \in SUBSET {"rename", "log", "unread", "overlap", "name"}

Init ==
  /\ server = "down" /\ exits = 0
  /\ live = [base |-> "original", log |-> {}] /\ wal = {}
  /\ staged = None /\ marker = "none" /\ marking = {} /\ rollback = None
  /\ pc = [r \in Requests |-> "idle"] /\ name = [r \in Requests |-> None]
  /\ snapshot = [n \in Names |-> None] /\ backup = [n \in Names |-> None]
  /\ expected = live /\ before = [r \in Requests |-> None]
  /\ installed = {} /\ deleted = {} /\ mishap = {}

\* Request r moves on; only a server that is up runs requests.
Goes(r, from, to) ==
  /\ server = "up" /\ pc[r] \in from
  /\ pc' = [pc EXCEPT ![r] = to]

----------------------------------------------------------------------------
(* The database in use. A commit goes to the -wal file; a checkpoint moves *)
(* it to the database file. The file is never closed before the process    *)
(* ends, so an exit leaves the -wal behind.                                *)

Commit(w) ==
  /\ server = "up" /\ w \notin expected.log
  /\ wal' = wal \cup {w}
  /\ expected' = [expected EXCEPT !.log = @ \cup {w}]
  /\ UNCHANGED <<server, exits, live, staged, marker, marking, rollback, pc,
                 archive, installed, mishap>>

Checkpoint ==
  /\ server = "up" /\ wal # {}
  /\ live' = Contents /\ wal' = {}
  /\ UNCHANGED <<server, exits, staged, marker, marking, rollback, pc, archive,
                 expected, installed, mishap>>

----------------------------------------------------------------------------
(* Create.                                                                 *)

\* nextFileName: a name no published backup has. A request that has chosen a
\* name has not taken it yet.
NextFileName(r, n) ==
  /\ Goes(r, {"idle"}, "named")
  /\ backup[n] = None
  /\ name' = [name EXCEPT ![r] = n]
  /\ before' = [before EXCEPT ![r] = Contents]
  /\ mishap' = mishap \cup
       {"name" : q \in {q \in Requests \ {r} :
                          pc[q] \in Creating /\ name[q] = n}}
  /\ UNCHANGED <<server, exits, disk, snapshot, backup, deleted, expected,
                 installed>>

\* Mutant of SnapshotDatabase: the database file is copied without its -wal.
SnapshotFileOnly(r) ==
  /\ Goes(r, {"named"}, "snapped")
  /\ snapshot[name[r]] = None
  /\ snapshot' = [snapshot EXCEPT ![name[r]] = live]
  /\ UNCHANGED <<server, exits, disk, name, backup, before, deleted, expected,
                 installed, mishap>>

\* snapshotDatabase: VACUUM INTO reads the committed state and refuses a file
\* that exists.
SnapshotDatabase(r) ==
  /\ Goes(r, {"named"}, "snapped")
  /\ snapshot[name[r]] = None
  /\ snapshot' = [snapshot EXCEPT ![name[r]] = Contents]
  /\ UNCHANGED <<server, exits, disk, name, backup, before, deleted, expected,
                 installed, mishap>>

\* The archive is written beside its name, renamed to it, and the snapshot
\* goes.
PublishBackup(r) ==
  /\ Goes(r, {"snapped"}, "published")
  /\ backup' = [backup EXCEPT ![name[r]] = snapshot[name[r]]]
  /\ snapshot' = [snapshot EXCEPT ![name[r]] = None]
  /\ UNCHANGED <<server, exits, disk, name, before, deleted, expected,
                 installed, mishap>>

\* Create fails: in VACUUM INTO, always when another request's snapshot or one
\* an exit left behind has the name, or in writing the archive.
CreateFails(r) ==
  /\ Goes(r, Creating, "over")
  /\ snapshot' = IF pc[r] = "snapped"
                   THEN [snapshot EXCEPT ![name[r]] = None] ELSE snapshot
  /\ UNCHANGED <<server, exits, disk, name, backup, before, deleted, expected,
                 installed, mishap>>

\* Delete.
DeleteBackup(n) ==
  /\ server = "up" /\ backup[n] # None
  /\ backup' = [backup EXCEPT ![n] = None]
  /\ deleted' = deleted \cup {n}
  /\ UNCHANGED <<server, exits, disk, pc, name, snapshot, before, expected,
                 installed, mishap>>

----------------------------------------------------------------------------
(* Restore after its backup: stageDatabase, then the other files.          *)

\* A backup ends here; a restore may still be refused (upload, zip, format), or
\* hold no database, and then it ends the process all the same.
EndWithoutDatabase(r) ==
  /\ \/ Goes(r, {"published"}, "over")
     \/ Goes(r, {"published"}, "filesOnly")
  /\ UNCHANGED <<server, exits, disk, archive, expected, installed, mishap>>

ClearStagedDatabase(r) ==
  /\ Goes(r, {"published"}, "cleared")
  /\ staged' = None /\ rollback' = None
  /\ mishap' = mishap \cup
       {"overlap" : q \in {q \in Requests \ {r} :
                             pc[q] \in Staging \cup {"staged"}}}
  /\ UNCHANGED <<server, exits, live, wal, marker, marking, archive, expected,
                 installed>>

\* Mutant of ClearMarker: the marker of an earlier restore stays.
KeepMarker(r) ==
  /\ Goes(r, {"cleared"}, "unmarked")
  /\ UNCHANGED <<server, exits, disk, archive, expected, installed, mishap>>

ClearMarker(r) ==
  /\ Goes(r, {"cleared"}, "unmarked")
  /\ marker' = "none" /\ marking' = {}
  /\ UNCHANGED <<server, exits, live, wal, staged, rollback, archive, expected,
                 installed, mishap>>

\* copyFilePreserving opens the destination with os.Create, which truncates the
\* file of another request that is still writing it.
BeginCopy(r) ==
  /\ Goes(r, {"unmarked"}, "copying")
  /\ staged' =
       IF staged = None THEN [of |-> r, writers |-> {r}, whole |-> TRUE]
       ELSE [of |-> r, writers |-> staged.writers \cup {r},
             whole |-> staged.writers = {}]
  /\ UNCHANGED <<server, exits, live, wal, marker, marking, rollback, archive,
                 expected, installed, mishap>>

\* r writes no more; the file it wrote may have been removed meanwhile.
StopsWriting(r) ==
  IF staged = None THEN None ELSE [staged EXCEPT !.writers = @ \ {r}]

EndCopy(r) ==
  /\ Goes(r, {"copying"}, "copied")
  /\ staged' = StopsWriting(r)
  /\ UNCHANGED <<server, exits, live, wal, marker, marking, rollback, archive,
                 expected, installed, mishap>>

\* A failed copy removes the path, a failed sync does not.
CopyFails(r) ==
  /\ Goes(r, {"copying"}, "over")
  /\ staged' \in {None, StopsWriting(r)}
  /\ UNCHANGED <<server, exits, live, wal, marker, marking, rollback, archive,
                 expected, installed, mishap>>

BeginMarker(r) ==
  /\ Goes(r, {"copied"}, "marking")
  /\ marker' = "torn" /\ marking' = marking \cup {r}
  /\ UNCHANGED <<server, exits, live, wal, staged, rollback, archive, expected,
                 installed, mishap>>

\* Mutant of EndMarker: a failed write of the marker is not noticed.
EndMarkerUnchecked(r) ==
  /\ Goes(r, {"marking"}, "staged")
  /\ marker' \in {"pending", marker}
  /\ marking' = marking \ {r}
  /\ UNCHANGED <<server, exits, live, wal, staged, rollback, archive, expected,
                 installed, mishap>>

EndMarker(r) ==
  /\ \/ /\ Goes(r, {"marking"}, "staged")
        /\ marker' = IF r \in marking THEN "pending" ELSE marker
     \/ Goes(r, {"marking"}, "over") /\ UNCHANGED marker
  /\ marking' = marking \ {r}
  /\ UNCHANGED <<server, exits, live, wal, staged, rollback, archive, expected,
                 installed, mishap>>

\* Configuration, data and resources are written back at once; when that fails
\* the request is refused, and the database stays staged.
WriteBackFiles(r) ==
  /\ \/ Goes(r, {"staged"}, "accepted")
     \/ Goes(r, {"staged"}, "over")
  /\ UNCHANGED <<server, exits, disk, archive, expected, installed, mishap>>

----------------------------------------------------------------------------
(* The process ends; maybeRestartAfterRestore ends it on purpose.          *)

Exit ==
  /\ server' = "down"
  /\ pc' = [r \in Requests |-> IF pc[r] = "idle" THEN "idle" ELSE "over"]
  /\ staged' = IF staged = None THEN None
               ELSE [staged EXCEPT !.writers = {},
                                   !.whole = @ /\ staged.writers = {}]
  /\ marking' = {}
  /\ UNCHANGED <<live, wal, marker, rollback, archive, expected, installed,
                 mishap>>

Crash == server # "down" /\ exits < MaxExits /\ exits' = exits + 1 /\ Exit

RestartAfterRestore ==
  /\ \E r \in Requests : pc[r] \in {"accepted", "filesOnly"}
  /\ UNCHANGED exits /\ Exit

----------------------------------------------------------------------------
(* ApplyPendingDatabaseRestore, then openDatabase.                         *)

\* A restore is ready when its marker is whole and its database is there.
Ready == marker = "pending" /\ staged # None

\* The live file moves aside, or cannot.
ReadMarker ==
  /\ server = "down" /\ Ready
  /\ server' = "moved"
  /\ \/ live # None /\ rollback' = live /\ live' = None
     \/ UNCHANGED <<live, rollback>>
  /\ UNCHANGED <<exits, wal, staged, marker, marking, pc, archive, expected,
                 installed, mishap>>

\* Without a marker there is nothing to do; a marker that is torn, that was
\* applied, or that is without its database, is swept away. So is a restore that
\* is ready, when reading it fails.
SkipMarker ==
  /\ server = "down"
  /\ server' = IF marker = "none" THEN "open" ELSE "sweep"
  /\ mishap' = IF Ready THEN mishap \cup {"unread"} ELSE mishap
  /\ UNCHANGED <<exits, disk, pc, archive, expected, installed>>

\* Mutant of RemoveLog: the -wal is looked for where a database file is, after
\* that file has moved.
RemoveLogBesideFile ==
  /\ server = "moved" /\ server' = "unlogged"
  /\ wal' = IF live = None THEN wal ELSE {}
  /\ UNCHANGED <<exits, live, staged, marker, marking, rollback, pc, archive,
                 expected, installed, mishap>>

\* The -wal goes, or stays, which nobody looks at: SQLite then reads it with
\* whatever database file it finds beside it.
RemoveLog ==
  /\ server = "moved" /\ server' = "unlogged"
  /\ \/ wal' = {} /\ UNCHANGED mishap
     \/ wal # {} /\ UNCHANGED wal /\ mishap' = mishap \cup {"log"}
  /\ UNCHANGED <<exits, live, staged, marker, marking, rollback, pc, archive,
                 expected, installed>>

\* Mutant of InstallStaged: the staged file is copied, not moved.
CopyStaged ==
  /\ server = "unlogged" /\ server' = "installed"
  /\ live' = DatabaseIn(staged)
  /\ expected' = live' /\ installed' = installed \cup {staged.of}
  /\ UNCHANGED <<exits, wal, staged, marker, marking, rollback, pc, archive,
                 mishap>>

InstallStaged ==
  /\ server = "unlogged" /\ server' = "installed"
  /\ live' = DatabaseIn(staged) /\ staged' = None
  /\ expected' = live' /\ installed' = installed \cup {staged.of}
  /\ UNCHANGED <<exits, wal, marker, marking, rollback, pc, archive, mishap>>

\* The rename fails: a database that moved aside moves back, or cannot.
InstallFails ==
  /\ server = "unlogged" /\ server' = "open"
  /\ \/ rollback # None /\ live' = rollback /\ rollback' = None
     \/ UNCHANGED <<live, rollback>>
  /\ mishap' = mishap \cup {"rename"}
  /\ UNCHANGED <<exits, wal, staged, marker, marking, pc, archive, expected,
                 installed>>

\* The marker is rewritten as applied, which may fail or be cut short.
MarkApplied ==
  /\ server = "installed" /\ server' = "sweep"
  /\ marker' \in {"applied", "torn", marker}
  /\ UNCHANGED <<exits, live, wal, staged, marking, rollback, pc, archive,
                 expected, installed, mishap>>

\* RemoveAll of the staging directory, file by file in no known order; it ends
\* when it is done and when it fails.
Sweep ==
  /\ server = "sweep"
  /\ \/ staged' = None /\ UNCHANGED <<server, marker, rollback>>
     \/ marker' = "none" /\ UNCHANGED <<server, staged, rollback>>
     \/ rollback' = None /\ UNCHANGED <<server, staged, marker>>
     \/ server' = "open" /\ UNCHANGED <<staged, marker, rollback>>
  /\ UNCHANGED <<exits, live, wal, marking, pc, archive, expected, installed,
                 mishap>>

\* SQLite creates a database that is missing.
OpenDatabase ==
  /\ server = "open" /\ server' = "up"
  /\ live' = IF live = None THEN [base |-> "fresh", log |-> {}] ELSE live
  /\ UNCHANGED <<exits, wal, staged, marker, marking, rollback, pc, archive,
                 expected, installed, mishap>>

Start == ReadMarker \/ SkipMarker \/ RemoveLog \/ InstallStaged \/ InstallFails
         \/ MarkApplied \/ Sweep \/ OpenDatabase

Request(r) ==
  \/ \E n \in Names : NextFileName(r, n)
  \/ SnapshotDatabase(r) \/ PublishBackup(r) \/ CreateFails(r)
  \/ EndWithoutDatabase(r)
  \/ ClearStagedDatabase(r) \/ ClearMarker(r)
  \/ BeginCopy(r) \/ EndCopy(r) \/ CopyFails(r)
  \/ BeginMarker(r) \/ EndMarker(r) \/ WriteBackFiles(r)

Next ==
  \/ \E w \in Writes : Commit(w)
  \/ Checkpoint
  \/ \E r \in Requests : Request(r)
  \/ \E n \in Names : DeleteBackup(n)
  \/ Crash \/ RestartAfterRestore
  \/ Start

Spec == Init /\ [][Next]_vars

\* A start runs to its end, and a restore that was accepted ends the process
\* (app.restart_after_restore); nothing is assumed of requests or of failures.
FairSpec == Spec /\ WF_vars(Start) /\ WF_vars(RestartAfterRestore)

----------------------------------------------------------------------------
(* Properties.                                                             *)

\* The live database is never half a file (ApplyPendingDatabaseRestore installs
\* whatever the marker stands beside), wherever the process exits, except when
\* two requests restore at once: nothing serialises them.
LiveIsWhole ==
  (live # None /\ live.base = Torn) => "overlap" \in mishap

\* The database that is served holds every transaction committed since the last
\* restore took effect and nothing else, except after a staged database could
\* not be moved into place, the -wal of the old one could not be removed, or a
\* restore could not be read: by then an earlier start, cut short, may have moved
\* the live file to the directory that is swept.
CommittedKept ==
  server = "up" =>
    Contents = expected \/ mishap \cap {"rename", "log", "unread"} # {}

\* The safety net of a restore that took effect: the backup it made first is
\* listed and holds what the database held when the restore began, unless it was
\* deleted or two requests chose one name.
SafetyNet ==
  \A r \in installed :
    \/ name[r] \in deleted \/ "name" \in mishap
    \/ /\ backup[name[r]] # None
       /\ backup[name[r]].base = before[r].base
       /\ before[r].log \subseteq backup[name[r]].log

\* A restore takes effect once: no later start puts its database back over what
\* has been committed since.
InstalledOnce ==
  [][\A r \in Requests :
       (server = "unlogged" /\ server' = "installed" /\ staged.of = r)
         => r \notin installed]_vars

\* A restore that was accepted and is what is staged takes effect at the restart
\* it asks for, wherever that start is cut short, unless another request replaces
\* it first, or the start cannot read it or cannot move it into place.
RestoreTakesEffect ==
  \A r \in Requests :
    (pc[r] = "accepted" /\ staged # None /\ staged.of = r) ~>
      \/ r \in installed \/ mishap \cap {"rename", "unread", "overlap"} # {}
      \/ \E q \in Requests \ {r} : pc[q] \in Staging

\* The database that was in use is a rollback copy while a restore is applied
\* (ApplyPendingDatabaseRestore): when it is served again it holds what had been
\* committed.
RollbackIsComplete ==
  (server = "up" /\ live.base = expected.base) => Contents = expected
\* The database that is served, and while none is, the one that is to be.
Served == IF server = "up" THEN Contents ELSE expected

Durable == INSTANCE RestorableDatabase WITH
  serving <- server = "up",
  content <- Served,
  asked <- {r \in Requests : pc[r] # "idle"},
  mishap <- mishap \ {"name"}

\* To its users the database is what RestorableDatabase says, wherever a backup, a
\* restore or a start is cut short: all that was committed, replaced as a whole
\* by a restore, never by the same one twice and never while they use it.
DurableSpec == Durable!Spec

=============================================================================
