------------------------- MODULE DatabaseRestoreProofs -------------------------
(***************************************************************************)
(* The safety properties of DatabaseRestore for any number of requests,    *)
(* file names, transactions and exits.                                     *)
(***************************************************************************)
EXTENDS DatabaseRestore, TLAPS

Restoring == Staging \cup {"staged"}

\* Requests run in a server that is up; a start that is past the marker has a
\* database to install, and past the log there is none, unless removing it
\* failed. A request that has begun has a name.
Phases ==
  /\ server # "up" => \A r \in Requests : pc[r] \notin Running
  /\ server \in {"moved", "unlogged"} => Ready
  /\ server = "unlogged" => wal = {} \/ "log" \in mishap
  /\ server = "up" => live # None
  /\ \A r \in Requests : pc[r] # "idle" => name[r] \in Names /\ before[r] # None

\* Until a step of a start fails the database is complete, or is about to be
\* replaced.
Complete ==
  mishap \cap {"rename", "log", "unread"} = {} =>
    \/ live # None /\ Contents = expected
    \/ Ready /\ server \in {"down", "moved", "unlogged"}

\* What a request that restores alone has made of the staging directory.
Progress(r) ==
  /\ pc[r] = "cleared" => staged = None
  /\ pc[r] = "unmarked" => staged = None /\ marker = "none"
  /\ pc[r] = "copying" =>
       staged # None /\ staged.writers = {r} /\ staged.whole /\ marker = "none"
  /\ pc[r] = "copied" =>
       staged # None /\ staged.writers = {} /\ staged.whole /\ marker = "none"
  /\ pc[r] = "marking" =>
       staged # None /\ staged.writers = {} /\ staged.whole /\ marker = "torn"

\* While no two requests restore at once, a pending marker stands beside a whole
\* database, and the live one and its rollback copy are whole.
Whole ==
  "overlap" \notin mishap =>
    /\ \A q, r \in Requests :
         (pc[q] \in Restoring /\ pc[r] \in Restoring) => q = r
    /\ Ready => staged.writers = {} /\ staged.whole
    /\ \A r \in Requests : Progress(r)
    /\ live # None => live.base # Torn
    /\ rollback # None => rollback.base # Torn

\* A request that was installed is over, and what is staged has not been.
Once ==
  /\ \A r \in installed : pc[r] \in Ended
  /\ staged # None =>
       /\ staged.of \notin installed
       /\ pc[staged.of] \in {"copying", "copied", "marking", "staged"} \cup Ended

Covers(d, r) ==
  d # None /\ d.base = before[r].base /\ before[r].log \subseteq d.log

\* The requests whose backup has been published.
Safe(r) ==
  \/ pc[r] \in {"published", "staged"} \cup Staging
  \/ staged # None /\ staged.of = r
  \/ r \in installed

\* The backup of each request, from the choice of its name on.
Net ==
  /\ \A r \in Requests : Safe(r) => pc[r] \notin {"idle"} \cup Creating
  /\ \A r \in Requests : pc[r] = "named" => Covers(Contents, r)
  /\ "name" \notin mishap =>
       \A r \in Requests :
         /\ pc[r] = "snapped" => Covers(snapshot[name[r]], r)
         /\ \A q \in Requests \ {r} :
              (pc[q] \in Creating /\ pc[r] \in Creating) => name[q] # name[r]
         /\ Safe(r) =>
              \/ name[r] \in deleted
              \/ /\ Covers(backup[name[r]], r)
                 /\ \A q \in Requests : pc[q] \in Creating => name[q] # name[r]

IInv == TypeOK /\ Phases /\ Complete /\ Whole /\ Once /\ Net

\* A served database is a database.
LEMMA ServedType ==
  ASSUME TypeOK, live # None
  PROVE  Contents \in Database /\ Contents.base = live.base
  <1>1. live \in Database
    BY DEF TypeOK
  <1>. QED BY <1>1 DEF TypeOK, Contents, Database

LEMMA NoFile == None \notin Database /\ None \notin StagedFile
  BY DatabaseRestoreAssumption

\* Every step keeps the types.
LEMMA TypeStep ==
  ASSUME TypeOK, Phases, [Next]_vars
  PROVE  TypeOK'
<1> USE
  DEF TypeOK, Database, StagedFile, Bases, Starting, Running, Creating,
      Staging, Ended, disk, archive, Phases
<1>1. ASSUME NEW w \in Writes, Commit(w) PROVE TypeOK'
  BY <1>1 DEF Commit
<1>2. CASE Checkpoint
  BY <1>2 DEF Checkpoint, Contents
<1>3. ASSUME NEW r \in Requests, NEW n \in Names, NextFileName(r, n) PROVE TypeOK'
  BY <1>3 DEF NextFileName, Goes, Contents
<1>4. ASSUME NEW r \in Requests, SnapshotDatabase(r) PROVE TypeOK'
  <2>1. name[r] \in Names /\ Contents \in Database
    BY <1>4, ServedType DEF SnapshotDatabase, Goes
  <2>2. snapshot' \in [Names -> Database \cup {None}]
    BY <1>4, <2>1 DEF SnapshotDatabase
  <2>. QED BY <1>4, <2>2 DEF SnapshotDatabase, Goes
<1>5. ASSUME NEW r \in Requests, PublishBackup(r) PROVE TypeOK'
  <2>1. name[r] \in Names
    BY <1>5 DEF PublishBackup, Goes
  <2>2. /\ snapshot' \in [Names -> Database \cup {None}]
        /\ backup' \in [Names -> Database \cup {None}]
    BY <1>5, <2>1 DEF PublishBackup
  <2>. QED BY <1>5, <2>2 DEF PublishBackup, Goes
<1>6. ASSUME NEW r \in Requests, CreateFails(r) PROVE TypeOK'
  <2>1. name[r] \in Names
    BY <1>6 DEF CreateFails, Goes
  <2>2. snapshot' \in [Names -> Database \cup {None}]
    BY <1>6, <2>1 DEF CreateFails
  <2>. QED BY <1>6, <2>2 DEF CreateFails, Goes
<1>7. ASSUME NEW r \in Requests, EndWithoutDatabase(r) PROVE TypeOK'
  BY <1>7 DEF EndWithoutDatabase, Goes
<1>8. ASSUME NEW r \in Requests, ClearStagedDatabase(r) PROVE TypeOK'
  BY <1>8 DEF ClearStagedDatabase, Goes
<1>9. ASSUME NEW r \in Requests, ClearMarker(r) PROVE TypeOK'
  BY <1>9 DEF ClearMarker, Goes
<1>10. ASSUME NEW r \in Requests, BeginCopy(r) PROVE TypeOK'
  BY <1>10 DEF BeginCopy, Goes
<1>11. ASSUME NEW r \in Requests, EndCopy(r) PROVE TypeOK'
  BY <1>11 DEF EndCopy, Goes, StopsWriting
<1>12. ASSUME NEW r \in Requests, CopyFails(r) PROVE TypeOK'
  BY <1>12 DEF CopyFails, Goes, StopsWriting
<1>13. ASSUME NEW r \in Requests, BeginMarker(r) PROVE TypeOK'
  BY <1>13 DEF BeginMarker, Goes
<1>14. ASSUME NEW r \in Requests, EndMarker(r) PROVE TypeOK'
  BY <1>14 DEF EndMarker, Goes
<1>15. ASSUME NEW r \in Requests, WriteBackFiles(r) PROVE TypeOK'
  BY <1>15 DEF WriteBackFiles, Goes
<1>16. ASSUME NEW n \in Names, DeleteBackup(n) PROVE TypeOK'
  BY <1>16 DEF DeleteBackup
<1>17. CASE Crash
  <2>1. staged' \in StagedFile \cup {None}
    BY <1>17 DEF Crash, Exit
  <2>2. pc' \in [Requests -> {"idle"} \cup Running \cup Ended]
    BY <1>17 DEF Crash, Exit
  <2>3. exits' \in 0..MaxExits
    BY <1>17, DatabaseRestoreAssumption DEF Crash, Exit
  <2>. QED BY <1>17, <2>1, <2>2, <2>3 DEF Crash, Exit
<1>18. CASE RestartAfterRestore
  <2>1. staged' \in StagedFile \cup {None}
    BY <1>18 DEF RestartAfterRestore, Exit
  <2>2. pc' \in [Requests -> {"idle"} \cup Running \cup Ended]
    BY <1>18 DEF RestartAfterRestore, Exit
  <2>3. exits' \in 0..MaxExits
    BY <1>18 DEF RestartAfterRestore, Exit
  <2>. QED BY <1>18, <2>1, <2>2, <2>3 DEF RestartAfterRestore, Exit
<1>19. CASE ReadMarker \/ SkipMarker
  BY <1>19 DEF ReadMarker, SkipMarker
<1>20. CASE RemoveLog
  <2>1. /\ wal' \in {{}, wal} /\ server' = "unlogged"
        /\ mishap' \in {mishap, mishap \cup {"log"}}
    BY <1>20 DEF RemoveLog
  <2>2. wal' \in SUBSET Writes
    BY <2>1
  <2>3. mishap' \in SUBSET {"rename", "log", "unread", "overlap", "name"}
    BY <2>1
  <2>. QED BY <1>20, <2>1, <2>2, <2>3 DEF RemoveLog
<1>21. CASE InstallStaged
  <2>1. staged \in StagedFile
    BY <1>21 DEF Ready, InstallStaged
  <2>2. DatabaseIn(staged) \in Database
    BY <2>1 DEF DatabaseIn
  <2>. QED BY <1>21, <2>1, <2>2 DEF InstallStaged
<1>22. CASE InstallFails
  BY <1>22 DEF InstallFails
<1>23. CASE MarkApplied
  BY <1>23 DEF MarkApplied
<1>24. CASE Sweep
  BY <1>24 DEF Sweep
<1>25. CASE OpenDatabase
  BY <1>25 DEF OpenDatabase
<1>26. CASE UNCHANGED vars
  BY <1>26 DEF vars
<1> QED
      BY <1>1, <1>2, <1>3, <1>4, <1>5, <1>6, <1>7, <1>8, <1>9,
         <1>10, <1>11, <1>12, <1>13, <1>14, <1>15, <1>16, <1>17, <1>18,
         <1>19, <1>20, <1>21, <1>22, <1>23, <1>24, <1>25, <1>26
      DEF Next, Request, Start

\* Every step keeps the phases of a start apart from the requests.
LEMMA PhasesStep ==
  ASSUME TypeOK, TypeOK', Phases, [Next]_vars
  PROVE  Phases'
<1> USE
  DEF TypeOK, Phases, Ready, disk, archive, Starting, Running, Creating,
      Staging, Ended
<1>1. ASSUME NEW w \in Writes, Commit(w) PROVE Phases'
  BY <1>1 DEF Commit
<1>2. CASE Checkpoint
  BY <1>2, ServedType, NoFile
  DEF Checkpoint
<1>3. ASSUME NEW r \in Requests, NEW n \in Names, NextFileName(r, n) PROVE Phases'
  <2>1. Contents # None
    BY <1>3, ServedType, NoFile DEF NextFileName, Goes
  <2>. QED BY <1>3, <2>1 DEF NextFileName, Goes
<1>4. ASSUME NEW r \in Requests, SnapshotDatabase(r) PROVE Phases'
  BY <1>4 DEF SnapshotDatabase, Goes, Contents
<1>5. ASSUME NEW r \in Requests, PublishBackup(r) PROVE Phases'
  BY <1>5 DEF PublishBackup, Goes
<1>6. ASSUME NEW r \in Requests, CreateFails(r) PROVE Phases'
  BY <1>6 DEF CreateFails, Goes
<1>7. ASSUME NEW r \in Requests, EndWithoutDatabase(r) PROVE Phases'
  BY <1>7 DEF EndWithoutDatabase, Goes
<1>8. ASSUME NEW r \in Requests, ClearStagedDatabase(r) PROVE Phases'
  BY <1>8 DEF ClearStagedDatabase, Goes
<1>9. ASSUME NEW r \in Requests, ClearMarker(r) PROVE Phases'
  BY <1>9 DEF ClearMarker, Goes
<1>10. ASSUME NEW r \in Requests, BeginCopy(r) PROVE Phases'
  BY <1>10 DEF BeginCopy, Goes
<1>11. ASSUME NEW r \in Requests, EndCopy(r) PROVE Phases'
  BY <1>11 DEF EndCopy, Goes, StopsWriting
<1>12. ASSUME NEW r \in Requests, CopyFails(r) PROVE Phases'
  BY <1>12 DEF CopyFails, Goes, StopsWriting
<1>13. ASSUME NEW r \in Requests, BeginMarker(r) PROVE Phases'
  BY <1>13 DEF BeginMarker, Goes
<1>14. ASSUME NEW r \in Requests, EndMarker(r) PROVE Phases'
  BY <1>14 DEF EndMarker, Goes
<1>15. ASSUME NEW r \in Requests, WriteBackFiles(r) PROVE Phases'
  BY <1>15 DEF WriteBackFiles, Goes
<1>16. ASSUME NEW n \in Names, DeleteBackup(n) PROVE Phases'
  BY <1>16 DEF DeleteBackup
<1>17. CASE Crash
  BY <1>17 DEF Crash, Exit
<1>18. CASE RestartAfterRestore
  BY <1>18 DEF RestartAfterRestore, Exit
<1>19. CASE ReadMarker \/ SkipMarker
  BY <1>19 DEF ReadMarker, SkipMarker
<1>20. CASE RemoveLog
  BY <1>20 DEF RemoveLog
<1>21. CASE InstallStaged
  BY <1>21 DEF InstallStaged, DatabaseIn
<1>22. CASE InstallFails
  BY <1>22 DEF InstallFails
<1>23. CASE MarkApplied
  BY <1>23 DEF MarkApplied
<1>24. CASE Sweep
  BY <1>24 DEF Sweep
<1>25. CASE OpenDatabase
  <2>1. live' # None
    BY <1>25, NoFile DEF OpenDatabase, Database, Bases
  <2>. QED BY <1>25, <2>1 DEF OpenDatabase
<1>26. CASE UNCHANGED vars
  BY <1>26 DEF vars
<1> QED
      BY <1>1, <1>2, <1>3, <1>4, <1>5, <1>6, <1>7, <1>8, <1>9,
         <1>10, <1>11, <1>12, <1>13, <1>14, <1>15, <1>16, <1>17, <1>18,
         <1>19, <1>20, <1>21, <1>22, <1>23, <1>24, <1>25, <1>26
      DEF Next, Request, Start

\* Every step keeps the database complete, or about to be replaced.
LEMMA CompleteStep ==
  ASSUME TypeOK, TypeOK', Phases, Complete, [Next]_vars
  PROVE  Complete'
<1> USE
  DEF TypeOK, Phases, Complete, Ready, Contents, Database, disk, archive,
      Starting
<1>1. ASSUME NEW w \in Writes, Commit(w) PROVE Complete'
  BY <1>1 DEF Commit
<1>2. CASE Checkpoint
  <2> HIDE
    DEF TypeOK, Phases, Complete, Ready, Contents, Database, disk, archive,
        Starting
  <2>1. \/ live \in Database /\ live # None /\ Contents = expected
        \/ mishap \cap {"rename", "log", "unread"} # {}
    BY <1>2 DEF TypeOK, Complete, Checkpoint
  <2>2. live \in Database => /\ live' \in Database /\ live' # None
                              /\ Contents' = Contents
    <3> SUFFICES ASSUME live \in Database
                 PROVE  /\ live' \in Database /\ live' # None
                        /\ Contents' = Contents
      OBVIOUS
    <3> DEFINE d == [live EXCEPT !.log = @ \cup wal]
    <3>1. d \in Database /\ [d EXCEPT !.log = @ \cup {}] = d
      BY DEF TypeOK, Database
    <3>2. live' = d /\ wal' = {} /\ Contents = d
      BY <1>2 DEF Checkpoint, Contents
    <3> HIDE
      DEF d
    <3>3. Contents' = [d EXCEPT !.log = @ \cup {}]
      BY <3>2 DEF Contents
    <3>. QED BY <3>1, <3>2, <3>3, NoFile
  <2>. QED BY <1>2, <2>1, <2>2 DEF Complete, Checkpoint
<1>3. ASSUME NEW r \in Requests, NEW n \in Names, NextFileName(r, n) PROVE Complete'
  BY <1>3 DEF NextFileName, Goes, Contents
<1>4. ASSUME NEW r \in Requests, SnapshotDatabase(r) PROVE Complete'
  BY <1>4 DEF SnapshotDatabase, Goes, Contents
<1>5. ASSUME NEW r \in Requests, PublishBackup(r) PROVE Complete'
  BY <1>5 DEF PublishBackup, Goes
<1>6. ASSUME NEW r \in Requests, CreateFails(r) PROVE Complete'
  BY <1>6 DEF CreateFails, Goes
<1>7. ASSUME NEW r \in Requests, EndWithoutDatabase(r) PROVE Complete'
  BY <1>7 DEF EndWithoutDatabase, Goes
<1>8. ASSUME NEW r \in Requests, ClearStagedDatabase(r) PROVE Complete'
  BY <1>8 DEF ClearStagedDatabase, Goes
<1>9. ASSUME NEW r \in Requests, ClearMarker(r) PROVE Complete'
  BY <1>9 DEF ClearMarker, Goes
<1>10. ASSUME NEW r \in Requests, BeginCopy(r) PROVE Complete'
  BY <1>10 DEF BeginCopy, Goes
<1>11. ASSUME NEW r \in Requests, EndCopy(r) PROVE Complete'
  BY <1>11 DEF EndCopy, Goes, StopsWriting
<1>12. ASSUME NEW r \in Requests, CopyFails(r) PROVE Complete'
  BY <1>12 DEF CopyFails, Goes, StopsWriting
<1>13. ASSUME NEW r \in Requests, BeginMarker(r) PROVE Complete'
  BY <1>13 DEF BeginMarker, Goes
<1>14. ASSUME NEW r \in Requests, EndMarker(r) PROVE Complete'
  BY <1>14 DEF EndMarker, Goes
<1>15. ASSUME NEW r \in Requests, WriteBackFiles(r) PROVE Complete'
  BY <1>15 DEF WriteBackFiles, Goes
<1>16. ASSUME NEW n \in Names, DeleteBackup(n) PROVE Complete'
  BY <1>16 DEF DeleteBackup
<1>17. CASE Crash
  <2> HIDE
    DEF TypeOK, Phases, Complete, Ready, Contents, Database, disk, archive,
        Starting
  <2>1. Ready => Ready'
    BY <1>17, NoFile DEF TypeOK, Crash, Exit, Ready, StagedFile
  <2>2. live' = live /\ Contents' = Contents /\ expected' = expected
        /\ mishap' = mishap /\ server' = "down"
    BY <1>17 DEF Crash, Exit, Contents
  <2>. QED BY <2>1, <2>2 DEF Complete
<1>18. CASE RestartAfterRestore
  <2> HIDE
    DEF TypeOK, Phases, Complete, Ready, Contents, Database, disk, archive,
        Starting
  <2>1. Ready => Ready'
    BY <1>18, NoFile DEF TypeOK, RestartAfterRestore, Exit, Ready, StagedFile
  <2>2. live' = live /\ Contents' = Contents /\ expected' = expected
        /\ mishap' = mishap /\ server' = "down"
    BY <1>18 DEF RestartAfterRestore, Exit, Contents
  <2>. QED BY <2>1, <2>2 DEF Complete
<1>19. CASE ReadMarker \/ SkipMarker
  BY <1>19 DEF ReadMarker, SkipMarker
<1>20. CASE RemoveLog
  BY <1>20 DEF RemoveLog
<1>21. CASE InstallStaged
  <2>1. staged \in StagedFile /\ (wal = {} \/ "log" \in mishap)
    BY <1>21 DEF InstallStaged
  <2>2. DatabaseIn(staged) \in Database /\ DatabaseIn(staged).log = {}
    BY <2>1 DEF DatabaseIn, StagedFile, Bases
  <2>3. live' # None /\ wal' = wal
    BY <1>21, <2>2, NoFile DEF InstallStaged
  <2>4. wal = {} => Contents' = live'
    BY <1>21, <2>2, <2>3 DEF InstallStaged
  <2>. QED BY <1>21, <2>1, <2>3, <2>4 DEF InstallStaged
<1>22. CASE InstallFails
  BY <1>22 DEF InstallFails
<1>23. CASE MarkApplied
  BY <1>23 DEF MarkApplied
<1>24. CASE Sweep
  BY <1>24 DEF Sweep
<1>25. CASE OpenDatabase
  BY <1>25 DEF OpenDatabase
<1>26. CASE UNCHANGED vars
  BY <1>26 DEF vars
<1> QED
      BY <1>1, <1>2, <1>3, <1>4, <1>5, <1>6, <1>7, <1>8, <1>9,
         <1>10, <1>11, <1>12, <1>13, <1>14, <1>15, <1>16, <1>17, <1>18,
         <1>19, <1>20, <1>21, <1>22, <1>23, <1>24, <1>25, <1>26
      DEF Next, Request, Start

\* Every step keeps what a pending marker stands beside whole.
LEMMA WholeStep ==
  ASSUME TypeOK, TypeOK', Phases, Whole, [Next]_vars
  PROVE  Whole'
<1> USE
  DEF TypeOK, Phases, Whole, Ready, Progress, Restoring, disk, archive,
      Staging, Running, StagedFile, Creating, Ended
<1>1. ASSUME NEW w \in Writes, Commit(w) PROVE Whole'
  BY <1>1 DEF Commit
<1>2. CASE Checkpoint
  BY <1>2 DEF Checkpoint, Contents
<1>3. ASSUME NEW r \in Requests, NEW n \in Names, NextFileName(r, n) PROVE Whole'
  BY <1>3 DEF NextFileName, Goes, Contents
<1>4. ASSUME NEW r \in Requests, SnapshotDatabase(r) PROVE Whole'
  BY <1>4 DEF SnapshotDatabase, Goes, Contents
<1>5. ASSUME NEW r \in Requests, PublishBackup(r) PROVE Whole'
  BY <1>5 DEF PublishBackup, Goes
<1>6. ASSUME NEW r \in Requests, CreateFails(r) PROVE Whole'
  BY <1>6 DEF CreateFails, Goes
<1>7. ASSUME NEW r \in Requests, EndWithoutDatabase(r) PROVE Whole'
  BY <1>7 DEF EndWithoutDatabase, Goes
<1>8. ASSUME NEW r \in Requests, ClearStagedDatabase(r) PROVE Whole'
  BY <1>8 DEF ClearStagedDatabase, Goes
<1>9. ASSUME NEW r \in Requests, ClearMarker(r) PROVE Whole'
  BY <1>9 DEF ClearMarker, Goes
<1>10. ASSUME NEW r \in Requests, BeginCopy(r) PROVE Whole'
  <2> HIDE
    DEF TypeOK, Phases, Whole, Ready, Progress, Restoring, disk, archive,
        Staging, Running, StagedFile, Creating, Ended
  <2>1. staged' = [of |-> r, writers |-> {r}, whole |-> TRUE]
        \/ "overlap" \in mishap
    BY <1>10 DEF Whole, Progress, BeginCopy, Goes
  <2>2. staged' # None
    <3>1. ASSUME NEW ws \in SUBSET Requests, NEW b \in BOOLEAN
          PROVE  [of |-> r, writers |-> ws, whole |-> b] # None
      <4>1. [of |-> r, writers |-> ws, whole |-> b] \in StagedFile
        BY <1>10 DEF StagedFile
      <4>. QED BY <4>1, NoFile
    <3>2. CASE staged = None
      <4>1. staged' = [of |-> r, writers |-> {r}, whole |-> TRUE]
        BY <1>10, <3>2 DEF BeginCopy
      <4>. QED BY <1>10, <3>1, <4>1
    <3>3. CASE staged # None
      <4>1. staged.writers \in SUBSET Requests /\ (staged.writers = {}) \in BOOLEAN
        BY <3>3 DEF TypeOK, StagedFile
      <4>2. staged' = [of |-> r, writers |-> staged.writers \cup {r},
                       whole |-> staged.writers = {}]
        BY <1>10, <3>3 DEF BeginCopy
      <4>3. staged.writers \cup {r} \in SUBSET Requests
        BY <1>10, <4>1
      <4>. QED BY <3>1, <4>1, <4>2, <4>3
    <3>. QED BY <3>2, <3>3
  <2>. QED
    BY <1>10, <2>1, <2>2
    DEF TypeOK, Whole, Ready, Progress, Restoring, archive, Staging, BeginCopy,
        Goes
<1>11. ASSUME NEW r \in Requests, EndCopy(r) PROVE Whole'
  <2>1. staged # None => staged' # None
    BY <1>11, NoFile DEF EndCopy, StopsWriting
  <2>2. "overlap" \notin mishap =>
          staged' # None /\ staged'.writers = {} /\ staged'.whole
    BY <1>11, <2>1
    DEF EndCopy, Goes, StopsWriting
  <2>. QED
    BY <1>11, <2>1, <2>2
    DEF EndCopy, Goes
<1>12. ASSUME NEW r \in Requests, CopyFails(r) PROVE Whole'
  BY <1>12 DEF CopyFails, Goes, StopsWriting
<1>13. ASSUME NEW r \in Requests, BeginMarker(r) PROVE Whole'
  BY <1>13 DEF BeginMarker, Goes
<1>14. ASSUME NEW r \in Requests, EndMarker(r) PROVE Whole'
  BY <1>14 DEF EndMarker, Goes
<1>15. ASSUME NEW r \in Requests, WriteBackFiles(r) PROVE Whole'
  BY <1>15 DEF WriteBackFiles, Goes
<1>16. ASSUME NEW n \in Names, DeleteBackup(n) PROVE Whole'
  BY <1>16 DEF DeleteBackup
<1>17. CASE Crash
  BY <1>17 DEF Crash, Exit
<1>18. CASE RestartAfterRestore
  BY <1>18 DEF RestartAfterRestore, Exit
<1>19. CASE ReadMarker \/ SkipMarker
  BY <1>19 DEF ReadMarker, SkipMarker
<1>20. CASE RemoveLog
  BY <1>20 DEF RemoveLog
<1>21. CASE InstallStaged
  <2>1. \A r \in Requests : pc[r] \notin Restoring
    BY <1>21 DEF InstallStaged
  <2>2. "overlap" \notin mishap => live'.base # Torn
    BY <1>21, DatabaseRestoreAssumption
    DEF InstallStaged, DatabaseIn
  <2>. QED
    BY <1>21, <2>1, <2>2
    DEF InstallStaged
<1>22. CASE InstallFails
  BY <1>22 DEF InstallFails
<1>23. CASE MarkApplied
  BY <1>23 DEF MarkApplied
<1>24. CASE Sweep
  BY <1>24 DEF Sweep
<1>25. CASE OpenDatabase
  <2>1. live # None => live' = live
    BY <1>25 DEF OpenDatabase
  <2>2. live = None => live'.base # Torn
    BY <1>25 DEF OpenDatabase, Torn
  <2>. QED
    BY <1>25, <2>1, <2>2
    DEF OpenDatabase
<1>26. CASE UNCHANGED vars
  BY <1>26 DEF vars
<1> QED
      BY <1>1, <1>2, <1>3, <1>4, <1>5, <1>6, <1>7, <1>8, <1>9,
         <1>10, <1>11, <1>12, <1>13, <1>14, <1>15, <1>16, <1>17, <1>18,
         <1>19, <1>20, <1>21, <1>22, <1>23, <1>24, <1>25, <1>26
      DEF Next, Request, Start

\* Every step keeps what is staged uninstalled.
LEMMA OnceStep ==
  ASSUME TypeOK, TypeOK', Phases, Once, [Next]_vars
  PROVE  Once'
<1> USE
  DEF TypeOK, Phases, Once, Ready, disk, archive, Staging, Running,
      StagedFile, Creating, Ended
<1>1. ASSUME NEW w \in Writes, Commit(w) PROVE Once'
  BY <1>1 DEF Commit
<1>2. CASE Checkpoint
  BY <1>2 DEF Checkpoint, Contents
<1>3. ASSUME NEW r \in Requests, NEW n \in Names, NextFileName(r, n) PROVE Once'
  BY <1>3 DEF NextFileName, Goes, Contents
<1>4. ASSUME NEW r \in Requests, SnapshotDatabase(r) PROVE Once'
  BY <1>4 DEF SnapshotDatabase, Goes, Contents
<1>5. ASSUME NEW r \in Requests, PublishBackup(r) PROVE Once'
  BY <1>5 DEF PublishBackup, Goes
<1>6. ASSUME NEW r \in Requests, CreateFails(r) PROVE Once'
  BY <1>6 DEF CreateFails, Goes
<1>7. ASSUME NEW r \in Requests, EndWithoutDatabase(r) PROVE Once'
  BY <1>7 DEF EndWithoutDatabase, Goes
<1>8. ASSUME NEW r \in Requests, ClearStagedDatabase(r) PROVE Once'
  BY <1>8 DEF ClearStagedDatabase, Goes
<1>9. ASSUME NEW r \in Requests, ClearMarker(r) PROVE Once'
  BY <1>9 DEF ClearMarker, Goes
<1>10. ASSUME NEW r \in Requests, BeginCopy(r) PROVE Once'
  BY <1>10 DEF BeginCopy, Goes
<1>11. ASSUME NEW r \in Requests, EndCopy(r) PROVE Once'
  BY <1>11 DEF EndCopy, Goes, StopsWriting
<1>12. ASSUME NEW r \in Requests, CopyFails(r) PROVE Once'
  BY <1>12 DEF CopyFails, Goes, StopsWriting
<1>13. ASSUME NEW r \in Requests, BeginMarker(r) PROVE Once'
  BY <1>13 DEF BeginMarker, Goes
<1>14. ASSUME NEW r \in Requests, EndMarker(r) PROVE Once'
  BY <1>14 DEF EndMarker, Goes
<1>15. ASSUME NEW r \in Requests, WriteBackFiles(r) PROVE Once'
  BY <1>15 DEF WriteBackFiles, Goes
<1>16. ASSUME NEW n \in Names, DeleteBackup(n) PROVE Once'
  BY <1>16 DEF DeleteBackup
<1>17. CASE Crash
  BY <1>17 DEF Crash, Exit
<1>18. CASE RestartAfterRestore
  BY <1>18 DEF RestartAfterRestore, Exit
<1>19. CASE ReadMarker \/ SkipMarker
  BY <1>19 DEF ReadMarker, SkipMarker
<1>20. CASE RemoveLog
  BY <1>20 DEF RemoveLog
<1>21. CASE InstallStaged
  BY <1>21 DEF InstallStaged, DatabaseIn
<1>22. CASE InstallFails
  BY <1>22 DEF InstallFails
<1>23. CASE MarkApplied
  BY <1>23 DEF MarkApplied
<1>24. CASE Sweep
  BY <1>24 DEF Sweep
<1>25. CASE OpenDatabase
  BY <1>25 DEF OpenDatabase
<1>26. CASE UNCHANGED vars
  BY <1>26 DEF vars
<1> QED
      BY <1>1, <1>2, <1>3, <1>4, <1>5, <1>6, <1>7, <1>8, <1>9,
         <1>10, <1>11, <1>12, <1>13, <1>14, <1>15, <1>16, <1>17, <1>18,
         <1>19, <1>20, <1>21, <1>22, <1>23, <1>24, <1>25, <1>26
      DEF Next, Request, Start

\* Every step keeps the backups of the requests they protect.
\* What a step that leaves the archives alone may change.
NetFrame ==
  /\ archive' = archive /\ mishap \subseteq mishap'
  /\ \A r \in Requests :
       /\ pc'[r] \in {"idle"} \cup Creating => pc'[r] = pc[r]
       /\ Safe(r)' => Safe(r)
       /\ pc'[r] = "named" /\ Covers(Contents, r) => Covers(Contents, r)'

LEMMA FrameKeepsNet ==
  ASSUME TypeOK, Net, NetFrame
  PROVE  Net'
  <1>1. /\ name' = name /\ snapshot' = snapshot /\ backup' = backup
        /\ before' = before /\ deleted' = deleted
    BY DEF NetFrame, archive
  <1>2. \A r \in Requests : Safe(r)' => pc'[r] \notin {"idle"} \cup Creating
    BY DEF Net, NetFrame
  <1>3. \A r \in Requests : pc'[r] = "named" => Covers(Contents, r)'
    BY DEF Net, NetFrame, Creating
  <1>4. ASSUME "name" \notin mishap', NEW r \in Requests
        PROVE  /\ pc'[r] = "snapped" => Covers(snapshot[name[r]], r)'
               /\ \A q \in Requests \ {r} :
                    (pc'[q] \in Creating /\ pc'[r] \in Creating)
                      => name'[q] # name'[r]
               /\ Safe(r)' =>
                    \/ name'[r] \in deleted'
                    \/ /\ Covers(backup[name[r]], r)'
                       /\ \A q \in Requests :
                            pc'[q] \in Creating => name'[q] # name'[r]
    <2>1. "name" \notin mishap
      BY <1>4 DEF NetFrame
    <2>2. pc'[r] = "snapped" => Covers(snapshot[name[r]], r)'
      BY <1>1, <2>1 DEF Net, NetFrame, Creating, Covers
    <2>3. \A q \in Requests : pc'[q] \in Creating => pc[q] \in Creating
      BY DEF NetFrame
    <2>4. Safe(r)' => Safe(r)
      BY DEF NetFrame
    <2>. QED BY <1>1, <2>1, <2>2, <2>3, <2>4 DEF Net, Covers
  <1>. QED BY <1>2, <1>3, <1>4 DEF Net

LEMMA NetStep ==
  ASSUME TypeOK, TypeOK', Phases, Once, Net, [Next]_vars
  PROVE  Net'
<1>1. ASSUME NEW w \in Writes, Commit(w) PROVE NetFrame
  <2>1. Contents'.base = Contents.base /\ Contents.log \subseteq Contents'.log
        /\ Contents' # None
    BY <1>1, ServedType, NoFile DEF TypeOK, Phases, Contents, Commit, Database
  <2>. QED BY <1>1, <2>1 DEF NetFrame, Safe, Covers, archive, Commit
<1>2. ASSUME Checkpoint PROVE NetFrame
  <2>1. Contents'.base = Contents.base /\ Contents.log \subseteq Contents'.log
        /\ Contents' # None
    <3>1. Contents \in Database /\ live' = Contents /\ wal' = {}
      BY <1>2, ServedType DEF Phases, Checkpoint
    <3>2. live' \in Database
      BY <3>1
    <3>3. Contents' = [live' EXCEPT !.log = @ \cup wal']
      BY DEF Contents
    <3>4. Contents'.base = live'.base /\ Contents'.log = live'.log \cup wal'
          /\ Contents' # None
      BY <3>1, <3>2, <3>3, NoFile DEF Database
    <3>. QED BY <3>1, <3>4
  <2>. QED BY <1>2, <2>1 DEF NetFrame, Safe, Covers, archive, Checkpoint
<1>3. ASSUME NEW r \in Requests, NEW n \in Names, NextFileName(r, n) PROVE Net'
  <2>1. /\ pc[r] = "idle" /\ pc' = [pc EXCEPT ![r] = "named"]
        /\ name' = [name EXCEPT ![r] = n] /\ before' = [before EXCEPT ![r] = Contents]
        /\ snapshot' = snapshot /\ backup' = backup /\ deleted' = deleted
        /\ backup[n] = None /\ Contents' = Contents /\ Contents # None
        /\ mishap \subseteq mishap'
    BY <1>3, ServedType, NoFile DEF Phases, NextFileName, Goes, Contents, disk
  <2>2. \A q \in Requests : Safe(q)' => Safe(q) /\ q # r
    BY <1>3, <2>1 DEF TypeOK, Net, Safe, Staging, NextFileName, disk
  <2>3. "name" \notin mishap' =>
          \A q \in Requests \ {r} : pc[q] \in Creating => name[q] # n
    BY <1>3 DEF NextFileName
  <2>4. \A q \in Requests \ {r} :
          pc'[q] = pc[q] /\ name'[q] = name[q] /\ before'[q] = before[q]
    BY <2>1 DEF TypeOK
  <2>5. pc'[r] = "named" /\ name'[r] = n /\ before'[r] = Contents
    BY <2>1 DEF TypeOK
  <2>6. \A q \in Requests : Safe(q)' => pc'[q] \notin {"idle"} \cup Creating
    BY <2>2, <2>4 DEF Net
  <2>7. \A q \in Requests : pc'[q] = "named" => Covers(Contents, q)'
    BY <2>1, <2>4, <2>5 DEF Net, Covers
  <2>8. ASSUME "name" \notin mishap', NEW q \in Requests
        PROVE  /\ pc'[q] = "snapped" => Covers(snapshot[name[q]], q)'
               /\ \A p \in Requests \ {q} :
                    (pc'[p] \in Creating /\ pc'[q] \in Creating)
                      => name'[p] # name'[q]
               /\ Safe(q)' =>
                    \/ name'[q] \in deleted'
                    \/ /\ Covers(backup[name[q]], q)'
                       /\ \A p \in Requests :
                            pc'[p] \in Creating => name'[p] # name'[q]
    <3>1. "name" \notin mishap
      BY <2>1, <2>8
    <3>2. pc'[q] = "snapped" => Covers(snapshot[name[q]], q)'
      BY <2>1, <2>4, <2>5, <3>1 DEF Net, Covers
    <3>3. \A p \in Requests \ {q} :
            (pc'[p] \in Creating /\ pc'[q] \in Creating) => name'[p] # name'[q]
      BY <2>3, <2>4, <2>5, <2>8, <3>1 DEF Net
    <3>4. Safe(q)' => \/ name'[q] \in deleted'
                     \/ /\ Covers(backup[name[q]], q)'
                        /\ \A p \in Requests :
                             pc'[p] \in Creating => name'[p] # name'[q]
      BY <2>1, <2>2, <2>4, <2>5, <3>1 DEF Net, Covers
    <3>. QED BY <3>2, <3>3, <3>4
  <2>. QED BY <2>6, <2>7, <2>8 DEF Net
<1>4. ASSUME NEW r \in Requests, SnapshotDatabase(r) PROVE Net'
  <2>1. /\ pc[r] = "named" /\ pc'[r] = "snapped" /\ name[r] \in Names
        /\ \A q \in Requests \ {r} : pc'[q] = pc[q]
    BY <1>4 DEF TypeOK, Phases, Goes, Creating, SnapshotDatabase
  <2>2. /\ name' = name /\ before' = before /\ mishap' = mishap
        /\ Contents' = Contents
    BY <1>4 DEF Contents, disk, archive, SnapshotDatabase
  <2>3. \A q \in Requests : Safe(q)' => Safe(q) /\ q # r
    BY <1>4, <2>1 DEF Net, Safe, Staging, Creating, SnapshotDatabase, disk
  <2>4. /\ backup' = backup /\ deleted' = deleted
        /\ snapshot'[name[r]] = Contents /\ Covers(Contents, r)
        /\ \A m \in Names \ {name[r]} : snapshot'[m] = snapshot[m]
        /\ \A q \in Requests : pc[q] = "snapped" => name[q] \in Names
    BY <1>4, <2>1 DEF TypeOK, Phases, Net, SnapshotDatabase
  <2>6. \A q \in Requests : Safe(q)' => pc'[q] \notin {"idle"} \cup Creating
    BY <2>1, <2>3 DEF Net, Creating
  <2>7. \A q \in Requests : pc'[q] = "named" => Covers(Contents, q)'
    BY <2>1, <2>2 DEF TypeOK, Net, Covers
  <2>8. ASSUME "name" \notin mishap', NEW q \in Requests
        PROVE  /\ pc'[q] = "snapped" => Covers(snapshot[name[q]], q)'
               /\ \A p \in Requests \ {q} :
                    (pc'[p] \in Creating /\ pc'[q] \in Creating)
                      => name'[p] # name'[q]
               /\ Safe(q)' =>
                    \/ name'[q] \in deleted'
                    \/ /\ Covers(backup[name[q]], q)'
                       /\ \A p \in Requests :
                            pc'[p] \in Creating => name'[p] # name'[q]
    <3>1. pc'[q] = "snapped" => Covers(snapshot[name[q]], q)'
      BY <2>1, <2>2, <2>4, <2>8 DEF Net, Covers, Creating
    <3>2. \A p \in Requests \ {q} :
            (pc'[p] \in Creating /\ pc'[q] \in Creating) => name'[p] # name'[q]
      BY <2>1, <2>2, <2>8 DEF Net, Creating
    <3>3. Safe(q)' => \/ name'[q] \in deleted'
                     \/ /\ Covers(backup[name[q]], q)'
                        /\ \A p \in Requests :
                             pc'[p] \in Creating => name'[p] # name'[q]
      BY <2>1, <2>2, <2>3, <2>4, <2>8 DEF Net, Covers, Creating
    <3>. QED BY <3>1, <3>2, <3>3
  <2>. QED BY <2>6, <2>7, <2>8 DEF Net
<1>5. ASSUME NEW r \in Requests, PublishBackup(r) PROVE Net'
  <2>1. /\ pc[r] = "snapped" /\ pc'[r] = "published" /\ name[r] \in Names
        /\ \A q \in Requests \ {r} : pc'[q] = pc[q]
    BY <1>5 DEF TypeOK, Phases, Goes, Creating, PublishBackup
  <2>2. /\ name' = name /\ before' = before /\ mishap' = mishap
        /\ Contents' = Contents
    BY <1>5 DEF Contents, disk, archive, PublishBackup
  <2>3. \A q \in Requests : q # r => Safe(q)' = Safe(q)
    BY <1>5, <2>1 DEF Safe, PublishBackup, disk
  <2>4. /\ deleted' = deleted
        /\ backup'[name[r]] = snapshot[name[r]]
        /\ \A m \in Names \ {name[r]} : snapshot'[m] = snapshot[m] /\ backup'[m] = backup[m]
        /\ \A q \in Requests : pc[q] # "idle" => name[q] \in Names
    BY <1>5, <2>1 DEF TypeOK, Phases, PublishBackup
  <2>6. \A q \in Requests : Safe(q)' => pc'[q] \notin {"idle"} \cup Creating
    BY <2>1, <2>3 DEF Net, Creating
  <2>7. \A q \in Requests : pc'[q] = "named" => Covers(Contents, q)'
    BY <2>1, <2>2 DEF TypeOK, Net, Covers
  <2>8. ASSUME "name" \notin mishap', NEW q \in Requests
        PROVE  /\ pc'[q] = "snapped" => Covers(snapshot[name[q]], q)'
               /\ \A p \in Requests \ {q} :
                    (pc'[p] \in Creating /\ pc'[q] \in Creating)
                      => name'[p] # name'[q]
               /\ Safe(q)' =>
                    \/ name'[q] \in deleted'
                    \/ /\ Covers(backup[name[q]], q)'
                       /\ \A p \in Requests :
                            pc'[p] \in Creating => name'[p] # name'[q]
    <3>1. pc'[q] = "snapped" => Covers(snapshot[name[q]], q)'
      BY <2>1, <2>2, <2>4, <2>8 DEF Net, Covers, Creating
    <3>2. \A p \in Requests \ {q} :
            (pc'[p] \in Creating /\ pc'[q] \in Creating) => name'[p] # name'[q]
      BY <2>1, <2>2, <2>8 DEF Net, Creating
    <3>3. Safe(q)' => \/ name'[q] \in deleted'
                     \/ /\ Covers(backup[name[q]], q)'
                        /\ \A p \in Requests :
                             pc'[p] \in Creating => name'[p] # name'[q]
      BY <2>1, <2>2, <2>3, <2>4, <2>8 DEF Net, Covers, Creating
    <3>. QED BY <3>1, <3>2, <3>3
  <2>. QED BY <2>6, <2>7, <2>8 DEF Net
<1>6. ASSUME NEW r \in Requests, CreateFails(r) PROVE Net'
  <2>1. /\ pc[r] \in Creating /\ pc'[r] = "over" /\ name[r] \in Names
        /\ \A q \in Requests \ {r} : pc'[q] = pc[q]
    BY <1>6 DEF TypeOK, Phases, Goes, Creating, CreateFails
  <2>2. /\ name' = name /\ before' = before /\ mishap' = mishap
        /\ Contents' = Contents
    BY <1>6 DEF Contents, disk, archive, CreateFails
  <2>3. \A q \in Requests : Safe(q)' => Safe(q) /\ q # r
    BY <1>6, <2>1 DEF Net, Safe, Staging, CreateFails, disk
  <2>4. /\ backup' = backup /\ deleted' = deleted
        /\ \A m \in Names \ {name[r]} : snapshot'[m] = snapshot[m]
        /\ \A q \in Requests : pc[q] = "snapped" => name[q] \in Names
    BY <1>6, <2>1 DEF TypeOK, Phases, CreateFails
  <2>6. \A q \in Requests : Safe(q)' => pc'[q] \notin {"idle"} \cup Creating
    BY <2>1, <2>3 DEF Net, Creating
  <2>7. \A q \in Requests : pc'[q] = "named" => Covers(Contents, q)'
    BY <2>1, <2>2 DEF TypeOK, Net, Covers
  <2>8. ASSUME "name" \notin mishap', NEW q \in Requests
        PROVE  /\ pc'[q] = "snapped" => Covers(snapshot[name[q]], q)'
               /\ \A p \in Requests \ {q} :
                    (pc'[p] \in Creating /\ pc'[q] \in Creating)
                      => name'[p] # name'[q]
               /\ Safe(q)' =>
                    \/ name'[q] \in deleted'
                    \/ /\ Covers(backup[name[q]], q)'
                       /\ \A p \in Requests :
                            pc'[p] \in Creating => name'[p] # name'[q]
    <3>1. pc'[q] = "snapped" => Covers(snapshot[name[q]], q)'
      BY <2>1, <2>2, <2>4, <2>8 DEF Net, Covers, Creating
    <3>2. \A p \in Requests \ {q} :
            (pc'[p] \in Creating /\ pc'[q] \in Creating) => name'[p] # name'[q]
      BY <2>1, <2>2, <2>8 DEF Net, Creating
    <3>3. Safe(q)' => \/ name'[q] \in deleted'
                     \/ /\ Covers(backup[name[q]], q)'
                        /\ \A p \in Requests :
                             pc'[p] \in Creating => name'[p] # name'[q]
      BY <2>1, <2>2, <2>3, <2>4, <2>8 DEF Net, Covers, Creating
    <3>. QED BY <3>1, <3>2, <3>3
  <2>. QED BY <2>6, <2>7, <2>8 DEF Net
<1>7. ASSUME NEW r \in Requests, EndWithoutDatabase(r) PROVE NetFrame
  <2>1. \A q \in Requests : Covers(Contents, q)' = Covers(Contents, q)
    BY <1>7 DEF Covers, Contents, archive, EndWithoutDatabase, Goes, disk
  <2>. QED BY <1>7, <2>1
    DEF TypeOK, StagedFile, NetFrame, Safe, archive, Staging, Creating,
        EndWithoutDatabase, Goes, disk
<1>8. ASSUME NEW r \in Requests, ClearStagedDatabase(r) PROVE NetFrame
  <2>1. \A q \in Requests : Covers(Contents, q)' = Covers(Contents, q)
    BY <1>8 DEF Covers, Contents, archive, ClearStagedDatabase, Goes
  <2>. QED BY <1>8, <2>1
    DEF TypeOK, StagedFile, NetFrame, Safe, archive, Staging, Creating,
        ClearStagedDatabase, Goes
<1>9. ASSUME NEW r \in Requests, ClearMarker(r) PROVE NetFrame
  <2>1. \A q \in Requests : Covers(Contents, q)' = Covers(Contents, q)
    BY <1>9 DEF Covers, Contents, archive, ClearMarker, Goes
  <2>. QED BY <1>9, <2>1
    DEF TypeOK, StagedFile, NetFrame, Safe, archive, Staging, Creating,
        ClearMarker, Goes
<1>10. ASSUME NEW r \in Requests, BeginCopy(r) PROVE NetFrame
  <2>1. \A q \in Requests : Covers(Contents, q)' = Covers(Contents, q)
    BY <1>10 DEF Covers, Contents, archive, BeginCopy, Goes
  <2>. QED BY <1>10, <2>1
    DEF TypeOK, StagedFile, NetFrame, Safe, archive, Staging, Creating,
        BeginCopy, Goes
<1>11. ASSUME NEW r \in Requests, EndCopy(r) PROVE NetFrame
  <2>1. \A q \in Requests : Covers(Contents, q)' = Covers(Contents, q)
    BY <1>11 DEF Covers, Contents, archive, EndCopy, Goes, StopsWriting
  <2>. QED BY <1>11, <2>1
    DEF TypeOK, StagedFile, NetFrame, Safe, archive, Staging, Creating,
        EndCopy, Goes, StopsWriting
<1>12. ASSUME NEW r \in Requests, CopyFails(r) PROVE NetFrame
  <2>1. \A q \in Requests : Covers(Contents, q)' = Covers(Contents, q)
    BY <1>12 DEF Covers, Contents, archive, CopyFails, Goes, StopsWriting
  <2>. QED BY <1>12, <2>1
    DEF TypeOK, StagedFile, NetFrame, Safe, archive, Staging, Creating,
        CopyFails, Goes, StopsWriting
<1>13. ASSUME NEW r \in Requests, BeginMarker(r) PROVE NetFrame
  <2>1. \A q \in Requests : Covers(Contents, q)' = Covers(Contents, q)
    BY <1>13 DEF Covers, Contents, archive, BeginMarker, Goes
  <2>. QED BY <1>13, <2>1
    DEF TypeOK, StagedFile, NetFrame, Safe, archive, Staging, Creating,
        BeginMarker, Goes
<1>14. ASSUME NEW r \in Requests, EndMarker(r) PROVE NetFrame
  <2>1. \A q \in Requests : Covers(Contents, q)' = Covers(Contents, q)
    BY <1>14 DEF Covers, Contents, archive, EndMarker, Goes
  <2>. QED BY <1>14, <2>1
    DEF TypeOK, StagedFile, NetFrame, Safe, archive, Staging, Creating,
        EndMarker, Goes
<1>15. ASSUME NEW r \in Requests, WriteBackFiles(r) PROVE NetFrame
  <2>1. \A q \in Requests : Covers(Contents, q)' = Covers(Contents, q)
    BY <1>15 DEF Covers, Contents, archive, WriteBackFiles, Goes, disk
  <2>. QED BY <1>15, <2>1
    DEF TypeOK, StagedFile, NetFrame, Safe, archive, Staging, Creating,
        WriteBackFiles, Goes, disk
<1>16. ASSUME NEW n \in Names, DeleteBackup(n) PROVE Net'
  <2>1. pc' = pc
    BY <1>16 DEF DeleteBackup
  <2>2. /\ name' = name /\ before' = before /\ mishap' = mishap
        /\ Contents' = Contents
    BY <1>16 DEF Contents, disk, archive, DeleteBackup
  <2>3. \A q \in Requests : Safe(q)' = Safe(q)
    BY <1>16, <2>1 DEF Safe, DeleteBackup, disk
  <2>4. /\ snapshot' = snapshot /\ deleted' = deleted \cup {n}
        /\ \A m \in Names \ {n} : backup'[m] = backup[m]
        /\ \A q \in Requests : pc[q] # "idle" => name[q] \in Names
    BY <1>16 DEF TypeOK, Phases, DeleteBackup
  <2>6. \A q \in Requests : Safe(q)' => pc'[q] \notin {"idle"} \cup Creating
    BY <2>1, <2>3 DEF Net, Creating
  <2>7. \A q \in Requests : pc'[q] = "named" => Covers(Contents, q)'
    BY <2>1, <2>2 DEF TypeOK, Net, Covers
  <2>8. ASSUME "name" \notin mishap', NEW q \in Requests
        PROVE  /\ pc'[q] = "snapped" => Covers(snapshot[name[q]], q)'
               /\ \A p \in Requests \ {q} :
                    (pc'[p] \in Creating /\ pc'[q] \in Creating)
                      => name'[p] # name'[q]
               /\ Safe(q)' =>
                    \/ name'[q] \in deleted'
                    \/ /\ Covers(backup[name[q]], q)'
                       /\ \A p \in Requests :
                            pc'[p] \in Creating => name'[p] # name'[q]
    <3>1. pc'[q] = "snapped" => Covers(snapshot[name[q]], q)'
      BY <2>1, <2>2, <2>4, <2>8 DEF Net, Covers, Creating
    <3>2. \A p \in Requests \ {q} :
            (pc'[p] \in Creating /\ pc'[q] \in Creating) => name'[p] # name'[q]
      BY <2>1, <2>2, <2>8 DEF Net, Creating
    <3>3. Safe(q)' => \/ name'[q] \in deleted'
                     \/ /\ Covers(backup[name[q]], q)'
                        /\ \A p \in Requests :
                             pc'[p] \in Creating => name'[p] # name'[q]
      BY <2>1, <2>2, <2>3, <2>4, <2>8 DEF Net, Covers, Creating
    <3>. QED BY <3>1, <3>2, <3>3
  <2>. QED BY <2>6, <2>7, <2>8 DEF Net
<1>17. ASSUME Crash PROVE NetFrame
  <2>1. \A q \in Requests :
          /\ pc'[q] \notin Running
          /\ pc'[q] = "idle" => pc[q] = "idle"
    BY <1>17 DEF TypeOK, Crash, Exit, Running, Creating, Staging, Ended
  <2>2. \A q \in Requests : pc'[q] \notin Creating \cup Staging \cup {"published", "staged"}
    BY <2>1 DEF Running
  <2>3. staged' # None => staged # None /\ staged'.of = staged.of
    BY <1>17 DEF TypeOK, Crash, Exit, StagedFile
  <2>4. archive' = archive /\ mishap' = mishap /\ installed' = installed
    BY <1>17 DEF Crash, Exit, archive
  <2>. QED BY <2>1, <2>2, <2>3, <2>4 DEF NetFrame, Safe, Creating
<1>18. ASSUME RestartAfterRestore PROVE NetFrame
  <2>1. \A q \in Requests :
          /\ pc'[q] \notin Running
          /\ pc'[q] = "idle" => pc[q] = "idle"
    BY <1>18
      DEF TypeOK, RestartAfterRestore, Exit, Running, Creating, Staging, Ended
  <2>2. \A q \in Requests : pc'[q] \notin Creating \cup Staging \cup {"published", "staged"}
    BY <2>1 DEF Running
  <2>3. staged' # None => staged # None /\ staged'.of = staged.of
    BY <1>18 DEF TypeOK, RestartAfterRestore, Exit, StagedFile
  <2>4. archive' = archive /\ mishap' = mishap /\ installed' = installed
    BY <1>18 DEF RestartAfterRestore, Exit, archive
  <2>. QED BY <2>1, <2>2, <2>3, <2>4 DEF NetFrame, Safe, Creating
<1>19. ASSUME ReadMarker \/ SkipMarker PROVE NetFrame
  <2>1. \A q \in Requests : pc[q] # "named"
    BY <1>19 DEF Phases, ReadMarker, SkipMarker, Running, Creating
  <2>. QED BY <1>19, <2>1
    DEF Phases, Ready, NetFrame, Safe, archive, disk, Staging, Creating,
        ReadMarker, SkipMarker
<1>20. ASSUME RemoveLog PROVE NetFrame
  <2>1. \A q \in Requests : pc[q] # "named"
    BY <1>20 DEF Phases, RemoveLog, Running, Creating
  <2>. QED BY <1>20, <2>1
    DEF Phases, Ready, NetFrame, Safe, archive, Staging, Creating, RemoveLog
<1>21. ASSUME InstallStaged PROVE NetFrame
  <2>1. \A q \in Requests : pc[q] # "named"
    BY <1>21 DEF Phases, InstallStaged, Running, Creating
  <2>. QED BY <1>21, <2>1
    DEF Phases, Ready, InstallStaged, NetFrame, Safe, archive, Staging,
        Creating
<1>22. ASSUME InstallFails PROVE NetFrame
  <2>1. \A q \in Requests : pc[q] # "named"
    BY <1>22 DEF Phases, InstallFails, Running, Creating
  <2>. QED BY <1>22, <2>1
    DEF Phases, Ready, NetFrame, Safe, archive, Staging, Creating,
        InstallFails
<1>23. ASSUME MarkApplied PROVE NetFrame
  <2>1. \A q \in Requests : pc[q] # "named"
    BY <1>23 DEF Phases, MarkApplied, Running, Creating
  <2>. QED BY <1>23, <2>1
    DEF Phases, Ready, NetFrame, Safe, archive, Staging, Creating,
        MarkApplied
<1>24. ASSUME Sweep PROVE NetFrame
  <2>1. \A q \in Requests : pc[q] # "named"
    BY <1>24 DEF Phases, Sweep, Running, Creating
  <2>. QED BY <1>24, <2>1
    DEF Phases, Ready, NetFrame, Safe, archive, Staging, Creating, Sweep
<1>25. ASSUME OpenDatabase PROVE NetFrame
  <2>1. \A q \in Requests : pc[q] # "named"
    BY <1>25 DEF Phases, OpenDatabase, Running, Creating
  <2>. QED BY <1>25, <2>1
    DEF Phases, Ready, NetFrame, Safe, archive, Staging, Creating,
        OpenDatabase
<1>26. ASSUME UNCHANGED vars PROVE NetFrame
  BY <1>26 DEF NetFrame, Safe, Covers, Contents, vars, disk, archive
<1> QED
      BY <1>1, <1>2, <1>3, <1>4, <1>5, <1>6, <1>7, <1>8, <1>9,
         <1>10, <1>11, <1>12, <1>13, <1>14, <1>15, <1>16, <1>17, <1>18,
         <1>19, <1>20, <1>21, <1>22, <1>23, <1>24, <1>25, <1>26,
         FrameKeepsNet
      DEF Next, Request, Start

\* Every reachable state satisfies the invariant of the proofs.
THEOREM Invariant == Spec => []IInv
<1>1. Init => IInv
  <2> SUFFICES ASSUME Init PROVE IInv
    OBVIOUS
  <2>1. TypeOK
    BY DatabaseRestoreAssumption DEF Init, TypeOK, Database, Bases
  <2>2. Phases /\ Once
    BY DEF Init, Phases, Once, Ready, Running, Creating, Staging
  <2>3. Contents = live /\ live # None
    BY <2>1, NoFile DEF Init, Contents, Database, Bases
  <2>4. Complete
    BY <2>3 DEF Init, Complete
  <2>5. Whole
    BY DEF Init, Whole, Progress, Ready, Restoring, Staging, Torn
  <2>6. Net
    BY DEF Init, Net, Safe, Creating, Staging
  <2>. QED BY <2>1, <2>2, <2>4, <2>5, <2>6 DEF IInv
<1>2. IInv /\ [Next]_vars => IInv'
  <2> SUFFICES ASSUME IInv, [Next]_vars PROVE IInv'
    OBVIOUS
  <2>1. TypeOK'
    BY TypeStep DEF IInv
  <2>2. Phases'
    BY <2>1, PhasesStep DEF IInv
  <2>3. Complete'
    BY <2>1, CompleteStep DEF IInv
  <2>4. Whole'
    BY <2>1, WholeStep DEF IInv
  <2>5. Once'
    BY <2>1, OnceStep DEF IInv
  <2>6. Net'
    BY <2>1, NetStep DEF IInv
  <2>. QED BY <2>1, <2>2, <2>3, <2>4, <2>5, <2>6 DEF IInv
<1>. QED BY <1>1, <1>2, PTL DEF Spec

\* Wherever the process exits, the live database is whole unless two requests
\* restored at once.
THEOREM LiveWhole == Spec => []LiveIsWhole
<1>1. IInv => LiveIsWhole
  BY DEF IInv, Whole, LiveIsWhole
<1>. QED BY <1>1, Invariant, PTL

\* What is served is what has been committed since the last restore took effect,
\* until a start cannot read what is staged, cannot remove the -wal or cannot move
\* the staged database into place.
THEOREM NothingLost == Spec => []CommittedKept
<1>1. IInv => CommittedKept
  BY DEF IInv, Complete, CommittedKept
<1>. QED BY <1>1, Invariant, PTL

\* The backup that a restore made first survives it and covers what the database
\* held when the restore began.
THEOREM BackupCovers == Spec => []SafetyNet
<1>1. IInv => SafetyNet
  <2> SUFFICES ASSUME IInv, NEW r \in installed, name[r] \notin deleted,
                      "name" \notin mishap
               PROVE  Covers(backup[name[r]], r)
    BY DEF SafetyNet, Covers
  <2>1. r \in Requests /\ Safe(r)
    BY DEF IInv, TypeOK, Safe
  <2>. QED BY <2>1 DEF IInv, Net
<1>. QED BY <1>1, Invariant, PTL

\* No database is installed twice.
THEOREM NoSecondInstall == Spec => InstalledOnce
<1>1. IInv /\ [Next]_vars =>
        [\A r \in Requests :
           (server = "unlogged" /\ server' = "installed" /\ staged.of = r)
             => r \notin installed]_vars
  BY DEF IInv, Phases, Ready, Once
<1>. QED BY <1>1, Invariant, PTL DEF Spec, InstalledOnce

-----------------------------------------------------------------------------
(* The database as its users see it: RestorableDatabase.                   *)

Asked == {r \in Requests : pc[r] # "idle"}

\* A step that neither commits nor installs, starts no request and meets no mishap
\* is invisible.
LEMMA ServedStays ==
  ASSUME UNCHANGED <<Served, installed>>, (server = "up") = (server' = "up"),
         Asked' = Asked, mishap' \ {"name"} = mishap \ {"name"}
  PROVE  UNCHANGED Durable!vars
  BY DEF Durable!vars, Asked

\* What a request does beside its first step keeps it asked for.
LEMMA AskedStays ==
  ASSUME TypeOK, NEW r \in Requests, NEW from, NEW to, Goes(r, from, to),
         "idle" \notin from, to # "idle"
  PROVE  Asked' = Asked
  BY DEF TypeOK, Goes, Asked

LEMMA RequestRefines ==
  ASSUME IInv, IInv', NEW r \in Requests, Request(r)
  PROVE  Durable!Next \/ UNCHANGED Durable!vars
<1> TypeOK /\ TypeOK'
  BY DEF IInv
<1>1. /\ server = "up" /\ UNCHANGED <<server, live, wal, expected, installed>>
      /\ Served' = Served
  BY DEF Request, NextFileName, SnapshotDatabase, PublishBackup, CreateFails,
         EndWithoutDatabase, ClearStagedDatabase, ClearMarker, BeginCopy, EndCopy,
         CopyFails, BeginMarker, EndMarker, WriteBackFiles, Goes, disk, Served, Contents
<1>2. ASSUME NEW n \in Names, NextFileName(r, n)
      PROVE  Durable!Next
  <2>1. /\ pc[r] = "idle" /\ Asked' = Asked \cup {r}
        /\ mishap' \ {"name"} = mishap \ {"name"}
    BY <1>2 DEF NextFileName, Goes, Asked, TypeOK
  <2>2. Durable!Ask(r)
    BY <1>1, <2>1 DEF Durable!Ask, Asked
  <2> QED BY <2>2 DEF Durable!Next
<1>3. CASE ClearStagedDatabase(r)
  <2>1. Asked' = Asked
    BY <1>3, AskedStays DEF ClearStagedDatabase
  <2>2. \/ mishap' \ {"name"} = mishap \ {"name"}
        \/ mishap' \ {"name"} = (mishap \ {"name"}) \cup {"overlap"}
    BY <1>3 DEF ClearStagedDatabase
  <2>3. CASE mishap' \ {"name"} = mishap \ {"name"}
    BY <1>1, <2>1, <2>3, ServedStays
  <2>4. CASE mishap' \ {"name"} # mishap \ {"name"}
    <3>1. Durable!Mishap("overlap")
      BY <1>1, <2>1, <2>2, <2>4 DEF Durable!Mishap, Asked
    <3> QED BY <3>1 DEF Durable!Next
  <2> QED BY <2>3, <2>4
<1>4. CASE \/ SnapshotDatabase(r) \/ PublishBackup(r) \/ CreateFails(r)
           \/ EndWithoutDatabase(r) \/ ClearMarker(r) \/ BeginCopy(r) \/ EndCopy(r)
           \/ CopyFails(r) \/ BeginMarker(r) \/ EndMarker(r) \/ WriteBackFiles(r)
  <2>1. /\ UNCHANGED mishap
        /\ \E from, to : Goes(r, from, to) /\ "idle" \notin from /\ to # "idle"
    BY <1>4 DEF SnapshotDatabase, PublishBackup, CreateFails,
         EndWithoutDatabase, ClearMarker, BeginCopy, EndCopy,
         CopyFails, BeginMarker, EndMarker, WriteBackFiles, Creating
  <2>2. Asked' = Asked
    BY <2>1, AskedStays
  <2> QED BY <1>1, <2>1, <2>2, ServedStays
<1> QED BY <1>2, <1>3, <1>4 DEF Request

\* The process stops, wherever it is.
LEMMA ExitRefines ==
  ASSUME IInv, Exit
  PROVE  Durable!Next \/ UNCHANGED Durable!vars
<1> TypeOK /\ Complete
  BY DEF IInv
<1>1. /\ server' = "down" /\ Served' = expected
      /\ UNCHANGED <<installed, mishap>>
  BY DEF Exit, Served
<1>2. Asked' = Asked
  <2>1. \A r \in Requests : (pc'[r] = "idle") <=> (pc[r] = "idle")
    BY DEF Exit, Running, Creating, Staging
  <2> QED BY <2>1 DEF Asked
<1>3. CASE server = "up"
  <2>1. \/ Served' = Served
        \/ (mishap \ {"name"}) \cap {"rename", "log", "unread"} # {}
    BY <1>1, <1>3 DEF Complete, Served
  <2>2. Durable!Turn
    BY <1>1, <1>2, <1>3, <2>1 DEF Durable!Turn, Asked
  <2> QED BY <2>2 DEF Durable!Next
<1>4. CASE server # "up"
  <2>1. Served' = Served
    BY <1>1, <1>4 DEF Served
  <2> QED BY <1>1, <1>2, <1>4, <2>1, ServedStays
<1> QED BY <1>3, <1>4

\* The next start, step by step: it installs what is staged, meets a mishap, or
\* opens the database that it has found complete.
LEMMA StartRefines ==
  ASSUME IInv, IInv', Start
  PROVE  Durable!Next \/ UNCHANGED Durable!vars
<1> TypeOK /\ TypeOK' /\ Phases /\ Complete' /\ Whole /\ Once
  BY DEF IInv
<1>1. server # "up" /\ Asked' = Asked
  BY DEF Start, ReadMarker, SkipMarker, RemoveLog, InstallStaged, InstallFails,
         MarkApplied, Sweep, OpenDatabase, Asked
<1>2. CASE ReadMarker \/ MarkApplied \/ Sweep
  <2>1. server' # "up" /\ UNCHANGED <<expected, installed, mishap>>
    BY <1>2 DEF ReadMarker, MarkApplied, Sweep
  <2> QED BY <1>1, <2>1, ServedStays DEF Served
<1>3. CASE InstallStaged
  <2> DEFINE r == staged.of
  <2>1. staged \in StagedFile /\ Ready
    BY <1>3 DEF InstallStaged, Phases, Ready, TypeOK
  <2>2. r \in Requests /\ r \notin installed /\ pc[r] # "idle"
    BY <2>1 DEF StagedFile, Once, Ended, Ready
  <2>3. Served' = [base |-> r, log |-> {}] \/ "overlap" \in mishap \ {"name"}
    BY <1>3, <2>1 DEF InstallStaged, Served, DatabaseIn, Whole
  <2>4. Durable!Install(r)
    BY <1>1, <1>3, <2>2, <2>3 DEF InstallStaged, Durable!Install, Asked
  <2> QED BY <2>2, <2>4 DEF Durable!Next
<1>4. CASE SkipMarker \/ RemoveLog \/ InstallFails
  <2>1. server' # "up" /\ UNCHANGED <<expected, installed>>
    BY <1>4 DEF SkipMarker, RemoveLog, InstallFails
  <2>2. Served' = Served
    BY <1>1, <2>1 DEF Served
  <2>3. PICK m \in {"rename", "log", "unread"} :
          mishap' \in {mishap, mishap \cup {m}}
    BY <1>4 DEF SkipMarker, RemoveLog, InstallFails
  <2>4. mishap' \ {"name"} \in {mishap \ {"name"}, (mishap \ {"name"}) \cup {m}}
    BY <2>3
  <2>5. CASE mishap' \ {"name"} = mishap \ {"name"}
    BY <1>1, <2>1, <2>2, <2>5, ServedStays
  <2>6. CASE mishap' \ {"name"} # mishap \ {"name"}
    <3>1. Durable!Mishap(m)
      BY <1>1, <2>1, <2>2, <2>4, <2>6 DEF Durable!Mishap, Asked
    <3> QED BY <3>1 DEF Durable!Next
  <2> QED BY <2>5, <2>6
<1>5. CASE OpenDatabase
  <2>1. server' = "up" /\ UNCHANGED <<expected, installed, mishap>>
    BY <1>5 DEF OpenDatabase
  <2>2. \/ Served' = Served
        \/ (mishap \ {"name"}) \cap {"rename", "log", "unread"} # {}
    BY <1>1, <2>1 DEF Complete, Served
  <2>3. Durable!Turn
    BY <1>1, <2>1, <2>2 DEF Durable!Turn, Asked
  <2> QED BY <2>3 DEF Durable!Next
<1> QED BY <1>2, <1>3, <1>4, <1>5 DEF Start

LEMMA StepRefines ==
  ASSUME IInv, IInv', [Next]_vars
  PROVE  Durable!Next \/ UNCHANGED Durable!vars
<1> TypeOK /\ TypeOK' /\ Phases
  BY DEF IInv
<1>1. ASSUME NEW w \in Writes, Commit(w) PROVE Durable!Next
  <2>1. /\ server = "up" /\ UNCHANGED <<server, pc, installed, mishap, live>>
        /\ wal' = wal \cup {w}
    BY <1>1 DEF Commit
  <2>2. live \in Database
    BY <2>1 DEF Phases, TypeOK
  <2>3. Served' = [Served EXCEPT !.log = @ \cup {w}]
    BY <2>1, <2>2 DEF Served, Contents, Database
  <2>4. Durable!Commit(w)
    BY <2>1, <2>3 DEF Durable!Commit
  <2> QED BY <2>4 DEF Durable!Next
<1>2. CASE Checkpoint
  <2>1. /\ server = "up" /\ UNCHANGED <<server, pc, installed, mishap>>
        /\ live' = Contents /\ wal' = {}
    BY <1>2 DEF Checkpoint
  <2>2. live \in Database
    BY <2>1 DEF Phases, TypeOK
  <2>3. Served' = Served
    BY <2>1, <2>2 DEF Served, Contents, Database
  <2> QED BY <2>1, <2>3, ServedStays DEF Asked
<1>3. ASSUME NEW n \in Names, DeleteBackup(n) PROVE UNCHANGED Durable!vars
  BY <1>3, ServedStays DEF DeleteBackup, disk, Served, Contents, Asked
<1>4. CASE UNCHANGED vars
  BY <1>4, ServedStays DEF vars, disk, Served, Contents, Asked
<1>5. CASE Crash \/ RestartAfterRestore
  BY <1>5, ExitRefines DEF Crash, RestartAfterRestore
<1> QED
  BY <1>1, <1>2, <1>3, <1>4, <1>5, RequestRefines, StartRefines DEF Next

\* Whatever is interrupted, users find what RestorableDatabase promises.
THEOREM ImplementsDurable == Spec => DurableSpec
<1>1. Init => Durable!Init
  BY DEF Init, Durable!Init, Served
<1>2. IInv /\ IInv' /\ [Next]_vars => [Durable!Next]_(Durable!vars)
  BY StepRefines
<1> QED BY <1>1, <1>2, Invariant, PTL DEF Spec, DurableSpec, Durable!Spec
================================================================================
