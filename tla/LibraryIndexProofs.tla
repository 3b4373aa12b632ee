-------------------------- MODULE LibraryIndexProofs --------------------------
(***************************************************************************)
(* What LibraryIndex promises of one library's records, for every number   *)
(* of files and of concurrent scans.                                       *)
(***************************************************************************)
EXTENDS LibraryIndex, TLAPS

\* The initial states are well typed.
LEMMA TypeInit == Init => TypeOK
<1> SUFFICES ASSUME Init PROVE TypeOK
  OBVIOUS
<1>1. 0 \in 0..MaxChanges
  BY LibraryIndexAssumption
<1>2. pc \in [Scans -> Writing \cup {"idle", "finishing", "over"}]
  BY DEF Init
<1> QED
  BY <1>1, <1>2 DEF Init, TypeOK

\* Every step keeps the type invariant.
LEMMA TypeStep == TypeOK /\ [Next]_vars => TypeOK'
<1> SUFFICES ASSUME TypeOK, [Next]_vars PROVE TypeOK'
  OBVIOUS
<1> USE LibraryIndexAssumption DEF TypeOK, Writing, Walking, Goes, Disturbs, InUse,
                                   index, work, others
<1>1. ASSUME NEW f \in Files, Appear(f) PROVE TypeOK'
  BY <1>1 DEF Appear
<1>2. ASSUME NEW f \in Files, Vanish(f) PROVE TypeOK'
  BY <1>2 DEF Vanish
<1>3. ASSUME NEW f \in Files, HandleRemoval(f) PROVE TypeOK'
  BY <1>3 DEF HandleRemoval
<1>4. ASSUME NEW s \in Scans, Scan(s) PROVE TypeOK'
  <2>1. CASE ReadLibrary(s)
    BY <2>1 DEF ReadLibrary
  <2>2. CASE Claim(s)
    BY <2>2 DEF Claim
  <2>3. CASE CheckPaths(s)
    BY <2>3 DEF CheckPaths
  <2>4. CASE CleanIndex(s)
    BY <2>4 DEF CleanIndex
  <2>5. CASE ListRows(s)
    BY <2>5 DEF ListRows
  <2>6. CASE EndScan(s)
    BY <2>6 DEF EndScan
  <2>7. CASE ScanFails(s)
    BY <2>7 DEF ScanFails
  <2>8. ASSUME NEW f \in Files, Visit(s, f) PROVE TypeOK'
    BY <2>8 DEF Visit
  <2>9. ASSUME NEW f \in Files, SaveUpdated(s, f) PROVE TypeOK'
    BY <2>9 DEF SaveUpdated
  <2>10. ASSUME NEW f \in Files, SaveNew(s, f) PROVE TypeOK'
    BY <2>10 DEF SaveNew
  <2>11. ASSUME NEW f \in Files, Purge(s, f) PROVE TypeOK'
    BY <2>11 DEF Purge
  <2>12. CASE StoreLibrary(s)
    BY <2>12 DEF StoreLibrary
  <2>13. CASE Finish(s)
    BY <2>13 DEF Finish
  <2>14. CASE ListArtwork(s)
    BY <2>14 DEF ListArtwork
  <2>15. ASSUME NEW f \in Files, HealArtwork(s, f) PROVE TypeOK'
    BY <2>15 DEF HealArtwork
  <2> QED
    BY <1>4, <2>1, <2>2, <2>3, <2>4, <2>5, <2>6, <2>7, <2>8, <2>9, <2>10, <2>11,
       <2>12, <2>13, <2>14, <2>15 DEF Scan
<1>5. CASE BeginDelete
  BY <1>5 DEF BeginDelete
<1>6. CASE EmptyIndex
  BY <1>6 DEF EmptyIndex
<1>7. CASE DeleteFails
  BY <1>7 DEF DeleteFails
<1>8. CASE DeleteLibrary
  BY <1>8 DEF DeleteLibrary
<1>9. CASE BeginUpdate
  BY <1>9 DEF BeginUpdate
<1>10. CASE EndUpdate
  BY <1>10 DEF EndUpdate
<1>11. CASE FindResidue
  BY <1>11 DEF FindResidue
<1>12. ASSUME NEW f \in Files, PurgeResidue(f) PROVE TypeOK'
  BY <1>12 DEF PurgeResidue
<1>13. ASSUME NEW f \in Files, DeleteMedia(f) PROVE TypeOK'
  BY <1>13 DEF DeleteMedia
<1>14. ASSUME NEW f \in Files, BeginEdit(f) \/ BeginImport(f) \/ EndEdit(f)
       PROVE  TypeOK'
  <2>1. CASE BeginEdit(f)
    BY <2>1 DEF BeginEdit
  <2>2. CASE BeginImport(f)
    BY <2>2 DEF BeginImport
  <2>3. CASE EndEdit(f)
    BY <2>3 DEF EndEdit
  <2> QED
    BY <1>14, <2>1, <2>2, <2>3
<1>15. CASE Restart
  BY <1>15 DEF Restart
<1>16. CASE UNCHANGED vars
  BY <1>16 DEF vars
<1> QED
  BY <1>1, <1>2, <1>3, <1>4, <1>5, <1>6, <1>7, <1>8, <1>9, <1>10, <1>11, <1>12,
     <1>13, <1>14, <1>15, <1>16 DEF Next

\* Type correctness.
THEOREM TypeCorrect == Spec => []TypeOK
  BY TypeInit, TypeStep, PTL DEF Spec

-----------------------------------------------------------------------------
(* ScanIsExact.                                                            *)

\* While a scan works, of every file that nobody disturbed: before the walk comes
\* to it, the listing still tells whether it has a record; a known one has one;
\* what is to be saved is on disk; and what is dealt with is as it should be.
Dealt(s, f) == f \notin todo[s] \cup pending[s] \cup known[s]

FileInv(s, f) ==
  /\ f \in todo[s] => (f \in rows <=> f \in known[s])
  /\ f \in known[s] => f \in rows
  /\ f \in updates[s] \cup pending[s] => f \in disk
  /\ Dealt(s, f) => (f \in rows <=> f \in disk)

\* After the walk its records are right, and so is the list of what to repair.
Exactly(s, f) ==
  /\ f \in rows <=> f \in disk
  /\ f \in known[s] => f \in disk

ScanInv(s) ==
  /\ pc[s] \notin Exact \cup {"unlisted"} => excused[s] = {}
  /\ pc[s] \notin Walking => todo[s] \cup updates[s] \cup pending[s] = {}
  /\ pc[s] = "walking" => \A f \in Files \ excused[s] : FileInv(s, f)
  /\ pc[s] \in {"healing", "storing"} =>
       \A f \in Files \ excused[s] : Exactly(s, f)

\* A step that leaves a scan alone and touches only the files F, which the scan
\* is excused from then on.
Frame(s, F) ==
  /\ pc'[s] = pc[s] /\ known'[s] = known[s] /\ todo'[s] = todo[s]
  /\ pending'[s] = pending[s] /\ updates'[s] = updates[s]
  /\ pc[s] \in Exact => excused[s] \cup F \subseteq excused'[s]
  /\ pc[s] \notin Exact => excused[s] = excused'[s]
  /\ \A f \in Files \ F : /\ f \in rows' <=> f \in rows
                          /\ f \in disk' <=> f \in disk

\* Such a step keeps the scan's invariant.
LEMMA Bystander ==
  ASSUME NEW s \in Scans, ScanInv(s), NEW F, Frame(s, F)
  PROVE  ScanInv(s)'
<1> USE DEF Exact, Walking
<1>1. ASSUME pc[s] \in Exact, NEW f \in Files \ excused'[s]
      PROVE  f \in Files \ excused[s] /\ f \notin F
  BY <1>1 DEF Frame
<1>2. ASSUME pc[s] = "walking", NEW f \in Files \ excused'[s] PROVE FileInv(s, f)'
  <2>1. FileInv(s, f)
    BY <1>1, <1>2 DEF ScanInv
  <2> QED
    BY <1>1, <1>2, <2>1 DEF FileInv, Dealt, Frame
<1>3. ASSUME pc[s] \in {"healing", "storing"}, NEW f \in Files \ excused'[s]
      PROVE  Exactly(s, f)'
  <2>1. Exactly(s, f)
    BY <1>1, <1>3 DEF ScanInv
  <2> QED
    BY <1>1, <1>3, <2>1 DEF Exactly, Frame
<1> QED
  BY <1>2, <1>3 DEF ScanInv, Frame

\* Another scan's step is such a step.
LEMMA OtherScan ==
  ASSUME TypeOK, NEW s \in Scans, NEW t \in Scans \ {s}, Scan(t)
  PROVE  \E F : Frame(s, F)
<1> USE DEF TypeOK, Frame, Goes, Disturbs, index, work, others
<1>1. CASE ReadLibrary(t)
  <2> Frame(s, {})
    BY <1>1 DEF ReadLibrary
  <2> QED
    OBVIOUS
<1>2. CASE Claim(t)
  <2> Frame(s, {})
    BY <1>2 DEF Claim
  <2> QED
    OBVIOUS
<1>3. CASE CheckPaths(t)
  <2> Frame(s, {})
    BY <1>3 DEF CheckPaths
  <2> QED
    OBVIOUS
<1>4. CASE CleanIndex(t)
  <2> Frame(s, rows) \/ Frame(s, {})
    BY <1>4 DEF CleanIndex
  <2> QED
    OBVIOUS
<1>5. CASE ListRows(t)
  <2> Frame(s, {})
    BY <1>5 DEF ListRows
  <2> QED
    OBVIOUS
<1>6. CASE EndScan(t)
  <2> Frame(s, {})
    BY <1>6 DEF EndScan
  <2> QED
    OBVIOUS
<1>7. CASE ScanFails(t)
  <2> Frame(s, {})
    BY <1>7 DEF ScanFails
  <2> QED
    OBVIOUS
<1>8. ASSUME NEW f \in Files, Visit(t, f) PROVE \E F : Frame(s, F)
  <2>1. CASE UNCHANGED rows
    <3> Frame(s, {})
      BY <1>8, <2>1 DEF Visit
    <3> QED
      OBVIOUS
  <2>2. CASE rows' # rows
    <3> Frame(s, {f})
      BY <1>8, <2>2 DEF Visit
    <3> QED
      OBVIOUS
  <2> QED
    BY <2>1, <2>2
<1>9. ASSUME NEW f \in Files, SaveUpdated(t, f) PROVE \E F : Frame(s, F)
  <2>1. CASE Disturbs({f}, {t})
    <3> Frame(s, {f})
      BY <1>9, <2>1 DEF SaveUpdated
    <3> QED
      OBVIOUS
  <2>2. CASE ~Disturbs({f}, {t})
    <3> Frame(s, {})
      BY <1>9, <2>2 DEF SaveUpdated
    <3> QED
      OBVIOUS
  <2> QED
    BY <2>1, <2>2
<1>10. ASSUME NEW f \in Files, SaveNew(t, f) PROVE \E F : Frame(s, F)
  <2>1. CASE Disturbs({f}, {t})
    <3> Frame(s, {f})
      BY <1>10, <2>1 DEF SaveNew
    <3> QED
      OBVIOUS
  <2>2. CASE ~Disturbs({f}, {t})
    <3> Frame(s, {})
      BY <1>10, <2>2 DEF SaveNew
    <3> QED
      OBVIOUS
  <2> QED
    BY <2>1, <2>2
<1>11. ASSUME NEW f \in Files, Purge(t, f) PROVE \E F : Frame(s, F)
  <2>1. CASE Disturbs({f}, {t})
    <3> Frame(s, {f})
      BY <1>11, <2>1 DEF Purge
    <3> QED
      OBVIOUS
  <2>2. CASE ~Disturbs({f}, {t})
    <3> Frame(s, {})
      BY <1>11, <2>2 DEF Purge
    <3> QED
      OBVIOUS
  <2> QED
    BY <2>1, <2>2
<1>12. CASE StoreLibrary(t)
  <2> Frame(s, {})
    BY <1>12 DEF StoreLibrary
  <2> QED
    OBVIOUS
<1>13. CASE Finish(t)
  <2> Frame(s, {})
    BY <1>13 DEF Finish
  <2> QED
    OBVIOUS
<1>14. CASE ListArtwork(t)
  <2> Frame(s, {})
    BY <1>14 DEF ListArtwork
  <2> QED
    OBVIOUS
<1>15. ASSUME NEW f \in Files, HealArtwork(t, f) PROVE \E F : Frame(s, F)
  <2> Frame(s, {f})
    BY <1>15 DEF HealArtwork
  <2> QED
    OBVIOUS
<1> HIDE DEF Frame
<1> QED
  BY <1>1, <1>2, <1>3, <1>4, <1>5, <1>6, <1>7, <1>8, <1>9, <1>10, <1>11, <1>12,
     <1>13, <1>14, <1>15 DEF Scan

\* So is a step of anybody who is not a scan, but for the end of the process.
LEMMA NotAScan ==
  ASSUME TypeOK, NEW s \in Scans, [Next]_vars, ~Restart, \A t \in Scans : ~Scan(t)
  PROVE  \E F : Frame(s, F)
<1> USE DEF TypeOK, Frame, Disturbs, index, work, others
<1>1. ASSUME NEW f \in Files, Appear(f) \/ Vanish(f) \/ HandleRemoval(f)
      PROVE  \E F : Frame(s, F)
  <2> Frame(s, {f}) \/ Frame(s, {})
    BY <1>1 DEF Appear, Vanish, HandleRemoval
  <2> QED
    OBVIOUS
<1>2. CASE EmptyIndex
  <2> Frame(s, rows)
    BY <1>2 DEF EmptyIndex
  <2> QED
    OBVIOUS
<1>3. ASSUME NEW f \in Files, PurgeResidue(f) PROVE \E F : Frame(s, F)
  <2> Frame(s, {f}) \/ Frame(s, {})
    BY <1>3 DEF PurgeResidue
  <2> QED
    OBVIOUS
<1>5. ASSUME NEW f \in Files, DeleteMedia(f) PROVE \E F : Frame(s, F)
  <2> Frame(s, {f})
    BY <1>5 DEF DeleteMedia
  <2> QED
    OBVIOUS
<1>6. ASSUME NEW f \in Files, BeginEdit(f) \/ BeginImport(f) \/ EndEdit(f)
      PROVE  \E F : Frame(s, F)
  <2> Frame(s, {f}) \/ Frame(s, {})
    BY <1>6 DEF BeginEdit, BeginImport, EndEdit
  <2> QED
    OBVIOUS
<1>4. CASE BeginDelete \/ DeleteFails \/ DeleteLibrary \/ BeginUpdate
             \/ EndUpdate \/ FindResidue \/ UNCHANGED vars
  <2> Frame(s, {})
    BY <1>4 DEF BeginDelete, DeleteFails, DeleteLibrary, BeginUpdate, EndUpdate,
                FindResidue, vars
  <2> QED
    OBVIOUS
<1> HIDE DEF Frame
<1> QED
  BY <1>1, <1>2, <1>3, <1>4, <1>5, <1>6 DEF Next

\* A scan's own steps keep its invariant.
LEMMA OwnStep ==
  ASSUME TypeOK, NEW s \in Scans, ScanInv(s), Scan(s)
  PROVE  ScanInv(s)'
<1> USE DEF TypeOK, Goes, Disturbs, Exact, Walking, index, work, others
<1>1. CASE ReadLibrary(s) \/ Claim(s) \/ CheckPaths(s) \/ CleanIndex(s)
             \/ ScanFails(s) \/ StoreLibrary(s) \/ Finish(s)
  <2> pc'[s] \notin Exact \cup Walking /\ excused'[s] = {}
        /\ todo'[s] \cup updates'[s] \cup pending'[s] = {}
    BY <1>1 DEF ReadLibrary, Claim, CheckPaths, CleanIndex, ScanFails,
                StoreLibrary, Finish, ScanInv
  <2> QED
    BY DEF ScanInv
<1>2. CASE ListRows(s)
  <2>1. pc'[s] \in Walking /\ todo'[s] = Files /\ pending'[s] = {}
          /\ updates'[s] = {} /\ rows' = rows
          /\ (pc'[s] = "walking" => known'[s] = rows)
    BY <1>2 DEF ListRows, ScanInv
  <2>2. pc'[s] = "walking" => \A f \in Files : FileInv(s, f)'
    BY <2>1 DEF FileInv, Dealt
  <2> QED
    BY <1>2, <2>1, <2>2 DEF ListRows, ScanInv
<1>3. CASE EndScan(s)
  <2>1. pc[s] = "walking" /\ \A f \in Files : Dealt(s, f) /\ f \notin known[s]
    BY <1>3 DEF EndScan, Dealt
  <2>2. \A f \in Files \ excused[s] : Exactly(s, f)
    BY <2>1 DEF ScanInv, FileInv, Exactly
  <2> QED
    BY <1>3, <2>2 DEF EndScan, ScanInv, Exactly
<1>4. CASE ListArtwork(s)
  <2>1. PICK F \in SUBSET rows : known' = [known EXCEPT ![s] = F]
    BY <1>4 DEF ListArtwork
  <2> QED
    BY <1>4, <2>1 DEF ListArtwork, ScanInv, Exactly
<1>5. ASSUME NEW f \in Files, HealArtwork(s, f) PROVE ScanInv(s)'
  BY <1>5 DEF HealArtwork, ScanInv, Exactly
<1>6. ASSUME NEW f \in Files, Visit(s, f) \/ SaveUpdated(s, f) \/ SaveNew(s, f)
                                \/ Purge(s, f)
      PROVE  ScanInv(s)'
  <2>1. pc[s] \in Walking /\ pc'[s] = pc[s] /\ excused[s] \subseteq excused'[s]
    BY <1>6 DEF Visit, SaveUpdated, SaveNew, Purge
  <2>2. ASSUME pc[s] = "walking", NEW g \in Files \ excused'[s] PROVE FileInv(s, g)'
    <3>1. FileInv(s, g)
      BY <2>1, <2>2 DEF ScanInv
    <3>2. CASE Visit(s, f)
      BY <2>2, <3>1, <3>2 DEF Visit, FileInv, Dealt
    <3>3. CASE SaveUpdated(s, f)
      BY <2>2, <3>1, <3>3 DEF SaveUpdated, FileInv, Dealt
    <3>4. CASE SaveNew(s, f)
      BY <2>2, <3>1, <3>4 DEF SaveNew, FileInv, Dealt
    <3>5. CASE Purge(s, f)
      BY <2>2, <3>1, <3>5 DEF Purge, FileInv, Dealt
    <3> QED
      BY <1>6, <3>2, <3>3, <3>4, <3>5
  <2> QED
    BY <2>1, <2>2 DEF ScanInv
<1> QED
  BY <1>1, <1>2, <1>3, <1>4, <1>5, <1>6 DEF Scan

\* Every scan keeps its invariant at every step.
LEMMA ScansStep ==
  TypeOK /\ (\A s \in Scans : ScanInv(s)) /\ [Next]_vars
    => (\A s \in Scans : ScanInv(s))'
<1> SUFFICES ASSUME TypeOK, \A s \in Scans : ScanInv(s), [Next]_vars, NEW s \in Scans
             PROVE  ScanInv(s)'
  OBVIOUS
<1>1. CASE Scan(s)
  BY <1>1, OwnStep
<1>2. ASSUME NEW t \in Scans \ {s}, Scan(t) PROVE ScanInv(s)'
  BY <1>2, OtherScan, Bystander
<1>3. CASE ~Restart /\ \A t \in Scans : ~Scan(t)
  BY <1>3, NotAScan, Bystander
<1>4. CASE Restart
  BY <1>4 DEF Restart, ScanInv, TypeOK, Exact, Walking
<1> QED
  BY <1>1, <1>2, <1>3, <1>4

\* Whatever runs beside it, a scan leaves a record for exactly the files on disk,
\* but for those that it is excused from.
THEOREM ScansAreExact == Spec => []ScanIsExact
<1>1. Init => \A s \in Scans : ScanInv(s)
  BY DEF Init, ScanInv, Walking, Exact
<1>2. (\A s \in Scans : ScanInv(s)) => ScanIsExact
  BY DEF ScanInv, Exactly, ScanIsExact
<1> QED
  BY <1>1, <1>2, ScansStep, TypeCorrect, PTL DEF Spec

-----------------------------------------------------------------------------
(* DeletedIsEmpty.                                                         *)

\* From the moment Delete has emptied the index, it is empty and nothing can
\* write to it, or something that could has run since, or ran when it did so.
Emptied == deleting = "emptied" \/ ~there => raced \/ (rows = {} /\ ~InUse)

\* Every step keeps it.
LEMMA EmptiedStep == TypeOK /\ Emptied /\ [Next]_vars => Emptied'
<1> SUFFICES ASSUME TypeOK, Emptied, [Next]_vars PROVE Emptied'
  OBVIOUS
<1> USE DEF TypeOK, Emptied, InUse, Goes, Writing, Walking, index, work, others
<1>1. ASSUME NEW f \in Files, Appear(f) \/ Vanish(f) \/ HandleRemoval(f)
      PROVE  Emptied'
  BY <1>1 DEF Appear, Vanish, HandleRemoval
<1>2. ASSUME NEW s \in Scans, Scan(s) PROVE Emptied'
  <2>1. CASE ReadLibrary(s)
    BY <2>1 DEF ReadLibrary
  <2>2. CASE StoreLibrary(s)
    BY <2>2 DEF StoreLibrary
  <2>3. CASE pc[s] \in Writing /\ ~StoreLibrary(s)
    <3>1. deleting' = deleting /\ raced' = raced /\ there' = there /\ InUse
      BY <1>2, <2>3 DEF Scan, ReadLibrary, Claim, CheckPaths, CleanIndex, ListRows,
           EndScan, ScanFails, Visit, SaveUpdated, SaveNew, Purge, ListArtwork,
           HealArtwork, Finish
    <3> QED
      BY <2>3, <3>1
  <2>4. CASE Finish(s)
    BY <2>4 DEF Finish
  <2> QED
    BY <1>2, <2>1, <2>2, <2>3, <2>4 DEF Scan, Claim, CheckPaths, CleanIndex,
       ListRows, EndScan, ScanFails, Visit, SaveUpdated, SaveNew, Purge,
       ListArtwork, HealArtwork
<1>3. CASE BeginDelete \/ EmptyIndex \/ DeleteFails \/ DeleteLibrary
  BY <1>3 DEF BeginDelete, EmptyIndex, DeleteFails, DeleteLibrary
<1>4. CASE BeginUpdate \/ EndUpdate \/ FindResidue
  BY <1>4 DEF BeginUpdate, EndUpdate, FindResidue
<1>5. ASSUME NEW f \in Files, PurgeResidue(f) PROVE Emptied'
  BY <1>5 DEF PurgeResidue
<1>6. ASSUME NEW f \in Files, DeleteMedia(f) PROVE Emptied'
  BY <1>6 DEF DeleteMedia
<1>7. ASSUME NEW f \in Files, BeginEdit(f) \/ BeginImport(f) \/ EndEdit(f)
      PROVE  Emptied'
  BY <1>7 DEF BeginEdit, BeginImport, EndEdit
<1>8. CASE Restart
  BY <1>8 DEF Restart
<1>9. CASE UNCHANGED vars
  BY <1>9 DEF vars
<1> QED
  BY <1>1, <1>2, <1>3, <1>4, <1>5, <1>6, <1>7, <1>8, <1>9 DEF Next

\* A deleted library has no records, unless a scan, an edit or an import that could
\* write them was under way when Delete emptied the index or began after that, and
\* no start has cleaned up since.
THEOREM DeletedLeavesNothing == Spec => []DeletedIsEmpty
<1>1. Init => Emptied
  BY DEF Init, Emptied
<1>2. Emptied => DeletedIsEmpty
  BY DEF Emptied, DeletedIsEmpty
<1> QED
  BY <1>1, <1>2, EmptiedStep, TypeCorrect, PTL DEF Spec

=============================================================================
