------------------------- MODULE PublicationProofs -------------------------
(***************************************************************************)
(* The safety of the snapshot store, for any number of publishers, readers *)
(* and keys, and any number of power losses and outside interferences; and *)
(* that it implements the archive of SnapshotArchive.                      *)
(***************************************************************************)
EXTENDS Publication, TLAPS

\* Every step keeps every variable in its type.
LEMMA TypeOKStep == TypeOK /\ [Next]_vars => TypeOK'
<1> SUFFICES ASSUME TypeOK, [Next]_vars
             PROVE  TypeOK'
  OBVIOUS
<1> USE DEF TypeOK, Goto, Return, Phase, Running, PreparePhases, CommitPhases,
            LockedPhases, files, pointer, readers, world
<1>1. ASSUME NEW p \in Publisher, Begin(p) PROVE TypeOK'
  BY <1>1 DEF Begin
<1>2. ASSUME NEW p \in Publisher, PrepareRoot(p) \/ PrepareSnapshots(p) PROVE TypeOK'
  <2>1. ASSUME NEW from \in Phase, NEW to \in Phase, NEW made \in SUBSET {"root", "snapshots"},
               CreateDirectory(p, from, to, made)
        PROVE  TypeOK'
    BY <2>1 DEF CreateDirectory
  <2>2. ASSUME NEW from \in Phase, NEW to \in Phase, NEW ds, SyncPhase(p, from, to, ds)
        PROVE  TypeOK'
    BY <2>2 DEF SyncPhase, SyncDirectories, Visible, Target
  <2>3. QED  BY <1>2, <2>1, <2>2 DEF PrepareRoot, PrepareSnapshots
<1>3. ASSUME NEW p \in Publisher, WriteTemporary(p) \/ SyncTemporary(p) PROVE TypeOK'
  BY <1>3 DEF WriteTemporary, SyncTemporary
<1>4. ASSUME NEW p \in Publisher, RenameFinal(p) PROVE TypeOK'
  BY <1>4 DEF RenameFinal
<1>5. ASSUME NEW p \in Publisher, SyncSnapshots(p) PROVE TypeOK'
  BY <1>5 DEF SyncSnapshots, SyncPhase, SyncDirectories, Visible, Target
<1>6. ASSUME NEW p \in Publisher, AcquireLatestLock(p) \/ LinkTemporary(p) PROVE TypeOK'
  BY <1>6 DEF AcquireLatestLock, LinkTemporary
<1>7. ASSUME NEW p \in Publisher, InspectLatest(p) PROVE TypeOK'
  BY <1>7 DEF InspectLatest, InspectedLatest, Target, Result, PublishedResults
<1>8. ASSUME NEW p \in Publisher, RenameLatest(p) PROVE TypeOK'
  BY <1>8 DEF RenameLatest, Target
<1>9. ASSUME NEW p \in Publisher, SyncRoot(p) PROVE TypeOK'
  BY <1>9 DEF SyncRoot, SyncDirectories, Visible, Target, Result, PublishedResults
<1>10. ASSUME NEW p \in Publisher, Fail(p) PROVE TypeOK'
  BY <1>10 DEF Fail, FailureOf, TempsAfterFailure, ReleasedBy, Result, PublishedResults
<1>11. ASSUME NEW p \in Publisher, ProcessCrash(p) PROVE TypeOK'
  BY <1>11 DEF ProcessCrash, ReleasedBy
<1>12. CASE PowerLoss
  BY <1>12 DEF PowerLoss, SurvivingDirs, SurvivingKeys, SurvivingTemps, Visible, Target
<1>13. CASE Tamper
  BY <1>13 DEF Tamper, Visible, Target
<1>14. ASSUME NEW r \in Reader, SelectLatest(r) \/ OpenSelected(r) PROVE TypeOK'
  BY <1>14 DEF SelectLatest, OpenSelected
<1>15. CASE UNCHANGED vars
  BY <1>15 DEF vars
<1>16. QED
  BY <1>1, <1>2, <1>3, <1>4, <1>5, <1>6, <1>7, <1>8, <1>9, <1>10, <1>11, <1>12,
     <1>13, <1>14, <1>15 DEF Next, Publish

\* TypeOK: every variable of the store stays in its type.
THEOREM TypeCorrect == Spec => []TypeOK
<1>1. Init => TypeOK
  BY DEF Init, TypeOK, Phase, Result, Target
<1>2. QED
  BY <1>1, TypeOKStep, PTL DEF Spec

\* Directories are made durable before anything is put into them.
LEMMA DirectoriesStep == IInv /\ [Next]_vars => DirectoriesFirst'
<1> SUFFICES ASSUME IInv, [Next]_vars
             PROVE  DirectoriesFirst'
  OBVIOUS
<1> USE DEF IInv, TypeOK, DirectoriesFirst, Goto, Return, Running, PreparePhases, CommitPhases, LockedPhases, files, pointer, readers, world, HasRoot, HasDurableRoot, HasSnapshots, HasDurableDirs
<1>1. ASSUME NEW p \in Publisher, Begin(p) PROVE DirectoriesFirst'
  BY <1>1 DEF Begin
<1>2. ASSUME NEW p \in Publisher, PrepareRoot(p) PROVE DirectoriesFirst'
  BY <1>2 DEF PrepareRoot, CreateDirectory, SyncPhase, SyncDirectories
<1>3. ASSUME NEW p \in Publisher, PrepareSnapshots(p) PROVE DirectoriesFirst'
  <2>1. CASE CreateDirectory(p, "createSnapshots", "secureSnapshots", {"root", "snapshots"})
    BY <2>1 DEF CreateDirectory
  <2>2. CASE SyncPhase(p, "secureSnapshots", "snapshotsAncestors", {"snapshots"})
    BY <2>2 DEF SyncPhase, SyncDirectories
  <2>3. CASE SyncPhase(p, "snapshotsAncestors", "writeTemp", {"root", "parent"})
    <3>1. durDirs' = {"root", "snapshots"}
      BY <2>3 DEF SyncPhase, SyncDirectories
    <3>2. QED  BY <2>3, <3>1 DEF SyncPhase
  <2>4. QED  BY <1>3, <2>1, <2>2, <2>3 DEF PrepareSnapshots
<1>4. ASSUME NEW p \in Publisher, WriteTemporary(p) PROVE DirectoriesFirst'
  BY <1>4 DEF WriteTemporary
<1>5. ASSUME NEW p \in Publisher, SyncTemporary(p) PROVE DirectoriesFirst'
  BY <1>5 DEF SyncTemporary
<1>6. ASSUME NEW p \in Publisher, RenameFinal(p) PROVE DirectoriesFirst'
  BY <1>6 DEF RenameFinal, FinalNameFree
<1>7. ASSUME NEW p \in Publisher, SyncSnapshots(p) PROVE DirectoriesFirst'
  BY <1>7 DEF SyncSnapshots, SyncPhase, SyncDirectories
<1>8. ASSUME NEW p \in Publisher, AcquireLatestLock(p) PROVE DirectoriesFirst'
  BY <1>8 DEF AcquireLatestLock, LockFree
<1>9. ASSUME NEW p \in Publisher, InspectLatest(p) PROVE DirectoriesFirst'
  BY <1>9 DEF InspectLatest
<1>10. ASSUME NEW p \in Publisher, LinkTemporary(p) PROVE DirectoriesFirst'
  BY <1>10 DEF LinkTemporary
<1>11. ASSUME NEW p \in Publisher, RenameLatest(p) PROVE DirectoriesFirst'
  BY <1>11 DEF RenameLatest
<1>12. ASSUME NEW p \in Publisher, SyncRoot(p) PROVE DirectoriesFirst'
  BY <1>12 DEF SyncRoot, SyncDirectories
<1>13. ASSUME NEW p \in Publisher, Fail(p) PROVE DirectoriesFirst'
  BY <1>13 DEF Fail, FailureOf, ReleasedBy
<1>14. ASSUME NEW p \in Publisher, ProcessCrash(p) PROVE DirectoriesFirst'
  BY <1>14 DEF ProcessCrash, ReleasedBy
<1>15. CASE PowerLoss
  BY <1>15 DEF PowerLoss, SurvivingDirs, SurvivingKeys, SurvivingTemps, Visible
<1>16. CASE Tamper
  BY <1>16 DEF Tamper
<1>17. ASSUME NEW r \in Reader, SelectLatest(r) \/ OpenSelected(r) PROVE DirectoriesFirst'
  BY <1>17 DEF SelectLatest, OpenSelected
<1>18. CASE UNCHANGED vars
  BY <1>18 DEF vars
<1>19. QED
  BY <1>1, <1>2, <1>3, <1>4, <1>5, <1>6, <1>7, <1>8, <1>9, <1>10, <1>11, <1>12, <1>13, <1>14, <1>15, <1>16, <1>17, <1>18
     DEF Next, Publish

\* Only synced files of their own publisher get an immutable name.
LEMMA ArchivedStep == IInv /\ [Next]_vars => ArchivedFilesAreSynced'
<1> SUFFICES ASSUME IInv, [Next]_vars
             PROVE  ArchivedFilesAreSynced'
  OBVIOUS
<1> USE DEF IInv, TypeOK, ArchivedFilesAreSynced, Goto, Return, Running, PreparePhases, CommitPhases, LockedPhases, files, pointer, readers, world, DirectoriesFirst, HasDurableDirs, Committed, Ended
<1>1. ASSUME NEW p \in Publisher, Begin(p) PROVE ArchivedFilesAreSynced'
  BY <1>1 DEF Begin
<1>2. ASSUME NEW p \in Publisher, PrepareRoot(p) PROVE ArchivedFilesAreSynced'
  BY <1>2 DEF PrepareRoot, CreateDirectory, SyncPhase, SyncDirectories
<1>3. ASSUME NEW p \in Publisher, PrepareSnapshots(p) PROVE ArchivedFilesAreSynced'
  BY <1>3 DEF PrepareSnapshots, CreateDirectory, SyncPhase, SyncDirectories
<1>4. ASSUME NEW p \in Publisher, WriteTemporary(p) PROVE ArchivedFilesAreSynced'
  BY <1>4 DEF WriteTemporary
<1>5. ASSUME NEW p \in Publisher, SyncTemporary(p) PROVE ArchivedFilesAreSynced'
  BY <1>5 DEF SyncTemporary
<1>6. ASSUME NEW p \in Publisher, RenameFinal(p) PROVE ArchivedFilesAreSynced'
  BY <1>6 DEF RenameFinal, FinalNameFree
<1>7. ASSUME NEW p \in Publisher, SyncSnapshots(p) PROVE ArchivedFilesAreSynced'
  BY <1>7 DEF SyncSnapshots, SyncPhase, SyncDirectories
<1>8. ASSUME NEW p \in Publisher, AcquireLatestLock(p) PROVE ArchivedFilesAreSynced'
  BY <1>8 DEF AcquireLatestLock, LockFree
<1>9. ASSUME NEW p \in Publisher, InspectLatest(p) PROVE ArchivedFilesAreSynced'
  BY <1>9 DEF InspectLatest
<1>10. ASSUME NEW p \in Publisher, LinkTemporary(p) PROVE ArchivedFilesAreSynced'
  BY <1>10 DEF LinkTemporary
<1>11. ASSUME NEW p \in Publisher, RenameLatest(p) PROVE ArchivedFilesAreSynced'
  BY <1>11 DEF RenameLatest
<1>12. ASSUME NEW p \in Publisher, SyncRoot(p) PROVE ArchivedFilesAreSynced'
  BY <1>12 DEF SyncRoot, SyncDirectories
<1>13. ASSUME NEW p \in Publisher, Fail(p) PROVE ArchivedFilesAreSynced'
  BY <1>13 DEF Fail, FailureOf, ReleasedBy
<1>14. ASSUME NEW p \in Publisher, ProcessCrash(p) PROVE ArchivedFilesAreSynced'
  BY <1>14 DEF ProcessCrash, ReleasedBy
<1>15. CASE PowerLoss
  BY <1>15 DEF PowerLoss, SurvivingDirs, SurvivingKeys, SurvivingTemps, Visible
<1>16. CASE Tamper
  BY <1>16 DEF Tamper
<1>17. ASSUME NEW r \in Reader, SelectLatest(r) \/ OpenSelected(r) PROVE ArchivedFilesAreSynced'
  BY <1>17 DEF SelectLatest, OpenSelected
<1>18. CASE UNCHANGED vars
  BY <1>18 DEF vars
<1>19. QED
  BY <1>1, <1>2, <1>3, <1>4, <1>5, <1>6, <1>7, <1>8, <1>9, <1>10, <1>11, <1>12, <1>13, <1>14, <1>15, <1>16, <1>17, <1>18
     DEF Next, Publish

\* A file that is synced is never damaged by a power loss.
LEMMA TearsStep == IInv /\ [Next]_vars => OnlyUnsyncedTears'
<1> SUFFICES ASSUME IInv, [Next]_vars
             PROVE  OnlyUnsyncedTears'
  OBVIOUS
<1> USE DEF IInv, TypeOK, OnlyUnsyncedTears, Goto, Return, Running, PreparePhases, CommitPhases, LockedPhases, files, pointer, readers, world, ArchivedFilesAreSynced, Committed, Ended, Untouched
<1>1. ASSUME NEW p \in Publisher, Begin(p) PROVE OnlyUnsyncedTears'
  BY <1>1 DEF Begin
<1>2. ASSUME NEW p \in Publisher, PrepareRoot(p) PROVE OnlyUnsyncedTears'
  BY <1>2 DEF PrepareRoot, CreateDirectory, SyncPhase, SyncDirectories
<1>3. ASSUME NEW p \in Publisher, PrepareSnapshots(p) PROVE OnlyUnsyncedTears'
  BY <1>3 DEF PrepareSnapshots, CreateDirectory, SyncPhase, SyncDirectories
<1>4. ASSUME NEW p \in Publisher, WriteTemporary(p) PROVE OnlyUnsyncedTears'
  BY <1>4 DEF WriteTemporary
<1>5. ASSUME NEW p \in Publisher, SyncTemporary(p) PROVE OnlyUnsyncedTears'
  BY <1>5 DEF SyncTemporary
<1>6. ASSUME NEW p \in Publisher, RenameFinal(p) PROVE OnlyUnsyncedTears'
  BY <1>6 DEF RenameFinal, FinalNameFree
<1>7. ASSUME NEW p \in Publisher, SyncSnapshots(p) PROVE OnlyUnsyncedTears'
  BY <1>7 DEF SyncSnapshots, SyncPhase, SyncDirectories
<1>8. ASSUME NEW p \in Publisher, AcquireLatestLock(p) PROVE OnlyUnsyncedTears'
  BY <1>8 DEF AcquireLatestLock, LockFree
<1>9. ASSUME NEW p \in Publisher, InspectLatest(p) PROVE OnlyUnsyncedTears'
  BY <1>9 DEF InspectLatest
<1>10. ASSUME NEW p \in Publisher, LinkTemporary(p) PROVE OnlyUnsyncedTears'
  BY <1>10 DEF LinkTemporary
<1>11. ASSUME NEW p \in Publisher, RenameLatest(p) PROVE OnlyUnsyncedTears'
  BY <1>11 DEF RenameLatest
<1>12. ASSUME NEW p \in Publisher, SyncRoot(p) PROVE OnlyUnsyncedTears'
  BY <1>12 DEF SyncRoot, SyncDirectories
<1>13. ASSUME NEW p \in Publisher, Fail(p) PROVE OnlyUnsyncedTears'
  <2>1. temps' \subseteq temps \cup {p}
    BY <1>13 DEF Fail, TempsAfterFailure
  <2>2. QED  BY <1>13, <2>1 DEF Fail
<1>14. ASSUME NEW p \in Publisher, ProcessCrash(p) PROVE OnlyUnsyncedTears'
  BY <1>14 DEF ProcessCrash, ReleasedBy
<1>15. CASE PowerLoss
  <2>1. PICK ds \in SurvivingDirs : \E ks \in SurvivingKeys(ds) :
          /\ temps' \in SurvivingTemps(ds, ks)
          /\ \E lost \in SUBSET ((temps' \cup {archive[k] : k \in ks}) \ synced) :
               torn' = torn \cup lost
    BY <1>15 DEF PowerLoss
  <2>2. PICK ks \in SurvivingKeys(ds) :
          /\ temps' \in SurvivingTemps(ds, ks)
          /\ \E lost \in SUBSET ((temps' \cup {archive[k] : k \in ks}) \ synced) :
               torn' = torn \cup lost
    BY <2>1
  <2>3. ks \subseteq Visible
    BY DEF SurvivingKeys
  <2>4. temps' \subseteq temps \cup {archive[k] : k \in Visible}
    BY <2>2 DEF SurvivingTemps
  <2>5. torn' \subseteq torn \cup ((temps' \cup {archive[k] : k \in Visible}) \ synced)
    BY <2>2, <2>3
  <2>6. /\ pc' = [q \in Publisher |-> IF pc[q] \in Running THEN "dead" ELSE pc[q]]
        /\ UNCHANGED <<synced, tampered>>
    BY <1>15 DEF PowerLoss
  <2>7. \A k \in Visible : archive[k] \in Publisher /\ pc[archive[k]] # "idle"
    BY DEF Visible
  <2>8. \A q \in temps' : pc'[q] \in Ended
    BY <2>4, <2>6, <2>7 DEF Phase
  <2>9. \A q \in torn' : q \in torn \/ (q \notin synced /\ pc'[q] \in Ended)
    BY <2>4, <2>5, <2>6, <2>7, <2>8 DEF Phase
  <2>10. QED  BY <2>6, <2>8, <2>9
<1>16. CASE Tamper
  BY <1>16 DEF Tamper
<1>17. ASSUME NEW r \in Reader, SelectLatest(r) \/ OpenSelected(r) PROVE OnlyUnsyncedTears'
  BY <1>17 DEF SelectLatest, OpenSelected
<1>18. CASE UNCHANGED vars
  BY <1>18 DEF vars
<1>19. QED
  BY <1>1, <1>2, <1>3, <1>4, <1>5, <1>6, <1>7, <1>8, <1>9, <1>10, <1>11, <1>12, <1>13, <1>14, <1>15, <1>16, <1>17, <1>18
     DEF Next, Publish

\* Past the directory sync, the snapshot is there to stay.
LEMMA CommittedStep == IInv /\ [Next]_vars => CommittedFirst'
<1> SUFFICES ASSUME IInv, [Next]_vars
             PROVE  CommittedFirst'
  OBVIOUS
<1> USE DEF IInv, TypeOK, CommittedFirst, Goto, Return, Running, PreparePhases, CommitPhases, LockedPhases, files, pointer, readers, world, ArchivedFilesAreSynced, Committed, PublishedResults, LockProtects, Ended
<1>1. ASSUME NEW p \in Publisher, Begin(p) PROVE CommittedFirst'
  BY <1>1 DEF Begin
<1>2. ASSUME NEW p \in Publisher, PrepareRoot(p) PROVE CommittedFirst'
  BY <1>2 DEF PrepareRoot, CreateDirectory, SyncPhase, SyncDirectories
<1>3. ASSUME NEW p \in Publisher, PrepareSnapshots(p) PROVE CommittedFirst'
  BY <1>3, MarkersAreNoPublishers DEF PrepareSnapshots, CreateDirectory, SyncPhase, SyncDirectories, Visible
<1>4. ASSUME NEW p \in Publisher, WriteTemporary(p) PROVE CommittedFirst'
  BY <1>4 DEF WriteTemporary
<1>5. ASSUME NEW p \in Publisher, SyncTemporary(p) PROVE CommittedFirst'
  BY <1>5 DEF SyncTemporary
<1>6. ASSUME NEW p \in Publisher, RenameFinal(p) PROVE CommittedFirst'
  BY <1>6, MarkersAreNoPublishers DEF RenameFinal, FinalNameFree
<1>7. ASSUME NEW p \in Publisher, SyncSnapshots(p) PROVE CommittedFirst'
  BY <1>7, MarkersAreNoPublishers DEF SyncSnapshots, SyncPhase, SyncDirectories, Visible
<1>8. ASSUME NEW p \in Publisher, AcquireLatestLock(p) PROVE CommittedFirst'
  BY <1>8 DEF AcquireLatestLock, LockFree
<1>9. ASSUME NEW p \in Publisher, InspectLatest(p) PROVE CommittedFirst'
  BY <1>9 DEF InspectLatest
<1>10. ASSUME NEW p \in Publisher, LinkTemporary(p) PROVE CommittedFirst'
  BY <1>10 DEF LinkTemporary
<1>11. ASSUME NEW p \in Publisher, RenameLatest(p) PROVE CommittedFirst'
  BY <1>11 DEF RenameLatest
<1>12. ASSUME NEW p \in Publisher, SyncRoot(p) PROVE CommittedFirst'
  BY <1>12 DEF SyncRoot, SyncDirectories
<1>13. ASSUME NEW p \in Publisher, Fail(p) PROVE CommittedFirst'
  BY <1>13 DEF Fail, FailureOf, ReleasedBy
<1>14. ASSUME NEW p \in Publisher, ProcessCrash(p) PROVE CommittedFirst'
  BY <1>14 DEF ProcessCrash, ReleasedBy
<1>15. CASE PowerLoss
  BY <1>15 DEF PowerLoss, SurvivingDirs, SurvivingKeys, SurvivingTemps, Visible
<1>16. CASE Tamper
  BY <1>16 DEF Tamper
<1>17. ASSUME NEW r \in Reader, SelectLatest(r) \/ OpenSelected(r) PROVE CommittedFirst'
  BY <1>17 DEF SelectLatest, OpenSelected
<1>18. CASE UNCHANGED vars
  BY <1>18 DEF vars
<1>19. QED
  BY <1>1, <1>2, <1>3, <1>4, <1>5, <1>6, <1>7, <1>8, <1>9, <1>10, <1>11, <1>12, <1>13, <1>14, <1>15, <1>16, <1>17, <1>18
     DEF Next, Publish

\* The pointer only ever holds committed keys.
LEMMA PointsStep == IInv /\ [Next]_vars => PointsToCommitted'
<1> SUFFICES ASSUME IInv, [Next]_vars
             PROVE  PointsToCommitted'
  OBVIOUS
<1> USE DEF IInv, TypeOK, PointsToCommitted, Goto, Return, Running, PreparePhases, CommitPhases, LockedPhases, files, pointer, readers, world, ArchivedFilesAreSynced, CommittedFirst, Committed, Ended, Untouched, LockProtects, Target
<1>1. ASSUME NEW p \in Publisher, Begin(p) PROVE PointsToCommitted'
  BY <1>1 DEF Begin
<1>2. ASSUME NEW p \in Publisher, PrepareRoot(p) PROVE PointsToCommitted'
  BY <1>2 DEF PrepareRoot, CreateDirectory, SyncPhase, SyncDirectories
<1>3. ASSUME NEW p \in Publisher, PrepareSnapshots(p) PROVE PointsToCommitted'
  BY <1>3, MarkersAreNoPublishers DEF PrepareSnapshots, CreateDirectory, SyncPhase, SyncDirectories, Visible
<1>4. ASSUME NEW p \in Publisher, WriteTemporary(p) PROVE PointsToCommitted'
  BY <1>4 DEF WriteTemporary
<1>5. ASSUME NEW p \in Publisher, SyncTemporary(p) PROVE PointsToCommitted'
  BY <1>5 DEF SyncTemporary
<1>6. ASSUME NEW p \in Publisher, RenameFinal(p) PROVE PointsToCommitted'
  BY <1>6 DEF RenameFinal, FinalNameFree
<1>7. ASSUME NEW p \in Publisher, SyncSnapshots(p) PROVE PointsToCommitted'
  BY <1>7, MarkersAreNoPublishers DEF SyncSnapshots, SyncPhase, SyncDirectories, Visible
<1>8. ASSUME NEW p \in Publisher, AcquireLatestLock(p) PROVE PointsToCommitted'
  BY <1>8 DEF AcquireLatestLock, LockFree
<1>9. ASSUME NEW p \in Publisher, InspectLatest(p) PROVE PointsToCommitted'
  BY <1>9 DEF InspectLatest
<1>10. ASSUME NEW p \in Publisher, LinkTemporary(p) PROVE PointsToCommitted'
  BY <1>10 DEF LinkTemporary
<1>11. ASSUME NEW p \in Publisher, RenameLatest(p) PROVE PointsToCommitted'
  <2>1. /\ archive[key[p]] = p /\ key[p] \in settled
        /\ result[p] = "none"
    BY <1>11 DEF RenameLatest
  <2>2. /\ latest' = key[p] /\ mayLatest' = mayLatest \cup {key[p]}
        /\ pc' = [pc EXCEPT ![p] = "syncRoot"]
        /\ UNCHANGED <<archive, settled, result, selected, tampered>>
    BY <1>11 DEF RenameLatest
  <2>3. key[p] \in Key /\ Junk \notin Key
    BY MarkersAreNoKeys
  <2>4. \A t \in mayLatest' \cap Key :
          /\ archive[t] # None /\ t \in settled
          /\ pc'[archive[t]] \in {"syncRoot"} \cup Ended
          /\ result[archive[t]] # "PublicationIndeterminate"
    BY <2>1, <2>2, MarkersAreNoPublishers
  <2>5. QED  BY <2>2, <2>3, <2>4
<1>12. ASSUME NEW p \in Publisher, SyncRoot(p) PROVE PointsToCommitted'
  BY <1>12 DEF SyncRoot, SyncDirectories
<1>13. ASSUME NEW p \in Publisher, Fail(p) PROVE PointsToCommitted'
  BY <1>13 DEF Fail, FailureOf, ReleasedBy
<1>14. ASSUME NEW p \in Publisher, ProcessCrash(p) PROVE PointsToCommitted'
  BY <1>14 DEF ProcessCrash, ReleasedBy
<1>15. CASE PowerLoss
  <2>0. PICK ds \in SurvivingDirs : \E ks \in SurvivingKeys(ds) :
          /\ archive' = [k \in Key |-> IF k \in ks THEN archive[k] ELSE None]
          /\ settled' = ks
          /\ latest' \in (IF "root" \in ds THEN mayLatest ELSE {None})
          /\ mayLatest' = {latest'}
    BY <1>15 DEF PowerLoss
  <2>1. PICK ks \in SurvivingKeys(ds) :
          /\ archive' = [k \in Key |-> IF k \in ks THEN archive[k] ELSE None]
          /\ settled' = ks
          /\ latest' \in (IF "root" \in ds THEN mayLatest ELSE {None})
          /\ mayLatest' = {latest'}
    BY <2>0
  <2>2. latest' \in mayLatest \cup {None}
    BY <2>1
  <2>3. ASSUME NEW t \in mayLatest \cap Key
        PROVE  t \in ks
    <3>1. durDirs = {"root", "snapshots"}
      BY <2>3
    <3>2. "snapshots" \in ds
      BY <3>1 DEF SurvivingDirs
    <3>3. QED  BY <2>3, <3>2 DEF SurvivingKeys
  <2>4. /\ pc' = [q \in Publisher |-> IF pc[q] \in Running THEN "dead" ELSE pc[q]]
        /\ selected' = [r \in Reader |-> None]
        /\ UNCHANGED <<result, tampered>>
    BY <1>15 DEF PowerLoss
  <2>5. ASSUME NEW t \in mayLatest' \cap Key
        PROVE  /\ archive'[t] = archive[t] /\ archive[t] \in Publisher
               /\ t \in settled'
               /\ pc'[archive[t]] \in Ended
               /\ result'[archive[t]] # "PublicationIndeterminate"
    <3>1. t \in mayLatest \cap Key
      BY <2>1, <2>2, MarkersAreNoKeys
    <3>2. t \in ks
      BY <2>3, <3>1
    <3>3. QED  BY <2>1, <2>4, <3>1, <3>2 DEF Phase
  <2>6. Untouched' => Junk \notin mayLatest'
    BY <2>1, <2>2, <2>4, MarkersAreNoKeys
  <2>7. QED  BY <2>1, <2>4, <2>5, <2>6, MarkersAreNoPublishers
<1>16. CASE Tamper
  BY <1>16, MarkersAreNoKeys DEF Tamper
<1>17. ASSUME NEW r \in Reader, SelectLatest(r) \/ OpenSelected(r) PROVE PointsToCommitted'
  BY <1>17 DEF SelectLatest, OpenSelected
<1>18. CASE UNCHANGED vars
  BY <1>18 DEF vars
<1>19. QED
  BY <1>1, <1>2, <1>3, <1>4, <1>5, <1>6, <1>7, <1>8, <1>9, <1>10, <1>11, <1>12, <1>13, <1>14, <1>15, <1>16, <1>17, <1>18
     DEF Next, Publish

\* The lock excludes, and protects what its holder saw.
LEMMA LockStep == IInv /\ [Next]_vars => LockProtects'
<1> SUFFICES ASSUME IInv, [Next]_vars
             PROVE  LockProtects'
  OBVIOUS
<1> USE DEF IInv, TypeOK, LockProtects, Goto, Return, Running, PreparePhases, CommitPhases, LockedPhases, files, pointer, readers, world
<1>1. ASSUME NEW p \in Publisher, Begin(p) PROVE LockProtects'
  BY <1>1 DEF Begin
<1>2. ASSUME NEW p \in Publisher, PrepareRoot(p) PROVE LockProtects'
  BY <1>2 DEF PrepareRoot, CreateDirectory, SyncPhase, SyncDirectories
<1>3. ASSUME NEW p \in Publisher, PrepareSnapshots(p) PROVE LockProtects'
  BY <1>3 DEF PrepareSnapshots, CreateDirectory, SyncPhase, SyncDirectories
<1>4. ASSUME NEW p \in Publisher, WriteTemporary(p) PROVE LockProtects'
  BY <1>4 DEF WriteTemporary
<1>5. ASSUME NEW p \in Publisher, SyncTemporary(p) PROVE LockProtects'
  BY <1>5 DEF SyncTemporary
<1>6. ASSUME NEW p \in Publisher, RenameFinal(p) PROVE LockProtects'
  BY <1>6 DEF RenameFinal, FinalNameFree
<1>7. ASSUME NEW p \in Publisher, SyncSnapshots(p) PROVE LockProtects'
  BY <1>7 DEF SyncSnapshots, SyncPhase, SyncDirectories
<1>8. ASSUME NEW p \in Publisher, AcquireLatestLock(p) PROVE LockProtects'
  BY <1>8, MarkersAreNoPublishers DEF AcquireLatestLock, LockFree
<1>9. ASSUME NEW p \in Publisher, InspectLatest(p) PROVE LockProtects'
  <2>1. PICK found \in Target : seen' = [seen EXCEPT ![p] = found]
    BY <1>9, TypeOK DEF InspectLatest, InspectedLatest, Target
  <2>. QED
    BY <1>9, MarkersAreNoKeys, MarkersAreNoPublishers
    DEF InspectLatest, InspectedLatest, KeepsCurrent, Target
<1>10. ASSUME NEW p \in Publisher, LinkTemporary(p) PROVE LockProtects'
  BY <1>10 DEF LinkTemporary
<1>11. ASSUME NEW p \in Publisher, RenameLatest(p) PROVE LockProtects'
  BY <1>11 DEF RenameLatest
<1>12. ASSUME NEW p \in Publisher, SyncRoot(p) PROVE LockProtects'
  BY <1>12, MarkersAreNoPublishers DEF SyncRoot, SyncDirectories
<1>13. ASSUME NEW p \in Publisher, Fail(p) PROVE LockProtects'
  BY <1>13, MarkersAreNoPublishers DEF Fail, FailureOf, ReleasedBy
<1>14. ASSUME NEW p \in Publisher, ProcessCrash(p) PROVE LockProtects'
  BY <1>14, MarkersAreNoPublishers DEF ProcessCrash, ReleasedBy
<1>15. CASE PowerLoss
  BY <1>15, MarkersAreNoPublishers DEF PowerLoss
<1>16. CASE Tamper
  BY <1>16, MarkersAreNoKeys DEF Tamper
<1>17. ASSUME NEW r \in Reader, SelectLatest(r) \/ OpenSelected(r) PROVE LockProtects'
  BY <1>17 DEF SelectLatest, OpenSelected
<1>18. CASE UNCHANGED vars
  BY <1>18 DEF vars
<1>19. QED
  BY <1>1, <1>2, <1>3, <1>4, <1>5, <1>6, <1>7, <1>8, <1>9, <1>10, <1>11, <1>12, <1>13, <1>14, <1>15, <1>16, <1>17, <1>18
     DEF Next, Publish

\* The invariant is inductive.
LEMMA IInvStep == IInv /\ [Next]_vars => IInv'
BY TypeOKStep, DirectoriesStep, ArchivedStep, TearsStep, CommittedStep, PointsStep,
   LockStep DEF IInv

LEMMA IInvHolds == Spec => []IInv
<1>1. Init => IInv
  <2> SUFFICES ASSUME Init PROVE IInv
    OBVIOUS
  <2>1. TypeOK
    BY DEF Init, TypeOK, Phase, Result, Target
  <2>2. DirectoriesFirst /\ ArchivedFilesAreSynced /\ OnlyUnsyncedTears /\ LockProtects
    BY MarkersAreNoPublishers
    DEF Init, DirectoriesFirst, ArchivedFilesAreSynced, OnlyUnsyncedTears, LockProtects,
        HasRoot, HasDurableRoot, HasSnapshots, HasDurableDirs, CommitPhases, LockedPhases
  <2>3. CommittedFirst /\ PointsToCommitted
    BY MarkersAreNoKeys
    DEF Init, CommittedFirst, PointsToCommitted, Committed, LockedPhases, PublishedResults
  <2>4. QED  BY <2>1, <2>2, <2>3 DEF IInv
<1>2. QED
  BY <1>1, IInvStep, PTL DEF Spec

\* Under the invariant, a committed key survives any power loss, and loads
\* unless somebody damaged its file.
LEMMA CommittedLasts ==
  ASSUME IInv, NEW k \in Key, archive[k] # None, k \in settled
  PROVE  Survives(k) /\ (Untouched => Loadable(k))
BY DEF IInv, TypeOK, ArchivedFilesAreSynced, OnlyUnsyncedTears, Survives, Loadable

\* LatestNeverDangles: `latest`, now or after a power loss, is absent or names
\* a complete snapshot that cannot be lost (update_latest after the syncs).
THEOREM LatestIsSafe == Spec => []LatestNeverDangles
<1>1. IInv => LatestNeverDangles
  <2> SUFFICES ASSUME IInv, Untouched, NEW t \in mayLatest \cup {latest}, t # None
               PROVE  t \in Key /\ Survives(t) /\ Loadable(t)
    BY DEF LatestNeverDangles
  <2>1. t \in mayLatest \cap Key
    BY DEF IInv, TypeOK, PointsToCommitted, Target
  <2>2. archive[t] # None /\ t \in settled
    BY <2>1 DEF IInv, PointsToCommitted
  <2>3. QED  BY <2>1, <2>2, CommittedLasts
<1>2. QED
  BY <1>1, IInvHolds, PTL

\* PublishedSurvives: what publish() called Published is under its key for good.
THEOREM PublishedIsDurable == Spec => []PublishedSurvives
<1>1. IInv => PublishedSurvives
  <2> SUFFICES ASSUME IInv, NEW p \in Publisher, result[p] \in PublishedResults
               PROVE  /\ archive[key[p]] = p
                      /\ Survives(key[p])
                      /\ Untouched => Loadable(key[p])
    BY DEF PublishedSurvives
  <2>1. /\ key[p] \in Key
        /\ archive[key[p]] = p /\ key[p] \in settled
    BY DEF IInv, TypeOK, CommittedFirst
  <2>2. archive[key[p]] # None
    BY <2>1, MarkersAreNoPublishers
  <2>3. QED  BY <2>1, <2>2, CommittedLasts
<1>2. QED
  BY <1>1, IInvHolds, PTL

\* IndeterminateNeverLatest: a publication whose directory sync failed is never
\* what `latest` names (the early return of publish_with_file_system).
THEOREM IndeterminateIsNeverLatest == Spec => []IndeterminateNeverLatest
<1>1. IInv => IndeterminateNeverLatest
  BY DEF IInv, PointsToCommitted, IndeterminateNeverLatest
<1>2. QED
  BY <1>1, IInvHolds, PTL

\* SelectionStaysLoadable: between the two steps of load_latest the selected
\* snapshot cannot go away.
THEOREM SelectionsLoad == Spec => []SelectionStaysLoadable
<1>1. IInv => SelectionStaysLoadable
  <2> SUFFICES ASSUME IInv, Untouched, NEW r \in Reader, selected[r] # None
               PROVE  Loadable(selected[r])
    BY DEF SelectionStaysLoadable
  <2>1. /\ selected[r] \in Key
        /\ archive[selected[r]] # None /\ selected[r] \in settled
    BY DEF IInv, TypeOK, PointsToCommitted
  <2>2. QED  BY <2>1, CommittedLasts
<1>2. QED
  BY <1>1, IInvHolds, PTL

\* SnapshotsAreImmutable: no step of any process takes a file out of the archive
\* or puts another one in its place (rename_no_replace).
THEOREM SnapshotsStay == Spec => SnapshotsAreImmutable
<1>1. ASSUME IInv, [Next]_vars PROVE [KeepsSnapshots]_vars
  <2> SUFFICES ASSUME NEW k \in Key, archive[k] # None
               PROVE  \/ archive'[k] = archive[k]
                      \/ losses' # losses /\ k \notin settled /\ archive'[k] = None
    BY DEF KeepsSnapshots
  <2> USE <1>1 DEF IInv, TypeOK, files
  <2>1. ASSUME NEW p \in Publisher, RenameFinal(p) PROVE archive'[k] = archive[k]
    BY <2>1 DEF RenameFinal, FinalNameFree
  <2>2. ASSUME NEW p \in Publisher, Publish(p), ~ RenameFinal(p) PROVE archive' = archive
    <3>1. PrepareRoot(p) \/ PrepareSnapshots(p) \/ SyncSnapshots(p) => archive' = archive
      BY DEF PrepareRoot, PrepareSnapshots, SyncSnapshots, CreateDirectory, SyncPhase
    <3>2. WriteTemporary(p) \/ SyncTemporary(p) \/ AcquireLatestLock(p) \/ InspectLatest(p)
            => archive' = archive
      BY DEF WriteTemporary, SyncTemporary, AcquireLatestLock, InspectLatest
    <3>3. LinkTemporary(p) \/ RenameLatest(p) \/ SyncRoot(p) \/ Fail(p) => archive' = archive
      BY DEF LinkTemporary, RenameLatest, SyncRoot, Fail
    <3>4. QED  BY <2>2, <3>1, <3>2, <3>3 DEF Publish
  <2>3. ASSUME NEW p \in Publisher, Begin(p) \/ ProcessCrash(p) PROVE archive' = archive
    BY <2>3 DEF Begin, ProcessCrash
  <2>4. CASE PowerLoss
    <3>1. PICK ds \in SurvivingDirs : \E ks \in SurvivingKeys(ds) :
            archive' = [j \in Key |-> IF j \in ks THEN archive[j] ELSE None]
      BY <2>4 DEF PowerLoss
    <3>2. PICK ks \in SurvivingKeys(ds) :
            archive' = [j \in Key |-> IF j \in ks THEN archive[j] ELSE None]
      BY <3>1
    <3>3. durDirs = {"root", "snapshots"}
      BY DEF ArchivedFilesAreSynced
    <3>4. settled \subseteq ks
      BY <3>3 DEF SurvivingDirs, SurvivingKeys
    <3>5. losses' # losses
      BY <2>4 DEF PowerLoss
    <3>6. QED  BY <3>2, <3>4, <3>5
  <2>5. CASE Tamper
    BY <2>5 DEF Tamper
  <2>6. ASSUME NEW r \in Reader, SelectLatest(r) \/ OpenSelected(r) PROVE archive' = archive
    BY <2>6 DEF SelectLatest, OpenSelected
  <2>7. CASE UNCHANGED vars
    BY <2>7 DEF vars
  <2>8. QED
    BY <2>1, <2>2, <2>3, <2>4, <2>5, <2>6, <2>7 DEF Next
<1>2. QED
  BY <1>1, IInvHolds, PTL DEF Spec, SnapshotsAreImmutable

\* LatestMovesForward: the lock makes inspect, compare and rename one step, so
\* racing publishers never move `latest` to an older capture.
THEOREM LatestIsMonotone == Spec => LatestMovesForward
<1>1. ASSUME IInv, [Next]_vars PROVE [MovesForward]_vars
  <2> SUFFICES ASSUME latest' # latest, latest \in Key, UNCHANGED world
               PROVE  latest' \in Key /\ (Newer(latest', latest) \/ ReplacesInvalid)
    BY DEF MovesForward
  <2> USE <1>1 DEF IInv, TypeOK, pointer, world
  <2>1. ASSUME NEW p \in Publisher, RenameLatest(p)
        PROVE  latest' \in Key /\ (Newer(latest', latest) \/ ReplacesInvalid)
    <3>1. latest' = key[p] /\ pc[p] = "renameLatest"
      BY <2>1 DEF RenameLatest, Goto
    <3>2. seen[p] = Junk \/ Newer(key[p], latest)
      BY <3>1 DEF LockProtects
    <3>3. QED  BY <3>1, <3>2 DEF ReplacesInvalid
  <2>2. ASSUME NEW p \in Publisher, Publish(p), ~ RenameLatest(p) PROVE latest' = latest
    <3>1. PrepareRoot(p) \/ PrepareSnapshots(p) \/ SyncSnapshots(p) => latest' = latest
      BY DEF PrepareRoot, PrepareSnapshots, SyncSnapshots, CreateDirectory, SyncPhase
    <3>2. WriteTemporary(p) \/ SyncTemporary(p) \/ RenameFinal(p) \/ AcquireLatestLock(p)
            => latest' = latest
      BY DEF WriteTemporary, SyncTemporary, RenameFinal, AcquireLatestLock
    <3>3. InspectLatest(p) \/ LinkTemporary(p) \/ SyncRoot(p) \/ Fail(p) => latest' = latest
      BY DEF InspectLatest, LinkTemporary, SyncRoot, Fail
    <3>4. QED  BY <2>2, <3>1, <3>2, <3>3 DEF Publish
  <2>3. ASSUME NEW p \in Publisher, Begin(p) \/ ProcessCrash(p) PROVE latest' = latest
    BY <2>3 DEF Begin, ProcessCrash
  <2>4. ~ PowerLoss /\ ~ Tamper
    BY DEF PowerLoss, Tamper
  <2>5. ASSUME NEW r \in Reader, SelectLatest(r) \/ OpenSelected(r) PROVE latest' = latest
    BY <2>5 DEF SelectLatest, OpenSelected
  <2>6. CASE UNCHANGED vars
    BY <2>6 DEF vars
  <2>7. QED
    BY <2>1, <2>2, <2>3, <2>4, <2>5, <2>6 DEF Next
<1>2. QED
  BY <1>1, IInvHolds, PTL DEF Spec, LatestMovesForward
----------------------------------------------------------------------------
(* As long as nobody interferes, `latest` only goes forward; and the file  *)
(* protocol implements the crash-consistent archive of SnapshotArchive.    *)

\* Nobody interfered, and no publisher found the pointer invalid.
Calm == Untouched /\ ~ ReplacesInvalid

\* What inspect_latest found is known from that step on, under the lock.
AfterInspection == {"link", "renameLatest", "syncRoot"} \cup Ended
SeenUnderLock == \A p \in Publisher : pc[p] \notin AfterInspection => seen[p] = None

\* k is no newer than t.
UpTo(k, t) == k \in Key /\ t \in Key /\ ~ Newer(k, t)

\* The pointer is the newest of all that it may be after a power loss, and its
\* last writer's until that writer has synced it.
PointerLeads ==
  /\ \A t \in mayLatest : t = None \/ UpTo(t, latest)
  /\ \A p \in Publisher : pc[p] = "syncRoot" => latest = key[p]

\* Everything the pointer may be is as new as what was reported as its target,
\* and it is the snapshot of its last writer until that writer has synced it, as
\* long as no publisher of an older snapshot took it for invalid.
MovedPointer == {"Updated", "ReplacedInvalid"}
UpdatesLast ==
  \A p \in Publisher : Untouched /\ ~ TakenForInvalid(p) =>
    /\ pc[p] = "syncRoot" => latest = key[p]
    /\ result[p] \in MovedPointer => \A t \in mayLatest : UpTo(key[p], t)

\* What a reader resolved or loaded is no newer than the pointer, in that order.
ReadersFollow ==
  \A r \in Reader :
    /\ selected[r] # None => UpTo(selected[r], latest)
    /\ loaded[r] # None => UpTo(loaded[r], latest)
    /\ selected[r] # None /\ loaded[r] # None => UpTo(loaded[r], selected[r])

Forward == Calm => PointerLeads /\ ReadersFollow
FInv == IInv /\ SeenUnderLock /\ UpdatesLast /\ Forward
----------------------------------------------------------------------------
(* Keys, and the kinds of steps.                                           *)

\* The keys are in order.
LEMMA KeyOrder ==
  /\ \A k \in Key : UpTo(k, k)
  /\ \A k, l, m : UpTo(k, l) /\ UpTo(l, m) => UpTo(k, m)
  /\ \A k, l \in Key : Newer(k, l) => UpTo(l, k)
<1>1. \A k \in Key : k.time \in Nat /\ k.suffix \in Nat
  BY KeysAreOrdered DEF Key
<1>2. \A k \in Key : UpTo(k, k)
  BY <1>1 DEF UpTo, Newer
<1>3. ASSUME NEW k, NEW l, NEW m, UpTo(k, l), UpTo(l, m) PROVE UpTo(k, m)
  BY <1>1, <1>3 DEF UpTo, Newer
<1>4. ASSUME NEW k \in Key, NEW l \in Key, Newer(k, l) PROVE UpTo(l, k)
  BY <1>1, <1>4 DEF UpTo, Newer
<1>. QED  BY <1>2, <1>3, <1>4

\* Nobody begins to replace the pointer, or is told that it is replaced.
NobodyMoves ==
  /\ \A p \in Publisher : pc'[p] = "syncRoot" => pc[p] = "syncRoot"
  /\ \A p \in Publisher : result'[p] \in MovedPointer => result[p] \in MovedPointer

\* The steps that leave the pointer and the readers alone, and the syncs of the
\* root that prepare_directory makes.
Aside == UNCHANGED <<key, pointer, readers>> /\ NobodyMoves
RootSync ==
  /\ UNCHANGED <<key, latest, readers, archive, settled, synced>>
  /\ mayLatest' = {latest} /\ NobodyMoves

\* Every step is one of these kinds.
LEMMA Kinds ==
  ASSUME TypeOK, [Next]_vars
  PROVE  \/ Aside \/ RootSync
         \/ \E p \in Publisher : RenameLatest(p) \/ SyncRoot(p)
         \/ \E r \in Reader : SelectLatest(r) \/ OpenSelected(r)
         \/ PowerLoss \/ Tamper
<1> USE DEF TypeOK, Goto, Return, pointer, readers, NobodyMoves, MovedPointer
<1>1. ASSUME NEW p \in Publisher, Begin(p) \/ ProcessCrash(p) PROVE Aside
  BY <1>1 DEF Begin, ProcessCrash, Aside
<1>2. ASSUME NEW p \in Publisher, NEW from, NEW to, to # "syncRoot"
      PROVE  /\ \A made : CreateDirectory(p, from, to, made) => Aside
             /\ \A ds : SyncPhase(p, from, to, ds) /\ ("root" \in ds => "snapshots" \notin ds)
                  => Aside \/ RootSync
  BY <1>2 DEF CreateDirectory, SyncPhase, SyncDirectories, Aside, RootSync
<1>3. ASSUME NEW p \in Publisher, PrepareRoot(p) \/ PrepareSnapshots(p) \/ SyncSnapshots(p)
      PROVE  Aside \/ RootSync
  <2> HIDE DEF TypeOK, Goto, Return, pointer, readers, NobodyMoves, MovedPointer
  <2>1. CASE PrepareRoot(p)
    BY <1>2, <2>1 DEF PrepareRoot
  <2>2. CASE PrepareSnapshots(p)
    BY <1>2, <2>2 DEF PrepareSnapshots
  <2>3. CASE SyncSnapshots(p)
    BY <1>2, <2>3 DEF SyncSnapshots
  <2>. QED  BY <1>3, <2>1, <2>2, <2>3
<1>4. ASSUME NEW p \in Publisher,
             WriteTemporary(p) \/ SyncTemporary(p) \/ RenameFinal(p) \/ AcquireLatestLock(p)
      PROVE  Aside
  BY <1>4 DEF WriteTemporary, SyncTemporary, RenameFinal, AcquireLatestLock, Aside
<1>5. ASSUME NEW p \in Publisher, InspectLatest(p) PROVE Aside
  BY <1>5 DEF InspectLatest, Aside
<1>6. ASSUME NEW p \in Publisher, LinkTemporary(p) \/ Fail(p) PROVE Aside
  BY <1>6 DEF LinkTemporary, Fail, FailureOf, Aside
<1>7. CASE UNCHANGED vars
  BY <1>7 DEF vars, Aside
<1>. QED  BY <1>1, <1>3, <1>4, <1>5, <1>6, <1>7 DEF Next, Publish

\* The result of an inspection stays, and nobody has one before.
LEMMA SeenStep ==
  ASSUME TypeOK, SeenUnderLock, [Next]_vars
  PROVE  SeenUnderLock' /\ \A p \in Publisher : seen[p] # None => seen'[p] = seen[p]
<1> USE DEF TypeOK, Goto, Return, SeenUnderLock, AfterInspection, Ended, Running,
            PreparePhases, CommitPhases, LockedPhases
<1> DEFINE Stays == SeenUnderLock' /\ \A p \in Publisher : seen[p] # None => seen'[p] = seen[p]
<1>1. ASSUME NEW p \in Publisher, Begin(p) \/ ProcessCrash(p) PROVE Stays
  BY <1>1 DEF Begin, ProcessCrash
<1>2. ASSUME NEW p \in Publisher, PrepareRoot(p) \/ PrepareSnapshots(p) \/ SyncSnapshots(p)
      PROVE  Stays
  <2>1. ASSUME NEW from, NEW to, from \notin AfterInspection, to \notin AfterInspection,
               \/ \E made : CreateDirectory(p, from, to, made)
               \/ \E ds : SyncPhase(p, from, to, ds)
        PROVE  Stays
    BY <2>1 DEF CreateDirectory, SyncPhase
  <2> HIDE DEF Stays
  <2>2. \A phase \in {"createRoot", "secureRoot", "rootAncestors", "createSnapshots",
                    "secureSnapshots", "snapshotsAncestors", "writeTemp",
                    "syncSnapshots", "lock"} : phase \notin AfterInspection
    OBVIOUS
  <2>. QED  BY <1>2, <2>1, <2>2 DEF PrepareRoot, PrepareSnapshots, SyncSnapshots
<1>3. ASSUME NEW p \in Publisher,
             WriteTemporary(p) \/ SyncTemporary(p) \/ RenameFinal(p) \/ AcquireLatestLock(p)
      PROVE  Stays
  BY <1>3 DEF WriteTemporary, SyncTemporary, RenameFinal, AcquireLatestLock
<1>4. ASSUME NEW p \in Publisher, InspectLatest(p) PROVE Stays
  BY <1>4 DEF InspectLatest
<1>5. ASSUME NEW p \in Publisher,
             LinkTemporary(p) \/ RenameLatest(p) \/ SyncRoot(p) \/ Fail(p)
      PROVE  Stays
  BY <1>5 DEF LinkTemporary, RenameLatest, SyncRoot, Fail
<1>6. CASE PowerLoss
  BY <1>6 DEF PowerLoss
<1>7. CASE Tamper
  BY <1>7 DEF Tamper
<1>8. ASSUME NEW r \in Reader, SelectLatest(r) \/ OpenSelected(r) PROVE Stays
  BY <1>8 DEF SelectLatest, OpenSelected
<1>9. CASE UNCHANGED vars
  BY <1>9 DEF vars
<1>. QED  BY <1>1, <1>2, <1>3, <1>4, <1>5, <1>6, <1>7, <1>8, <1>9 DEF Next, Publish

\* Interference is counted, and nothing else counts as one.
LEMMA TamperingIsCounted ==
  ASSUME TypeOK, [Next]_vars
  PROVE  IF Tamper THEN ~ Untouched' ELSE tampered' = tampered
<1>1. CASE Tamper
  BY <1>1 DEF Tamper, Untouched, TypeOK
<1>2. CASE ~ Tamper
  <2>1. ASSUME NEW p \in Publisher, Publish(p) PROVE tampered' = tampered
    <3>1. PrepareRoot(p) \/ PrepareSnapshots(p) \/ SyncSnapshots(p) => tampered' = tampered
      BY DEF PrepareRoot, PrepareSnapshots, SyncSnapshots, CreateDirectory, SyncPhase, world
    <3>2. WriteTemporary(p) \/ SyncTemporary(p) \/ RenameFinal(p) \/ AcquireLatestLock(p)
            => tampered' = tampered
      BY DEF WriteTemporary, SyncTemporary, RenameFinal, AcquireLatestLock, world
    <3>3. InspectLatest(p) \/ LinkTemporary(p) \/ RenameLatest(p) \/ SyncRoot(p) \/ Fail(p)
            => tampered' = tampered
      BY DEF InspectLatest, LinkTemporary, RenameLatest, SyncRoot, Fail, world
    <3>. QED  BY <2>1, <3>1, <3>2, <3>3 DEF Publish
  <2>2. ASSUME NEW p \in Publisher, Begin(p) \/ ProcessCrash(p) PROVE tampered' = tampered
    BY <2>2 DEF Begin, ProcessCrash, world
  <2>3. PowerLoss \/ UNCHANGED vars => tampered' = tampered
    BY DEF PowerLoss, vars, world
  <2>4. ASSUME NEW r \in Reader, SelectLatest(r) \/ OpenSelected(r)
        PROVE  tampered' = tampered
    BY <2>4 DEF SelectLatest, OpenSelected, world
  <2>. QED  BY <1>2, <2>1, <2>2, <2>3, <2>4 DEF Next
<1>. QED  BY <1>1, <1>2

\* Calm never returns once it is over.
LEMMA CalmBefore ==
  ASSUME TypeOK, SeenUnderLock, [Next]_vars, Calm'
  PROVE  Calm /\ ~ Tamper
<1>1. ~ ReplacesInvalid
  BY SeenStep, MarkersAreNoKeys DEF Calm, ReplacesInvalid
<1>. QED  BY <1>1, TamperingIsCounted DEF Calm, Untouched
----------------------------------------------------------------------------
(* The pointer only goes forward while nobody interferes.                  *)

\* In calm times the pointer is absent or a key, whatever it may be.
LEMMA CalmTargets ==
  ASSUME FInv, Calm
  PROVE  /\ latest \in mayLatest
         /\ \A t \in mayLatest : t = None \/ t \in Key
         /\ PointerLeads /\ ReadersFollow
BY DEF FInv, IInv, TypeOK, PointsToCommitted, Target, Calm, Forward

\* A state root that was never synced is possible only while there is no snapshot.
LEMMA NothingYet ==
  ASSUME FInv, Untouched, "root" \notin durDirs
  PROVE  /\ \A t \in mayLatest : t = None
         /\ \A p \in Publisher : result[p] \notin MovedPointer
<1>1. \A k \in Key : archive[k] = None
  BY DEF FInv, IInv, ArchivedFilesAreSynced
<1>2. \A t \in mayLatest : t = None
  BY <1>1 DEF FInv, IInv, TypeOK, Target, PointsToCommitted
<1>3. ASSUME NEW p \in Publisher, result[p] \in MovedPointer PROVE FALSE
  <2>1. key[p] \in Key /\ archive[key[p]] = p
    BY <1>3 DEF FInv, IInv, TypeOK, CommittedFirst, PublishedResults, MovedPointer
  <2>. QED  BY <1>1, <2>1, MarkersAreNoPublishers
<1>. QED  BY <1>2, <1>3

\* rename_latest: what the lock holder replaces is older than its own snapshot.
LEMMA RenameMovesForward ==
  ASSUME FInv, Calm, NEW p \in Publisher, RenameLatest(p)
  PROVE  /\ key[p] \in Key /\ latest' = key[p] /\ mayLatest' = mayLatest \cup {key[p]}
         /\ latest = None \/ (latest \in Key /\ Newer(key[p], latest))
         /\ \A t \in mayLatest : t = None \/ UpTo(t, key[p])
<1>1. pc[p] = "renameLatest" /\ latest' = key[p] /\ mayLatest' = mayLatest \cup {key[p]}
  BY DEF RenameLatest, Goto
<1>2. key[p] \in Key /\ seen[p] # Junk
  BY DEF FInv, IInv, TypeOK, Calm, ReplacesInvalid
<1>3. latest \notin Key \/ Newer(key[p], latest)
  BY <1>1, <1>2 DEF FInv, IInv, LockProtects
<1>4. latest = None \/ (latest \in Key /\ UpTo(latest, key[p]))
  BY <1>2, <1>3, CalmTargets, KeyOrder
<1>5. ASSUME NEW t \in mayLatest, t # None PROVE UpTo(t, key[p])
  <2>1. UpTo(t, latest)
    BY <1>5, CalmTargets DEF PointerLeads
  <2>2. latest # None
    BY <2>1, MarkersAreNoKeys DEF UpTo
  <2>. QED  BY <1>4, <2>1, <2>2, KeyOrder
<1>. QED  BY <1>1, <1>2, <1>3, <1>4, <1>5

\* What is true of p's report before the step, and stays so.
LEMMA UpdatesStep == ASSUME FInv, [Next]_vars, IInv' PROVE UpdatesLast'
<1> DEFINE Lasts(p) == /\ pc[p] = "syncRoot" => latest = key[p]
                       /\ result[p] \in MovedPointer => \A t \in mayLatest : UpTo(key[p], t)
<1> SUFFICES ASSUME NEW p \in Publisher, Untouched', ~ TakenForInvalid(p)'
             PROVE  Lasts(p)'
  BY DEF UpdatesLast
<1>1. TypeOK /\ latest \in mayLatest /\ UNCHANGED key
  <2>1. TypeOK /\ latest \in mayLatest
    BY DEF FInv, IInv, PointsToCommitted
  <2>2. UNCHANGED key
    BY <2>1, Kinds DEF Aside, RootSync, RenameLatest, SyncRoot, SelectLatest, OpenSelected,
                       PowerLoss, Tamper
  <2>. QED  BY <2>1, <2>2
<1>2. Untouched /\ ~ Tamper
  BY <1>1, TamperingIsCounted DEF Untouched
<1>3. ~ TakenForInvalid(p)
  BY <1>1, SeenStep, MarkersAreNoKeys DEF FInv, TakenForInvalid
<1>4. Lasts(p)
  BY <1>2, <1>3 DEF FInv, UpdatesLast
<1>5. CASE Aside \/ RootSync
  BY <1>1, <1>4, <1>5 DEF Aside, RootSync, NobodyMoves, pointer
<1>6. ASSUME NEW q \in Publisher, SyncRoot(q) PROVE Lasts(p)'
  <2>1. /\ pc[q] = "syncRoot" /\ pc' = [pc EXCEPT ![q] = "returned"]
        /\ mayLatest' = {latest} /\ latest' = latest
        /\ p # q => result'[p] = result[p]
    BY <1>1, <1>6 DEF SyncRoot, SyncDirectories, Return, TypeOK
  <2>2. p = q => latest = key[p] /\ UpTo(key[p], key[p])
    BY <1>1, <1>4, <2>1, KeyOrder DEF TypeOK
  <2>. QED  BY <1>1, <1>4, <2>1, <2>2 DEF TypeOK
<1>7. ASSUME NEW q \in Publisher, RenameLatest(q) PROVE Lasts(p)'
  <2>1. /\ pc[q] = "renameLatest" /\ pc' = [pc EXCEPT ![q] = "syncRoot"]
        /\ latest' = key[q] /\ mayLatest' = mayLatest \cup {key[q]} /\ UNCHANGED result
        /\ key[p] \in Key /\ key[q] \in Key
    BY <1>1, <1>7 DEF RenameLatest, Goto, TypeOK
  <2>2. p # q => pc'[p] # "syncRoot"
    BY <1>1, <2>1 DEF FInv, IInv, TypeOK, LockProtects, LockedPhases
  <2>3. ASSUME result[p] \in MovedPointer PROVE UpTo(key[p], key[q])
    <3>1. UpTo(key[p], latest)
      BY <1>1, <1>4, <2>3
    <3>2. CASE seen[q] = Junk
      BY <1>3, <2>1, <3>2 DEF TakenForInvalid, UpTo
    <3>3. CASE seen[q] # Junk
      <4>1. Newer(key[q], latest)
        BY <2>1, <3>1, <3>3 DEF FInv, IInv, LockProtects, UpTo
      <4>. QED  BY <2>1, <3>1, <4>1, KeyOrder DEF UpTo
    <3>. QED  BY <3>2, <3>3
  <2>. QED  BY <1>1, <1>4, <2>1, <2>2, <2>3
<1>8. CASE PowerLoss
  <2>1. PICK ds \in SurvivingDirs :
          /\ latest' \in (IF "root" \in ds THEN mayLatest ELSE {None})
          /\ mayLatest' = {latest'}
    BY <1>8 DEF PowerLoss
  <2>2. pc'[p] # "syncRoot" /\ UNCHANGED result
    BY <1>8 DEF PowerLoss, Running, LockedPhases
  <2>3. latest' \in mayLatest \/ "root" \notin durDirs
    BY <2>1 DEF SurvivingDirs
  <2>. QED  BY <1>1, <1>2, <1>4, <2>1, <2>2, <2>3, NothingYet
<1>9. ASSUME NEW r \in Reader, SelectLatest(r) \/ OpenSelected(r) PROVE Lasts(p)'
  BY <1>1, <1>4, <1>9 DEF SelectLatest, OpenSelected, pointer
<1>. QED  BY <1>1, <1>2, <1>5, <1>6, <1>7, <1>8, <1>9, Kinds

\* And so is the order of the pointer, its past and its readers in calm times.
LEMMA ForwardStep == ASSUME FInv, [Next]_vars, IInv' PROVE Forward'
<1> SUFFICES ASSUME Calm' PROVE (PointerLeads /\ ReadersFollow)'
  BY DEF Forward
<1>1. Calm /\ ~ Tamper
  BY CalmBefore DEF FInv, IInv
<1>2. /\ latest \in mayLatest /\ PointerLeads /\ ReadersFollow
      /\ \A t \in mayLatest : t = None \/ t \in Key
  BY <1>1, CalmTargets
<1>3. TypeOK
  BY DEF FInv, IInv
<1>4. CASE Aside
  BY <1>2, <1>4 DEF Aside, NobodyMoves, PointerLeads, ReadersFollow, pointer, readers
<1>5. CASE RootSync
  BY <1>2, <1>5 DEF RootSync, NobodyMoves, PointerLeads, ReadersFollow, readers
<1>6. ASSUME NEW p \in Publisher, SyncRoot(p)
      PROVE  (PointerLeads /\ ReadersFollow)'
  <2>1. /\ pc[p] = "syncRoot" /\ pc' = [pc EXCEPT ![p] = "returned"]
        /\ mayLatest' = {latest} /\ latest' = latest /\ UNCHANGED <<key, readers>>
        /\ \A q \in Publisher : q # p => result'[q] = result[q]
    BY <1>3, <1>6 DEF SyncRoot, SyncDirectories, Return, TypeOK
  <2>3. PointerLeads' /\ ReadersFollow'
    BY <1>2, <1>3, <2>1 DEF PointerLeads, ReadersFollow, readers, TypeOK
  <2>. QED  BY <2>3
<1>7. ASSUME NEW p \in Publisher, RenameLatest(p)
      PROVE  (PointerLeads /\ ReadersFollow)'
  <2>1. /\ pc[p] = "renameLatest" /\ pc' = [pc EXCEPT ![p] = "syncRoot"]
        /\ UNCHANGED <<key, result, readers>>
    BY <1>7 DEF RenameLatest, Goto
  <2>2. /\ key[p] \in Key /\ latest' = key[p] /\ mayLatest' = mayLatest \cup {key[p]}
        /\ latest = None \/ (latest \in Key /\ Newer(key[p], latest))
        /\ \A t \in mayLatest : t = None \/ UpTo(t, key[p])
    BY <1>1, <1>7, RenameMovesForward
  <2>3. \A k : UpTo(k, latest) => UpTo(k, key[p])
    BY <2>2, KeyOrder, MarkersAreNoKeys DEF UpTo
  <2>4. PointerLeads'
    <3>1. \A q \in Publisher : pc[q] = "syncRoot" => FALSE
      BY <2>1 DEF FInv, IInv, LockProtects, LockedPhases
    <3>. QED  BY <1>3, <2>1, <2>2, <3>1, KeyOrder DEF PointerLeads, TypeOK
  <2>5. ReadersFollow'
    BY <1>2, <2>1, <2>2, <2>3 DEF ReadersFollow, readers
  <2>. QED  BY <2>4, <2>5
<1>8. CASE PowerLoss
  <2>1. PICK ds \in SurvivingDirs :
          /\ latest' \in (IF "root" \in ds THEN mayLatest ELSE {None})
          /\ mayLatest' = {latest'}
    BY <1>8 DEF PowerLoss
  <2>2. /\ pc' = [p \in Publisher |-> IF pc[p] \in Running THEN "dead" ELSE pc[p]]
        /\ selected' = [r \in Reader |-> None] /\ loaded' = [r \in Reader |-> None]
        /\ UNCHANGED <<key, result>>
    BY <1>8 DEF PowerLoss
  <2>3. latest' \in mayLatest \/ (latest' = None /\ "root" \notin durDirs)
    BY <2>1 DEF SurvivingDirs
  <2>4. latest' \in mayLatest
    BY <1>1, <1>2, <2>3, NothingYet DEF Calm
  <2>5. PointerLeads'
    <3>1. \A p \in Publisher : pc'[p] # "syncRoot"
      BY <2>2 DEF Running, LockedPhases
    <3>. QED  BY <1>2, <2>1, <2>4, <3>1, KeyOrder DEF PointerLeads
  <2>6. ReadersFollow'
    BY <1>2, <2>1, <2>2, <2>4 DEF ReadersFollow
  <2>. QED  BY <2>5, <2>6
<1>9. ASSUME NEW r \in Reader, SelectLatest(r) \/ OpenSelected(r)
      PROVE  (PointerLeads /\ ReadersFollow)'
  <2>1. UNCHANGED <<pc, key, result, latest, mayLatest>>
    BY <1>9 DEF SelectLatest, OpenSelected, pointer
  <2>2. PointerLeads'
    BY <1>2, <2>1 DEF PointerLeads
  <2>3. CASE SelectLatest(r)
    <3>1. /\ selected' = [selected EXCEPT ![r] = latest] /\ loaded' = loaded /\ latest \in Key
      BY <2>3 DEF SelectLatest
    <3>2. UpTo(latest, latest)
      BY <3>1, KeyOrder
    <3>. QED  BY <1>2, <1>3, <2>1, <2>2, <3>1, <3>2 DEF ReadersFollow, TypeOK
  <2>4. CASE OpenSelected(r)
    <3>1. /\ selected[r] # None /\ selected' = [selected EXCEPT ![r] = None]
          /\ loaded' = loaded \/ loaded' = [loaded EXCEPT ![r] = selected[r]]
      BY <2>4 DEF OpenSelected
    <3>. QED  BY <1>2, <1>3, <2>1, <2>2, <3>1 DEF ReadersFollow, TypeOK
  <2>. QED  BY <1>9, <2>3, <2>4
<1>. QED  BY <1>1, <1>3, <1>4, <1>5, <1>6, <1>7, <1>8, <1>9, Kinds

\* The order of the pointer, on top of the invariant of PublicationProofs.
LEMMA FInvHolds == Spec => []FInv
<1>1. ASSUME Init, IInv PROVE FInv
  <2>1. SeenUnderLock /\ UpdatesLast /\ Forward
    BY <1>1, MarkersAreNoKeys DEF Init, SeenUnderLock, Forward, PointerLeads, UpdatesLast,
                                  MovedPointer, ReadersFollow
  <2>. QED  BY <1>1, <2>1 DEF FInv
<1>2. ASSUME FInv, [Next]_vars, IInv' PROVE FInv'
  BY <1>2, SeenStep, UpdatesStep, ForwardStep DEF FInv, IInv
<1>. QED  BY <1>1, <1>2, IInvHolds, PTL DEF Spec
----------------------------------------------------------------------------
(* What publishers and readers may rely on.                                *)

\* UpdatedStaysRecent: after publish() has said Updated or ReplacedInvalid, the
\* pointer is as new as that snapshot for good, power losses included, unless
\* somebody else changes the state directory or a publisher of an older snapshot
\* took the pointer for invalid (sync_directory of the root in update_latest,
\* before the lock is released).
THEOREM UpdatesStayRecent == Spec => []UpdatedStaysRecent
<1>1. ASSUME FInv PROVE UpdatedStaysRecent
  <2>1. latest \in mayLatest /\ UpdatesLast
    BY <1>1 DEF FInv, IInv, PointsToCommitted
  <2>. QED  BY <2>1 DEF UpdatedStaysRecent, UpdatesLast, MovedPointer, UpTo
<1>. QED  BY <1>1, FInvHolds, PTL

\* ReaderNeverRegresses: the loads of one reader, each in its two steps, go
\* forward (load_latest against any number of publishers), unless the power goes,
\* a publisher found the pointer invalid or somebody else interfered.
THEOREM ReadersGoForward == Spec => ReaderNeverRegresses
<1>1. ASSUME FInv, [Next]_vars PROVE [LoadsForward]_vars
  <2> SUFFICES ASSUME NEW r \in Reader, loaded[r] # None, loaded'[r] # loaded[r],
                      losses' = losses, Calm
               PROVE  ~ Newer(loaded[r], loaded'[r])
    BY DEF LoadsForward, Calm
  <2>1. TypeOK /\ ReadersFollow
    BY <1>1, CalmTargets DEF FInv, IInv
  <2>2. ~ PowerLoss
    BY <2>1 DEF PowerLoss, TypeOK
  <2>3. ASSUME NEW p \in Publisher, RenameLatest(p) \/ SyncRoot(p) PROVE loaded' = loaded
    BY <2>3 DEF RenameLatest, SyncRoot, readers
  <2>4. Aside \/ RootSync \/ Tamper => loaded' = loaded
    BY DEF Aside, RootSync, Tamper, readers
  <2>5. ASSUME NEW q \in Reader, SelectLatest(q) \/ OpenSelected(q)
        PROVE  ~ Newer(loaded[r], loaded'[r])
    <3>1. OpenSelected(q) /\ loaded' = [loaded EXCEPT ![q] = selected[q]] /\ q = r
      BY <2>1, <2>5 DEF SelectLatest, OpenSelected, TypeOK
    <3>2. selected[r] # None /\ loaded'[r] = selected[r]
      BY <2>1, <3>1 DEF OpenSelected, TypeOK
    <3>. QED  BY <2>1, <3>2 DEF ReadersFollow, UpTo
  <2>. QED  BY <1>1, <2>1, <2>2, <2>3, <2>4, <2>5, Kinds
<1>. QED  BY <1>1, FInvHolds, PTL DEF Spec, ReaderNeverRegresses
----------------------------------------------------------------------------
(* The refinement.                                                         *)

\* What is committed stays so, in every step and under any interference.
LEMMA CommitsGrow ==
  ASSUME IInv, [Next]_vars, NEW k \in Key, Survives(k)
  PROVE  Survives(k)'
<1> USE DEF IInv, TypeOK, Survives, files
<1>1. archive[k] # None /\ k \in settled /\ archive[k] \in synced
      /\ durDirs = {"root", "snapshots"} /\ dirs = durDirs
  OBVIOUS
<1>2. ASSUME UNCHANGED <<archive, settled>>, synced \subseteq synced', durDirs' = durDirs
      PROVE  Survives(k)'
  BY <1>1, <1>2
<1>3. ASSUME NEW p \in Publisher, RenameFinal(p) PROVE Survives(k)'
  BY <1>1, <1>3 DEF RenameFinal, FinalNameFree
<1>4. ASSUME NEW p \in Publisher, PrepareRoot(p) \/ PrepareSnapshots(p) \/ SyncSnapshots(p)
      PROVE  Survives(k)'
  <2>1. ASSUME NEW from, NEW to, NEW made, CreateDirectory(p, from, to, made)
        PROVE  Survives(k)'
    BY <1>1, <2>1 DEF CreateDirectory
  <2>2. ASSUME NEW from, NEW to, NEW ds, SyncPhase(p, from, to, ds)
        PROVE  Survives(k)'
    BY <1>1, <2>2 DEF SyncPhase, SyncDirectories, Visible
  <2> HIDE DEF Survives
  <2>. QED  BY <1>4, <2>1, <2>2 DEF PrepareRoot, PrepareSnapshots, SyncSnapshots
<1>5. ASSUME NEW p \in Publisher, SyncRoot(p) PROVE Survives(k)'
  BY <1>1, <1>5 DEF SyncRoot, SyncDirectories
<1>6. ASSUME NEW p \in Publisher,
             WriteTemporary(p) \/ SyncTemporary(p) \/ AcquireLatestLock(p) \/ InspectLatest(p)
      PROVE  Survives(k)'
  BY <1>2, <1>6 DEF WriteTemporary, SyncTemporary, AcquireLatestLock, InspectLatest
<1>7. ASSUME NEW p \in Publisher, LinkTemporary(p) \/ RenameLatest(p) \/ Fail(p)
      PROVE  Survives(k)'
  BY <1>2, <1>7 DEF LinkTemporary, RenameLatest, Fail
<1>8. ASSUME NEW p \in Publisher, Begin(p) \/ ProcessCrash(p) PROVE Survives(k)'
  BY <1>2, <1>8 DEF Begin, ProcessCrash
<1>9. ASSUME NEW r \in Reader, SelectLatest(r) \/ OpenSelected(r) PROVE Survives(k)'
  BY <1>2, <1>9 DEF SelectLatest, OpenSelected
<1>10. CASE Tamper \/ UNCHANGED vars
  BY <1>2, <1>10 DEF Tamper, vars
<1>11. CASE PowerLoss
  <2>0. PICK ds \in SurvivingDirs : \E ks \in SurvivingKeys(ds) :
          /\ durDirs' = ds /\ settled' = ks
          /\ archive' = [j \in Key |-> IF j \in ks THEN archive[j] ELSE None]
    BY <1>11 DEF PowerLoss
  <2>1. PICK ks \in SurvivingKeys(ds) :
          /\ durDirs' = ds /\ settled' = ks
          /\ archive' = [j \in Key |-> IF j \in ks THEN archive[j] ELSE None]
    BY <2>0
  <2>2. ds = {"root", "snapshots"} /\ settled \subseteq ks
    BY <1>1, <2>1 DEF SurvivingDirs, SurvivingKeys
  <2>3. synced' = synced
    BY <1>11 DEF PowerLoss
  <2>. QED  BY <1>1, <2>1, <2>2, <2>3
<1>. QED  BY <1>3, <1>4, <1>5, <1>6, <1>7, <1>8, <1>9, <1>10, <1>11 DEF Next, Publish

\* The syncs of the root and the rename of the pointer commit nothing.
LEMMA NoCommit ==
  ASSUME IInv, IInv', UNCHANGED <<archive, settled, synced>>, NEW k \in Key
  PROVE  Survives(k)' <=> Survives(k)
BY DEF IInv, ArchivedFilesAreSynced, Survives

\* Every step of the protocol is one of the archive, or changes nothing of it.
LEMMA ArchiveStep ==
  ASSUME FInv, FInv', [Next]_vars
  PROVE  [Archive!Next]_(Archive!archiveVars)
<1>1. Archive!CommitsLast
  <2>1. \A k \in Key : Survives(k) => Survives(k)'
    BY CommitsGrow DEF FInv
  <2>. QED  BY <2>1 DEF Archive!CommitsLast, Archive!Key, Key
<1>2. CASE ~ Calm'
  BY <1>1, <1>2 DEF Calm, Archive!Next, Archive!Disturbed
<1>3. CASE Calm'
  <2>1. Calm /\ ~ Tamper /\ TypeOK
    BY <1>3, CalmBefore DEF FInv, IInv
  <2>2. SUFFICES \/ Archive!Commit \/ Archive!Settle \/ Archive!Recover
                 \/ \E k \in Key : Archive!Advance(k)
    <3>1. /\ (Untouched /\ ~ ReplacesInvalid) = TRUE
          /\ (Untouched /\ ~ ReplacesInvalid)' = TRUE
      BY <1>3, <2>1 DEF Calm, Untouched, ReplacesInvalid
    <3>2. Archive!Key = Key
      BY DEF Archive!Key, Key
    <3>. QED  BY <3>1, <3>2 DEF Archive!Next, Archive!Undisturbed
  <2>3. ASSUME UNCHANGED <<archive, settled, synced>>
        PROVE  {k \in Key : Survives(k)}' = {k \in Key : Survives(k)}
    BY <2>3, NoCommit DEF FInv
  <2>4. CASE Aside
    BY <1>1, <2>4 DEF Aside, pointer, Archive!Commit
  <2>5. CASE RootSync
    BY <2>3, <2>5 DEF RootSync, Archive!Settle
  <2>6. ASSUME NEW p \in Publisher, SyncRoot(p) PROVE Archive!Settle
    <3>1. /\ UNCHANGED <<archive, settled, synced>> /\ latest' = latest
          /\ mayLatest' = {latest}
      BY <2>6 DEF SyncRoot, SyncDirectories
    <3>. QED  BY <2>3, <3>1 DEF Archive!Settle
  <2>7. ASSUME NEW p \in Publisher, RenameLatest(p) PROVE \E k \in Key : Archive!Advance(k)
    <3>1. UNCHANGED <<archive, settled, synced>> /\ pc[p] = "renameLatest"
      BY <2>7 DEF RenameLatest, Goto, files
    <3>2. /\ key[p] \in Key /\ latest' = key[p] /\ mayLatest' = mayLatest \cup {key[p]}
          /\ latest = None \/ (latest \in Key /\ Newer(key[p], latest))
      BY <2>1, <2>7, RenameMovesForward
    <3>3. archive[key[p]] = p /\ key[p] \in settled
      BY <3>1 DEF FInv, IInv, CommittedFirst, Committed, LockedPhases
    <3>4. Survives(key[p])
      BY <3>2, <3>3, CommittedLasts, MarkersAreNoPublishers DEF FInv
    <3>5. Archive!Advance(key[p])
      BY <2>3, <3>1, <3>2, <3>4 DEF Archive!Advance, Archive!Newer, Newer
    <3>. QED  BY <3>2, <3>5
  <2>8. CASE PowerLoss
    <3>1. PICK ds \in SurvivingDirs :
            /\ latest' \in (IF "root" \in ds THEN mayLatest ELSE {None})
            /\ mayLatest' = {latest'}
      BY <2>8 DEF PowerLoss
    <3>2. latest' \in mayLatest \/ (latest' = None /\ "root" \notin durDirs)
      BY <3>1 DEF SurvivingDirs
    <3>3. latest' \in mayLatest
      BY <2>1, <3>2, NothingYet, CalmTargets DEF Calm
    <3>. QED  BY <1>1, <3>1, <3>3 DEF Archive!Recover
  <2>9. ASSUME NEW r \in Reader, SelectLatest(r) \/ OpenSelected(r) PROVE Archive!Commit
    BY <1>1, <2>9 DEF SelectLatest, OpenSelected, pointer, Archive!Commit
  <2>. QED  BY <2>1, <2>4, <2>5, <2>6, <2>7, <2>8, <2>9, Kinds
<1>. QED  BY <1>2, <1>3

\* ImplementsArchive: publish_with_file_system, update_latest and the power losses
\* between their calls are steps of the archive that users are promised.
THEOREM ArchiveIsImplemented == Spec => ImplementsArchive
<1>1. Init => Archive!Init
  <2> SUFFICES ASSUME Init PROVE Archive!Init
    OBVIOUS
  <2>1. {k \in Key : Survives(k)} = {}
    BY DEF Init, Survives
  <2>2. Untouched /\ ~ ReplacesInvalid
    BY MarkersAreNoKeys DEF Init, Untouched, ReplacesInvalid
  <2>. QED  BY <2>1, <2>2 DEF Init, Archive!Init
<1>2. FInv /\ FInv' /\ [Next]_vars => [Archive!Next]_(Archive!archiveVars)
  BY ArchiveStep
<1>. QED  BY <1>1, <1>2, FInvHolds, PTL DEF Spec, ImplementsArchive, Archive!Spec
=============================================================================
