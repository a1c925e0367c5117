---------------------------- MODULE Publication ----------------------------
(***************************************************************************)
(* The state store of tmux-rescue (src/src/storage.rs): several concurrent *)
(* `tmux-rescue snapshot` processes publish immutable snapshots into one   *)
(* global archive and advance one global `latest` symlink, while readers   *)
(* (`inspect`, `restore`) resolve it.                                      *)
(*                                                                         *)
(* Every step of a publisher is one system call, or one group of calls no  *)
(* other process can tell apart.  The file system is modelled twice: what  *)
(* processes see now, and what a power loss is allowed to leave behind.    *)
(* Any call may fail, any process may be killed between two calls, and the *)
(* machine may lose power; the operating system then releases the lock.    *)
(***************************************************************************)
EXTENDS SnapshotKeys

CONSTANTS
  Publisher,     \* `snapshot` processes; each publishes one snapshot once
  Reader,        \* processes that load through `latest`
  MaxPowerLoss,  \* bound: power losses in one behaviour
  MaxTamper,     \* bound: outside interferences with the state directory
  ReadFaults     \* may reading the current `latest` fail transiently?

ASSUME BoundsAreNatural == MaxPowerLoss \in Nat /\ MaxTamper \in Nat
ASSUME ReadFaultsIsBoolean == ReadFaults \in BOOLEAN
ASSUME MarkersAreNoPublishers == None \notin Publisher /\ Junk \notin Publisher

\* What the `latest` symlink can be: absent, a link validate_latest_target
\* refuses, or a link to the snapshot with that key.
Target == Key \cup {None, Junk}

VARIABLES
  pc,         \* pc[p]: the call publisher p makes next
  key,        \* key[p]: the SnapshotKey of p's publication
  result,     \* result[p]: what publish() returned to p's caller
  seen,       \* seen[p]: what inspect_latest() found under the lock
  lock,       \* holder of the flock on .latest.lock
  dirs,       \* state directories that exist
  durDirs,    \* ... and whose entries survive a power loss
  temps,      \* publishers whose .snapshot-<suffix>.tmp file exists
  archive,    \* archive[k]: the publisher whose file is snapshots/<k>.json
  settled,    \* keys whose directory entry survives a power loss
  synced,     \* publishers whose file contents survive a power loss
  torn,       \* publishers whose file no longer holds a valid snapshot
  latest,     \* what `latest` is now
  mayLatest,  \* what `latest` may be after a power loss
  selected,   \* selected[r]: the key load_latest() resolved and has yet to open
  loaded,     \* loaded[r]: the key r's last load_latest() returned
  losses,     \* power losses so far
  tampered    \* outside interferences so far

files == <<dirs, durDirs, temps, archive, settled, synced, torn>>
pointer == <<latest, mayLatest>>
readers == <<selected, loaded>>
world == <<losses, tampered>>
vars == <<pc, key, result, seen, lock, files, pointer, readers, world>>
----------------------------------------------------------------------------
\* Wrong form: equal timestamps are not told apart by the suffix.
KeepsCurrentByTimeOnly(current, new) == current.time > new.time

\* latest is kept when the new key is not newer than the current one.
KeepsCurrent(current, new) == ~ Newer(new, current)

(***************************************************************************)
(* The phases of publish_with_file_system, and where each one fails to.    *)
(***************************************************************************)
PreparePhases == {"createRoot", "secureRoot", "rootAncestors",
                  "createSnapshots", "secureSnapshots", "snapshotsAncestors"}
CommitPhases == {"writeTemp", "syncTemp", "renameFinal"}
LockedPhases == {"inspect", "link", "renameLatest", "syncRoot"}
Running == PreparePhases \cup CommitPhases \cup {"syncSnapshots", "lock"}
             \cup LockedPhases
Phase == Running \cup {"idle", "returned", "dead"}

PublishedResults == {"Updated", "KeptNewer", "ReplacedInvalid", "UpdateFailed"}
Result == PublishedResults
            \cup {"NotPublished", "PublicationIndeterminate", "none"}

\* The variant publish() reports when the call of `phase` fails.
FailureOf(phase) ==
  CASE phase \in PreparePhases \cup CommitPhases -> "NotPublished"
    [] phase = "syncSnapshots" -> "PublicationIndeterminate"
    [] OTHER -> "UpdateFailed"

\* snapshot_exit_code in cli.rs.
ExitCode(r) == IF r \in PublishedResults \ {"UpdateFailed"} THEN 0 ELSE 1

Visible == {k \in Key : archive[k] # None}

\* A snapshot that load_snapshot_beneath accepts: present, regular, valid and
\* captured at the time its key says.
Loadable(k) ==
  /\ archive[k] # None
  /\ archive[k] \notin torn
  /\ key[archive[k]].time = k.time

\* A snapshot that is still Loadable after any power loss.
Survives(k) ==
  /\ archive[k] # None
  /\ k \in settled
  /\ archive[k] \in synced
  /\ durDirs = {"root", "snapshots"}

Untouched == tampered = 0

Goto(p, from, to) ==
  /\ pc[p] = from
  /\ pc' = [pc EXCEPT ![p] = to]

Return(p, r) ==
  /\ pc' = [pc EXCEPT ![p] = "returned"]
  /\ result' = [result EXCEPT ![p] = r]

\* Wrong form: a lock that outlives its holder, like a lock file.
ReleasedByNobody(p) == lock

ReleasedBy(p) == IF lock = p THEN None ELSE lock
----------------------------------------------------------------------------
(***************************************************************************)
(* A publisher, one system call at a time.                                 *)
(***************************************************************************)

Init ==
  /\ pc = [p \in Publisher |-> "idle"]
  /\ key \in [Publisher -> Key]
  /\ result = [p \in Publisher |-> "none"]
  /\ seen = [p \in Publisher |-> None]
  /\ lock = None
  /\ dirs = {} /\ durDirs = {}
  /\ temps = {}
  /\ archive = [k \in Key |-> None]
  /\ settled = {} /\ synced = {} /\ torn = {}
  /\ latest = None /\ mayLatest = {None}
  /\ selected = [r \in Reader |-> None]
  /\ loaded = [r \in Reader |-> None]
  /\ losses = 0 /\ tampered = 0

\* The capture is complete: its captured_at and a fresh UUID fix the key.
Begin(p) ==
  /\ Goto(p, "idle", "createRoot")
  /\ UNCHANGED <<key, result, seen, lock, files, pointer, readers, world>>

\* prepare_directory: DirBuilder::recursive creates the missing directories.
CreateDirectory(p, from, to, made) ==
  /\ Goto(p, from, to)
  /\ dirs' = dirs \cup made
  /\ UNCHANGED <<key, result, seen, lock, durDirs, temps, archive, settled,
                 synced, torn, pointer, readers, world>>

\* A successful fsync of directory d makes the entries it holds durable.  The
\* parent stands for every ancestor of the state root.
SyncDirectories(ds) ==
  /\ durDirs' = durDirs \cup (IF "parent" \in ds THEN dirs \cap {"root"} ELSE {})
                        \cup (IF "root" \in ds THEN dirs \cap {"snapshots"} ELSE {})
  /\ settled' = IF "snapshots" \in ds THEN Visible ELSE settled
  /\ mayLatest' = IF "root" \in ds THEN {latest} ELSE mayLatest

SyncPhase(p, from, to, ds) ==
  /\ Goto(p, from, to)
  /\ SyncDirectories(ds)
  /\ UNCHANGED <<key, result, seen, lock, dirs, temps, archive, synced, torn,
                 latest, readers, world>>

\* prepare_directory(root), then prepare_directory(snapshots): create, secure
\* and sync the directory itself, then sync all its ancestors.
PrepareRoot(p) ==
  \/ CreateDirectory(p, "createRoot", "secureRoot", {"root"})
  \/ SyncPhase(p, "secureRoot", "rootAncestors", {"root"})
  \/ SyncPhase(p, "rootAncestors", "createSnapshots", {"parent"})

\* Wrong form: a directory that already exists is taken to be durable.
PrepareSnapshotsTrusting(p) ==
  IF "snapshots" \in dirs
  THEN /\ Goto(p, "createSnapshots", "writeTemp")
       /\ UNCHANGED <<key, result, seen, lock, files, pointer, readers, world>>
  ELSE \/ CreateDirectory(p, "createSnapshots", "secureSnapshots", {"root", "snapshots"})
       \/ SyncPhase(p, "secureSnapshots", "snapshotsAncestors", {"snapshots"})
       \/ SyncPhase(p, "snapshotsAncestors", "writeTemp", {"root", "parent"})

PrepareSnapshots(p) ==
  \/ CreateDirectory(p, "createSnapshots", "secureSnapshots", {"root", "snapshots"})
  \/ SyncPhase(p, "secureSnapshots", "snapshotsAncestors", {"snapshots"})
  \/ SyncPhase(p, "snapshotsAncestors", "writeTemp", {"root", "parent"})

\* No temporary file has the name .snapshot-<suffix of p>.tmp.
TempNameFree(p) == \A q \in temps : key[q].suffix # key[p].suffix

\* write_temporary_snapshot: create_new refuses a name that is taken.
WriteTemporary(p) ==
  /\ Goto(p, "writeTemp", "syncTemp")
  /\ TempNameFree(p)
  /\ temps' = temps \cup {p}
  /\ UNCHANGED <<key, result, seen, lock, dirs, durDirs, archive, settled,
                 synced, torn, pointer, readers, world>>

\* Wrong form: the temporary file is renamed without being synced.
SyncTemporarySkipped(p) ==
  /\ Goto(p, "syncTemp", "renameFinal")
  /\ UNCHANGED <<key, result, seen, lock, files, pointer, readers, world>>

SyncTemporary(p) ==
  /\ Goto(p, "syncTemp", "renameFinal")
  /\ synced' = synced \cup {p}
  /\ UNCHANGED <<key, result, seen, lock, dirs, durDirs, temps, archive,
                 settled, torn, pointer, readers, world>>

\* Wrong form: rename(2), which replaces.
FinalNameReplaced(p) == TRUE

FinalNameFree(p) == archive[key[p]] = None

\* rename_no_replace: renameat2 with RENAME_NOREPLACE.
RenameFinal(p) ==
  /\ Goto(p, "renameFinal", "syncSnapshots")
  /\ FinalNameFree(p)
  /\ archive' = [archive EXCEPT ![key[p]] = p]
  /\ temps' = temps \ {p}
  /\ UNCHANGED <<key, result, seen, lock, dirs, durDirs, settled, synced, torn,
                 pointer, readers, world>>

\* Wrong forms: the directory is not synced; or a failed sync is reported and the
\* update of `latest` goes on.
SyncSnapshotsSkipped(p) == SyncPhase(p, "syncSnapshots", "lock", {})
SyncSnapshotsTolerant(p) ==
  \/ SyncPhase(p, "syncSnapshots", "lock", {"snapshots"})
  \/ /\ Goto(p, "syncSnapshots", "lock")
     /\ result' = [result EXCEPT ![p] = "PublicationIndeterminate"]
     /\ UNCHANGED <<key, seen, lock, files, pointer, readers, world>>

\* The immutable snapshot is committed once this sync succeeds.
SyncSnapshots(p) == SyncPhase(p, "syncSnapshots", "lock", {"snapshots"})

\* Wrong form: a shared lock.
LockShared == TRUE

LockFree == lock = None

\* LatestLock::acquire: flock(LOCK_EX) blocks while another process holds it.
AcquireLatestLock(p) ==
  /\ Goto(p, "lock", "inspect")
  /\ LockFree
  /\ lock' = p
  /\ UNCHANGED <<key, result, seen, files, pointer, readers, world>>

\* inspect_latest: Missing only when the link itself is absent; any other
\* failure to read, parse or load the target counts as Invalid.
InspectedLatest ==
  CASE latest = None -> None
    [] latest = Junk -> Junk
    [] OTHER -> IF Loadable(latest) THEN latest ELSE Junk

InspectLatest(p) ==
  /\ pc[p] = "inspect"
  /\ \E found \in {InspectedLatest} \cup (IF ReadFaults THEN {Junk} ELSE {}) :
       /\ seen' = [seen EXCEPT ![p] = found]
       /\ IF found \in Key /\ KeepsCurrent(found, key[p])
          THEN Return(p, "KeptNewer") /\ lock' = None
          ELSE Goto(p, "inspect", "link") /\ UNCHANGED <<result, lock>>
  /\ UNCHANGED <<key, files, pointer, readers, world>>

\* create_temporary_latest_symlink: a fresh UUID names it, nothing reads it.
LinkTemporary(p) ==
  /\ Goto(p, "link", "renameLatest")
  /\ UNCHANGED <<key, result, seen, lock, files, pointer, readers, world>>

\* rename_latest: one atomic rename over `latest`, not yet durable.
RenameLatest(p) ==
  /\ Goto(p, "renameLatest", "syncRoot")
  /\ latest' = key[p]
  /\ mayLatest' = mayLatest \cup {key[p]}
  /\ UNCHANGED <<key, result, seen, lock, files, readers, world>>

\* sync_directory(root), then the lock is dropped with the disposition.
SyncRoot(p) ==
  /\ pc[p] = "syncRoot"
  /\ SyncDirectories({"root"})
  /\ Return(p, IF seen[p] = Junk THEN "ReplacedInvalid" ELSE "Updated")
  /\ lock' = None
  /\ UNCHANGED <<key, seen, dirs, temps, archive, synced, torn, latest, readers,
                 world>>

\* What is left of the temporary files when the call of p's phase fails; the
\* removal's own failure is ignored by the code.
TempsAfterFailure(p) ==
  CASE pc[p] = "writeTemp" ->
         {temps} \cup (IF TempNameFree(p) THEN {temps \cup {p}} ELSE {})
    [] pc[p] \in {"syncTemp", "renameFinal"} -> {temps, temps \ {p}}
    [] OTHER -> {temps}

\* The call fails: publish() returns, and Drop releases the lock.
Fail(p) ==
  /\ pc[p] \in Running \ {"inspect"}
  /\ Return(p, FailureOf(pc[p]))
  /\ lock' = ReleasedBy(p)
  /\ temps' \in TempsAfterFailure(p)
  /\ UNCHANGED <<key, seen, dirs, durDirs, archive, settled, synced, torn,
                 pointer, readers, world>>

Publish(p) ==
  \/ PrepareRoot(p) \/ PrepareSnapshots(p)
  \/ WriteTemporary(p) \/ SyncTemporary(p) \/ RenameFinal(p) \/ SyncSnapshots(p)
  \/ AcquireLatestLock(p) \/ InspectLatest(p) \/ LinkTemporary(p)
  \/ RenameLatest(p) \/ SyncRoot(p)
  \/ Fail(p)
----------------------------------------------------------------------------
(***************************************************************************)
(* The surroundings: killed processes, power losses, other hands.          *)
(***************************************************************************)

\* The process is killed; the operating system drops its lock and nothing else.
ProcessCrash(p) ==
  /\ pc[p] \in Running
  /\ pc' = [pc EXCEPT ![p] = "dead"]
  /\ lock' = ReleasedBy(p)
  /\ UNCHANGED <<key, result, seen, files, pointer, readers, world>>

SurvivingDirs ==
  {ds \in SUBSET dirs :
     /\ "root" \in durDirs => "root" \in ds
     /\ "root" \in ds => durDirs \subseteq ds
     /\ "snapshots" \in ds => "root" \in ds}

\* Only what was synced is certain to be there after a power loss.
SurvivingKeys(ds) ==
  IF "snapshots" \in ds
  THEN {ks \in SUBSET Visible : settled \subseteq ks}
  ELSE {{}}

\* A temporary file may be gone, and a lost rename may leave it in place.
SurvivingTemps(ds, ks) ==
  IF "snapshots" \in ds
  THEN {ts \in SUBSET (temps \cup {archive[k] : k \in Visible \ ks}) :
          \A p, q \in ts : key[p].suffix = key[q].suffix => p = q}
  ELSE {{}}

PowerLoss ==
  /\ losses < MaxPowerLoss
  /\ losses' = losses + 1
  /\ pc' = [p \in Publisher |-> IF pc[p] \in Running THEN "dead" ELSE pc[p]]
  /\ lock' = None
  /\ \E ds \in SurvivingDirs : \E ks \in SurvivingKeys(ds) :
       /\ dirs' = ds /\ durDirs' = ds
       /\ archive' = [k \in Key |-> IF k \in ks THEN archive[k] ELSE None]
       /\ settled' = ks
       /\ latest' \in (IF "root" \in ds THEN mayLatest ELSE {None})
       /\ mayLatest' = {latest'}
       /\ temps' \in SurvivingTemps(ds, ks)
       /\ \E lost \in SUBSET ((temps' \cup {archive[k] : k \in ks}) \ synced) :
            torn' = torn \cup lost
  /\ selected' = [r \in Reader |-> None]
  /\ loaded' = [r \in Reader |-> None]
  /\ UNCHANGED <<key, result, seen, synced, tampered>>

\* Someone else removes or replaces `latest`, or edits a snapshot file.
Tamper ==
  /\ tampered < MaxTamper
  /\ "root" \in dirs
  /\ tampered' = tampered + 1
  /\ \/ /\ latest' \in {None, Junk}
        /\ mayLatest' = mayLatest \cup {latest'}
        /\ UNCHANGED torn
     \/ /\ \E k \in Visible : torn' = torn \cup {archive[k]}
        /\ UNCHANGED pointer
  /\ UNCHANGED <<pc, key, result, seen, lock, dirs, durDirs, temps, archive,
                 settled, synced, readers, losses>>

(***************************************************************************)
(* load_latest: the link is read once, then that very target is opened and *)
(* validated; anything else is an error and returns nothing.               *)
(***************************************************************************)
SelectLatest(r) ==
  /\ selected[r] = None
  /\ latest \in Key
  /\ selected' = [selected EXCEPT ![r] = latest]
  /\ UNCHANGED <<pc, key, result, seen, lock, files, pointer, loaded, world>>

OpenSelected(r) ==
  /\ selected[r] # None
  /\ loaded' = IF Loadable(selected[r])
               THEN [loaded EXCEPT ![r] = selected[r]] ELSE loaded
  /\ selected' = [selected EXCEPT ![r] = None]
  /\ UNCHANGED <<pc, key, result, seen, lock, files, pointer, world>>

Next ==
  \/ \E p \in Publisher : Begin(p) \/ Publish(p) \/ ProcessCrash(p)
  \/ \E r \in Reader : SelectLatest(r) \/ OpenSelected(r)
  \/ PowerLoss
  \/ Tamper

\* A publisher that has begun is a running process the kernel schedules; its
\* system calls return.  Nobody has to begin, read, crash or interfere.
Fairness ==
  \A p \in Publisher :
    /\ WF_vars(pc[p] # "lock" /\ Publish(p))
    /\ WF_vars(AcquireLatestLock(p))

Spec == Init /\ [][Next]_vars
FairSpec == Spec /\ Fairness
----------------------------------------------------------------------------
(***************************************************************************)
(* Properties.                                                             *)
(***************************************************************************)

TypeOK ==
  /\ pc \in [Publisher -> Phase]
  /\ key \in [Publisher -> Key]
  /\ result \in [Publisher -> Result]
  /\ seen \in [Publisher -> Target]
  /\ lock \in Publisher \cup {None}
  /\ dirs \subseteq {"root", "snapshots"} /\ durDirs \subseteq dirs
  /\ temps \subseteq Publisher
  /\ archive \in [Key -> Publisher \cup {None}]
  /\ settled \subseteq Key /\ synced \subseteq Publisher /\ torn \subseteq Publisher
  /\ latest \in Target /\ mayLatest \subseteq Target
  /\ selected \in [Reader -> Key \cup {None}]
  /\ loaded \in [Reader -> Key \cup {None}]
  /\ losses \in Nat /\ tampered \in Nat

\* `latest`, and everything a power loss could turn it into, names a complete
\* snapshot that no power loss can take away: the pointer moves only after the
\* immutable file, its directory entry and the directories above are synced.
LatestNeverDangles ==
  Untouched => \A t \in mayLatest \cup {latest} :
                 t # None => t \in Key /\ Survives(t) /\ Loadable(t)

\* What publish() called Published stays: the caller's own snapshot is under its
\* key, complete, whatever crashes or loses power afterwards.
PublishedSurvives ==
  \A p \in Publisher :
    result[p] \in PublishedResults =>
      /\ archive[key[p]] = p
      /\ Survives(key[p])
      /\ Untouched => Loadable(key[p])

\* No publisher overwrites, moves or removes a file of the archive; only a power
\* loss takes one away, and then one whose directory entry was never synced.
KeepsSnapshots ==
  \A k \in Key : archive[k] # None =>
    \/ archive'[k] = archive[k]
    \/ losses' # losses /\ k \notin settled /\ archive'[k] = None

SnapshotsAreImmutable == [][KeepsSnapshots]_vars

\* A publication reported as indeterminate is never what `latest` names, now or
\* after a power loss.
IndeterminateNeverLatest ==
  \A t \in (mayLatest \cup {latest}) \cap Key :
    archive[t] # None => result[archive[t]] # "PublicationIndeterminate"

\* Somebody replaced a pointer it found invalid, and will report so.
ReplacesInvalid == \E p \in Publisher : seen[p] = Junk

\* Publishers racing for `latest` never move it back in capture order: the only
\* backward moves replace a pointer that was found invalid, or follow a power loss.
MovesForward ==
  latest' # latest /\ latest \in Key /\ UNCHANGED world
    => latest' \in Key /\ (Newer(latest', latest) \/ ReplacesInvalid)

LatestMovesForward == [][MovesForward]_vars

\* A publisher of a snapshot older than p's has found the pointer invalid.
TakenForInvalid(p) ==
  \E q \in Publisher : seen[q] = Junk /\ Newer(key[p], key[q])

\* Once publish() has said Updated or ReplacedInvalid, `latest` names that
\* snapshot or a newer one for good, power losses included; unless somebody
\* else changes the state directory, or a publisher of an older snapshot took
\* the pointer for invalid (which a failed read of it is enough for).
UpdatedStaysRecent ==
  \A p \in Publisher :
    result[p] \in {"Updated", "ReplacedInvalid"} /\ Untouched /\ ~ TakenForInvalid(p) =>
      \A t \in mayLatest \cup {latest} : t \in Key /\ ~ Newer(key[p], t)

\* A reader that resolved `latest` can still open that same snapshot later, no
\* matter how often the pointer moved between its two steps.
SelectionStaysLoadable ==
  Untouched => \A r \in Reader : selected[r] # None => Loadable(selected[r])

\* One reader's successive loads never go back in capture order, unless the
\* power went between them, a publisher found the pointer invalid and replaced
\* it, or somebody else changed the state directory.
LoadsForward ==
  \A r \in Reader :
    loaded[r] # None /\ loaded'[r] # loaded[r] /\ losses' = losses
      => ~ Newer(loaded[r], loaded'[r]) \/ ReplacesInvalid \/ ~ Untouched

ReaderNeverRegresses == [][LoadsForward]_vars

\* Every publication ends: with its result, or with its process.  A crashed
\* holder of the lock blocks nobody.
PublicationEnds ==
  \A p \in Publisher :
    pc[p] = "createRoot" ~> pc[p] \in {"returned", "dead"}

\* What the store promises its users, read off the file system: a snapshot is
\* committed when no power loss can take it away.
Archive == INSTANCE SnapshotArchive WITH
  committed <- {k \in Key : Survives(k)},
  pointer <- latest,
  candidates <- mayLatest,
  undisturbed <- Untouched /\ ~ ReplacesInvalid

\* The file protocol implements the crash-consistent archive, whoever races,
\* crashes and loses power.
ImplementsArchive == Archive!Spec

(***************************************************************************)
(* The inductive invariant behind them, in named parts.                    *)
(***************************************************************************)

\* How far a publisher has come when its next call is in the set.
HasRoot == {"secureRoot", "rootAncestors"}
HasDurableRoot == {"createSnapshots", "secureSnapshots", "snapshotsAncestors"}
HasSnapshots == {"secureSnapshots", "snapshotsAncestors"}
HasDurableDirs == CommitPhases \cup {"syncSnapshots", "lock"} \cup LockedPhases
Committed == {"lock"} \cup LockedPhases
Ended == {"returned", "dead"}

\* A publisher never works below a directory that a power loss could take away.
DirectoriesFirst ==
  /\ "snapshots" \in dirs => "root" \in durDirs
  /\ \A p \in Publisher :
       /\ pc[p] \in HasRoot => "root" \in dirs
       /\ pc[p] \in HasDurableRoot => "root" \in durDirs
       /\ pc[p] \in HasSnapshots => "snapshots" \in dirs
       /\ pc[p] \in HasDurableDirs => durDirs = {"root", "snapshots"}

\* A file that carries an immutable name is complete on disk, belongs to the
\* publisher of that key and lies in directories that last.
ArchivedFilesAreSynced ==
  /\ \A p \in Publisher : pc[p] = "renameFinal" => p \in synced
  /\ \A k \in Key : archive[k] # None =>
       /\ key[archive[k]] = k
       /\ archive[k] \in synced
       /\ pc[archive[k]] \in {"syncSnapshots"} \cup Committed \cup Ended
       /\ durDirs = {"root", "snapshots"}

\* Only files of publishers that have ended are ever damaged.
OnlyUnsyncedTears ==
  /\ \A p \in temps : pc[p] # "idle"
  /\ Untouched => \A p \in torn : p \notin synced /\ pc[p] \in Ended

\* Whoever is past the directory sync, or was told Published, has a durable
\* entry of its own.
CommittedFirst ==
  \A p \in Publisher :
    /\ pc[p] = "syncSnapshots" => archive[key[p]] = p
    /\ pc[p] \in Committed \/ result[p] \in PublishedResults =>
         archive[key[p]] = p /\ key[p] \in settled

\* The pointer, its possible pasts, and every key a reader holds are committed.
PointsToCommitted ==
  /\ latest \in mayLatest
  /\ Untouched => Junk \notin mayLatest
  /\ \A t \in mayLatest \cap Key :
       /\ archive[t] # None /\ t \in settled
       /\ pc[archive[t]] \in {"syncRoot"} \cup Ended
       /\ result[archive[t]] # "PublicationIndeterminate"
  /\ \A r \in Reader : selected[r] # None =>
       archive[selected[r]] # None /\ selected[r] \in settled

\* The lock excludes, and what its holder saw is still what it replaces.
LockProtects ==
  /\ \A p \in Publisher : pc[p] \in LockedPhases <=> lock = p
  /\ \A p \in Publisher : result[p] # "none" => pc[p] = "returned"
  /\ \A p \in Publisher : pc[p] \in {"link", "renameLatest"} =>
       \/ seen[p] = Junk
       \/ latest \notin Key
       \/ latest = seen[p] /\ Newer(key[p], latest)

IInv ==
  /\ TypeOK
  /\ DirectoriesFirst /\ ArchivedFilesAreSynced /\ OnlyUnsyncedTears
  /\ CommittedFirst /\ PointsToCommitted /\ LockProtects

(***************************************************************************)
(* What the architecture document says and the code does not keep.         *)
(***************************************************************************)

\* "Atomically replaces the latest symlink only when the new snapshot is newer"
\* (src/docs/src/ARCHITECTURE.md): never to an older one while the current
\* target is a valid snapshot.
OnlyNewerReplacesValid ==
  [][latest' # latest /\ latest \in Key /\ Loadable(latest) /\ UNCHANGED world
       => latest' \in Key /\ Newer(latest', latest)]_vars

\* The same document syncs the state root before the lock is released, so a
\* publisher that exits 0 leaves a pointer no older than its own snapshot.
ExitZeroStaysRecent ==
  \A p \in Publisher :
    result[p] # "none" /\ ExitCode(result[p]) = 0 =>
      \A t \in mayLatest : t \in Key /\ ~ Newer(key[p], t)
=============================================================================
