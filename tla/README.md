# tmux-rescue: specifications, model checking and proofs

`tmux-rescue` takes snapshots of a tmux server (`snapshot`), shows them
(`inspect`) and builds a new server from one (`restore`). This directory holds
TLA+ modules of the parts of it that are concurrent, crash-prone or both, TLC
configurations that check them on small instances, and TLAPS proofs of what
matters most for every instance. Paths below are relative to the repository;
`PROJECT.json` maps every definition to the lines it models.

## 1. The system

| Part | Source | State it keeps | Operations | Modelled by |
|---|---|---|---|---|
| State store | `src/storage.rs`, exit code in `src/cli.rs` | state root, `snapshots/<key>.json`, `.latest.lock`, the `latest` symlink | publish, load latest, load explicit | `Publication`, `SnapshotArchive`, `SnapshotKeys` |
| Target ownership | `src/tmux.rs`, `RestoreExecutor` in `src/restore.rs` | owner token, process identity of the new server, temporary claim configuration | claim, cleanup of a failed claim, guarded commands, rollback, observe disposition | `OwnedTarget` |
| Topology construction | `create_topology` in `src/tmux.rs` | the new pane of each recorded one | create sessions, windows and panes, check where each landed | `Topology` |
| Program recovery | `src/tmux.rs`, `src/restore.rs` | the restored panes, outcome of each | verify shell, paste a hint, launch, settle, paste a Codex draft | `PaneRecovery`, `RestoreCommand` |
| Capture | `src/capture.rs`, reads in `src/tmux.rs` | the attempt, its candidate, events | read topology, inspect panes, read drafts, validate, build the snapshot | `Capture` |
| Process inspection | `src/process.rs` | none | who has the foreground of a pane, from `/proc`; opened session records | `ProcessInspection` (partly) |
| Restore planning | `src/restore.rs` | none | plan of each pane, degradations, rendered shell input | `RestorePlanning` (partly) |
| Classification | `src/recovery.rs` | none | resolvers for Codex, Claude and others, downgrading, derived command | `Classification` (partly) |
| Snapshot model | `src/model.rs` | none | decoding, validation, limits | `Topology` (partly) |
| Screen and prompt parsing | `src/visible_pane.rs`, `src/codex_prompt.rs`, `read_source_visible_pane` in `src/tmux.rs` | none | read a pane, decode styles, find footer, composer and draft | `PromptScreen` (partly) |
| Command line | `src/cli.rs`, `src/main.rs`, `src/selector.rs` | output and exit code | `restore` from loading to its report; publication and exit code of `snapshot`; selectors; arguments | `RestoreCommand`, `Publication` (partly) |
| Inspect renderer | `src/inspect.rs` | none | formatting of a loaded snapshot | no |

How they interact. `snapshot` runs Capture, which calls process inspection and
classification for every pane, and hands the snapshot to the store; several
`snapshot` processes share nothing but the state directory. `inspect` and
`restore` load a snapshot through `latest`. `restore` plans, claims a new server
at an endpoint (ownership), creates the topology, and then recovers programs
pane by pane; a failure up to the topology rolls the server back, a failure
after it is reported per pane. There are no threads: all concurrency is between
processes (other `tmux-rescue` runs, tmux servers and their clients, programs in
panes, the kernel's process ids and file system).

What is hard here, and where:

- **Store.** Order of rename, directory sync and pointer; publishers racing for
  `latest`; a publisher dying with the lock; power loss between any two calls; a
  reader between `readlink` and `open`. Correct: what was reported as published
  survives, `latest` names a durable snapshot and never moves backward.
- **Ownership.** The new server is known only by what an endpoint answered and by
  a process id. Sockets are replaced and process ids reused between a check and
  the command it allows; `start-server` may take effect and fail; a server may
  close slowly. Correct: nobody else's server or session is ever touched, and
  the report of what became of the new one is true.
- **Topology.** A dozen commands build it, each on what the last one left, while
  clients can already attach. Correct: every recorded pane gets a new pane of its
  own, and what was captured is rebuilt.
- **Program recovery.** The foreground is seen in `/proc`, the input is sent by a
  tmux conditional that can check less; replies are lost after they took effect.
  Correct: only planned input, only to a shell (drafts: to their session), and
  outcomes that were earned.
- **Capture.** Panes, programs and servers change while one attempt looks at them
  one after the other. Correct: recoveries and drafts belong to the pane and the
  session they are filed under; nothing is missing without an event.
- **Screen and prompt.** Three reads of a pane while Codex draws, and only text,
  styles and a cursor to tell a draft from all else. Correct: what is captured is
  the draft the composer showed, whole.
- **The command's report.** Output goes away before, between and after the
  effects. Correct: the exit code says what was done even then.
- **Process inspection.** One answer out of dozens of file reads. Correct: it was
  all true at one moment.
- **Classification.** Logs and records of sessions outlive processes, process ids
  are used again, several members of a group hold the same files, and a session
  is left for another while the arguments stay. Correct: a session is recovered
  only while it runs in the pane, and restore recognizes what it derived.
- **Planning.** The machine is not the one of the snapshot. Correct: everything
  that could not be found shows in the exit code.

The full list with lines is `hazards` in `PROJECT.json`.

## 2. The modules

Each component module declares its constants, variables, one action per system
call, tmux command or `/proc` read (or per group that nothing else can
interleave with), the specification, a type invariant and its properties.
Operators whose comment starts with *Wrong form* are plausible bugs: replacing
the operator they are named after makes the named property fail.

### SnapshotKeys, SnapshotArchive, Publication

`SnapshotKeys` has keys `<time>-<suffix>` and their order. `SnapshotArchive` is
what users are promised: a set of committed snapshots that only grows, and a
pointer that, now and after a power loss, is one of them and only moves forward.
`undisturbed` ends when somebody interferes or a publisher cannot read what the
pointer names: from then on only the commits are promised.

`Publication` is the file protocol. `pc[p]` is publisher `p`'s next call, in the
order of `publish_with_file_system` and `update_latest`: create and sync the
state directories (`PrepareRoot`, `PrepareSnapshots`), `WriteTemporary`,
`SyncTemporary`, `RenameFinal`, `SyncSnapshots`, `AcquireLatestLock`,
`InspectLatest`, `LinkTemporary`, `RenameLatest`, `SyncRoot`. Each may fail
(`Fail`) with the result the code returns from there. The file system is modelled twice:
`dirs`, `temps`, `archive`, `latest` are what processes see; `durDirs`,
`settled`, `synced`, `mayLatest` say what a power loss may leave. A lost rename
of `latest` is any of the values since the last sync of the root. `ProcessCrash`
releases the lock. `Tamper` is one outside interference: `latest` removed or
replaced, or a snapshot file edited (properties that depend on nobody doing so
say `Untouched`).
Contents of snapshots are abstracted to whole or torn; serialization failure is
part of the first phase's failures.
`MCPublication` numbers the publishers and starts them in the order of their keys
(`InOrder`): the protocol treats them alike, so starts that differ in names only
are explored once. It is the symmetry reduction a run with liveness can have.

### OwnedTarget

`pc` follows `claim` (`StartServer`), `MatchedServerIdentity::observe`
(`ReadFirst`, `CaptureProcess`, `ReadAgain`, `Matched`), the cleanup
(`Recheck`, `Check`, `Dispatch`), the topology commands of `Plan` with
`default-shell` before and `exit-empty on` after them (`Script`), the rollback
and the final observation (`ObserveEndpoint`, `ObserveProcess`, `WhenAbsent`).
`mode` says what a guarded command is for. `occupant` is the kernel's process
table, `endpoint` the server whose socket is there; owner token and tmux start
time together are modelled as knowing the server instance, the process start time in `/proc`
as knowing the process. tmux evaluates an `if-shell -F` condition and
runs the command as one step. The environment starts foreign servers, opens and
ends sessions, moves the socket, kills servers and reuses process ids without
bounds other than the sets given.
The commands of one window or pane are one command of `Plan` (`pane`):
what can go wrong with them is the same, and properties are about which server
they act on.

### Topology

`Valid` is `refine`: what a snapshot file must be to be accepted. What the module
leaves out of a file (JSON, names, paths, session ids) is one answer,
`DataAccepted`. `create_topology` is one action per kind of command
(`CreateSession`, `MoveFirstWindow`, `RespawnFirstPane`, `ReadFirstPane`,
`CreateSplit`, `CreateWindow`, `Complete`), `at` the place in the plan it is for,
`Remember` the check of `remember_pane` that the pane landed where it was
planned. Window names, directories and the wording of errors are left out: a
mismatch in them is `CommandFails`.
tmux is external and modelled from the commands that are sent: `split-window -d`
puts a new pane right behind the active one, which gives it half of its rows (at
least 3 are needed) and stays active; a new session has its first window at
index 0; a window index is used once per session. Clients select and close
panes, and open and move windows, between any two commands.
`Places` are the sessions, windows and panes of the plan in the order they are
created; that snapshots are raw records (`SnapshotsAreRaw`) is all that is
assumed of them.
`OwnedTarget` has the same construction as a list of commands that are refused
or not, because its properties are about which server they act on; `Topology`
assumes what it shows, that the server is the restore's own.

### RestorePlanning

`plan_restore` as a function of what was recorded (`Recorded`) and what the
planner finds (`Environment`): the action of each pane (`PlanPane`), whether
there is a plan at all (`Plannable`), and whether it is degraded (`Degraded`).
Quoting is reduced to whether a command can be rendered; the target shell and
the executables are part of what is found.

### PaneRecovery, RestoreCommand

`PaneRecovery` is the executor. The plan is `RestorePlanning`'s, for any record
of the panes and any machine; panes are `1 .. n` in plan order. The executor
takes one after the other; `Guard`, `Dispatch`, `ObserveAgain`,
`FreshObservation`, `PromptDispatch`, `ClassifyBlocked`, `CleanUpBuffer` are the
steps of `guarded_pane_operation`, `observe_automatic` and
`paste_codex_prompt_area`. A command list may take effect up to any prefix
before it fails, and its reply may be lost. `unread` is what a pane received and
nobody has read; `sent` remembers who had the pane when input was sent.
`"alike"` is a program that has the shell's name: tmux's condition cannot tell
it from the shell, `/proc` can. `raced` remembers that the foreground changed
between the observation in `/proc` and the conditional it allowed, a gap that
the architecture document acknowledges.
Only the pane that is worked on lives its own life in the model. What a pane does
before its turn is in how it is found (the four kinds of foreground, closed,
input off), and nothing is read from or sent to a pane after its turn
(`OutOfSight`). The disposition of the target is observed at the end.

`RestoreCommand` is `run_restore_with_factory` around it: load and plan
(`Prepare`), announce, claim and build (`Establish`, of which `OwnedTarget` and
`Topology` are the inside), recover, report. Any write of its output may fail, at
any of the places where the code writes: what is lost then, the exit code and
what was sent by then are related by `ExitCodeIsHonest`. How far a report came
before its write failed is left aside.

### Capture

`ReadBefore`, then for each pane `InspectPane` and, for a Codex session,
`ReadGrid` and `ClosingInspection`, then `ReadAfter` with the fingerprint
comparison, up to `Attempts` times; `BuildResult` strips drafts if the snapshot
is too large. Panes have ids that a server never reuses and that start again
with the next server. Process inspection is one step here (its own module says
what that step may rely on), and so are the three commands that read the visible
grid. `CoordinatesFit` says that there are as many pane ids as coordinates, for
a server that is replaced. Assumed of the source: a Codex session has a pane's foreground at most
once during a capture, and it draws its composer as it starts. Without this no
comparison of identities could tell that a draft is another session's; the
hazard list names it.

### ProcessInspection

`LinuxProcessInspector::observe` read by read: terminal and stat of the pane
process, enumeration, selection of the foreground job, two reads of every
member (stat, executable, arguments, executable, stat), the closing stat and
terminal, the session records, all of it again, and the comparison. Any read may
fail; what the code passes over (a stat that cannot be read during enumeration,
a file descriptor that cannot be opened) is passed over. Assumed of the
processes: during one inspection no process goes back to an argument vector, a
group or a set of records it had left, because an observation made twice cannot
see that; the foreground itself may come and go. The records Claude keeps in
files named by process id are not modelled apart from Codex's opened files.

### Classification

`classify_pane` with `resolve_codex`, `resolve_claude` and `resolve_serve` as
operators over the evidence of one moment, and `derive_automatic_command` with
the expectation it has to meet (`Relaunch`). The evidence comes from programs
that live around it: Codex holds the log of its session open (its sub-agents
have logs of their own), Claude Code names sessions in its arguments and writes
a record under its process id, processes exit with or without their records,
ids are used again, users change sessions and directories. A resolver returns a
set with one outcome, or the empty set for a tool that is not there.
`Arguments` and `SoundArguments`, `Records` and `SoundRecords` are the two lists
`resolve_claude` collects and the part of each it accepts.
`Tuis` stands for the recognition of a TUI, the option grammar of Claude Code
included; JSON is reduced to whether a log's first line is complete, records to
the fields that are compared. Corroboration by the tail of a pane is left out:
no caller supplies one.
Assumed of the tools: Codex has the log of one root session open at a time, and
a session of Claude Code that leaves the one of its arguments has a record which
follows it. `AutomaticIsLive` is stated for records that could be collected:
without them the documents accept the arguments alone.

### PromptScreen

Three tmux commands read a pane: metadata, styled rows, metadata again
(`ReadBefore`, `ReadGrid`, `ReadAfter`), around a Codex that goes on drawing
another view row by row (`Redraw`, `DrawRow`). The rows are decoded as
`visible_pane.rs` does, in the one bit of style that decides (faint), with
its SGR parameters, extended colours and malformed sequences, then `Visible` is
`codex_prompt.rs`: footer, status line, composer, cursor, placeholder, margin and
size. Rows are sequences of tokens; a token is a glyph, a margin, one character,
or one segment of the status line, and two of them are two cells wide.
External, and assumed of Codex and tmux: an empty composer shows a faint
placeholder, rows are drawn one at a time from the top, and tmux shows what has
been drawn. What the parser relies on is stated as assumptions on `Views`, which
TLC evaluates on the views it is given: rows fit the pane and the cursor is in the
text (`RowsFitThePane`, `CursorIsInTheText`); a shell command has a first token of
its own (`LeadTellsShells`); a composer has something below it
(`ComposersHaveABottom`), else the end of a draft could pass for the footer; only a
composer shows a prompt glyph with nothing but faint cells behind it
(`OnlyComposersLookEmpty`); and no dialog has a supported footer below its cursor
(`DialogsHaveNoFooter`, which the code takes for granted when it requires one).
A parser that sees rows and a cursor has no other way to tell these apart.
`ShowsFooter` is the other side of the parser's footer: what Codex shows, as the
document classifies it, written without the parser's operators. Recursion over
cells, parameters and rows (`PenAlong`, `ApplySgr`, `Decode`) is written as
functions of an index. The exact words of hints and segments, wide characters
elsewhere and the byte grammar of escape sequences are left out.

## 3. Runs

| Run | Question | Bounds | Result |
|---|---|---|---|
| `publication` | is everything published safe, for writers and readers; can racing publishers move `latest` back; does the protocol implement the archive; does every publication end | 2 publishers, 1 reader, 2 times × 2 suffixes, 1 power loss, 1 interference, read faults, fair | holds |
| `publication_backward` | "only when the new snapshot is newer" | 2 publishers, read faults | violated |
| `publication_kept` | exit code 0 means a durable pointer | 2 publishers | violated |
| `target` | ownership, cleanup, rollback, report, and that the restore ends | 2 foreign servers, 2 process ids, a session with a split, 2 observations, 1 foreign session each, fair | holds |
| `topology` | is each recorded pane one new pane, and the result what was captured | 1 or 2 sessions, 2 windows, 5 panes (limit 4), 7 rows, 3 client actions or failures | holds |
| `topology_order` | "Pane source order is preserved" | the same, nobody else | violated |
| `restore` | input, outcomes, drafts, report and exit code of the command, and that it ends | 2 panes, plans of any record on any machine, 2 settling observations, 3 changes of each pane, fair | holds |
| `capture` | truth and completeness of a capture | 2 coordinates, 2 sessions, 2 attempts, 3 changes, 2 servers | holds |
| `prompt` | is captured text the draft, is every supported draft captured | panes of 5 and 6 rows, 9 cells wide, drafts of 2 rows and up to 4 tokens, 2 views drawn meanwhile | holds |
| `prompt_changing` | a changing screen yields no text | the same, 1 view drawn | violated |
| `inspection` | is evidence of one moment and complete | 3 processes, 3 changes or failed reads | holds |
| `classification` | is what is recovered running, and recognized afterwards | 2 process ids, 2 sessions, 2 directories, 3 processes started | holds |

Why the bounds are enough for what they are to show: two publishers are needed
for a race, and equal times make the suffix decide; one power loss is enough for
files because what it may leave is kept as a set (`mayLatest`, `settled`) and
every later step starts from each of its outcomes; two process ids allow the
server's id to be given up and taken by a foreign server or a stranger; two
panes let trouble in one reach the other, and three changes let its foreground
leave, be replaced and come back; classification needs three processes to
leave a record behind, take its id and be relaunched; the topology needs two
windows at either index and in either order, windows with one pane more than fit
in 7 rows (3) and one more than the limit (4), and three client actions to open,
move and close one window; process inspection needs three changes to exit, reuse
an id and change a second process; a prompt needs drafts of two rows, with a blank at the end of a row or of the
text, and with one token too many, and the places of a cursor that was moved. Every bound is a constant of its module
(`Max...`, `Attempts`, `Settle`, `Last`, `Limit`, `Rows`, `Width`) and the
proofs hold for all of them. A declared symmetry is used only in
`classification`, which has no liveness. Deadlock is not checked: every program
modelled here ends. The type invariants are part of what is proved (section 5).

### Where the code and the documents differ

- `publication_backward`: any failure to read the current target counts as an
  invalid pointer, and an older snapshot then replaces a newer valid one.
- `publication_kept`: the branch that keeps a newer `latest` does not sync the
  root, so its exit code 0 rests on a rename that may not be durable.
- `topology_order`: panes of a window are created by splitting it, which puts each
  new one right behind the first: with three panes or more all but the first
  come back in reverse order.
- `prompt_changing`: only the metadata are compared around the rows, so a view
  that is being drawn under a resting cursor is read as one screen, and the text
  captured may be of no draft.

Four more were met while modelling and are not runs, because they are about the
wording and completeness of output rather than about states:
`restore` can exit with 1 although recovery began, and without the final summary,
when a write fails (`docs/src/ARCHITECTURE.md:1018`); `ExitCodeIsHonest` is stated
with that exception (`lost`). A draft that could not be prepared after a
successful relaunch is reported on standard output only, though per-pane
failures are said to go to standard error (`docs/src/ARCHITECTURE.md:1024`). A
failed write of the publication report makes `snapshot` exit with 1 after the
snapshot was committed. A failed write of a capture warning ends `snapshot`
before anything is published.

Three more are limits of the design rather than contradictions of a document. A
window of more than five panes does not fit in the 24 rows of a new window when
its first pane is halved again and again; the restore fails and rolls back
(`RestoredAsCaptured` says that it fails for no other reason). A shell that does
not read its input for two seconds is taken for a failed launch, and the hint is
pasted although the launch is still to run. The fingerprint of a capture knows
pane ids but not the server, so a server replaced during an attempt can be
reported as stable; `StableInOneServer` says what holds while one server stays, and
no property watches the other case.

## 4. Fairness

`publication` assumes that a process that began gets to make its next call
(weak fairness per publisher) and that the kernel gives a free lock to a
publisher waiting for it (`AcquireLatestLock`; each publisher takes it once, so
weak fairness is enough). `target` assumes that the restore keeps running
(its polls are bounded loops with sleeps) and that tmux closes an empty server
with `exit-empty on` and its process then ends; nobody else has to do anything.
`restore` assumes that the command keeps running and that every tmux call and every
write it makes returns, with success or failure: the code waits for them without a
timeout, so a tmux that never answers stops it. `target` presumes the same of its
calls. What runs in the panes owes the command nothing. The other runs state no
liveness: a capture, an inspection and a prompt are bounded sequences of calls.

## 5. Proofs

Eight modules prove, for all values of the constants, every safety and action
property of every passing run, the refinement included. The assumptions are the
named `ASSUME`s of the modules: bounds are natural numbers, markers are distinct
from what they mark, panes are numbered in plan order, process ids are finitely
many, snapshots are raw records, and of what Codex draws what section 2 says.

| Module | Proves | With |
|---|---|---|
| `PublicationProofs` | `LatestNeverDangles`, `PublishedSurvives`, `IndeterminateNeverLatest`, `SelectionStaysLoadable`, `SnapshotsAreImmutable` | `IInv` |
| | `ImplementsArchive`, `UpdatedStaysRecent`, `ReaderNeverRegresses` | `FInv` |
| `OwnedTargetProofs` | every safety property of `target` | `IInv` |
| `TopologyProofs` | `OnePaneEach`, `RestoredAsCaptured` | `IInv`, `LeftAlone` |
| `RestoreCommandProofs` | every safety property of `restore` | `RInv`, `CInv` |
| `CaptureProofs` | every property of `capture` | `IInv` |
| `ClassificationProofs` | both properties of `classification` | `IInv` |
| `ProcessInspectionProofs` | both properties of `inspection` | `IInv` |
| `PromptScreenProofs` | every property of `prompt`; the grid is exact | `Inv` |

**Publication.** `LatestNeverDangles` is not inductive: it says nothing of
publishers that are on their way. `IInv` adds, as named conjuncts: nobody works
below a directory that may vanish (`DirectoriesFirst`); a file with an immutable
name is synced and belongs to its key (`ArchivedFilesAreSynced`); only files of
ended publishers are damaged (`OnlyUnsyncedTears`); whoever is past the
directory sync has a durable entry (`CommittedFirst`); the pointer, all it may
be after a power loss, and what readers hold is committed (`PointsToCommitted`);
and the lock makes inspect, compare and rename one step (`LockProtects`). Each
conjunct has a lemma, one step per action; the theorems follow from `IInv`, the
action properties from `IInv` and `Next`.

**OwnedTarget.** `IInv` records what each stage of the identification knows
(`Evidence`: between the two reads the process id may belong to somebody else,
but then the new server is gone for good and the second read will not match),
that the server is born once and is one process (`Birth`), and that it does not
close by itself before the last topology command (`StaysOpen`). With it a
guarded command can act only on the new server, and `Removed` is said only
after its process is gone.

**Refinement of the archive.** A snapshot is committed once it is whole and can
no longer be lost. `FInv` adds to `IInv` that only a publisher past the inspection
remembers what it saw (`SeenUnderLock`) and, for as long as nobody interferes
(`Forward`), that the pointer is the newest of all it may fall back to
(`PointerLeads`), and that readers hold nothing newer (`ReadersFollow`). Then every
step of the protocol is a step of the archive or leaves it alone. `UpdatesLast` is
of each publisher: nothing that the pointer may be is older than the snapshot that
was reported as its target, `Updated` or `ReplacedInvalid`. It is not part of
`Forward`, because one invalid pointer does not end it: only a publisher of an
older snapshot that takes the pointer for invalid does (`TakenForInvalid`), or
somebody else who changes the state directory.

**RestoreCommand.** `RInv` says whose turn it is (`Turn`), what the pane of the
turn has got at each stage (`Stage`), what was reported of the ones before it
(`Reports`), where a draft's buffer may be (`Buffers`), and that observations
allow what is sent next (`Allowed`). `CInv` adds the plan (`PlanFacts`), the
phases of the command (`Phases`) and that a result is earned (`ResultIsEarned`).

**Topology.** Ids only grow: all remembered panes are below `panes`, the one just
created is new to them (`CreatedIsNew`), everything before `at` in the plan is
remembered and nothing outside it (`SoFar`, `NothingElse`). For a restore that is
left alone, `LeftAlone` says what is on the server at each command: one window for
each recorded one that is begun, with as many panes as were created in it, under
its session and index, except the first one before it is moved (`Mirrored`); the
window that the next command names (`AtHand`); remembered panes in their windows
(`InPlace`); and each window's first pane halved once for each split (`Shaped`), so
that a split that tmux refuses means a window that does not fit. From it follow
that no other command is refused and that the end of the plan has every window
filled.

**Capture.** A pane that is gone never comes back and a session has one pane for
good (`SourceInv`). So a draft read between two inspections is the session's if
the closing one still finds it there (`AttemptInv`). Candidates keep what attempts
established (`CandidateInv`), and attempts that are over left their reason
(`HistoryInv`).

**ProcessInspection.** Processes only move on (`Onward`): start times, argument
vectors, groups and records do not come back. `Known` ties what the first pass
read to the process as it is, `Enclosed` ties it to the moment the second pass
begins, and that moment to what the second pass reads: two equal readings leave no
room in between. `PaneInv` and `RecordsInv` say the same of the terminal and the
session records; `StayedInv` follows whoever stays in the foreground through
enumeration, selection and the reads.

**Classification.** The log of a user's session that a Codex process holds open is
its own (`LogsAreOwn`); a record with the start time of a process is of that
process (`RecordsFollow`); a process without one is still in a session its
arguments name (`ArgumentsHold`); the relaunched process is alone and as it was
started (`RelaunchedInv`).

**PromptScreen.** Most of the proof is about operators. The decoder keeps a pen
along a row and from row to row, with numbers of a colour to be passed over; that
it follows tmux's pen (`PenFollows`, `PenAlongFollows`, `DecodeIs`) is an induction
over cells, codes and parameters. The library's induction theorems cannot be
instantiated here, so it is done by way of the least number at which a claim would
fail (`LeastNumber`, `SetInduction`), and a recursive function is shown to exist
by way of the set of its initial parts (`RecursionExists`). The result is that the
grid is exact (`GridIsExact`) and every screen without links has one
(`ScreenWithoutLinksIsValid`). Over rows that are known, `CapturedDraft` follows the
search for the glyph (`StartOfText`), and why nothing of a draft can be below the
cursor (`BelowCursor`: the footer is the one row there that is not blank, and it
is at the bottom); `AbsentSeen` says the same of rows of two views; `SupportedRead`
that each footer Codex shows is found and classified, an indicator at the edge
taken off (`ZoneIsStatus`). The state adds little: with one redraw, rows of one
view were read with the metadata of that view, or it stays to the end
(`AfterInv`). TLC checked `Inv` on a smaller set of views before it was proved.

What only TLC checks: liveness (`PublicationEnds`, `RestoreEnds`,
`EmptyTargetExits`, `CommandEnds`), which is beyond this prover.

## 6. What is done, what is left

Done: every module of section 2, with the proofs of section 5.

Left, in this order:

1. What a capture builds, stripping included, shown to pass `Valid`.
2. Claude's session records in `ProcessInspection`, its answer joined with
   `Classification`.

Not modelled, and not planned: the inspect renderer (`src/inspect.rs` formats a
loaded snapshot; how that is loaded is in `Publication`), argument parsing and
server selectors (pure functions of their input), `src/lib.rs` (module
declarations), JSON, quoting, the wording of reports, and file permissions.
