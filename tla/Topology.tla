------------------------------ MODULE Topology ------------------------------
(***************************************************************************)
(* From a snapshot file to the sessions, windows and panes of the new      *)
(* server: refine in src/src/model.rs accepts the snapshot, and            *)
(* create_topology in src/src/tmux.rs builds it one tmux command after the *)
(* other, remembering which new pane stands for which recorded one.        *)
(* Program recovery then works on the remembered panes.                    *)
(*                                                                         *)
(* Every command goes to the server this restore owns (OwnedTarget shows   *)
(* that), but other clients may be attached to it: they select and close   *)
(* panes and open and move windows between any two commands.               *)
(***************************************************************************)
EXTENDS Naturals, Sequences, FiniteSets

CONSTANTS
  Snapshots,    \* the raw snapshots that files may hold
  Limit,        \* MAX_SESSIONS, MAX_WINDOWS_PER_SESSION, MAX_PANES_PER_WINDOW
  Rows,         \* rows of a new window; tmux has 24
  Index,        \* window indexes that clients choose
  MaxDisturbed  \* bound: client actions and failures of commands

ASSUME LimitIsPositive == Limit \in Nat \ {0}
ASSUME RowsAreCounted == Rows \in Nat \ {0}
ASSUME BoundIsNatural == MaxDisturbed \in Nat

\* A raw snapshot is a sequence of sessions, each a sequence of windows, each a
\* sequence of recorded pane indexes, in the order of the file.
RawWindow == [index : Nat, panes : Seq(Nat)]
RawSession == [name : STRING, windows : Seq(RawWindow)]
ASSUME SnapshotsAreRaw == Snapshots \subseteq Seq(RawSession)

VARIABLES
  snapshot,   \* the snapshot to restore
  pc,         \* the next command, or how it ended
  at,         \* the recorded session, window and pane it is for
  windows,    \* the windows of the new server
  created,    \* the window that is being filled
  remembered, \* the new pane of each recorded coordinate
  panes,      \* panes created so far; the last one's id
  disturbed   \* client actions and failed commands so far

vars == <<snapshot, pc, at, windows, created, remembered, panes, disturbed>>

Building == {"session", "move", "respawn", "read", "split", "window", "end"}
Ended == {"complete", "failed", "refused"}
----------------------------------------------------------------------------
(* Refining the snapshot.                                                  *)

Distinct(s) == \A i, j \in DOMAIN s : s[i] = s[j] => i = j
WithinLimit(s) == Len(s) \in 1 .. Limit

\* Wrong form: two windows of a session may have one index.
ValidWindowsAlike(raw) ==
  \A i \in DOMAIN raw :
    /\ WithinLimit(raw[i].windows)
    /\ \A k \in DOMAIN raw[i].windows :
         WithinLimit(raw[i].windows[k].panes) /\ Distinct(raw[i].windows[k].panes)

\* validate_session() and validate_window()
ValidWindows(raw) ==
  \A i \in DOMAIN raw :
    /\ WithinLimit(raw[i].windows)
    /\ Distinct([k \in DOMAIN raw[i].windows |-> raw[i].windows[k].index])
    /\ \A k \in DOMAIN raw[i].windows :
         WithinLimit(raw[i].windows[k].panes) /\ Distinct(raw[i].windows[k].panes)

\* refine()
Valid(raw) ==
  /\ WithinLimit(raw)
  /\ Distinct([i \in DOMAIN raw |-> raw[i].name])
  /\ ValidWindows(raw)

\* validate_recovery(), validate_name() and the checks of paths: whether the
\* data that this module leaves out is accepted as well.
DataAccepted == BOOLEAN
----------------------------------------------------------------------------
(* The plan, in the order of the snapshot.                                 *)

Session == snapshot[at.session]
Window == Session.windows[at.window]

\* The places of the plan, and what is recorded there.
Places ==
  {p \in [session : 1 .. Limit, window : 1 .. Limit, pane : 1 .. Limit] :
     /\ p.session \in DOMAIN snapshot
     /\ p.window \in DOMAIN snapshot[p.session].windows
     /\ p.pane \in DOMAIN snapshot[p.session].windows[p.window].panes}
CoordinateOf(p) ==
  LET w == snapshot[p.session].windows[p.window]
  IN [session |-> snapshot[p.session].name, window |-> w.index, pane |-> w.panes[p.pane]]
Coordinate == CoordinateOf(at)
Coordinates == {CoordinateOf(p) : p \in Places}

\* The command after the one for `at`, and what it is for.
Advance ==
  IF at.pane < Len(Window.panes)
  THEN pc' = "split" /\ at' = [at EXCEPT !.pane = @ + 1]
  ELSE IF at.window < Len(Session.windows)
  THEN pc' = "window" /\ at' = [at EXCEPT !.window = @ + 1, !.pane = 1]
  ELSE IF at.session < Len(snapshot)
  THEN pc' = "session" /\ at' = [session |-> at.session + 1, window |-> 1, pane |-> 1]
  ELSE pc' = "end" /\ UNCHANGED at
----------------------------------------------------------------------------
(* tmux.                                                                   *)

Ids == {w.id : w \in windows}
TheWindow(id) == CHOOSE w \in windows : w.id = id
WindowsOf(name) == {w \in windows : w.session = name}
IndexFree(name, i) == \A w \in WindowsOf(name) : w.index # i
PaneIds(w) == {w.panes[i].id : i \in DOMAIN w.panes}
Replace(w, by) == (windows \ {w}) \cup by

\* A window is known by the id of the first pane it was created with.
NewWindow(id, name, i) ==
  [id |-> id, session |-> name, index |-> i, active |-> id,
   panes |-> <<[id |-> id, rows |-> Rows]>>]

\* split-window -d: the active pane of the window gives half its rows to a new
\* one right below it, and stays active.
ActiveAt(w) == CHOOSE i \in DOMAIN w.panes : w.panes[i].id = w.active
HasRoom(w) == w.panes[ActiveAt(w)].rows >= 3
AfterSplit(w, id) ==
  LET i == ActiveAt(w)
      rows == w.panes[i].rows
  IN [w EXCEPT !.panes =
       SubSeq(@, 1, i - 1)
         \o <<[id |-> w.active, rows |-> rows \div 2],
              [id |-> id, rows |-> rows - 1 - rows \div 2]>>
         \o SubSeq(@, i + 1, Len(@))]
----------------------------------------------------------------------------
(* create_topology().                                                      *)

Init ==
  /\ snapshot \in Snapshots
  /\ pc = "load" /\ at = [session |-> 1, window |-> 1, pane |-> 1]
  /\ windows = {} /\ created = 0 /\ remembered = <<>>
  /\ panes = 0 /\ disturbed = 0

\* ValidatedSnapshot::from_json()
Load ==
  /\ pc = "load"
  /\ \E accepted \in DataAccepted :
       pc' = IF Valid(snapshot) /\ accepted THEN "session" ELSE "refused"
  /\ UNCHANGED <<snapshot, at, windows, created, remembered, panes, disturbed>>

\* What tmux requires of the next command.
Accepted ==
  \/ pc = "session" /\ WindowsOf(Session.name) = {}
  \/ pc = "move" /\ created \in Ids /\ IndexFree(Session.name, Window.index)
  \/ pc \in {"respawn", "read"} /\ \E w \in windows : created \in PaneIds(w)
  \/ pc = "split" /\ created \in Ids /\ HasRoom(TheWindow(created))
  \/ /\ pc = "window" /\ WindowsOf(Session.name) # {}
     /\ IndexFree(Session.name, Window.index)
  \/ pc = "end"

\* Wrong form: the pane that is active in the window.
IdentityOfActive(w, id) == w.active

\* The pane that the command itself printed.
Identity(w, id) == id

\* remember_pane(): the pane must be where the plan has it.
Remember(w, id) ==
  IF w.index = Window.index
  THEN /\ remembered' = [c \in DOMAIN remembered \cup {Coordinate} |->
                          IF c = Coordinate THEN Identity(w, id) ELSE remembered[c]]
       /\ Advance
  ELSE pc' = "failed" /\ UNCHANGED <<at, remembered>>

CreateSession ==
  /\ pc = "session" /\ Accepted
  /\ panes' = panes + 1 /\ created' = panes'
  /\ windows' = windows \cup {NewWindow(panes', Session.name, 0)}
  /\ pc' = IF Window.index # 0 THEN "move" ELSE "respawn"
  /\ UNCHANGED <<snapshot, at, remembered, disturbed>>

MoveFirstWindow ==
  /\ pc = "move" /\ Accepted
  /\ LET w == TheWindow(created)
     IN windows' = Replace(w, {[w EXCEPT !.index = Window.index]})
  /\ pc' = "respawn"
  /\ UNCHANGED <<snapshot, at, created, remembered, panes, disturbed>>

\* The placeholder gives way to the interactive shell in the pane's directory.
RespawnFirstPane ==
  /\ pc = "respawn" /\ Accepted
  /\ pc' = "read"
  /\ UNCHANGED <<snapshot, at, windows, created, remembered, panes, disturbed>>

ReadFirstPane ==
  /\ pc = "read" /\ Accepted
  /\ \E w \in windows : created \in PaneIds(w) /\ Remember(w, created)
  /\ UNCHANGED <<snapshot, windows, created, panes, disturbed>>

CreateSplit ==
  /\ pc = "split" /\ Accepted
  /\ panes' = panes + 1
  /\ LET w == TheWindow(created)
     IN windows' = Replace(w, {AfterSplit(w, panes')}) /\ Remember(w, panes')
  /\ UNCHANGED <<snapshot, created, disturbed>>

CreateWindow ==
  /\ pc = "window" /\ Accepted
  /\ panes' = panes + 1 /\ created' = panes'
  /\ LET w == NewWindow(panes', Session.name, Window.index)
     IN windows' = windows \cup {w} /\ Remember(w, panes')
  /\ UNCHANGED <<snapshot, disturbed>>

\* exit-empty on
Complete ==
  /\ pc = "end" /\ pc' = "complete"
  /\ UNCHANGED <<snapshot, at, windows, created, remembered, panes, disturbed>>

\* The first command that tmux refuses ends the construction; the restore then
\* rolls back.
Refused ==
  /\ pc \in Building /\ ~Accepted
  /\ pc' = "failed"
  /\ UNCHANGED <<snapshot, at, windows, created, remembered, panes, disturbed>>
----------------------------------------------------------------------------
(* Others.                                                                 *)

Disturb == pc \in Building /\ disturbed < MaxDisturbed /\ disturbed' = disturbed + 1

\* A command fails although tmux could have done it, or the new pane is not in
\* its directory when tmux prints it.
CommandFails ==
  /\ Disturb /\ pc' = "failed"
  /\ UNCHANGED <<snapshot, at, windows, created, remembered, panes>>

OnlyWindows == UNCHANGED <<snapshot, pc, at, created, remembered>>

ClientSelects ==
  /\ Disturb
  /\ \E w \in windows : \E p \in PaneIds(w) \ {w.active} :
       windows' = Replace(w, {[w EXCEPT !.active = p]})
  /\ OnlyWindows /\ UNCHANGED panes

\* Or its program exits.  The rows go to a pane next to it.
PaneCloses ==
  /\ Disturb
  /\ \E w \in windows : \E i \in DOMAIN w.panes :
       LET rest == SubSeq(w.panes, 1, i - 1) \o SubSeq(w.panes, i + 1, Len(w.panes))
           by == IF i = 1 THEN 1 ELSE i - 1
           wider == [rest EXCEPT ![by].rows = @ + w.panes[i].rows + 1]
       IN IF rest = <<>> THEN windows' = windows \ {w}
          ELSE \E p \in {rest[k].id : k \in DOMAIN rest} :
                 /\ w.active # w.panes[i].id => p = w.active
                 /\ windows' = Replace(w, {[w EXCEPT !.panes = wider, !.active = p]})
  /\ OnlyWindows /\ UNCHANGED panes

ClientOpensWindow ==
  /\ Disturb
  /\ panes' = panes + 1
  /\ \E k \in DOMAIN snapshot, i \in Index :
       /\ IndexFree(snapshot[k].name, i)
       /\ windows' = windows \cup {NewWindow(panes', snapshot[k].name, i)}
  /\ OnlyWindows

ClientMovesWindow ==
  /\ Disturb
  /\ \E w \in windows, i \in Index :
       /\ IndexFree(w.session, i)
       /\ windows' = Replace(w, {[w EXCEPT !.index = i]})
  /\ OnlyWindows /\ UNCHANGED panes

Restore ==
  \/ Load \/ CreateSession \/ MoveFirstWindow \/ RespawnFirstPane \/ ReadFirstPane
  \/ CreateSplit \/ CreateWindow \/ Complete \/ Refused
Others ==
  \/ CommandFails \/ ClientSelects \/ PaneCloses
  \/ ClientOpensWindow \/ ClientMovesWindow

Next == Restore \/ Others
Spec == Init /\ [][Next]_vars
----------------------------------------------------------------------------
(* Properties.                                                             *)

Pane == [id : 1 .. panes, rows : Nat]
TypeOK ==
  /\ snapshot \in Snapshots
  /\ pc \in Building \cup Ended \cup {"load"}
  /\ at \in [session : Nat \ {0}, window : Nat \ {0}, pane : Nat \ {0}]
  /\ \A w \in windows :
       /\ w.id \in 1 .. panes /\ w.panes \in Seq(Pane) /\ w.active \in PaneIds(w)
       /\ w.session \in {snapshot[k].name : k \in DOMAIN snapshot}
  /\ panes \in Nat /\ created \in 0 .. panes
  /\ DOMAIN remembered \subseteq Coordinates
  /\ \A c \in DOMAIN remembered : remembered[c] \in 1 .. panes
  /\ disturbed \in 0 .. MaxDisturbed

\* No two recorded panes are ever recovered in one new pane, and when the
\* topology is complete each has one, whatever clients do to windows and panes
\* while it is built.
OnePaneEach ==
  /\ \A c, d \in DOMAIN remembered : remembered[c] = remembered[d] => c = d
  /\ pc = "complete" => DOMAIN remembered = Coordinates

\* The rows of the first pane of a window as the pane is halved again and again.
Halvings(n) == {h \in [1 .. n -> 0 .. Rows] :
                  h[1] = Rows /\ \A i \in 2 .. n : h[i] = h[i - 1] \div 2}

\* Does a window take n panes?  Each split needs three rows.
Fits(n) == \A m \in 1 .. n - 1 : \A h \in Halvings(m) : h[m] >= 3

\* topology_from_records(): what a capture of the new server would read.
Observation ==
  {[session |-> w.session, index |-> w.index, panes |-> Len(w.panes)] : w \in windows}
Recorded ==
  UNION {{[session |-> snapshot[i].name, index |-> w.index, panes |-> Len(w.panes)] :
            w \in {snapshot[i].windows[k] : k \in DOMAIN snapshot[i].windows}} :
         i \in DOMAIN snapshot}

\* Left alone, the restore of an accepted snapshot, in whatever order it lists
\* windows and panes, builds a server whose capture has the sessions, windows
\* and panes of the snapshot, each remembered pane in its own window; it gives
\* up only on a window that has more panes than fit.
RestoredAsCaptured ==
  disturbed = 0 =>
    /\ pc = "complete" =>
         /\ Observation = Recorded
         /\ \A c \in DOMAIN remembered : \E w \in windows :
              /\ remembered[c] \in PaneIds(w)
              /\ w.session = c.session /\ w.index = c.window
    /\ pc = "failed" => \E w \in Recorded : ~Fits(w.panes)

\* Left alone, the restore keeps the order of the panes of each window.
SourceOrderIsPreserved ==
  pc = "complete" /\ disturbed = 0 =>
    \A i \in DOMAIN snapshot : \A k \in DOMAIN snapshot[i].windows :
      LET source == snapshot[i].windows[k]
          inTarget(j) == remembered[[session |-> snapshot[i].name,
                                     window |-> source.index, pane |-> source.panes[j]]]
      IN \E w \in windows :
           [j \in DOMAIN w.panes |-> w.panes[j].id]
             = [j \in DOMAIN source.panes |-> inTarget(j)]
=============================================================================
