--------------------------- MODULE TopologyProofs ---------------------------
(***************************************************************************)
(* Topology remembers one new pane for each recorded one, for snapshots of *)
(* any size and any number of client actions (OnePaneEach), and, left      *)
(* alone, builds what the snapshot records (RestoredAsCaptured).           *)
(***************************************************************************)
EXTENDS Topology, SequenceTheorems, TLAPS

Place == [session : Nat \ {0}, window : Nat \ {0}, pane : Nat \ {0}]

Types ==
  /\ snapshot \in Seq(RawSession)
  /\ pc \in Building \cup Ended \cup {"load"}
  /\ at \in Place
  /\ panes \in Nat /\ created \in 0 .. panes

\* A new pane has an id of its own: tmux counts them up.
IdsBelow == \A c \in DOMAIN remembered : remembered[c] \in 1 .. panes
CreatedIsNew ==
  pc \in {"move", "respawn", "read"} =>
    created # 0 /\ \A c \in DOMAIN remembered : remembered[c] # created
OneEach == \A c, d \in DOMAIN remembered : remembered[c] = remembered[d] => c = d

\* The places before `at`, in the order in which they are created.
Before(p) ==
  \/ p.session < at.session
  \/ p.session = at.session /\ p.window < at.window
  \/ p.session = at.session /\ p.window = at.window /\ p.pane < at.pane

\* The plan is a valid snapshot's, `at` is a place of it, everything before it
\* is remembered, and nothing else.
InPlan ==
  /\ pc \in Building => Valid(snapshot) /\ at \in Places
  /\ pc \in {"session", "window"} => at.pane = 1
  /\ pc = "session" => at.window = 1
NothingElse == DOMAIN remembered \subseteq Coordinates
SoFar ==
  /\ pc = "load" => at = [session |-> 1, window |-> 1, pane |-> 1]
  /\ pc \in Building \ {"end"} =>
       \A p \in Places : Before(p) => CoordinateOf(p) \in DOMAIN remembered
  /\ pc \in {"end", "complete"} =>
       \A p \in Places : CoordinateOf(p) \in DOMAIN remembered

IInv == Types /\ IdsBelow /\ CreatedIsNew /\ OneEach /\ InPlan /\ NothingElse /\ SoFar
----------------------------------------------------------------------------
(* The plan.                                                               *)

\* What Valid says of the sizes, and the fields of a typed snapshot.
LEMMA Sizes ==
  ASSUME snapshot \in Seq(RawSession), Valid(snapshot)
  PROVE  /\ Len(snapshot) \in 1 .. Limit /\ DOMAIN snapshot = 1 .. Len(snapshot)
         /\ \A i \in DOMAIN snapshot :
              LET ws == snapshot[i].windows
              IN /\ Len(ws) \in 1 .. Limit /\ DOMAIN ws = 1 .. Len(ws)
                 /\ \A k \in DOMAIN ws : /\ Len(ws[k].panes) \in 1 .. Limit
                                         /\ DOMAIN ws[k].panes = 1 .. Len(ws[k].panes)
<1>1. Len(snapshot) \in 1 .. Limit /\ DOMAIN snapshot = 1 .. Len(snapshot)
  BY DEF Valid, WithinLimit
<1>2. ASSUME NEW i \in DOMAIN snapshot
      PROVE  LET ws == snapshot[i].windows
             IN /\ Len(ws) \in 1 .. Limit /\ DOMAIN ws = 1 .. Len(ws)
                /\ \A k \in DOMAIN ws : /\ Len(ws[k].panes) \in 1 .. Limit
                                        /\ DOMAIN ws[k].panes = 1 .. Len(ws[k].panes)
  <2> DEFINE ws == snapshot[i].windows
  <2>1. snapshot[i] \in RawSession
    BY <1>1, <1>2
  <2>2. ws \in Seq(RawWindow)
    BY <2>1 DEF RawSession
  <2>3. WithinLimit(ws) /\ \A k \in DOMAIN ws : WithinLimit(ws[k].panes)
    BY DEF Valid, ValidWindows
  <2>4. Len(ws) \in 1 .. Limit /\ DOMAIN ws = 1 .. Len(ws)
    BY <2>2, <2>3 DEF WithinLimit
  <2>5. ASSUME NEW k \in DOMAIN ws
        PROVE  /\ Len(ws[k].panes) \in 1 .. Limit
               /\ DOMAIN ws[k].panes = 1 .. Len(ws[k].panes)
    <3>1. ws[k] \in RawWindow
      BY <2>2, <2>4
    <3>2. ws[k].panes \in Seq(Nat)
      BY <3>1 DEF RawWindow
    <3>. QED  BY <2>3, <3>2 DEF WithinLimit
  <2>. QED  BY <2>4, <2>5
<1>. QED  BY <1>1, <1>2

\* A place of a valid plan, in numbers.
LEMMA PlacesInNumbers ==
  ASSUME snapshot \in Seq(RawSession), Valid(snapshot), NEW p \in Place
  PROVE  p \in Places <=>
           /\ p.session <= Len(snapshot)
           /\ p.window <= Len(snapshot[p.session].windows)
           /\ p.pane <= Len(snapshot[p.session].windows[p.window].panes)
<1>1. CASE p.session > Len(snapshot)
  BY <1>1, Sizes DEF Places, Place
<1>2. CASE p.session <= Len(snapshot)
  <2>1. p.session \in DOMAIN snapshot
    BY <1>2, Sizes DEF Place
  <2>2. CASE p.window > Len(snapshot[p.session].windows)
    BY <2>1, <2>2, Sizes DEF Places, Place
  <2>3. CASE p.window <= Len(snapshot[p.session].windows)
    <3>1. p.window \in DOMAIN snapshot[p.session].windows
      BY <2>1, <2>3, Sizes DEF Place
    <3>. QED  BY LimitIsPositive, <1>2, <2>1, <2>3, <3>1, Sizes DEF Places, Place
  <2>4. Len(snapshot[p.session].windows) \in Nat
    BY <2>1, Sizes, LimitIsPositive
  <2>. QED  BY <2>2, <2>3, <2>4 DEF Place
<1>3. Len(snapshot) \in Nat
  BY Sizes, LimitIsPositive
<1>. QED  BY <1>1, <1>2, <1>3 DEF Place

\* Advance goes to the next place: what was before it, and the place it leaves.
LEMMA AdvanceStep ==
  ASSUME Types, Valid(snapshot), at \in Places, Advance, snapshot' = snapshot
  PROVE  /\ pc' \in {"split", "window", "session", "end"}
         /\ at' \in Place /\ at' \in Places
         /\ pc' \in {"session", "window"} => at'.pane = 1
         /\ pc' = "session" => at'.window = 1
         /\ \A p \in Places : Before(p)' => Before(p) \/ p = at
         /\ pc' = "end" => \A p \in Places : Before(p) \/ p = at
<1> DEFINE ss == snapshot
           ws == snapshot[at.session].windows
           ps == snapshot[at.session].windows[at.window].panes
<1>1. /\ at \in Place /\ at.session <= Len(ss) /\ at.window <= Len(ws) /\ at.pane <= Len(ps)
      /\ at.session \in Nat /\ at.window \in Nat /\ at.pane \in Nat
  BY PlacesInNumbers DEF Types, Place
<1>2. /\ Len(ss) \in Nat /\ at.session \in DOMAIN ss
      /\ Len(ws) \in Nat /\ at.window \in DOMAIN ws /\ Len(ps) \in Nat
  BY <1>1, Sizes, LimitIsPositive DEF Types, Place
<1>3. \A p \in Places : /\ p \in Place /\ p.session <= Len(ss)
                        /\ p.window <= Len(snapshot[p.session].windows)
                        /\ p.pane <= Len(snapshot[p.session].windows[p.window].panes)
  <2>1. \A p \in Places : p \in Place
    BY LimitIsPositive DEF Places, Place
  <2>. QED  BY <2>1, PlacesInNumbers DEF Types
<1>4. CASE at.pane < Len(ps)
  <2>1. pc' = "split" /\ at' = [at EXCEPT !.pane = @ + 1]
    BY <1>4 DEF Advance, Window, Session
  <2>2. /\ at' \in Place /\ at'.session = at.session /\ at'.window = at.window
        /\ at'.pane = at.pane + 1
    BY <1>1, <2>1 DEF Place
  <2>3. at' \in Places
    <3>1. /\ at'.session <= Len(ss) /\ at'.window <= Len(snapshot[at'.session].windows)
          /\ at'.pane <= Len(snapshot[at'.session].windows[at'.window].panes)
      BY <1>1, <1>2, <1>4, <2>2
    <3>. QED  BY <2>2, <3>1, PlacesInNumbers DEF Types
  <2>4. \A p \in Places : Before(p)' => Before(p) \/ p = at
    BY <1>1, <1>3, <2>2 DEF Before, Place
  <2>. QED  BY <2>1, <2>2, <2>3, <2>4
<1>5. CASE ~ (at.pane < Len(ps)) /\ at.window < Len(ws)
  <2>1. pc' = "window" /\ at' = [at EXCEPT !.window = @ + 1, !.pane = 1]
    BY <1>5 DEF Advance, Window, Session
  <2>2. /\ at' \in Place /\ at'.session = at.session /\ at'.window = at.window + 1
        /\ at'.pane = 1
    <3>1. at' = [session |-> at.session, window |-> at.window + 1, pane |-> 1]
      BY <1>1, <2>1 DEF Place
    <3>. QED  BY <1>1, <3>1 DEF Place
  <2>3. at' \in Places
    <3>1. at.window + 1 \in DOMAIN ws
      BY <1>1, <1>2, <1>5, Sizes DEF Types
    <3>2. Len(ws[at.window + 1].panes) >= 1
      BY <1>2, <3>1, Sizes DEF Types
    <3>3. /\ at'.session <= Len(ss) /\ at'.window <= Len(snapshot[at'.session].windows)
          /\ at'.pane <= Len(snapshot[at'.session].windows[at'.window].panes)
      BY <1>1, <1>2, <1>5, <2>2, <3>2
    <3>. QED  BY <2>2, <3>3, PlacesInNumbers DEF Types
  <2>4. \A p \in Places : Before(p)' => Before(p) \/ p = at
    BY <1>1, <1>2, <1>3, <1>5, <2>2 DEF Before, Place
  <2>. QED  BY <2>1, <2>2, <2>3, <2>4
<1>6. CASE ~ (at.pane < Len(ps)) /\ ~ (at.window < Len(ws)) /\ at.session < Len(ss)
  <2>1. pc' = "session" /\ at' = [session |-> at.session + 1, window |-> 1, pane |-> 1]
    BY <1>6 DEF Advance, Window, Session
  <2>2. /\ at' \in Place /\ at'.session = at.session + 1 /\ at'.window = 1 /\ at'.pane = 1
    BY <1>1, <2>1 DEF Place
  <2>3. at' \in Places
    <3>1. at.session + 1 \in DOMAIN ss
      BY <1>1, <1>2, <1>6, Sizes DEF Types
    <3>2. Len(ss[at.session + 1].windows) >= 1 /\ 1 \in DOMAIN ss[at.session + 1].windows
      BY <3>1, Sizes DEF Types
    <3>3. Len(ss[at.session + 1].windows[1].panes) >= 1
      BY <3>1, <3>2, Sizes DEF Types
    <3>. QED  BY <1>1, <1>2, <1>6, <2>2, <3>2, <3>3, PlacesInNumbers DEF Types
  <2>4. \A p \in Places : Before(p)' => Before(p) \/ p = at
    BY <1>1, <1>2, <1>3, <1>6, <2>2 DEF Before, Place
  <2>. QED  BY <2>1, <2>2, <2>3, <2>4
<1>7. CASE ~ (at.pane < Len(ps)) /\ ~ (at.window < Len(ws)) /\ ~ (at.session < Len(ss))
  <2>1. pc' = "end" /\ at' = at
    BY <1>7 DEF Advance, Window, Session
  <2>2. \A p \in Places : Before(p) \/ p = at
    BY <1>1, <1>2, <1>3, <1>7 DEF Before, Place
  <2>. QED  BY <1>1, <2>1, <2>2 DEF Before
<1>. QED  BY <1>4, <1>5, <1>6, <1>7
----------------------------------------------------------------------------
(* The steps.                                                              *)

\* `at` is a place of its own coordinate.
LEMMA CoordinatesOfPlaces ==
  \A p \in Places : CoordinateOf(p) \in Coordinates
BY DEF Coordinates

\* remember_pane() with a new id: one pane each, and one place further.
LEMMA RememberStep ==
  ASSUME IInv, pc \in Building, NEW w, NEW id \in 1 .. panes', Remember(w, id),
         \A c \in DOMAIN remembered : remembered[c] # id,
         panes' \in Nat, panes' >= panes, created' \in 0 .. panes', snapshot' = snapshot
  PROVE  IInv'
<1> USE DEF IInv
<1>1. /\ Valid(snapshot) /\ at \in Places /\ snapshot \in Seq(RawSession) /\ at \in Place
      /\ panes \in Nat
  BY DEF InPlan, Types
<1>2. Places' = Places /\ \A p : CoordinateOf(p)' = CoordinateOf(p)
  BY DEF Places, CoordinateOf
<1>3. Valid(snapshot)' /\ Coordinates' = Coordinates
  BY <1>1, <1>2 DEF Coordinates, Valid, ValidWindows
<1>4. CASE w.index = Window.index
  <2>1. /\ remembered' = [c \in DOMAIN remembered \cup {Coordinate} |->
                            IF c = Coordinate THEN id ELSE remembered[c]]
        /\ Advance
    BY <1>4 DEF Remember, Identity
  <2>2. /\ pc' \in {"split", "window", "session", "end"}
        /\ at' \in Place /\ at' \in Places
        /\ pc' \in {"session", "window"} => at'.pane = 1
        /\ pc' = "session" => at'.window = 1
        /\ \A p \in Places : Before(p)' => Before(p) \/ p = at
        /\ pc' = "end" => \A p \in Places : Before(p) \/ p = at
    BY <1>1, <2>1, AdvanceStep
  <2>3. DOMAIN remembered' = DOMAIN remembered \cup {CoordinateOf(at)}
    BY <2>1 DEF Coordinate
  <2>4. Types'
    BY <1>1, <2>2 DEF Types, Building
  <2>5. IdsBelow' /\ OneEach'
    BY <1>1, <2>1 DEF IdsBelow, OneEach
  <2>6. CreatedIsNew' /\ InPlan'
    BY <1>1, <1>2, <1>3, <2>2 DEF CreatedIsNew, InPlan
  <2>7. NothingElse'
    BY <1>1, <1>3, <2>3, CoordinatesOfPlaces DEF NothingElse
  <2>8. SoFar'
    <3>1. \A p \in Places : Before(p) \/ p = at => CoordinateOf(p) \in DOMAIN remembered'
      <4>1. CASE pc = "end"
        BY <1>1, <2>3, <4>1 DEF SoFar
      <4>2. CASE pc # "end"
        BY <1>1, <2>3, <4>2 DEF SoFar
      <4>. QED  BY <4>1, <4>2
    <3>. QED  BY <1>2, <2>2, <3>1 DEF SoFar
  <2>. QED  BY <2>4, <2>5, <2>6, <2>7, <2>8
<1>5. CASE w.index # Window.index
  <2>1. pc' = "failed" /\ UNCHANGED <<at, remembered>>
    BY <1>5 DEF Remember
  <2>. QED  BY <1>1, <1>3, <2>1 DEF Types, IdsBelow, CreatedIsNew, OneEach, InPlan,
               NothingElse, SoFar, Building, Ended
<1>. QED  BY <1>4, <1>5

\* The steps that remember nothing and stay at the place they are at.
LEMMA StayStep ==
  ASSUME IInv, UNCHANGED <<snapshot, at, remembered>>,
         panes' \in Nat, panes' >= panes, created' \in 0 .. panes',
         \/ pc' = pc /\ created' = created
         \/ pc' \in {"failed", "refused"}
         \/ pc = "end" /\ pc' = "complete"
         \/ pc = "session" /\ pc' \in {"move", "respawn"} /\ panes < created'
         \/ pc = "move" /\ pc' = "respawn" /\ created' = created
         \/ pc = "respawn" /\ pc' = "read" /\ created' = created
         \/ pc = "load" /\ pc' = "session" /\ Valid(snapshot)
  PROVE  IInv'
<1> USE DEF IInv
<1>1. Places' = Places /\ \A p : /\ CoordinateOf(p)' = CoordinateOf(p)
                                /\ Before(p)' = Before(p)
  BY DEF Places, CoordinateOf, Before
<1>2. (Valid(snapshot)' <=> Valid(snapshot)) /\ Coordinates' = Coordinates
  BY <1>1 DEF Coordinates, Valid, ValidWindows
<1>3. Types'
  BY DEF Types, Building, Ended
<1>4. IdsBelow' /\ OneEach' /\ NothingElse'
  BY <1>2 DEF IdsBelow, OneEach, NothingElse, Types
<1>5. CreatedIsNew'
  BY DEF CreatedIsNew, IdsBelow, Types
<1>6. InPlan' /\ SoFar'
  <2>1. CASE pc = "load" /\ pc' = "session" /\ Valid(snapshot)
    <3>1. /\ snapshot \in Seq(RawSession) /\ at \in Place
          /\ at = [session |-> 1, window |-> 1, pane |-> 1]
      BY <2>1 DEF Types, SoFar
    <3>2. Len(snapshot) >= 1 /\ 1 \in DOMAIN snapshot
      BY <2>1, <3>1, Sizes
    <3>3. Len(snapshot[1].windows) >= 1 /\ 1 \in DOMAIN snapshot[1].windows
      BY <2>1, <3>1, <3>2, Sizes
    <3>4. Len(snapshot[1].windows[1].panes) >= 1
      BY <2>1, <3>1, <3>2, <3>3, Sizes
    <3>5. at \in Places
      BY <2>1, <3>1, <3>2, <3>3, <3>4, PlacesInNumbers
    <3>6. \A p \in Places : ~ Before(p)
      BY <3>1 DEF Places, Before
    <3>. QED  BY <1>1, <1>2, <2>1, <3>1, <3>5, <3>6 DEF InPlan, SoFar
  <2>2. CASE ~ (pc = "load" /\ pc' = "session")
    BY <1>1, <1>2, <2>2 DEF InPlan, SoFar, Building
  <2>. QED  BY <2>1, <2>2
<1>. QED  BY <1>3, <1>4, <1>5, <1>6

\* Every step of the restore and of anybody else keeps IInv.
LEMMA IInvStep == ASSUME IInv, [Next]_vars PROVE IInv'
<1>1. panes \in Nat /\ created \in 0 .. panes
  BY DEF IInv, Types
<1>2. CASE Load
  BY <1>1, <1>2, StayStep DEF Load
<1>3. CASE CreateSession
  BY <1>1, <1>3, StayStep DEF CreateSession
<1>4. CASE MoveFirstWindow \/ RespawnFirstPane \/ Complete
  BY <1>1, <1>4, StayStep DEF MoveFirstWindow, RespawnFirstPane, Complete
<1>5. CASE Refused \/ CommandFails
  BY <1>1, <1>5, StayStep DEF Refused, CommandFails
<1>6. CASE ClientSelects \/ PaneCloses \/ ClientOpensWindow \/ ClientMovesWindow
  <2>1. OnlyWindows /\ created' = created /\ (panes' = panes \/ panes' = panes + 1)
    BY <1>6 DEF ClientSelects, PaneCloses, ClientOpensWindow, ClientMovesWindow, OnlyWindows
  <2>. QED  BY <1>1, <2>1, StayStep DEF OnlyWindows
<1>7. CASE UNCHANGED vars
  BY <1>1, <1>7, StayStep DEF vars
<1>8. \A c \in DOMAIN remembered : remembered[c] # panes + 1
  BY <1>1 DEF IInv, IdsBelow
<1>9. CASE ReadFirstPane
  <2>1. PICK w \in windows : created \in PaneIds(w) /\ Remember(w, created)
    BY <1>9 DEF ReadFirstPane
  <2>2. /\ pc = "read" /\ UNCHANGED <<snapshot, panes, created>> /\ created # 0
        /\ \A c \in DOMAIN remembered : remembered[c] # created
    BY <1>9 DEF ReadFirstPane, IInv, CreatedIsNew
  <2>. QED  BY <1>1, <2>1, <2>2, RememberStep DEF Building
<1>10. CASE CreateSplit
  <2>1. /\ pc = "split" /\ panes' = panes + 1 /\ UNCHANGED <<snapshot, created>>
        /\ Remember(TheWindow(created), panes')
    BY <1>10 DEF CreateSplit
  <2>. QED  BY <1>1, <1>8, <2>1, RememberStep DEF Building
<1>11. CASE CreateWindow
  <2>1. /\ pc = "window" /\ panes' = panes + 1 /\ created' = panes' /\ snapshot' = snapshot
        /\ Remember(NewWindow(panes', Session.name, Window.index), panes')
    BY <1>11 DEF CreateWindow
  <2>. QED  BY <1>1, <1>8, <2>1, RememberStep DEF Building
<1>. QED  BY <1>2, <1>3, <1>4, <1>5, <1>6, <1>7, <1>9, <1>10, <1>11 DEF Next, Restore, Others

\* IInv is inductive and holds from the start.
LEMMA IInvHolds == Spec => []IInv
<1>1. Init => IInv
  BY SnapshotsAreRaw DEF Init, IInv, Types, IdsBelow, CreatedIsNew, OneEach, InPlan,
     NothingElse, SoFar, Place, Building
<1>. QED  BY <1>1, IInvStep, PTL DEF Spec

\* OnePaneEach: whatever clients do to panes and windows while create_topology
\* runs, remember_pane gives each recorded pane a new one of its own, and a
\* complete topology has one for each.
THEOREM OnePaneForEach == Spec => []OnePaneEach
<1>1. IInv => OnePaneEach
  BY DEF IInv, OneEach, NothingElse, SoFar, OnePaneEach, Coordinates
<1>. QED  BY <1>1, IInvHolds, PTL
----------------------------------------------------------------------------
(* A restore that is left alone: what is on the server so far.             *)

NewPane == [id : Nat, rows : Nat]
NewWindows == [id : Nat, session : STRING, index : Nat, active : Nat, panes : Seq(NewPane)]

\* A window that nobody touched is active at the pane it began with, the one
\* that is halved; `last` is the last pane created.
Shaped(w, last) ==
  LET n == Len(w.panes) IN
  /\ w \in NewWindows /\ n >= 1
  /\ w.id = w.panes[1].id /\ w.active = w.id
  /\ \A j \in 1 .. n : w.panes[j].id \in 1 .. last /\ (j # 1 => w.panes[j].id > w.id)
  /\ \E h \in Halvings(n) : h[n] = w.panes[1].rows

\* How many panes window k of session i has by now, and its index.
Here ==
  CASE pc \in {"move", "respawn", "read"} -> 1
    [] pc = "split" -> at.pane - 1
    [] pc \in {"end", "complete"} -> at.pane
    [] OTHER -> 0
PanesOf(i, k) == Len(snapshot[i].windows[k].panes)
Filled(i, k) ==
  IF i < at.session \/ (i = at.session /\ k < at.window) THEN PanesOf(i, k)
  ELSE IF i = at.session /\ k = at.window THEN Here
  ELSE 0
IndexOf(i, k) == IF pc = "move" /\ i = at.session THEN 0 ELSE snapshot[i].windows[k].index

\* w is what there is of window k of session i.
Mirrors(w, i, k) ==
  w.session = snapshot[i].name /\ w.index = IndexOf(i, k) /\ Len(w.panes) = Filled(i, k)
Planned(i, k) == i \in DOMAIN snapshot /\ k \in DOMAIN snapshot[i].windows

\* The server has the windows that are begun, each once, and no others.
Mirrored ==
  /\ \A w \in windows : Shaped(w, panes)
  /\ \A w \in windows : \E i, k \in 1 .. Limit :
       Planned(i, k) /\ Filled(i, k) # 0 /\ Mirrors(w, i, k)
  /\ \A i, k \in 1 .. Limit : Planned(i, k) /\ Filled(i, k) # 0 =>
       \E w \in windows : Mirrors(w, i, k)
  /\ \A v, w \in windows :
       v.id = w.id \/ (v.session = w.session /\ v.index = w.index) => v = w

\* The window at hand, and where the plan ends.
AtHand ==
  /\ pc \in {"move", "respawn", "read", "split"} =>
       \E w \in windows : w.id = created /\ Mirrors(w, at.session, at.window)
  /\ pc \in {"move", "respawn", "read"} =>
       /\ at.window = 1 /\ at.pane = 1
       /\ \A w \in windows : created \in PaneIds(w) => w.id = created
  /\ pc = "move" => Window.index # 0
  /\ pc = "split" => at.pane >= 2
  /\ pc = "window" => at.window >= 2
  /\ pc \in {"end", "complete"} =>
       /\ at.session = Len(snapshot) /\ at.window = Len(Session.windows)
       /\ at.pane = Len(Window.panes)

\* Remembered panes are where they were recorded.
InPlace ==
  \A c \in DOMAIN remembered : \E w \in windows :
    remembered[c] \in PaneIds(w) /\ w.session = c.session /\ w.index = c.window

GivenUp == \E w \in Recorded : ~Fits(w.panes)

OnTheWay == Valid(snapshot) /\ at \in Places /\ Mirrored /\ AtHand /\ InPlace

\* While nobody interferes, the restore is on its way, or it met a window that
\* does not fit.
LeftAlone ==
  /\ disturbed \in Nat
  /\ disturbed = 0 =>
       /\ pc = "load" => windows = {} /\ DOMAIN remembered = {}
       /\ pc \in Building \cup {"complete"} => OnTheWay
       /\ pc = "failed" => GivenUp
----------------------------------------------------------------------------
(* One window.                                                             *)

\* One pane more in a window has its first pane halved once more.
LEMMA RowsHalve ==
  ASSUME NEW n \in Nat \ {0}, NEW h \in Halvings(n)
  PROVE  \E g \in Halvings(n + 1) : g[n + 1] = h[n] \div 2
<1> DEFINE g == [i \in 1 .. n + 1 |-> IF i <= n THEN h[i] ELSE h[n] \div 2]
<1>1. h \in [1 .. n -> 0 .. Rows] /\ h[1] = Rows /\ \A i \in 2 .. n : h[i] = h[i - 1] \div 2
  BY DEF Halvings
<1>2. h[n] \in 0 .. Rows /\ h[n] \div 2 \in 0 .. Rows
  BY <1>1, RowsAreCounted
<1>3. g \in [1 .. n + 1 -> 0 .. Rows] /\ g[1] = Rows /\ g[n + 1] = h[n] \div 2
  BY <1>1, <1>2
<1>4. \A i \in 2 .. n + 1 : g[i] = g[i - 1] \div 2
  BY <1>1
<1>5. g \in Halvings(n + 1)
  BY <1>3, <1>4 DEF Halvings
<1> QED
  BY <1>3, <1>5

\* The only pane of a new window has all its rows.
LEMMA FirstRows == \E h \in Halvings(1) : h[1] = Rows
<1> DEFINE h == [i \in 1 .. 1 |-> Rows]
<1>1. h \in Halvings(1) /\ h[1] = Rows
  BY RowsAreCounted DEF Halvings
<1> QED
  BY <1>1

\* What new-session and new-window create.
LEMMA NewWindowIsShaped ==
  ASSUME NEW id \in Nat \ {0}, NEW name \in STRING, NEW i \in Nat,
         NEW w, w = NewWindow(id, name, i)
  PROVE  /\ Shaped(w, id) /\ w.id = id /\ w.session = name /\ w.index = i
         /\ Len(w.panes) = 1 /\ PaneIds(w) = {id}
<1> DEFINE p == [id |-> id, rows |-> Rows]
<1>1. /\ w.id = id /\ w.session = name /\ w.index = i /\ w.active = id /\ w.panes = <<p>>
      /\ w = [id |-> id, session |-> name, index |-> i, active |-> id, panes |-> <<p>>]
  BY DEF NewWindow
<1>2. /\ p \in NewPane /\ <<p>> \in Seq(NewPane) /\ Len(<<p>>) = 1 /\ <<p>>[1] = p
      /\ DOMAIN <<p>> = 1 .. 1
  BY RowsAreCounted DEF NewPane
<1>3. w \in NewWindows
  BY <1>1, <1>2 DEF NewWindows
<1>4. \E h \in Halvings(1) : h[1] = p.rows
  BY FirstRows
<1>5. \A j \in 1 .. 1 : <<p>>[j].id \in 1 .. id /\ (j # 1 => <<p>>[j].id > id)
  BY <1>2
<1>6. Shaped(w, id)
  BY <1>1, <1>2, <1>3, <1>4, <1>5 DEF Shaped
<1>7. PaneIds(w) = {id}
  BY <1>1, <1>2 DEF PaneIds
<1> QED
  BY <1>1, <1>2, <1>6, <1>7

\* Panes created elsewhere do not change a window.
LEMMA StaysShaped ==
  ASSUME NEW w, NEW m \in Nat, NEW n \in Nat, m <= n, Shaped(w, m)
  PROVE  Shaped(w, n)
  BY DEF Shaped

\* The window of a pane is found by the pane it began with.
LEMMA FirstPaneIsActive ==
  ASSUME NEW w, NEW last \in Nat, Shaped(w, last)
  PROVE  /\ ActiveAt(w) = 1 /\ w.panes[1].rows \in Nat
         /\ w.panes \in Seq(NewPane) /\ Len(w.panes) \in Nat \ {0}
         /\ DOMAIN w.panes = 1 .. Len(w.panes)
         /\ w.id \in PaneIds(w) /\ \A p \in PaneIds(w) : p \in 1 .. last
<1>1. /\ w \in NewWindows /\ w.panes \in Seq(NewPane) /\ Len(w.panes) \in Nat \ {0}
      /\ DOMAIN w.panes = 1 .. Len(w.panes)
  BY DEF Shaped, NewWindows
<1>2. w.panes[1] \in NewPane
  BY <1>1
<1>3. \A j \in DOMAIN w.panes : w.panes[j].id = w.active <=> j = 1
  BY <1>1, <1>2 DEF Shaped, NewPane
<1>4. 1 \in DOMAIN w.panes
  BY <1>1
<1>5. ActiveAt(w) = 1
  BY <1>3, <1>4 DEF ActiveAt
<1> QED
  BY <1>1, <1>2, <1>4, <1>5 DEF Shaped, PaneIds, NewPane

\* A window with other panes.
LEMMA WithPanes ==
  ASSUME NEW w \in NewWindows, NEW s \in Seq(NewPane), NEW v, v = [w EXCEPT !.panes = s]
  PROVE  /\ v \in NewWindows /\ v.panes = s
         /\ v.id = w.id /\ v.session = w.session /\ v.index = w.index /\ v.active = w.active
  BY DEF NewWindows

\* move-window gives a window another index and nothing else.
LEMMA WithIndex ==
  ASSUME NEW w, NEW last, Shaped(w, last), NEW i \in Nat, NEW v, v = [w EXCEPT !.index = i]
  PROVE  /\ Shaped(v, last) /\ v.id = w.id /\ v.session = w.session /\ v.index = i
         /\ v.panes = w.panes /\ PaneIds(v) = PaneIds(w)
<1>1. /\ v \in NewWindows /\ v.id = w.id /\ v.session = w.session /\ v.index = i
      /\ v.panes = w.panes /\ v.active = w.active
  BY DEF Shaped, NewWindows
<1>2. Shaped(v, last) /\ PaneIds(v) = PaneIds(w)
  BY <1>1 DEF Shaped, PaneIds
<1> QED
  BY <1>1, <1>2

\* split-window -d: one pane more, right behind the first, with a new id.
LEMMA SplitStaysShaped ==
  ASSUME NEW w, NEW last \in Nat, Shaped(w, last), HasRoom(w),
         NEW v, v = AfterSplit(w, last + 1)
  PROVE  /\ Shaped(v, last + 1) /\ v.id = w.id /\ v.session = w.session /\ v.index = w.index
         /\ Len(v.panes) = Len(w.panes) + 1
         /\ PaneIds(w) \subseteq PaneIds(v) /\ last + 1 \in PaneIds(v)
<1> DEFINE n == Len(w.panes)
           rows == w.panes[1].rows
           two == <<[id |-> w.active, rows |-> rows \div 2],
                    [id |-> last + 1, rows |-> rows - 1 - rows \div 2]>>
           rest == SubSeq(w.panes, 2, n)
           s == two \o rest
<1>1. /\ ActiveAt(w) = 1 /\ rows \in Nat /\ w.panes \in Seq(NewPane) /\ n \in Nat \ {0}
      /\ DOMAIN w.panes = 1 .. n /\ w \in NewWindows /\ w.id \in Nat /\ w.active = w.id
  BY FirstPaneIsActive DEF Shaped, NewWindows
<1>2. rows >= 3
  BY <1>1 DEF HasRoom
<1>3. /\ two \in Seq(NewPane) /\ Len(two) = 2
      /\ two[1].id = w.id /\ two[1].rows = rows \div 2 /\ two[2].id = last + 1
  BY <1>1, <1>2 DEF NewPane
<1>4. /\ rest \in Seq(NewPane) /\ Len(rest) = n - 1
      /\ \A j \in 1 .. n - 1 : rest[j] = w.panes[j + 1]
  <2>1. \A j \in 2 .. n : w.panes[j] \in NewPane
    BY <1>1
  <2>2. /\ SubSeq(w.panes, 2, n) \in Seq(NewPane)
        /\ Len(SubSeq(w.panes, 2, n)) = IF 2 <= n THEN n - 2 + 1 ELSE 0
        /\ \A j \in 1 .. n - 2 + 1 : SubSeq(w.panes, 2, n)[j] = w.panes[2 + j - 1]
    BY <1>1, <2>1, SubSeqProperties
  <2> QED
    BY <1>1, <2>2
<1>5. v = [w EXCEPT !.panes = s]
  <2>1. SubSeq(w.panes, 1, 0) = <<>>
    BY SubSeqEmpty
  <2>2. v = [w EXCEPT !.panes = SubSeq(w.panes, 1, 0) \o two \o SubSeq(w.panes, 2, n)]
    BY <1>1 DEF AfterSplit, NewWindows
  <2>3. <<>> \o two = two
    BY <1>3, ConcatEmptySeq
  <2> QED
    BY <2>1, <2>2, <2>3
<1> HIDE DEF two, rest
<1>6. /\ s \in Seq(NewPane) /\ Len(s) = n + 1 /\ DOMAIN s = 1 .. n + 1
      /\ \A j \in 1 .. n + 1 : s[j] = IF j <= 2 THEN two[j] ELSE w.panes[j - 1]
  <2>1. /\ two \o rest \in Seq(NewPane) /\ Len(two \o rest) = Len(two) + Len(rest)
        /\ \A j \in 1 .. Len(two) + Len(rest) :
             (two \o rest)[j] = IF j <= Len(two) THEN two[j] ELSE rest[j - Len(two)]
    BY <1>3, <1>4, ConcatProperties
  <2>2. Len(two) = 2 /\ Len(two) + Len(rest) = n + 1
    BY <1>1, <1>3, <1>4
  <2>3. ASSUME NEW j \in 1 .. n + 1, j > 2 PROVE rest[j - 2] = w.panes[j - 1]
    <3>1. j - 2 \in 1 .. n - 1 /\ (j - 2) + 1 = j - 1
      BY <1>1, <2>3
    <3> QED
      BY <1>4, <3>1
  <2> QED
    BY <2>1, <2>2, <2>3
<1> HIDE DEF s
<1>7. /\ v \in NewWindows /\ v.panes = s
      /\ v.id = w.id /\ v.session = w.session /\ v.index = w.index /\ v.active = w.active
  BY <1>1, <1>5, <1>6, WithPanes
<1>8. /\ v.panes[1] = two[1] /\ v.panes[2] = two[2] /\ DOMAIN v.panes = 1 .. n + 1
      /\ \A j \in 2 .. n : v.panes[j + 1] = w.panes[j]
  <2>1. \A j \in 2 .. n : j + 1 \in 1 .. n + 1 /\ ~(j + 1 <= 2) /\ (j + 1) - 1 = j
    BY <1>1
  <2>2. 1 \in 1 .. n + 1 /\ 2 \in 1 .. n + 1
    BY <1>1
  <2>3. s[1] = two[1] /\ s[2] = two[2]
    BY <1>6, <2>2
  <2>4. \A j \in 2 .. n : s[j + 1] = w.panes[j]
    BY <1>6, <2>1
  <2> QED
    BY <1>6, <1>7, <2>3, <2>4
<1>9. Shaped(v, last + 1)
  <2>1. v.id = v.panes[1].id /\ v.active = v.id
    BY <1>1, <1>3, <1>7, <1>8
  <2>2. \A j \in 1 .. n + 1 : v.panes[j].id \in 1 .. last + 1 /\ (j # 1 => v.panes[j].id > v.id)
    <3>1. w.id \in 1 .. last
      BY <1>1 DEF Shaped
    <3>2. \A j \in 2 .. n : w.panes[j].id \in 1 .. last /\ w.panes[j].id > w.id
      BY <1>1 DEF Shaped
    <3>3. ASSUME NEW j \in 1 .. n + 1
          PROVE  v.panes[j].id \in 1 .. last + 1 /\ (j # 1 => v.panes[j].id > v.id)
      <4>1. CASE j <= 2
        BY <1>3, <1>7, <1>8, <3>1, <4>1
      <4>2. CASE j > 2
        <5>1. j - 1 \in 2 .. n /\ (j - 1) + 1 = j
          BY <1>1, <4>2
        <5>2. v.panes[j] = w.panes[j - 1]
          BY <1>8, <5>1
        <5> QED
          BY <1>7, <3>1, <3>2, <5>1, <5>2
      <4> QED
        BY <1>1, <4>1, <4>2
    <3> QED
      BY <3>3
  <2>3. \E h \in Halvings(n + 1) : h[n + 1] = v.panes[1].rows
    <3>1. PICK h \in Halvings(n) : h[n] = rows
      BY DEF Shaped
    <3>2. \E g \in Halvings(n + 1) : g[n + 1] = h[n] \div 2
      BY <1>1, RowsHalve
    <3> QED
      BY <1>3, <1>8, <3>1, <3>2
  <2>4. Len(v.panes) = n + 1 /\ n + 1 >= 1
    BY <1>1, <1>6, <1>7
  <2> QED
    BY <1>7, <2>1, <2>2, <2>3, <2>4 DEF Shaped
<1>10. PaneIds(w) \subseteq PaneIds(v) /\ last + 1 \in PaneIds(v)
  <2>1. /\ 1 \in DOMAIN v.panes /\ 2 \in DOMAIN v.panes
        /\ v.panes[1].id = w.panes[1].id /\ v.panes[2].id = last + 1
    BY <1>1, <1>3, <1>8 DEF Shaped
  <2>2. ASSUME NEW j \in 1 .. n PROVE \E k \in DOMAIN v.panes : v.panes[k].id = w.panes[j].id
    <3>1. CASE j = 1
      BY <2>1, <3>1
    <3>2. CASE j # 1
      <4>1. j \in 2 .. n /\ j + 1 \in DOMAIN v.panes
        BY <1>1, <1>8, <3>2
      <4> QED
        BY <1>8, <4>1
    <3> QED
      BY <3>1, <3>2
  <2> QED
    BY <1>1, <2>1, <2>2 DEF PaneIds
<1> QED
  BY <1>6, <1>7, <1>9, <1>10

\* A window without room holds as many panes as fit.
LEMMA NoRoomNoFit ==
  ASSUME NEW w, NEW last \in Nat, Shaped(w, last), ~HasRoom(w),
         NEW n \in Nat, Len(w.panes) < n
  PROVE  ~Fits(n)
<1>1. ActiveAt(w) = 1 /\ w.panes[1].rows \in Nat /\ Len(w.panes) \in 1 .. n - 1
  BY FirstPaneIsActive
<1>2. w.panes[1].rows < 3
  BY <1>1 DEF HasRoom
<1>3. PICK h \in Halvings(Len(w.panes)) : h[Len(w.panes)] = w.panes[1].rows
  BY DEF Shaped
<1> QED
  BY <1>1, <1>2, <1>3 DEF Fits
----------------------------------------------------------------------------
(* The plan, window by window.                                             *)

\* Each window of the plan is known by its session and its index.
LEMMA PlannedOnce ==
  ASSUME snapshot \in Seq(RawSession), Valid(snapshot),
         NEW i, NEW k, NEW j, NEW l, Planned(i, k), Planned(j, l),
         snapshot[i].name = snapshot[j].name
  PROVE  i = j /\ (snapshot[i].windows[k].index = snapshot[j].windows[l].index => k = l)
<1>1. i = j
  BY DEF Valid, Distinct, Planned
<1>2. ASSUME snapshot[i].windows[k].index = snapshot[i].windows[l].index
      PROVE  k = l
  BY <1>1, <1>2 DEF Valid, ValidWindows, Distinct, Planned
<1> QED
  BY <1>1, <1>2

\* The window at hand is planned, and the plan is a plan of numbers.
LEMMA AtIsPlanned ==
  ASSUME Types, Valid(snapshot), at \in Places
  PROVE  /\ Planned(at.session, at.window) /\ at.session \in 1 .. Limit /\ at.window \in 1 .. Limit
         /\ at.pane \in 1 .. PanesOf(at.session, at.window)
         /\ at.session \in Nat \ {0} /\ at.window \in Nat \ {0} /\ at.pane \in Nat \ {0}
         /\ Window.index \in Nat /\ Session.name \in STRING
         /\ \A i, k : Planned(i, k) =>
              /\ i \in 1 .. Len(snapshot) /\ k \in 1 .. Len(snapshot[i].windows)
              /\ i \in 1 .. Limit /\ k \in 1 .. Limit /\ i \in Nat /\ k \in Nat
              /\ PanesOf(i, k) \in Nat \ {0}
<1>1. ASSUME NEW i, NEW k, Planned(i, k)
      PROVE  /\ i \in 1 .. Len(snapshot) /\ k \in 1 .. Len(snapshot[i].windows)
             /\ i \in 1 .. Limit /\ k \in 1 .. Limit /\ i \in Nat /\ k \in Nat
             /\ PanesOf(i, k) \in Nat \ {0}
             /\ snapshot[i].windows[k].index \in Nat /\ snapshot[i].name \in STRING
  <2>1. /\ Len(snapshot) \in 1 .. Limit /\ i \in 1 .. Len(snapshot)
        /\ Len(snapshot[i].windows) \in 1 .. Limit /\ k \in 1 .. Len(snapshot[i].windows)
        /\ PanesOf(i, k) \in 1 .. Limit
    BY <1>1, Sizes DEF Planned, Types, PanesOf
  <2>2. snapshot[i] \in RawSession
    BY <2>1 DEF Types
  <2>3. snapshot[i].windows \in Seq(RawWindow) /\ snapshot[i].name \in STRING
    BY <2>2 DEF RawSession
  <2>4. snapshot[i].windows[k] \in RawWindow
    BY <2>1, <2>3
  <2> QED
    BY <2>1, <2>3, <2>4, LimitIsPositive DEF RawWindow
<1>2. Planned(at.session, at.window) /\ at.pane \in DOMAIN Window.panes
  BY DEF Places, Planned, Window, Session
<1>3. at.pane \in 1 .. PanesOf(at.session, at.window)
  BY <1>2, Sizes DEF Planned, Window, Session, PanesOf, Types
<1> QED
  BY <1>1, <1>2, <1>3 DEF Types, Place, Window, Session
\* Advance: the window at hand has at.pane panes, the others what they had.
LEMMA AdvanceFills ==
  ASSUME Types, Valid(snapshot), at \in Places, Advance, snapshot' = snapshot,
         pc \in {"read", "split", "window"}
  PROVE  /\ \A i, k : Planned(i, k) =>
              /\ Filled(i, k)' = IF i = at.session /\ k = at.window THEN at.pane ELSE Filled(i, k)
              /\ IndexOf(i, k)' = snapshot[i].windows[k].index
              /\ IndexOf(i, k) = snapshot[i].windows[k].index
         /\ pc' \in {"split", "window", "session", "end"}
         /\ pc' = "split" =>
              /\ at'.session = at.session /\ at'.window = at.window /\ at'.pane >= 2
         /\ pc' = "window" => at'.window >= 2
         /\ pc' = "end" =>
              /\ at' = at /\ at.session = Len(snapshot) /\ at.window = Len(Session.windows)
              /\ at.pane = Len(Window.panes)
<1>1. /\ Planned(at.session, at.window) /\ at.pane \in 1 .. PanesOf(at.session, at.window)
      /\ at.session \in Nat \ {0} /\ at.window \in Nat \ {0} /\ at.pane \in Nat \ {0}
      /\ \A i, k : Planned(i, k) =>
           /\ i \in 1 .. Len(snapshot) /\ k \in 1 .. Len(snapshot[i].windows)
           /\ i \in Nat /\ k \in Nat /\ PanesOf(i, k) \in Nat \ {0}
  BY AtIsPlanned
<1>2. /\ Len(Window.panes) = PanesOf(at.session, at.window)
      /\ Len(Window.panes) \in Nat /\ at.pane <= Len(Window.panes)
      /\ Len(Session.windows) = Len(snapshot[at.session].windows)
      /\ Len(Session.windows) \in Nat /\ at.window <= Len(Session.windows)
      /\ Len(snapshot) \in Nat /\ at.session <= Len(snapshot)
  BY <1>1, Sizes, LimitIsPositive DEF Types, Window, Session, PanesOf, Planned
<1>3. \A i, k : PanesOf(i, k)' = PanesOf(i, k)
  BY DEF PanesOf
<1>4. \A i, k : Planned(i, k) =>
        /\ IndexOf(i, k) = snapshot[i].windows[k].index
        /\ pc' # "move" => IndexOf(i, k)' = snapshot[i].windows[k].index
  BY DEF IndexOf
<1>5. at = [session |-> at.session, window |-> at.window, pane |-> at.pane]
  BY DEF Types, Place
<1>6. CASE at.pane < Len(Window.panes)
  <2>1. /\ pc' = "split" /\ at'.session = at.session /\ at'.window = at.window
        /\ at'.pane = at.pane + 1
    BY <1>5, <1>6 DEF Advance
  <2>2. Here' = at.pane
    BY <1>1, <2>1 DEF Here
  <2> QED
    BY <1>1, <1>3, <1>4, <2>1, <2>2 DEF Filled
<1>7. CASE ~(at.pane < Len(Window.panes)) /\ at.window < Len(Session.windows)
  <2>1. /\ pc' = "window" /\ at'.session = at.session /\ at'.window = at.window + 1
        /\ at'.pane = 1
    BY <1>5, <1>7 DEF Advance
  <2>2. Here' = 0
    BY <2>1 DEF Here
  <2> QED
    BY <1>1, <1>2, <1>3, <1>4, <1>7, <2>1, <2>2 DEF Filled
<1>8. CASE /\ ~(at.pane < Len(Window.panes)) /\ ~(at.window < Len(Session.windows))
           /\ at.session < Len(snapshot)
  <2>1. pc' = "session" /\ at'.session = at.session + 1 /\ at'.window = 1 /\ at'.pane = 1
    BY <1>5, <1>8 DEF Advance
  <2>2. Here' = 0
    BY <2>1 DEF Here
  <2>3. \A k : Planned(at.session, k) => k <= at.window
    BY <1>1, <1>2, <1>8
  <2> QED
    BY <1>1, <1>2, <1>3, <1>4, <1>8, <2>1, <2>2, <2>3 DEF Filled
<1>9. CASE /\ ~(at.pane < Len(Window.panes)) /\ ~(at.window < Len(Session.windows))
           /\ ~(at.session < Len(snapshot))
  <2>1. pc' = "end" /\ at' = at
    BY <1>9 DEF Advance
  <2>2. Here' = at.pane
    BY <2>1 DEF Here
  <2> QED
    BY <1>1, <1>2, <1>3, <1>4, <1>9, <2>1, <2>2 DEF Filled
<1> QED
  BY <1>2, <1>6, <1>7, <1>8, <1>9

\* A command that fills the window at hand up to `at`: v is that window then,
\* id its new pane, and the other windows are as they were.
LEMMA FillStep ==
  ASSUME IInv, OnTheWay, pc \in {"read", "split", "window"}, snapshot' = snapshot,
         panes' \in Nat, panes <= panes',
         NEW v \in windows', NEW id \in PaneIds(v), Remember(v, id),
         created' = v.id, Shaped(v, panes'), Len(v.panes) = at.pane,
         v.session = Session.name, v.index = Window.index,
         \A w \in windows' \ {v} :
           w \in windows /\ w.id # v.id /\ ~(w.session = v.session /\ w.index = v.index),
         \A w \in windows \ windows' :
           w.session = v.session /\ w.index = v.index /\ PaneIds(w) \subseteq PaneIds(v)
  PROVE  pc' \in Building /\ OnTheWay'
<1>1. /\ Types /\ Valid(snapshot) /\ at \in Places /\ snapshot \in Seq(RawSession)
      /\ panes \in Nat
  BY DEF IInv, Types, OnTheWay
<1>2. /\ remembered' = [c \in DOMAIN remembered \cup {Coordinate} |->
                          IF c = Coordinate THEN id ELSE remembered[c]]
      /\ Advance
  BY DEF Remember, Identity
<1>3. /\ \A i, k : Planned(i, k) =>
           /\ Filled(i, k)' = IF i = at.session /\ k = at.window THEN at.pane ELSE Filled(i, k)
           /\ IndexOf(i, k)' = snapshot[i].windows[k].index
           /\ IndexOf(i, k) = snapshot[i].windows[k].index
      /\ pc' \in {"split", "window", "session", "end"}
      /\ pc' = "split" => at'.session = at.session /\ at'.window = at.window /\ at'.pane >= 2
      /\ pc' = "window" => at'.window >= 2
      /\ pc' = "end" =>
           /\ at' = at /\ at.session = Len(snapshot) /\ at.window = Len(Session.windows)
           /\ at.pane = Len(Window.panes)
  BY <1>1, <1>2, AdvanceFills
<1>4. /\ Planned(at.session, at.window) /\ at.session \in 1 .. Limit /\ at.window \in 1 .. Limit
      /\ at.pane \in Nat \ {0} /\ at.session \in Nat /\ at.window \in Nat
  BY <1>1, AtIsPlanned
<1>5. Valid(snapshot)' /\ (\A i, k : Planned(i, k)' <=> Planned(i, k)) /\ Places' = Places
  BY <1>1 DEF Planned, Places, Valid, ValidWindows
<1>6. at' \in Places
  BY <1>1, <1>2, AdvanceStep
<1>7. /\ v.session = snapshot[at.session].name
      /\ v.index = snapshot[at.session].windows[at.window].index
  BY DEF Window, Session
<1>8. \A w \in windows' : Shaped(w, panes)'
  BY <1>1, StaysShaped DEF OnTheWay, Mirrored, Shaped
<1>9. \A i, k : i = at.session /\ k = at.window => Filled(i, k)' # 0 /\ Mirrors(v, i, k)'
  BY <1>3, <1>4, <1>7 DEF Mirrors
<1>10. \A w : \A i, k : /\ Planned(i, k) /\ ~(i = at.session /\ k = at.window)
                       => /\ Filled(i, k)' = Filled(i, k)
                          /\ Mirrors(w, i, k)' <=> Mirrors(w, i, k)
  BY <1>3 DEF Mirrors
<1>11. \A w : Mirrors(w, at.session, at.window) => w.session = v.session /\ w.index = v.index
  BY <1>3, <1>4, <1>7 DEF Mirrors
<1>12. ASSUME NEW w \in windows'
       PROVE  \E i, k \in 1 .. Limit :
                Planned(i, k)' /\ Filled(i, k)' # 0 /\ Mirrors(w, i, k)'
  <2>1. CASE w = v
    BY <1>4, <1>5, <1>9, <2>1
  <2>2. CASE w # v
    <3>1. w \in windows /\ ~(w.session = v.session /\ w.index = v.index)
      BY <2>2
    <3>2. PICK i \in 1 .. Limit, k \in 1 .. Limit :
            Planned(i, k) /\ Filled(i, k) # 0 /\ Mirrors(w, i, k)
      BY <3>1 DEF OnTheWay, Mirrored
    <3> QED
      BY <1>5, <1>10, <1>11, <3>1, <3>2
  <2> QED
    BY <2>1, <2>2
<1>13. ASSUME NEW i \in 1 .. Limit, NEW k \in 1 .. Limit, Planned(i, k), Filled(i, k)' # 0
       PROVE  \E w \in windows' : Mirrors(w, i, k)'
  <2>1. CASE i = at.session /\ k = at.window
    BY <1>9, <2>1
  <2>2. CASE ~(i = at.session /\ k = at.window)
    <3>1. PICK w \in windows : Mirrors(w, i, k)
      BY <1>10, <1>13, <2>2 DEF OnTheWay, Mirrored
    <3>2. w.session = snapshot[i].name /\ w.index = snapshot[i].windows[k].index
      BY <1>3, <1>13, <3>1 DEF Mirrors
    <3>3. ~(w.session = v.session /\ w.index = v.index)
      BY <1>1, <1>4, <1>7, <1>13, <2>2, <3>2, PlannedOnce
    <3> QED
      BY <1>10, <1>13, <2>2, <3>1, <3>3
  <2> QED
    BY <2>1, <2>2
<1>14. \A u, w \in windows' :
         u.id = w.id \/ (u.session = w.session /\ u.index = w.index) => u = w
  BY DEF OnTheWay, Mirrored
<1>15. Mirrored'
  BY <1>5, <1>8, <1>12, <1>13, <1>14 DEF Mirrored
<1>16. AtHand'
  BY <1>3, <1>9 DEF AtHand, Session, Window
<1>17. InPlace'
  <2>1. ASSUME NEW c \in DOMAIN remembered'
        PROVE  \E w \in windows' :
                 remembered'[c] \in PaneIds(w) /\ w.session = c.session /\ w.index = c.window
    <3>1. CASE c = Coordinate
      BY <1>2, <1>7, <3>1 DEF Coordinate, CoordinateOf
    <3>2. CASE c # Coordinate
      BY <1>2, <2>1, <3>2 DEF OnTheWay, InPlace
    <3> QED
      BY <3>1, <3>2
  <2> QED
    BY <2>1 DEF InPlace, PaneIds
<1> QED
  BY <1>3, <1>5, <1>6, <1>15, <1>16, <1>17 DEF OnTheWay, Building

\* The next pane is new to every window.
LEMMA OldPanes ==
  ASSUME panes \in Nat, Mirrored, NEW w \in windows
  PROVE  w.id # panes + 1 /\ panes + 1 \notin PaneIds(w)
<1>1. Shaped(w, panes)
  BY DEF Mirrored
<1>2. w.id \in PaneIds(w) /\ \A p \in PaneIds(w) : p \in 1 .. panes
  BY <1>1, FirstPaneIsActive
<1> QED
  BY <1>2

\* The window that is filled, as the commands name it.
LEMMA WindowAtHand ==
  ASSUME IInv, OnTheWay, pc \in {"move", "respawn", "read", "split"},
         NEW w, w = TheWindow(created)
  PROVE  /\ w \in windows /\ w.id = created /\ created \in Ids /\ Shaped(w, panes)
         /\ w.session = Session.name /\ Len(w.panes) = Here
         /\ w.index = IF pc = "move" THEN 0 ELSE Window.index
<1>1. PICK u \in windows : u.id = created /\ Mirrors(u, at.session, at.window)
  BY DEF OnTheWay, AtHand
<1>2. \A t \in windows : t.id = created => t = u
  BY <1>1 DEF OnTheWay, Mirrored
<1>3. w = u
  BY <1>1, <1>2 DEF TheWindow
<1>4. at.session \in Nat /\ at.window \in Nat
  BY AtIsPlanned DEF IInv, OnTheWay
<1>5. Filled(at.session, at.window) = Here
  BY <1>4 DEF Filled
<1> QED
  BY <1>1, <1>3, <1>5 DEF OnTheWay, Mirrored, Ids, Mirrors, IndexOf, Session, Window

\* A session is empty before its new-session, then has the window at hand.
LEMMA FirstOfItsSession ==
  ASSUME IInv, OnTheWay, pc \in {"session", "move", "respawn"},
         NEW w \in windows, w.session = Session.name
  PROVE  pc # "session" /\ w.id = created
<1>1. PICK i \in 1 .. Limit, k \in 1 .. Limit :
        Planned(i, k) /\ Filled(i, k) # 0 /\ Mirrors(w, i, k)
  BY DEF OnTheWay, Mirrored
<1>2. /\ Planned(at.session, at.window) /\ at.session \in Nat /\ k \in Nat /\ k >= 1
      /\ at.window = 1 /\ snapshot \in Seq(RawSession) /\ Valid(snapshot)
  BY AtIsPlanned DEF IInv, InPlan, OnTheWay, AtHand, Building, Types
<1>3. i = at.session
  <2>1. snapshot[i].name = snapshot[at.session].name
    BY <1>1 DEF Mirrors, Session
  <2> QED
    BY <1>1, <1>2, <2>1, PlannedOnce
<1>4. k = at.window /\ Here # 0
  BY <1>1, <1>2, <1>3 DEF Filled
<1>5. pc # "session"
  BY <1>4 DEF Here
<1>6. PICK u \in windows : u.id = created /\ Mirrors(u, at.session, at.window)
  BY <1>5 DEF OnTheWay, AtHand
<1>7. u = w
  BY <1>1, <1>3, <1>4, <1>6 DEF OnTheWay, Mirrored, Mirrors
<1> QED
  BY <1>5, <1>6, <1>7

\* A command for the first pane of a session: v is its window then, the only
\* one of the session, and the windows of the other sessions are as they were.
LEMMA FirstWindowStep ==
  ASSUME IInv, OnTheWay, pc \in {"session", "move", "respawn"},
         pc' \in {"move", "respawn", "read"}, UNCHANGED <<snapshot, at, remembered>>,
         panes' \in Nat, panes <= panes',
         NEW v \in windows', created' = v.id, Shaped(v, panes'), Len(v.panes) = 1,
         v.session = Session.name,
         v.index = IF pc' = "move" THEN 0 ELSE Window.index,
         pc' = "move" => Window.index # 0,
         \A w \in windows' \ {v} :
           w \in windows /\ w.id # v.id /\ w.session # Session.name /\ v.id \notin PaneIds(w),
         \A w \in windows \ windows' :
           /\ w.session = Session.name
           /\ \A c \in DOMAIN remembered : remembered[c] \notin PaneIds(w)
  PROVE  OnTheWay'
<1>1. /\ Valid(snapshot) /\ at \in Places /\ snapshot \in Seq(RawSession)
      /\ at.window = 1 /\ at.pane = 1 /\ panes \in Nat
  BY DEF IInv, Types, InPlan, OnTheWay, AtHand, Building
<1>2. /\ Planned(at.session, at.window) /\ at.session \in 1 .. Limit /\ at.window \in 1 .. Limit
      /\ at.session \in Nat /\ \A i, k : Planned(i, k) => i \in Nat /\ k \in Nat /\ k >= 1
  BY <1>1, AtIsPlanned DEF IInv
<1>3. Valid(snapshot)' /\ (\A i, k : Planned(i, k)' <=> Planned(i, k)) /\ Places' = Places
  BY <1>1 DEF Planned, Places, Valid, ValidWindows
<1>4. Here' = 1
  BY DEF Here
<1>5. \A i, k : Planned(i, k) /\ i # at.session =>
        /\ Filled(i, k)' = Filled(i, k)
        /\ \A w : Mirrors(w, i, k)' <=> Mirrors(w, i, k)
  BY <1>2 DEF Filled, PanesOf, Mirrors, IndexOf
<1>6. \A k : Planned(at.session, k) => Filled(at.session, k)' = IF k = 1 THEN 1 ELSE 0
  BY <1>1, <1>2, <1>4 DEF Filled
<1>7. Mirrors(v, at.session, 1)'
  BY <1>1, <1>2, <1>6 DEF Mirrors, IndexOf, Session, Window
<1>8. \A w \in windows' : Shaped(w, panes)'
  BY <1>1, StaysShaped DEF OnTheWay, Mirrored, Shaped
<1>9. ASSUME NEW w \in windows'
      PROVE  \E i, k \in 1 .. Limit :
               Planned(i, k)' /\ Filled(i, k)' # 0 /\ Mirrors(w, i, k)'
  <2>1. CASE w = v
    BY <1>1, <1>2, <1>3, <1>6, <1>7, <2>1
  <2>2. CASE w # v
    <3>1. w \in windows /\ w.session # Session.name
      BY <2>2
    <3>2. PICK i \in 1 .. Limit, k \in 1 .. Limit :
            Planned(i, k) /\ Filled(i, k) # 0 /\ Mirrors(w, i, k)
      BY <3>1 DEF OnTheWay, Mirrored
    <3>3. i # at.session
      BY <3>1, <3>2 DEF Mirrors, Session
    <3> QED
      BY <1>3, <1>5, <3>2, <3>3
  <2> QED
    BY <2>1, <2>2
<1>10. ASSUME NEW i \in 1 .. Limit, NEW k \in 1 .. Limit, Planned(i, k), Filled(i, k)' # 0
       PROVE  \E w \in windows' : Mirrors(w, i, k)'
  <2>1. CASE i = at.session
    BY <1>6, <1>7, <1>10, <2>1
  <2>2. CASE i # at.session
    <3>1. PICK w \in windows : Mirrors(w, i, k)
      BY <1>5, <1>10, <2>2 DEF OnTheWay, Mirrored
    <3>2. w.session # Session.name
      BY <1>1, <1>2, <1>10, <2>2, <3>1, PlannedOnce DEF Mirrors, Session
    <3> QED
      BY <1>5, <1>10, <2>2, <3>1, <3>2
  <2> QED
    BY <2>1, <2>2
<1>11. \A u, w \in windows' :
         u.id = w.id \/ (u.session = w.session /\ u.index = w.index) => u = w
  BY DEF OnTheWay, Mirrored
<1>12. Mirrored'
  BY <1>3, <1>8, <1>9, <1>10, <1>11 DEF Mirrored
<1>13. AtHand'
  BY <1>1, <1>7 DEF AtHand, Window, Session, PaneIds
<1>14. InPlace'
  BY DEF OnTheWay, InPlace, PaneIds
<1> QED
  BY <1>1, <1>3, <1>12, <1>13, <1>14 DEF OnTheWay
----------------------------------------------------------------------------
(* The steps of a restore that is left alone.                              *)

\* An accepted snapshot, before its first command.
LEMMA LoadAlone ==
  ASSUME IInv, IInv', windows = {}, DOMAIN remembered = {}, Load
  PROVE  pc' = "session" => OnTheWay'
<1> SUFFICES ASSUME pc' = "session" PROVE OnTheWay'
  OBVIOUS
<1>1. /\ UNCHANGED <<snapshot, at, windows, created, remembered>>
      /\ at' = [session |-> 1, window |-> 1, pane |-> 1]
  BY DEF Load, IInv, SoFar
<1>2. Valid(snapshot)' /\ at' \in Places'
  BY DEF IInv, InPlan, Building
<1>3. \A i, k \in 1 .. Limit : Filled(i, k)' = 0
  BY <1>1, LimitIsPositive DEF Filled, Here
<1>4. Mirrored' /\ AtHand' /\ InPlace'
  BY <1>1, <1>3 DEF Mirrored, AtHand, InPlace
<1> QED
  BY <1>2, <1>4 DEF OnTheWay

\* new-session: the first window of a session that nobody has.
LEMMA CreateSessionAlone ==
  ASSUME IInv, OnTheWay, CreateSession
  PROVE  OnTheWay'
<1> DEFINE v == NewWindow(panes', Session.name, 0)
<1>1. /\ pc = "session" /\ panes' = panes + 1 /\ created' = panes' /\ windows' = windows \cup {v}
      /\ pc' = IF Window.index # 0 THEN "move" ELSE "respawn"
      /\ UNCHANGED <<snapshot, at, remembered>>
      /\ panes \in Nat /\ Session.name \in STRING /\ Window.index \in Nat
      /\ v = NewWindow(panes', Session.name, 0) /\ panes' \in Nat \ {0} /\ 0 \in Nat
  BY AtIsPlanned DEF CreateSession, IInv, Types, OnTheWay
<1> HIDE DEF v
<1>2. /\ Shaped(v, panes') /\ v.id = panes' /\ v.session = Session.name /\ v.index = 0
      /\ Len(v.panes) = 1
  <2> DEFINE id == panes'
             name == Session.name
  <2>1. v = NewWindow(id, name, 0) /\ id \in Nat \ {0} /\ name \in STRING /\ 0 \in Nat
    BY <1>1
  <2> HIDE DEF id, name
  <2>2. Shaped(v, id) /\ v.id = id /\ v.session = name /\ v.index = 0 /\ Len(v.panes) = 1
    BY <2>1, NewWindowIsShaped
  <2> QED
    BY <2>2 DEF id, name
<1>3. \A w \in windows : w.session # Session.name
  BY <1>1, FirstOfItsSession
<1>4. \A w \in windows : w.id # panes' /\ panes' \notin PaneIds(w)
  BY <1>1, OldPanes DEF OnTheWay
<1>5. v.index = IF pc' = "move" THEN 0 ELSE Window.index
  BY <1>1, <1>2
<1> QED
  BY <1>1, <1>2, <1>3, <1>4, <1>5, FirstWindowStep

\* move-window: the first window goes where it was recorded.
LEMMA MoveFirstWindowAlone ==
  ASSUME IInv, OnTheWay, MoveFirstWindow
  PROVE  OnTheWay'
<1> DEFINE w == TheWindow(created)
           v == [w EXCEPT !.index = Window.index]
<1>1. /\ pc = "move" /\ pc' = "respawn" /\ windows' = (windows \ {w}) \cup {v}
      /\ UNCHANGED <<snapshot, at, created, remembered, panes>>
      /\ panes \in Nat /\ Window.index \in Nat
  BY AtIsPlanned DEF MoveFirstWindow, Replace, IInv, Types, OnTheWay
<1>2. /\ w \in windows /\ w.id = created /\ Shaped(w, panes)
      /\ w.session = Session.name /\ Len(w.panes) = 1
  BY <1>1, WindowAtHand DEF Here
<1>3. /\ Shaped(v, panes) /\ v.id = created /\ v.session = Session.name
      /\ v.index = Window.index /\ Len(v.panes) = 1
  BY <1>1, <1>2, WithIndex
<1> HIDE DEF v, w
<1>4. \A u \in windows : u # w =>
        u.id # created /\ u.session # Session.name /\ created \notin PaneIds(u)
  BY <1>1, <1>2, FirstOfItsSession DEF OnTheWay, AtHand, Mirrored
<1>5. PaneIds(w) = {created}
  BY <1>2, FirstPaneIsActive DEF Shaped, PaneIds
<1>6. \A c \in DOMAIN remembered : remembered[c] \notin PaneIds(w)
  BY <1>1, <1>5 DEF IInv, CreatedIsNew
<1> QED
  BY <1>1, <1>2, <1>3, <1>4, <1>6, FirstWindowStep

\* respawn-pane: the same pane, in the same window.
LEMMA RespawnFirstPaneAlone ==
  ASSUME IInv, OnTheWay, RespawnFirstPane
  PROVE  OnTheWay'
<1> DEFINE w == TheWindow(created)
<1>1. /\ pc = "respawn" /\ pc' = "read" /\ panes \in Nat
      /\ UNCHANGED <<snapshot, at, windows, created, remembered, panes>>
  BY DEF RespawnFirstPane, IInv, Types
<1>2. /\ w \in windows /\ w.id = created /\ Shaped(w, panes)
      /\ w.session = Session.name /\ Len(w.panes) = 1 /\ w.index = Window.index
  BY <1>1, WindowAtHand DEF Here
<1> HIDE DEF w
<1>3. \A u \in windows : u # w =>
        u.id # created /\ u.session # Session.name /\ created \notin PaneIds(u)
  BY <1>1, <1>2, FirstOfItsSession DEF OnTheWay, AtHand, Mirrored
<1> QED
  BY <1>1, <1>2, <1>3, FirstWindowStep

\* The pane that is read back is in the window that was created for it.
LEMMA ReadFirstPaneAlone ==
  ASSUME IInv, OnTheWay, ReadFirstPane
  PROVE  pc' \in Building /\ OnTheWay'
<1> DEFINE v == TheWindow(created)
<1>1. /\ pc = "read" /\ UNCHANGED <<snapshot, windows, created, panes>> /\ panes \in Nat
      /\ at.pane = 1
  BY DEF ReadFirstPane, IInv, Types, OnTheWay, AtHand
<1>2. /\ v \in windows /\ v.id = created /\ Shaped(v, panes)
      /\ v.session = Session.name /\ Len(v.panes) = 1 /\ v.index = Window.index
  BY <1>1, WindowAtHand DEF Here
<1>3. \A w \in windows \ {v} : w.id # v.id /\ ~(w.session = v.session /\ w.index = v.index)
  BY <1>2 DEF OnTheWay, Mirrored
<1>4. PICK w \in windows : created \in PaneIds(w) /\ Remember(w, created)
  BY DEF ReadFirstPane
<1>5. w = v
  BY <1>1, <1>2, <1>3, <1>4 DEF OnTheWay, AtHand
<1> HIDE DEF v
<1> QED
  BY <1>1, <1>2, <1>3, <1>4, <1>5, FillStep

\* split-window: the window at hand gets its next pane.
LEMMA CreateSplitAlone ==
  ASSUME IInv, OnTheWay, CreateSplit
  PROVE  pc' \in Building /\ OnTheWay'
<1> DEFINE w == TheWindow(created)
           v == AfterSplit(w, panes')
<1>1. /\ pc = "split" /\ UNCHANGED <<snapshot, created>> /\ panes \in Nat /\ panes' = panes + 1
      /\ windows' = (windows \ {w}) \cup {v} /\ Remember(w, panes') /\ HasRoom(w)
      /\ at.pane \in Nat /\ at.pane >= 2
  BY DEF CreateSplit, Accepted, Replace, IInv, Types, Place, OnTheWay, AtHand
<1>2. /\ w \in windows /\ w.id = created /\ Shaped(w, panes)
      /\ w.session = Session.name /\ Len(w.panes) = at.pane - 1 /\ w.index = Window.index
  BY <1>1, WindowAtHand DEF Here
<1>3. /\ Shaped(v, panes') /\ v.id = w.id /\ v.session = w.session /\ v.index = w.index
      /\ Len(v.panes) = Len(w.panes) + 1
      /\ PaneIds(w) \subseteq PaneIds(v) /\ panes' \in PaneIds(v)
  BY <1>1, <1>2, SplitStaysShaped
<1> HIDE DEF v, w
<1>4. \A u \in windows \ {w} : u.id # v.id /\ ~(u.session = v.session /\ u.index = v.index)
  BY <1>2, <1>3 DEF OnTheWay, Mirrored
<1>5. Remember(v, panes')
  BY <1>1, <1>3 DEF Remember, Identity
<1>6. Len(v.panes) = at.pane
  BY <1>1, <1>2, <1>3
<1>7. v \in windows' /\ windows' \ {v} \subseteq windows \ {w} /\ windows \ windows' \subseteq {w}
  BY <1>1
<1> QED
  BY <1>1, <1>2, <1>3, <1>4, <1>5, <1>6, <1>7, FillStep

\* new-window: the next window of the session, with its first pane.
LEMMA CreateWindowAlone ==
  ASSUME IInv, OnTheWay, CreateWindow
  PROVE  pc' \in Building /\ OnTheWay'
<1> DEFINE v == NewWindow(panes', Session.name, Window.index)
<1>1. /\ pc = "window" /\ panes' = panes + 1 /\ created' = panes' /\ windows' = windows \cup {v}
      /\ Remember(v, panes') /\ snapshot' = snapshot /\ at.pane = 1
      /\ IndexFree(Session.name, Window.index)
      /\ panes \in Nat /\ Session.name \in STRING /\ Window.index \in Nat
      /\ v = NewWindow(panes', Session.name, Window.index) /\ panes' \in Nat \ {0}
  BY AtIsPlanned DEF CreateWindow, Accepted, IInv, InPlan, Types, OnTheWay
<1> HIDE DEF v
<1>2. /\ Shaped(v, panes') /\ v.id = panes' /\ v.session = Session.name
      /\ v.index = Window.index /\ Len(v.panes) = 1 /\ panes' \in PaneIds(v)
  <2> DEFINE id == panes'
             name == Session.name
             index == Window.index
  <2>1. /\ v = NewWindow(id, name, index) /\ id \in Nat \ {0} /\ name \in STRING
        /\ index \in Nat
    BY <1>1
  <2> HIDE DEF id, name, index
  <2>2. /\ Shaped(v, id) /\ v.id = id /\ v.session = name /\ v.index = index
        /\ Len(v.panes) = 1 /\ PaneIds(v) = {id}
    BY <2>1, NewWindowIsShaped
  <2> QED
    BY <2>2 DEF id, name, index
<1>3. \A w \in windows : w.id # v.id /\ ~(w.session = v.session /\ w.index = v.index)
  BY <1>1, <1>2, OldPanes DEF OnTheWay, IndexFree, WindowsOf
<1> QED
  BY <1>1, <1>2, <1>3, FillStep

\* The end of the plan changes no window.
LEMMA CompleteAlone ==
  ASSUME OnTheWay, Complete
  PROVE  OnTheWay'
<1>1. /\ UNCHANGED <<snapshot, at, windows, created, remembered, panes>>
      /\ pc = "end" /\ pc' = "complete"
  BY DEF Complete
<1>2. \A i, k : /\ Filled(i, k)' = Filled(i, k) /\ (Planned(i, k)' <=> Planned(i, k))
                /\ \A w : Mirrors(w, i, k)' <=> Mirrors(w, i, k)
  BY <1>1 DEF Filled, PanesOf, Here, Planned, Mirrors, IndexOf
<1>3. Mirrored'
  BY <1>1, <1>2 DEF OnTheWay, Mirrored, Shaped
<1>4. Valid(snapshot)' /\ Places' = Places /\ AtHand' /\ InPlace'
  BY <1>1 DEF OnTheWay, Valid, ValidWindows, Places, AtHand, Session, Window, InPlace, PaneIds
<1> QED
  BY <1>1, <1>3, <1>4 DEF OnTheWay

\* A capture of the snapshot's server, in numbers.
LEMMA RecordedIsPlanned ==
  \A r : r \in Recorded <=>
    \E i, k : /\ Planned(i, k)
              /\ r = [session |-> snapshot[i].name, index |-> snapshot[i].windows[k].index,
                      panes |-> PanesOf(i, k)]
BY DEF Recorded, Planned, PanesOf

\* tmux refuses nothing but a pane too many.
LEMMA RefusedAlone ==
  ASSUME IInv, OnTheWay, Refused
  PROVE  GivenUp
<1> DEFINE w == TheWindow(created)
<1>1. /\ pc \in Building /\ ~Accepted /\ panes \in Nat
      /\ snapshot \in Seq(RawSession) /\ Valid(snapshot)
  BY DEF Refused, IInv, Types, OnTheWay
<1>2. /\ Planned(at.session, at.window) /\ at.session \in 1 .. Limit /\ at.window \in 1 .. Limit
      /\ at.pane \in 1 .. PanesOf(at.session, at.window) /\ at.pane \in Nat
      /\ at.session \in Nat /\ at.window \in Nat
      /\ \A i, k : Planned(i, k) =>
           /\ i \in 1 .. Len(snapshot) /\ k \in 1 .. Len(snapshot[i].windows)
           /\ i \in 1 .. Limit /\ k \in 1 .. Limit /\ i \in Nat /\ k \in Nat
           /\ PanesOf(i, k) \in Nat \ {0}
  BY AtIsPlanned DEF IInv, OnTheWay
<1>3. pc # "session"
  BY <1>1, FirstOfItsSession DEF Accepted, WindowsOf
<1>4. pc # "move"
  <2>1. SUFFICES ASSUME pc = "move" PROVE FALSE
    OBVIOUS
  <2>2. w \in windows /\ w.id = created /\ created \in Ids /\ w.index = 0
    BY <2>1, WindowAtHand
  <2>3. \A u \in windows : u.session = Session.name => u.index = 0
    BY <2>1, <2>2, FirstOfItsSession DEF OnTheWay, Mirrored
  <2>4. Window.index # 0
    BY <2>1 DEF OnTheWay, AtHand
  <2> QED
    BY <1>1, <2>1, <2>2, <2>3, <2>4 DEF Accepted, IndexFree, WindowsOf
<1>5. pc \notin {"respawn", "read"}
  <2>1. SUFFICES ASSUME pc \in {"respawn", "read"} PROVE FALSE
    OBVIOUS
  <2>2. w \in windows /\ w.id = created /\ Shaped(w, panes)
    BY <2>1, WindowAtHand
  <2>3. created \in PaneIds(w)
    BY <1>1, <2>2, FirstPaneIsActive
  <2> QED
    BY <1>1, <2>1, <2>2, <2>3 DEF Accepted
<1>6. pc # "window"
  <2>1. SUFFICES ASSUME pc = "window" PROVE FALSE
    OBVIOUS
  <2>2. Here = 0 /\ \A i, k : IndexOf(i, k) = snapshot[i].windows[k].index
    BY <2>1 DEF Here, IndexOf
  <2>3. WindowsOf(Session.name) # {}
    <3>1. at.window >= 2
      BY <2>1 DEF OnTheWay, AtHand
    <3>2. Planned(at.session, 1) /\ 1 \in 1 .. Limit
      BY <1>2, <1>1, <3>1, Sizes DEF Planned
    <3>3. Filled(at.session, 1) # 0
      BY <1>2, <3>1, <3>2 DEF Filled
    <3>4. PICK u \in windows : Mirrors(u, at.session, 1)
      BY <1>2, <3>2, <3>3 DEF OnTheWay, Mirrored
    <3> QED
      BY <3>4 DEF Mirrors, WindowsOf, Session
  <2>4. ASSUME NEW u \in windows, u.session = Session.name, u.index = Window.index PROVE FALSE
    <3>1. PICK i \in 1 .. Limit, k \in 1 .. Limit :
            Planned(i, k) /\ Filled(i, k) # 0 /\ Mirrors(u, i, k)
      BY DEF OnTheWay, Mirrored
    <3>2. /\ snapshot[i].name = snapshot[at.session].name
          /\ snapshot[i].windows[k].index = snapshot[at.session].windows[at.window].index
      BY <2>2, <2>4, <3>1 DEF Mirrors, Session, Window
    <3>3. i = at.session /\ k = at.window
      BY <1>1, <1>2, <3>1, <3>2, PlannedOnce
    <3> QED
      BY <1>2, <2>2, <3>1, <3>3 DEF Filled
  <2> QED
    BY <1>1, <2>1, <2>3, <2>4 DEF Accepted, IndexFree, WindowsOf
<1>7. pc # "end"
  BY <1>1 DEF Accepted
<1>8. pc = "split"
  BY <1>1, <1>3, <1>4, <1>5, <1>6, <1>7 DEF Building
<1>9. /\ w \in windows /\ created \in Ids /\ Shaped(w, panes) /\ Len(w.panes) = at.pane - 1
      /\ ~HasRoom(w)
  BY <1>1, <1>8, WindowAtHand DEF Accepted, Here
<1> HIDE DEF w
<1>10. ~Fits(PanesOf(at.session, at.window))
  <2>1. PanesOf(at.session, at.window) \in Nat /\ Len(w.panes) < PanesOf(at.session, at.window)
    BY <1>2, <1>9
  <2> QED
    BY <1>1, <1>9, <2>1, NoRoomNoFit
<1> DEFINE r == [session |-> snapshot[at.session].name,
                 index |-> snapshot[at.session].windows[at.window].index,
                 panes |-> PanesOf(at.session, at.window)]
<1>11. r \in Recorded /\ r.panes = PanesOf(at.session, at.window)
  BY <1>2, RecordedIsPlanned
<1> HIDE DEF r
<1> QED
  BY <1>10, <1>11 DEF GivenUp

\* Every window of the plan is there, and none besides.
LEMMA CompleteIsRecorded ==
  ASSUME Types, OnTheWay, pc = "complete"
  PROVE  Observation = Recorded
<1>1. /\ Valid(snapshot) /\ at.session = Len(snapshot) /\ at.window = Len(Session.windows)
      /\ at.pane = Len(Window.panes)
  BY DEF OnTheWay, AtHand
<1>2. /\ at.session \in Nat /\ at.window \in Nat
      /\ \A i, k : Planned(i, k) =>
           /\ i \in 1 .. Len(snapshot) /\ k \in 1 .. Len(snapshot[i].windows)
           /\ i \in 1 .. Limit /\ k \in 1 .. Limit /\ PanesOf(i, k) \in Nat \ {0}
  BY AtIsPlanned DEF OnTheWay
<1>3. \A i, k : Planned(i, k) => Filled(i, k) = PanesOf(i, k)
  BY <1>1, <1>2 DEF Filled, Here, PanesOf, Window, Session
<1>4. \A i, k : IndexOf(i, k) = snapshot[i].windows[k].index
  BY DEF IndexOf
<1>5. ASSUME NEW w \in windows
      PROVE  [session |-> w.session, index |-> w.index, panes |-> Len(w.panes)] \in Recorded
  <2>1. PICK i \in 1 .. Limit, k \in 1 .. Limit : Planned(i, k) /\ Mirrors(w, i, k)
    BY DEF OnTheWay, Mirrored
  <2> QED
    BY <1>3, <1>4, <2>1, RecordedIsPlanned DEF Mirrors
<1>6. ASSUME NEW r \in Recorded PROVE r \in Observation
  <2>1. PICK i, k : /\ Planned(i, k)
                    /\ r = [session |-> snapshot[i].name,
                            index |-> snapshot[i].windows[k].index, panes |-> PanesOf(i, k)]
    BY RecordedIsPlanned
  <2>2. PICK w \in windows : Mirrors(w, i, k)
    BY <1>2, <1>3, <2>1 DEF OnTheWay, Mirrored
  <2>3. r = [session |-> w.session, index |-> w.index, panes |-> Len(w.panes)]
    BY <1>3, <1>4, <2>1, <2>2 DEF Mirrors
  <2> QED
    BY <2>3 DEF Observation
<1> QED
  BY <1>5, <1>6 DEF Observation

\* Every step of a restore keeps LeftAlone; any other disturbs the restore.
LEMMA LeftAloneStep ==
  ASSUME IInv, IInv', LeftAlone, [Next]_vars
  PROVE  LeftAlone'
<1>1. disturbed \in Nat
  BY DEF LeftAlone
<1>2. CASE Others
  <2>1. disturbed' = disturbed + 1
    BY <1>2 DEF Others, CommandFails, ClientSelects, PaneCloses, ClientOpensWindow,
       ClientMovesWindow, Disturb
  <2> QED
    BY <1>1, <2>1 DEF LeftAlone
<1>3. CASE UNCHANGED vars
  <2>1. OnTheWay' <=> OnTheWay
    BY <1>3 DEF vars, OnTheWay, Valid, ValidWindows, Places, Mirrored, AtHand, InPlace, Shaped,
       Planned, Filled, PanesOf, Here, Mirrors, IndexOf, Window, Session, PaneIds
  <2> QED
    BY <1>3, <2>1 DEF vars, LeftAlone, GivenUp, Recorded
<1>4. CASE Restore /\ disturbed # 0
  BY <1>1, <1>4 DEF Restore, Load, CreateSession, MoveFirstWindow, RespawnFirstPane,
     ReadFirstPane, CreateSplit, CreateWindow, Complete, Refused, LeftAlone
<1>5. CASE Restore /\ disturbed = 0
  <2>1. /\ pc = "load" => windows = {} /\ DOMAIN remembered = {}
        /\ pc \in Building => OnTheWay
    BY <1>5 DEF LeftAlone
  <2>2. CASE Load
    <3>1. pc' \in {"session", "refused"} /\ disturbed' = disturbed
      BY <2>2 DEF Load
    <3>2. pc' = "session" => OnTheWay'
      BY <2>1, <2>2, LoadAlone DEF Load
    <3> QED
      BY <1>1, <3>1, <3>2 DEF LeftAlone, Building
  <2>3. CASE CreateSession
    <3>1. pc' \in {"move", "respawn"} /\ disturbed' = disturbed /\ OnTheWay'
      BY <2>1, <2>3, CreateSessionAlone DEF CreateSession, Building
    <3> QED
      BY <1>1, <3>1 DEF LeftAlone
  <2>4. CASE MoveFirstWindow
    <3>1. pc' = "respawn" /\ disturbed' = disturbed /\ OnTheWay'
      BY <2>1, <2>4, MoveFirstWindowAlone DEF MoveFirstWindow, Building
    <3> QED
      BY <1>1, <3>1 DEF LeftAlone
  <2>5. CASE RespawnFirstPane
    <3>1. pc' = "read" /\ disturbed' = disturbed /\ OnTheWay'
      BY <2>1, <2>5, RespawnFirstPaneAlone DEF RespawnFirstPane, Building
    <3> QED
      BY <1>1, <3>1 DEF LeftAlone
  <2>6. CASE ReadFirstPane \/ CreateSplit \/ CreateWindow
    <3>1. pc \in Building /\ disturbed' = disturbed
      BY <2>6 DEF ReadFirstPane, CreateSplit, CreateWindow, Building
    <3>2. pc' \in Building /\ OnTheWay'
      BY <2>1, <2>6, <3>1, ReadFirstPaneAlone, CreateSplitAlone, CreateWindowAlone
    <3> QED
      BY <1>1, <3>1, <3>2 DEF LeftAlone, Building
  <2>7. CASE Complete
    <3>1. pc' = "complete" /\ disturbed' = disturbed /\ OnTheWay'
      BY <2>1, <2>7, CompleteAlone DEF Complete, Building
    <3> QED
      BY <1>1, <3>1 DEF LeftAlone
  <2>8. CASE Refused
    <3>1. pc \in Building /\ pc' = "failed" /\ disturbed' = disturbed /\ snapshot' = snapshot
      BY <2>8 DEF Refused
    <3>2. GivenUp
      BY <2>1, <2>8, <3>1, RefusedAlone
    <3>3. GivenUp'
      BY <3>1, <3>2 DEF GivenUp, Recorded
    <3> QED
      BY <1>1, <3>1, <3>3 DEF LeftAlone, Building
  <2> QED
    BY <1>5, <2>2, <2>3, <2>4, <2>5, <2>6, <2>7, <2>8 DEF Restore
<1> QED
  BY <1>2, <1>3, <1>4, <1>5 DEF Next

\* RestoredAsCaptured: left alone, create_topology builds the sessions, windows
\* and panes of any accepted snapshot, whatever order it lists them in, and
\* remember_pane notes each pane where it was recorded; it gives up only on a
\* window with more panes than its rows allow.
THEOREM AloneRestoresAsCaptured == Spec => []RestoredAsCaptured
<1>1. Init => LeftAlone
  BY DEF Init, LeftAlone, Building
<1>2. IInv /\ LeftAlone => RestoredAsCaptured
  <2>1. SUFFICES ASSUME IInv, LeftAlone, disturbed = 0
                 PROVE  /\ pc = "complete" =>
                             /\ Observation = Recorded
                             /\ \A c \in DOMAIN remembered : \E w \in windows :
                                  /\ remembered[c] \in PaneIds(w)
                                  /\ w.session = c.session /\ w.index = c.window
                        /\ pc = "failed" => \E w \in Recorded : ~Fits(w.panes)
    BY DEF RestoredAsCaptured
  <2>2. CASE pc = "complete"
    <3>1. OnTheWay /\ Types
      BY <2>1, <2>2 DEF LeftAlone, IInv
    <3> QED
      BY <2>2, <3>1, CompleteIsRecorded DEF OnTheWay, InPlace
  <2>3. CASE pc = "failed"
    BY <2>1, <2>3 DEF LeftAlone, GivenUp
  <2> QED
    BY <2>2, <2>3
<1>3. IInv /\ IInv' /\ LeftAlone /\ [Next]_vars => LeftAlone'
  BY LeftAloneStep
<1> QED
  BY <1>1, <1>2, <1>3, IInvHolds, PTL DEF Spec
=============================================================================
