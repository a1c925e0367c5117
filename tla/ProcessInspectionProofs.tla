-------------------- MODULE ProcessInspectionProofs --------------------
(***************************************************************************)
(* What an inspection reports was true at one moment, and of everybody:    *)
(* the two properties of ProcessInspection, for any number of processes    *)
(* and changes.                                                            *)
(*                                                                         *)
(* A process only moves on: its start time, arguments, group and records   *)
(* never come back once they have changed.  So whatever is read equal      *)
(* before and after the moment the second observation began was so then.   *)
(***************************************************************************)
EXTENDS ProcessInspection, WellFoundedInduction, TLAPS

\* What a process can become without being another one.
GroupAfter(p, g, h) == h = g \/ (g # p /\ (h = p \/ g = Root))
Onward(p, a, b) ==
  /\ a.here = b.here /\ GroupAfter(p, a.group, b.group)
  /\ a.argv <= b.argv /\ (a.argv = b.argv => a.exe = b.exe)

IsStill(p, start) == proc[p] # None /\ proc[p].start = start
WasThen(p, start) == between.proc[p] # None /\ between.proc[p].start = start

\* A process as it was observed.
AsSeen(o) == [here |-> o.stat.here, group |-> o.stat.group, argv |-> o.argv, exe |-> o.exe]

OfOneProcess == {"exe", "argv", "exeAgain", "statAgain"}
PaneKnown == pc \notin {"tty", "pane", "done"} \/ pass = 2
Inside == pass = 2 /\ pc \notin {"tty", "pane"}
Over == pass = 2 /\ pc \in {"tools", "done"}

\* Which read comes when, and what has been read by then.
Control ==
  /\ seen = [n \in 1 .. 2 |-> seen[n]] /\ tools = [n \in 1 .. 2 |-> tools[n]]
  /\ pc \in {"stat"} \cup OfOneProcess => todo # {}
  /\ pc \in OfOneProcess => once \in Partial
  /\ pc \in OfOneProcess \ {"exe"} => once.exe \in Exe
  /\ pc \in {"exeAgain", "statAgain"} => once.argv \in 0 .. MaxChanges
  /\ PaneKnown => pane \in Stat
  /\ ~Inside => seen[2] = Nowhere
  /\ result # "none" => pc = "done"
  /\ result \in {"Idle", "Foreground"} => pass = 2

ToolsControl ==
  /\ pass = 1 /\ pc # "tools" => tools[1] = Nowhere
  /\ ~Over => tools[2] = Nowhere
  /\ pc = "tools" => /\ ~Idle
                     /\ \/ DOMAIN tools[pass] = {None} /\ todo = {}
                        \/ DOMAIN tools[pass] \cup todo = Members
  /\ pass = 2 /\ ~Idle => DOMAIN tools[1] \in {{None}, Members}
  /\ result = "Foreground" => ~Idle /\ SameTools

\* Stamps are of changes that have happened: the next one is new.
Stamps ==
  /\ \A p \in Pid : proc[p] # None => /\ proc[p].start <= changes
                                      /\ proc[p].argv <= changes /\ proc[p].records <= changes
  /\ PaneKnown => pane.start <= changes
  /\ pc \in OfOneProcess => once.stat.start <= changes
  /\ pc \in {"exeAgain", "statAgain"} => once.argv <= changes
  /\ \A n \in 1 .. 2 : \A p \in DOMAIN seen[n] :
       seen[n][p].stat.start <= changes /\ seen[n][p].argv <= changes
  /\ \A n \in 1 .. 2 : \A p \in DOMAIN tools[n] : p # None => tools[n][p] \in 0 .. changes

\* The process that was read has moved on, if it is still there.
Known ==
  /\ \A p \in Members :
       IsStill(p, seen[1][p].stat.start) => Onward(p, AsSeen(seen[1][p]), proc[p])
  /\ pc \in OfOneProcess /\ IsStill(Reading, once.stat.start) =>
       /\ once.stat.here = proc[Reading].here
       /\ GroupAfter(Reading, once.stat.group, proc[Reading].group)
       /\ pc \in {"exeAgain", "statAgain"} => once.argv <= proc[Reading].argv
       /\ pc = "statAgain" /\ once.argv = proc[Reading].argv => once.exe = proc[Reading].exe

\* The moment the second observation begins lies after what the first one
\* read of a process and before what the second one reads of it.
Enclosed ==
  Inside => \A p \in Members :
    LET start == seen[1][p].stat.start  was == between.proc[p] IN
    /\ WasThen(p, start) => Onward(p, AsSeen(seen[1][p]), was)
    /\ IsStill(p, start) => WasThen(p, start) /\ Onward(p, was, proc[p])
    /\ pc \in OfOneProcess /\ p = Reading /\ once.stat.start = start /\ IsStill(p, start) =>
         /\ GroupAfter(p, was.group, once.stat.group)
         /\ pc \in {"exeAgain", "statAgain"} => was.argv <= once.argv
    /\ p \in DOMAIN seen[2] /\ seen[2][p].stat.start = start =>
         /\ WasThen(p, start)
         /\ was.here = seen[2][p].stat.here
         /\ GroupAfter(p, was.group, seen[2][p].stat.group)
         /\ was.argv <= seen[2][p].argv

\* The pane process was at the pane's terminal at that moment.
PaneInv ==
  /\ PaneKnown /\ IsStill(Root, pane.start) => proc[Root].here = pane.here
  /\ (pass = 1 /\ pc = "tools") \/ (pass = 2 /\ ~Inside) =>
       (IsStill(Root, pane.start) => pane.here)
  /\ Inside => pane.here /\ pane.fg = between.fg
  /\ Over => /\ AsBefore
             /\ \A p \in Members : seen[1][p].stat.group = pane.fg /\ seen[1][p].stat.here

\* Session records are stamped too.
RecordsInv ==
  Inside => \A p \in DOMAIN tools[1] \ {None} :
    LET records == tools[1][p]
        held == between.proc[p] # None /\ between.proc[p].records = records IN
    /\ records # 0 /\ proc[p] # None /\ proc[p].records = records => held
    /\ records # 0 /\ p \in DOMAIN tools[2] /\ tools[2][p] = records => held

\* Whoever stays in the foreground is enumerated, selected and read.
StayedInv ==
  /\ stayed \subseteq Pid
  /\ \A p \in stayed : InForeground(p)
  /\ PaneKnown /\ pane.here /\ stayed # {} => pane.fg = fg
  /\ PaneKnown /\ pane.here /\ pass = 1 =>
       /\ pc = "list" => \A p \in stayed \ todo :
            p \in DOMAIN listed /\ listed[p].here /\ listed[p].group = fg
       /\ pc \in {"stat"} \cup OfOneProcess => stayed \subseteq todo \cup Members
       /\ pc \in {"paneAgain", "ttyAgain", "tools"} => stayed \subseteq Members
  /\ pass = 2 /\ pane.here => stayed \subseteq Members

IInv ==
  /\ TypeOK /\ Control /\ ToolsControl /\ Stamps /\ Known /\ Enclosed
  /\ PaneInv /\ RecordsInv /\ StayedInv
----------------------------------------------------------------------------
(* Moving on.                                                              *)

LEMMA GroupsMoveOn ==
  /\ \A p, g : GroupAfter(p, g, g)
  /\ \A p, g, h, k : GroupAfter(p, g, h) /\ GroupAfter(p, h, k) => GroupAfter(p, g, k)
  /\ \A p, g, h : GroupAfter(p, g, h) /\ GroupAfter(p, h, g) => g = h
  BY DEF GroupAfter

LEMMA OnwardIsTransitive ==
  ASSUME NEW p, NEW a, NEW b, NEW c, a.argv \in Nat, b.argv \in Nat, c.argv \in Nat,
         Onward(p, a, b), Onward(p, b, c)
  PROVE  Onward(p, a, c)
<1>1. GroupAfter(p, a.group, c.group)
  BY GroupsMoveOn DEF Onward
<1>2. a.argv <= c.argv /\ (a.argv = c.argv => a.argv = b.argv /\ b.argv = c.argv)
  BY DEF Onward
<1> QED
  BY <1>1, <1>2 DEF Onward

\* The next process to read is one of those still to be read.
LEMMA NextOfIsOne == ASSUME NEW S \in SUBSET Pid, S # {} PROVE NextOf(S) \in S
<1> DEFINE Less == {ss \in Nat \X Nat : ss[1] < ss[2]}
<1>1. S \subseteq Nat
  BY LastIsPositive DEF Pid
<1>2. IsWellFoundedOn(Less, Nat)
  BY NatLessThanWellFounded DEF OpToRel
<1>3. PICK x \in S : \A y \in S : <<y, x>> \notin Less
  BY <1>1, <1>2, WFMin
<1>4. \A y \in S : x <= y
  <2> TAKE y \in S
  <2>1. x \in Nat /\ y \in Nat
    BY <1>1
  <2>2. ~(y < x)
    BY <1>3, <2>1
  <2> QED
    BY <2>1, <2>2
<1> QED
  BY <1>4 DEF NextOf

\* Whatever happens around an inspection, a process moves on, ends, or is
\* followed by one that starts now.
Evolves ==
  /\ changes < MaxChanges /\ changes' = changes + 1
  /\ UNCHANGED <<inspection, between>>
  /\ proc' \in [Pid -> Process \cup {None}] /\ fg' \in Pid
  /\ fg' = fg \/ proc' = proc
  /\ \A p \in Pid : proc'[p] # None =>
       \/ /\ IsStill(p, proc'[p].start) /\ Onward(p, proc[p], proc'[p])
          /\ proc'[p].argv \in {proc[p].argv, changes + 1}
          /\ proc'[p].records \in {proc[p].records, changes + 1}
       \/ proc'[p].start = changes + 1 /\ proc'[p].argv = 0 /\ proc'[p].records = 0
  /\ stayed' \subseteq stayed
  /\ \A p \in stayed' : InForeground(p)'

LEMMA OthersEvolve ==
  ASSUME TypeOK, Stamps, Others
  PROVE  Evolves
<1> USE MaxChangesIsNat, LastIsPositive
<1>0. /\ changes \in 0 .. MaxChanges /\ proc \in [Pid -> Process \cup {None}] /\ fg \in Pid
      /\ Root \in Pid /\ changes \in Nat
  BY DEF TypeOK, Root, Pid
<1>1. ASSUME NEW p \in Pid, proc[p] # None
      PROVE  /\ proc[p] \in Process /\ IsStill(p, proc[p].start) /\ Onward(p, proc[p], proc[p])
             /\ proc[p].argv \in 0 .. MaxChanges
  BY <1>0, <1>1 DEF Process, IsStill, Onward, GroupAfter
<1>2. ASSUME Change
      PROVE  /\ changes < MaxChanges /\ changes' = changes + 1 /\ changes + 1 \in 0 .. MaxChanges
             /\ UNCHANGED <<inspection, between>> /\ stayed' \subseteq stayed
             /\ \A p \in stayed' : InForeground(p)'
  BY <1>0, <1>2 DEF Change, Fresh, InForeground, Live
<1>3. ASSUME NEW p \in Pid, Starts(p) PROVE Evolves
  <2>1. PICK exe \in Exe, here \in BOOLEAN, group \in Pid, parent \in Pid \cup {None} :
          proc' = [proc EXCEPT ![p] =
            [start |-> Fresh, parent |-> parent, group |-> group, here |-> here,
             exe |-> exe, argv |-> 0, records |-> 0]]
    BY <1>3 DEF Starts
  <2>2. Change /\ UNCHANGED fg
    BY <1>3 DEF Starts
  <2> DEFINE new == [start |-> Fresh, parent |-> parent, group |-> group, here |-> here,
                     exe |-> exe, argv |-> 0, records |-> 0]
  <2>3. new \in Process /\ new.start = changes + 1 /\ new.argv = 0 /\ new.records = 0
    BY <1>0, <1>2, <2>2 DEF Process, Fresh
  <2>4. proc'[p] = new /\ \A q \in Pid \ {p} : proc'[q] = proc[q]
    BY <1>0, <2>1
  <2>5. proc' \in [Pid -> Process \cup {None}]
    BY <1>0, <2>1, <2>3
  <2> HIDE DEF new
  <2> QED
    BY <1>0, <1>1, <1>2, <2>2, <2>3, <2>4, <2>5 DEF Evolves
<1>4. ASSUME NEW p \in Pid, Exits(p) PROVE Evolves
  <2>1. /\ proc' = [q \in Pid |->
             IF q = p THEN None
             ELSE IF Live(q) /\ proc[q].parent = p THEN [proc[q] EXCEPT !.parent = None]
             ELSE proc[q]]
        /\ Change /\ UNCHANGED fg
    BY <1>4 DEF Exits
  <2>2. ASSUME NEW q \in Pid, Live(q)
        PROVE  LET orphan == [proc[q] EXCEPT !.parent = None] IN
               /\ orphan \in Process /\ orphan.start = proc[q].start
               /\ orphan.argv = proc[q].argv /\ orphan.records = proc[q].records
               /\ orphan.here = proc[q].here /\ orphan.group = proc[q].group
               /\ orphan.exe = proc[q].exe
    BY <1>1, <2>2 DEF Live, Process
  <2>3. ASSUME NEW q \in Pid, proc'[q] # None
        PROVE  /\ proc'[q] \in Process /\ IsStill(q, proc'[q].start) /\ Onward(q, proc[q], proc'[q])
               /\ proc'[q].argv = proc[q].argv /\ proc'[q].records = proc[q].records
    <3>1. q # p /\ proc'[q] = IF Live(q) /\ proc[q].parent = p
                              THEN [proc[q] EXCEPT !.parent = None] ELSE proc[q]
      BY <2>1, <2>3
    <3>2. Live(q)
      BY <2>3, <3>1 DEF Live
    <3> QED
      BY <1>1, <2>2, <3>1, <3>2 DEF Live, IsStill, Onward
  <2>4. proc' \in [Pid -> Process \cup {None}]
    BY <2>1, <2>3
  <2> QED
    BY <1>0, <1>2, <2>1, <2>3, <2>4 DEF Evolves
<1>5. ASSUME NEW p \in Pid, Executes(p) PROVE Evolves
  <2>1. PICK exe \in Exe : proc' = [proc EXCEPT ![p].exe = exe, ![p].argv = Fresh]
    BY <1>5 DEF Executes
  <2>2. Change /\ UNCHANGED fg /\ proc[p] # None
    BY <1>5 DEF Executes, Live
  <2> DEFINE new == [proc[p] EXCEPT !.exe = exe, !.argv = Fresh]
  <2>3. /\ new \in Process /\ new.start = proc[p].start /\ new.argv = changes + 1
        /\ new.records = proc[p].records /\ new.here = proc[p].here /\ new.group = proc[p].group
    BY <1>0, <1>1, <1>2, <2>2 DEF Process, Fresh
  <2>4. proc'[p] = new /\ \A q \in Pid \ {p} : proc'[q] = proc[q]
    BY <1>0, <2>1
  <2>5. proc' \in [Pid -> Process \cup {None}]
    BY <1>0, <2>1, <2>3
  <2> HIDE DEF new
  <2>6. Onward(p, proc[p], new)
    BY <1>0, <1>1, <2>2, <2>3 DEF Onward, Stamps
  <2> QED
    BY <1>0, <1>1, <1>2, <2>2, <2>3, <2>4, <2>5, <2>6 DEF Evolves, IsStill
<1>6. ASSUME NEW p \in Pid, RecordsChange(p) PROVE Evolves
  <2>1. proc' = [proc EXCEPT ![p].records = Fresh] /\ Change /\ UNCHANGED fg /\ proc[p] # None
    BY <1>6 DEF RecordsChange, Live
  <2> DEFINE new == [proc[p] EXCEPT !.records = Fresh]
  <2>3. /\ new \in Process /\ new.start = proc[p].start /\ new.argv = proc[p].argv
        /\ new.records = changes + 1 /\ new.here = proc[p].here /\ new.group = proc[p].group
        /\ new.exe = proc[p].exe
    BY <1>0, <1>1, <1>2, <2>1 DEF Process, Fresh
  <2>4. proc'[p] = new /\ \A q \in Pid \ {p} : proc'[q] = proc[q]
    BY <1>0, <2>1
  <2>5. proc' \in [Pid -> Process \cup {None}]
    BY <1>0, <2>1, <2>3
  <2> HIDE DEF new
  <2>6. Onward(p, proc[p], new)
    BY <1>0, <1>1, <2>1, <2>3 DEF Onward
  <2> QED
    BY <1>0, <1>1, <1>2, <2>1, <2>3, <2>4, <2>5, <2>6 DEF Evolves, IsStill
<1>7. ASSUME NEW p \in Pid, ChangesGroup(p) PROVE Evolves
  <2>1. PICK group \in {p} \cup {q \in Pid : Live(q) /\ proc[q].here} :
          /\ group # proc[p].group /\ (group = p \/ proc[p].group = Root)
          /\ proc' = [proc EXCEPT ![p].group = group]
    BY <1>7 DEF ChangesGroup
  <2>2. Change /\ UNCHANGED fg /\ proc[p] # None /\ proc[p].group # p /\ group \in Pid
    BY <1>7, <2>1 DEF ChangesGroup, Live
  <2> DEFINE new == [proc[p] EXCEPT !.group = group]
  <2>3. /\ new \in Process /\ new.start = proc[p].start /\ new.argv = proc[p].argv
        /\ new.records = proc[p].records /\ new.here = proc[p].here /\ new.group = group
        /\ new.exe = proc[p].exe
    BY <1>0, <1>1, <1>2, <2>2 DEF Process
  <2>4. proc'[p] = new /\ \A q \in Pid \ {p} : proc'[q] = proc[q]
    BY <1>0, <2>1
  <2>5. proc' \in [Pid -> Process \cup {None}]
    BY <1>0, <2>1, <2>3
  <2> HIDE DEF new
  <2>6. Onward(p, proc[p], new)
    BY <1>0, <1>1, <2>1, <2>2, <2>3 DEF Onward, GroupAfter
  <2> QED
    BY <1>0, <1>1, <1>2, <2>2, <2>3, <2>4, <2>5, <2>6 DEF Evolves, IsStill
<1>8. ASSUME ForegroundChanges PROVE Evolves
  <2>1. PICK p \in Pid : Live(p) /\ fg' = proc[p].group
    BY <1>8 DEF ForegroundChanges
  <2>2. fg' \in Pid
    BY <1>1, <2>1 DEF Live, Process
  <2> QED
    BY <1>0, <1>1, <1>2, <1>8, <2>2 DEF Evolves, ForegroundChanges
<1> QED
  BY <1>3, <1>4, <1>5, <1>6, <1>7, <1>8 DEF Others

LEMMA OthersKeep == ASSUME IInv, Evolves PROVE IInv'
<1> USE MaxChangesIsNat
<1>1. /\ changes' = changes + 1 /\ changes < MaxChanges
      /\ pc' = pc /\ pass' = pass /\ todo' = todo /\ pane' = pane /\ listed' = listed
      /\ once' = once /\ first' = first /\ seen' = seen /\ tools' = tools /\ result' = result
      /\ between' = between
  BY DEF Evolves, inspection
<1>2. /\ Members' = Members /\ Reading' = Reading /\ Idle' = Idle /\ SameTools' = SameTools
      /\ PaneKnown' = PaneKnown /\ Inside' = Inside /\ Over' = Over /\ AsBefore' = AsBefore
      /\ \A p, start : WasThen(p, start)' = WasThen(p, start)
  BY <1>1 DEF Members, Reading, Idle, SameTools, PaneKnown, Inside, Over, AsBefore, WasThen
<1>3. /\ changes \in Nat /\ proc \in [Pid -> Process \cup {None}]
      /\ proc' \in [Pid -> Process \cup {None}]
      /\ \A p \in Pid : proc[p] # None => proc[p].argv \in Nat /\ proc[p].start \in Nat
      /\ \A p \in Pid : proc'[p] # None => proc'[p].argv \in Nat /\ proc'[p].start \in Nat
  BY DEF IInv, TypeOK, Evolves, Process
\* Who was there when something was read is there, moved on, or is gone.
<1>4. ASSUME NEW p \in Pid, NEW start, start <= changes, start \in Nat, IsStill(p, start)'
      PROVE  IsStill(p, start) /\ Onward(p, proc[p], proc'[p])
  BY <1>3, <1>4 DEF Evolves, IsStill
<1>5. TypeOK'
  BY <1>1 DEF IInv, TypeOK, Evolves
<1>6. Control' /\ ToolsControl'
  BY <1>1, <1>2 DEF IInv, Control, ToolsControl
<1>7. Stamps'
  <2>1. \A p \in Pid : proc'[p] # None =>
          proc'[p].start <= changes' /\ proc'[p].argv <= changes' /\ proc'[p].records <= changes'
    BY <1>1, <1>3 DEF IInv, Stamps, Evolves, IsStill, Process
  <2>2. PaneKnown => pane.start \in Nat
    BY DEF IInv, Control, Stat
  <2>3. pc \in OfOneProcess => once.stat.start \in Nat
    BY DEF IInv, Control, Partial, Stat
  <2>4. pc \in {"exeAgain", "statAgain"} => once.argv \in Nat
    BY DEF IInv, Control
  <2>5. \A n \in 1 .. 2 : \A p \in DOMAIN seen[n] :
          seen[n][p].stat.start \in Nat /\ seen[n][p].argv \in Nat
    BY DEF IInv, TypeOK, Observed, Stat
  <2> QED
    BY <1>1, <1>2, <1>3, <2>1, <2>2, <2>3, <2>4, <2>5 DEF IInv, Stamps
<1>8. \A p \in Members : /\ p \in Pid /\ seen[1][p].stat.start \in Nat
                         /\ seen[1][p].stat.start <= changes /\ seen[1][p].argv \in Nat
  BY DEF IInv, TypeOK, Stamps, Members, Observed, Stat
<1>9. pc \in OfOneProcess =>
        /\ Reading \in Pid /\ once.stat.start \in Nat /\ once.stat.start <= changes
        /\ pc \in {"exeAgain", "statAgain"} => once.argv \in Nat
  BY NextOfIsOne DEF IInv, TypeOK, Control, Stamps, Reading, OfOneProcess, Partial, Stat
<1>10. Known'
  <2>1. ASSUME NEW p \in Members, IsStill(p, seen[1][p].stat.start)'
        PROVE  Onward(p, AsSeen(seen[1][p]), proc'[p])
    <3>1. /\ IsStill(p, seen[1][p].stat.start) /\ Onward(p, proc[p], proc'[p])
          /\ proc[p] # None /\ proc'[p] # None
      BY <1>1, <1>4, <1>8, <2>1 DEF IsStill
    <3>2. Onward(p, AsSeen(seen[1][p]), proc[p])
      BY <3>1 DEF IInv, Known
    <3>3. AsSeen(seen[1][p]).argv \in Nat
      BY <1>8 DEF AsSeen
    <3> QED
      BY <1>3, <1>8, <3>1, <3>2, <3>3, OnwardIsTransitive
  <2>2. ASSUME pc \in OfOneProcess, IsStill(Reading, once.stat.start)'
        PROVE  /\ once.stat.here = proc'[Reading].here
               /\ GroupAfter(Reading, once.stat.group, proc'[Reading].group)
               /\ pc \in {"exeAgain", "statAgain"} => once.argv <= proc'[Reading].argv
               /\ pc = "statAgain" /\ once.argv = proc'[Reading].argv =>
                    once.exe = proc'[Reading].exe
    <3>1. /\ IsStill(Reading, once.stat.start) /\ Onward(Reading, proc[Reading], proc'[Reading])
          /\ proc[Reading] # None /\ proc'[Reading] # None
      BY <1>1, <1>2, <1>4, <1>9, <2>2 DEF IsStill
    <3>2. /\ once.stat.here = proc[Reading].here
          /\ GroupAfter(Reading, once.stat.group, proc[Reading].group)
          /\ pc \in {"exeAgain", "statAgain"} => once.argv <= proc[Reading].argv
          /\ pc = "statAgain" /\ once.argv = proc[Reading].argv => once.exe = proc[Reading].exe
      BY <2>2, <3>1 DEF IInv, Known
    <3> QED
      BY <1>3, <1>9, <2>2, <3>1, <3>2, GroupsMoveOn DEF Onward
  <2> QED
    BY <1>1, <1>2, <2>1, <2>2 DEF Known
<1>11. Enclosed'
  <2> SUFFICES ASSUME Inside, NEW p \in Members
               PROVE  LET start == seen[1][p].stat.start  was == between.proc[p] IN
                      /\ IsStill(p, start)' => /\ IsStill(p, start) /\ WasThen(p, start)
                                               /\ Onward(p, was, proc'[p])
    BY <1>1, <1>2 DEF IInv, Enclosed
  <2> DEFINE start == seen[1][p].stat.start
  <2> SUFFICES ASSUME IsStill(p, start)'
               PROVE  IsStill(p, start) /\ WasThen(p, start) /\ Onward(p, between.proc[p], proc'[p])
    OBVIOUS
  <2>1. /\ IsStill(p, start) /\ Onward(p, proc[p], proc'[p])
        /\ proc[p] # None /\ proc'[p] # None
    BY <1>1, <1>4, <1>8 DEF IsStill
  <2>2. WasThen(p, start) /\ Onward(p, between.proc[p], proc[p])
    BY <2>1 DEF IInv, Enclosed
  <2>3. between.proc[p].argv \in Nat
    BY <1>8, <2>2 DEF IInv, TypeOK, WasThen, Process
  <2> QED
    BY <1>3, <1>8, <2>1, <2>2, <2>3, OnwardIsTransitive
<1>12. PaneInv'
  <2>1. Root \in Pid
    BY LastIsPositive DEF Root, Pid
  <2>2. ASSUME PaneKnown, IsStill(Root, pane.start)'
        PROVE  IsStill(Root, pane.start) /\ proc[Root].here = proc'[Root].here
    <3>1. pane.start \in Nat /\ pane.start <= changes
      BY <2>2 DEF IInv, Control, Stamps, Stat
    <3> QED
      BY <1>1, <1>4, <2>1, <2>2, <3>1 DEF Onward, IsStill
  <2>3. (pass = 1 /\ pc = "tools") \/ (pass = 2 /\ ~Inside) => PaneKnown
    BY DEF PaneKnown
  <2> QED
    BY <1>1, <1>2, <2>2, <2>3 DEF IInv, PaneInv
<1>13. RecordsInv'
  <2> SUFFICES ASSUME Inside, NEW p \in DOMAIN tools[1] \ {None}, tools[1][p] # 0,
                      proc'[p] # None, proc'[p].records = tools[1][p]
               PROVE  proc[p] # None /\ proc[p].records = tools[1][p]
    BY <1>1, <1>2 DEF IInv, RecordsInv
  <2>1. p \in Pid /\ tools[1][p] \in 0 .. changes
    BY DEF IInv, TypeOK, Stamps
  <2> QED
    BY <1>3, <2>1 DEF Evolves, IsStill
<1>14. StayedInv'
  <2>1. stayed' \subseteq stayed /\ \A p \in stayed' : InForeground(p)'
    BY DEF Evolves
  <2>2. ASSUME NEW p \in stayed' PROVE fg' = fg
    <3>1. proc[p].group = fg /\ proc'[p].group = fg'
      BY <2>1 DEF IInv, StayedInv, InForeground
    <3> QED
      BY <3>1 DEF Evolves
  <2> QED
    BY <1>1, <1>2, <2>1, <2>2 DEF IInv, StayedInv
<1> QED
  BY <1>5, <1>6, <1>7, <1>10, <1>11, <1>12, <1>13, <1>14 DEF IInv
----------------------------------------------------------------------------
(* The reads.                                                              *)

LEMMA StatOfLive ==
  ASSUME TypeOK, NEW p \in Pid, Live(p)
  PROVE  /\ proc[p] \in Process /\ StatOf(p) \in Stat
         /\ StatOf(p).start = proc[p].start /\ StatOf(p).here = proc[p].here
         /\ StatOf(p).group = proc[p].group /\ (proc[p].here => StatOf(p).fg = fg)
<1>1. proc[p] \in Process /\ fg \in Pid
  BY DEF TypeOK, Live
<1> QED
  BY <1>1 DEF StatOf, Stat, Process

LEMMA RootIsPid == Root \in Pid
  BY LastIsPositive DEF Root, Pid

LEMMA ReadingIsPid ==
  ASSUME TypeOK, Control, pc \in {"stat"} \cup OfOneProcess
  PROVE  Reading \in todo /\ Reading \in Pid
  BY NextOfIsOne DEF TypeOK, Control, Reading

LEMMA TtyKeeps == ASSUME IInv, Tty PROVE IInv'
<1> USE DEF IInv, Tty, processes, history
<1> USE NextOfIsOne, LastIsPositive, NoneIsNoPid, MaxChangesIsNat
<1>1. TypeOK'
  BY DEF TypeOK, Reads, Stat, Partial, Observed, Process, StatOf, With, Nowhere, Live, Reading
<1>2. Control'
  BY DEF Control, PaneKnown, Inside, Stat, StatOf, Process, Live, Partial, Exe, Nowhere, OfOneProcess, Reading, TypeOK, Idle
<1>3. ToolsControl'
  BY DEF ToolsControl, Over, Idle, Members, Nowhere, SameTools, Control, Inside, TypeOK
<1>4. Stamps'
  BY DEF Stamps, PaneKnown, OfOneProcess, StatOf, With, Reading, Live, Control, Nowhere, TypeOK
<1>5. Known'
  BY DEF Known, Members, OfOneProcess, Reading, Nowhere, IsStill, StatOf, Live, Control, GroupAfter, TypeOK, Process
<1>6. Enclosed'
  BY DEF Enclosed, Inside, Members, OfOneProcess, Reading, WasThen, IsStill, Control, Nowhere, Known
<1>7. PaneInv'
  BY DEF PaneInv, PaneKnown, Inside, Over, Members, AsBefore, IsStill, StatOf, Control, Live, Nowhere, SameProcess, Stamps
<1>8. RecordsInv'
  BY DEF RecordsInv, Inside, Control, ToolsControl, Over, Nowhere
<1>9. StayedInv'
  BY DEF StayedInv, PaneKnown, Members, OfOneProcess, Control, InForeground, Live, Nowhere, StatOf, Inside
<1> QED
  BY <1>1, <1>2, <1>3, <1>4, <1>5, <1>6, <1>7, <1>8, <1>9

LEMMA ReadPaneKeeps == ASSUME IInv, ReadPane PROVE IInv'
<1> USE DEF IInv, ReadPane, processes, history
<1> USE NextOfIsOne, LastIsPositive, NoneIsNoPid, MaxChangesIsNat
<1>a. Live(Root) /\ pane' \in Stat /\ pane'.start = proc[Root].start /\ pane'.here = proc[Root].here
      /\ (pane'.here => pane'.fg = fg) /\ proc[Root] # None /\ (pass = 2 => pane' = pane)
  BY StatOfLive, RootIsPid DEF SameProcess, Live
<1>1. TypeOK'
  BY <1>a DEF TypeOK, Reads, Nowhere
<1>2. Control'
  BY <1>a DEF Control, PaneKnown, Inside, OfOneProcess
<1>3. ToolsControl'
  BY DEF ToolsControl, Over, Idle, Members, Nowhere, SameTools, Control, Inside, TypeOK
<1>4. Stamps'
  BY <1>a, RootIsPid DEF Stamps, PaneKnown, OfOneProcess
<1>5. Known'
  BY DEF Known, Members, OfOneProcess, Reading, Nowhere, IsStill, StatOf, Live, Control, GroupAfter, TypeOK, Process
<1>6. Enclosed'
  <2> SUFFICES ASSUME pass = 2, NEW p \in Members
               PROVE  LET start == seen[1][p].stat.start IN
                      IsStill(p, start) => /\ Onward(p, AsSeen(seen[1][p]), proc[p])
                                           /\ Onward(p, proc[p], proc[p])
    BY DEF Enclosed, Inside, Members, WasThen, IsStill, Control, Nowhere, OfOneProcess
  <2>1. p \in Pid
    BY DEF TypeOK, Members
  <2>2. proc[p] # None => proc[p].argv \in Nat
    BY <2>1 DEF TypeOK, Process
  <2> QED
    BY <2>2, GroupsMoveOn DEF Known, Onward, IsStill
<1>7. PaneInv'
  BY DEF PaneInv, PaneKnown, Inside, Over, Members, AsBefore, IsStill, StatOf, Control, Live, Nowhere, SameProcess, Stamps
<1>8. RecordsInv'
  BY DEF RecordsInv, Inside, Control, ToolsControl, Over, Nowhere
<1>9. StayedInv'
  BY <1>a DEF StayedInv, PaneKnown, OfOneProcess, InForeground, Live, Nowhere, Members
<1> QED
  BY <1>1, <1>2, <1>3, <1>4, <1>5, <1>6, <1>7, <1>8, <1>9

LEMMA EnumerateKeeps == ASSUME IInv, Enumerate PROVE IInv'
<1> USE DEF IInv, Enumerate, processes, history
<1> USE NextOfIsOne, LastIsPositive, NoneIsNoPid, MaxChangesIsNat
<1>a. NextOf(todo) \in todo /\ NextOf(todo) \in Pid
  BY DEF TypeOK
<1>b. changes \in Nat /\ changes' \in Nat /\ changes <= changes'
  BY DEF TypeOK
<1>1. TypeOK'
  BY DEF TypeOK, Reads, Stat, Partial, Observed, Process, StatOf, With, Nowhere, Live, Reading
<1>2. Control'
  BY DEF Control, PaneKnown, Inside, Stat, StatOf, Process, Live, Partial, Exe, Nowhere, OfOneProcess, Reading, TypeOK, Idle
<1>3. ToolsControl'
  BY DEF ToolsControl, Over, Idle, Members, Nowhere, SameTools, Control, Inside, TypeOK
<1>4. Stamps'
  <2>1. \A p \in Pid : proc[p] # None =>
          proc[p].start \in Nat /\ proc[p].argv \in Nat /\ proc[p].records \in Nat
    BY DEF TypeOK, Process
  <2>2. pane.start \in Nat
    BY DEF Control, PaneKnown, Stat
  <2>3. \A n \in 1 .. 2 : \A p \in DOMAIN seen[n] :
          seen[n][p].stat.start \in Nat /\ seen[n][p].argv \in Nat
    BY DEF TypeOK, Observed, Stat
  <2> QED
    BY <1>b, <2>1, <2>2, <2>3 DEF Stamps, PaneKnown, OfOneProcess
<1>5. Known'
  BY DEF Known, Members, OfOneProcess, Reading, Nowhere, IsStill, StatOf, Live, Control, GroupAfter, TypeOK, Process
<1>6. Enclosed'
  BY DEF Enclosed, Inside, Members, OfOneProcess, Reading, WasThen, IsStill, Control, Nowhere, Known
<1>7. PaneInv'
  BY DEF PaneInv, PaneKnown, Inside, Over, Members, AsBefore, IsStill, StatOf, Control, Live, Nowhere, SameProcess, Stamps
<1>8. RecordsInv'
  BY DEF RecordsInv, Inside, Control, ToolsControl, Over, Nowhere
<1>9. StayedInv'
  <2> DEFINE p == NextOf(todo)
  <2>1. stayed' \subseteq stayed /\ UNCHANGED <<pc, pass, pane, proc, fg, seen>>
    OBVIOUS
  <2>2. ASSUME pane.here, pass = 1, NEW q \in stayed' \ todo'
        PROVE  q \in DOMAIN listed' /\ listed'[q].here /\ listed'[q].group = fg
    <3>1. InForeground(q) /\ q \in Pid /\ Live(q)
      BY <2>1, <2>2 DEF StayedInv, InForeground
    <3>2. CASE q = p
      <4>1. listed' = With(listed, p, StatOf(p))
        BY <2>2, <3>1, <3>2
      <4>2. StatOf(p).here /\ StatOf(p).group = fg
        BY <3>1, <3>2, StatOfLive DEF InForeground
      <4> QED
        BY <3>2, <4>1, <4>2 DEF With
    <3>3. CASE q # p
      <4>1. q \in DOMAIN listed /\ listed[q].here /\ listed[q].group = fg
        BY <2>1, <2>2, <3>3 DEF StayedInv, PaneKnown
      <4>2. listed' = listed \/ listed' = With(listed, p, StatOf(p))
        OBVIOUS
      <4> QED
        BY <3>3, <4>1, <4>2 DEF With
    <3> QED
      BY <3>2, <3>3
  <2> QED
    BY <2>1, <2>2 DEF StayedInv, PaneKnown, InForeground, Live, OfOneProcess, Members
<1> QED
  BY <1>1, <1>2, <1>3, <1>4, <1>5, <1>6, <1>7, <1>8, <1>9

LEMMA SelectKeeps == ASSUME IInv, Select PROVE IInv'
<1> USE DEF IInv, Select, Unavailable, processes, history
<1> USE NextOfIsOne, LastIsPositive, NoneIsNoPid, MaxChangesIsNat
<1> DEFINE members == SelectForeground(pane, listed)
<1>a. members \subseteq Pid /\ (members # {} => members = GroupOf(pane, listed))
  BY DEF SelectForeground, GroupOf, TypeOK
<1>1. TypeOK'
  BY <1>a DEF TypeOK, Reads, Nowhere
<1>2. Control'
  BY DEF Control, PaneKnown, Inside, Stat, StatOf, Process, Live, Partial, Exe, Nowhere, OfOneProcess, Reading, TypeOK, Idle
<1>3. ToolsControl'
  BY DEF ToolsControl, Over, Idle, Members, Nowhere, SameTools, Control, Inside, TypeOK
<1>4. Stamps'
  BY DEF Stamps, PaneKnown, OfOneProcess, StatOf, With, Reading, Live, Control, Nowhere, TypeOK
<1>5. Known'
  BY DEF Known, Members, OfOneProcess, Reading, Nowhere, IsStill, StatOf, Live, Control, GroupAfter, TypeOK, Process
<1>6. Enclosed'
  BY DEF Enclosed, Inside, Members, OfOneProcess, Reading, WasThen, IsStill, Control, Nowhere, Known
<1>7. PaneInv'
  BY DEF PaneInv, PaneKnown, Inside, Over, Members, AsBefore, IsStill, StatOf, Control, Live, Nowhere, SameProcess, Stamps
<1>8. RecordsInv'
  BY DEF RecordsInv, Inside, Control, ToolsControl, Over, Nowhere
<1>9. StayedInv'
  <2>1. CASE members # {}
    <3>1. pc' = "stat" /\ todo' = members /\ UNCHANGED <<pass, pane, seen, proc, fg, stayed>>
      BY <2>1
    <3>2. ASSUME pane.here, pass = 1, NEW p \in stayed PROVE p \in members
      <4>1. p \in DOMAIN listed /\ listed[p].here /\ listed[p].group = fg /\ pane.fg = fg
        BY <3>2 DEF StayedInv, PaneKnown
      <4>2. listed[p].here \in BOOLEAN /\ pane.here \in BOOLEAN
        BY <4>1 DEF TypeOK, Control, PaneKnown, Stat
      <4> QED
        BY <1>a, <2>1, <3>2, <4>1, <4>2 DEF GroupOf
    <3> HIDE DEF members
    <3> QED
      BY <3>1, <3>2 DEF StayedInv, PaneKnown, InForeground, Live, OfOneProcess, Members
  <2>2. CASE members = {}
    BY <2>2 DEF StayedInv, PaneKnown, InForeground, Live
  <2> QED
    BY <2>1, <2>2
<1> QED
  BY <1>1, <1>2, <1>3, <1>4, <1>5, <1>6, <1>7, <1>8, <1>9

LEMMA ReadStatKeeps == ASSUME IInv, ReadStat PROVE IInv'
<1> USE DEF IInv, ReadStat, ReadOn, processes, history
<1> USE NextOfIsOne, LastIsPositive, NoneIsNoPid, MaxChangesIsNat
<1>a. /\ Reading \in Pid /\ Live(Reading) /\ StatOf(Reading) \in Stat
      /\ StatOf(Reading).start = proc[Reading].start /\ StatOf(Reading).group = proc[Reading].group
  BY ReadingIsPid, StatOfLive
<1>1. TypeOK'
  BY <1>a DEF TypeOK, Reads, Partial
<1>2. Control'
  BY DEF Control, PaneKnown, Inside, Stat, StatOf, Process, Live, Partial, Exe, Nowhere, OfOneProcess, Reading, TypeOK, Idle
<1>3. ToolsControl'
  BY DEF ToolsControl, Over, Idle, Members, Nowhere, SameTools, Control, Inside, TypeOK
<1>4. Stamps'
  BY DEF Stamps, PaneKnown, OfOneProcess, StatOf, With, Reading, Live, Control, Nowhere, TypeOK
<1>5. Known'
  BY DEF Known, Members, OfOneProcess, Reading, Nowhere, IsStill, StatOf, Live, Control, GroupAfter, TypeOK, Process
<1>6. Enclosed'
  <2>1. once'.stat = StatOf(Reading) /\ pc' = "exe" /\ Reading' = Reading
    BY DEF Reading
  <2>2. UNCHANGED <<pass, seen, proc, between>>
    OBVIOUS
  <2>3. ASSUME Inside, NEW p \in Members, IsStill(p, seen[1][p].stat.start)
        PROVE  GroupAfter(p, between.proc[p].group, proc[p].group)
    BY <2>3 DEF Enclosed, Onward
  <2> QED
    BY <1>a, <2>1, <2>2, <2>3 DEF Enclosed, Inside, Members, WasThen, IsStill
<1>7. PaneInv'
  BY DEF PaneInv, PaneKnown, Inside, Over, Members, AsBefore, IsStill, StatOf, Control, Live, Nowhere, SameProcess, Stamps
<1>8. RecordsInv'
  BY DEF RecordsInv, Inside, Control, ToolsControl, Over, Nowhere
<1>9. StayedInv'
  BY DEF StayedInv, PaneKnown, Members, OfOneProcess, Control, InForeground, Live, Nowhere, StatOf, Inside
<1> QED
  BY <1>1, <1>2, <1>3, <1>4, <1>5, <1>6, <1>7, <1>8, <1>9

LEMMA ReadExeKeeps == ASSUME IInv, ReadExe PROVE IInv'
<1> USE DEF IInv, ReadExe, ReadOn, processes, history
<1> USE NextOfIsOne, LastIsPositive, NoneIsNoPid, MaxChangesIsNat
<1>1. TypeOK'
  <2>1. Reading \in Pid /\ proc[Reading] \in Process /\ once \in Partial
    BY ReadingIsPid, StatOfLive DEF OfOneProcess, Control
  <2>2. [once EXCEPT !.exe = proc[Reading].exe] \in Partial
    BY <2>1 DEF Partial, Process
  <2> QED
    BY <2>2 DEF TypeOK, Reads
<1>2. Control'
  BY DEF Control, PaneKnown, Inside, Stat, StatOf, Process, Live, Partial, Exe, Nowhere, OfOneProcess, Reading, TypeOK, Idle
<1>3. ToolsControl'
  BY DEF ToolsControl, Over, Idle, Members, Nowhere, SameTools, Control, Inside, TypeOK
<1>4. Stamps'
  BY DEF Stamps, PaneKnown, OfOneProcess, StatOf, With, Reading, Live, Control, Nowhere, TypeOK
<1>5. Known'
  BY DEF Known, Members, OfOneProcess, Reading, Nowhere, IsStill, StatOf, Live, Control, GroupAfter, TypeOK, Process
<1>6. Enclosed'
  BY DEF Enclosed, Inside, Members, OfOneProcess, Reading, WasThen, IsStill, Control, Nowhere, Known
<1>7. PaneInv'
  BY DEF PaneInv, PaneKnown, Inside, Over, Members, AsBefore, IsStill, StatOf, Control, Live, Nowhere, SameProcess, Stamps
<1>8. RecordsInv'
  BY DEF RecordsInv, Inside, Control, ToolsControl, Over, Nowhere
<1>9. StayedInv'
  BY DEF StayedInv, PaneKnown, Members, OfOneProcess, Control, InForeground, Live, Nowhere, StatOf, Inside
<1> QED
  BY <1>1, <1>2, <1>3, <1>4, <1>5, <1>6, <1>7, <1>8, <1>9

LEMMA ReadArgvKeeps == ASSUME IInv, ReadArgv PROVE IInv'
<1> USE DEF IInv, ReadArgv, ReadOn, processes, history
<1> USE NextOfIsOne, LastIsPositive, NoneIsNoPid, MaxChangesIsNat
<1>a. /\ Reading \in Pid /\ proc[Reading] \in Process /\ once \in Partial /\ Reading' = Reading
      /\ once' \in Partial /\ once'.stat = once.stat /\ once'.argv = proc[Reading].argv
  <2>1. Reading \in Pid /\ proc[Reading] \in Process /\ once \in Partial
    BY ReadingIsPid, StatOfLive DEF OfOneProcess, Control
  <2> QED
    BY <2>1 DEF Partial, Process, Reading
<1>1. TypeOK'
  BY <1>a DEF TypeOK, Reads
<1>2. Control'
  BY DEF Control, PaneKnown, Inside, Stat, StatOf, Process, Live, Partial, Exe, Nowhere, OfOneProcess, Reading, TypeOK, Idle
<1>3. ToolsControl'
  BY DEF ToolsControl, Over, Idle, Members, Nowhere, SameTools, Control, Inside, TypeOK
<1>4. Stamps'
  BY DEF Stamps, PaneKnown, OfOneProcess, StatOf, With, Reading, Live, Control, Nowhere, TypeOK
<1>5. Known'
  BY DEF Known, Members, OfOneProcess, Reading, Nowhere, IsStill, StatOf, Live, Control, GroupAfter, TypeOK, Process
<1>6. Enclosed'
  <2>1. pc' = "exeAgain" /\ UNCHANGED <<pass, seen, proc, between>>
    OBVIOUS
  <2>2. ASSUME Inside, NEW p \in Members, IsStill(p, seen[1][p].stat.start)
        PROVE  between.proc[p].argv <= proc[p].argv
    BY <2>2 DEF Enclosed, Onward
  <2> QED
    BY <1>a, <2>1, <2>2 DEF Enclosed, Inside, Members, WasThen, IsStill, OfOneProcess
<1>7. PaneInv'
  BY DEF PaneInv, PaneKnown, Inside, Over, Members, AsBefore, IsStill, StatOf, Control, Live, Nowhere, SameProcess, Stamps
<1>8. RecordsInv'
  BY DEF RecordsInv, Inside, Control, ToolsControl, Over, Nowhere
<1>9. StayedInv'
  BY DEF StayedInv, PaneKnown, Members, OfOneProcess, Control, InForeground, Live, Nowhere, StatOf, Inside
<1> QED
  BY <1>1, <1>2, <1>3, <1>4, <1>5, <1>6, <1>7, <1>8, <1>9

LEMMA ReadExeAgainKeeps == ASSUME IInv, ReadExeAgain PROVE IInv'
<1> USE DEF IInv, ReadExeAgain, ReadOn, processes, history
<1> USE NextOfIsOne, LastIsPositive, NoneIsNoPid, MaxChangesIsNat
<1>1. TypeOK'
  BY DEF TypeOK, Reads, Stat, Partial, Observed, Process, StatOf, With, Nowhere, Live, Reading
<1>2. Control'
  BY DEF Control, PaneKnown, Inside, Stat, StatOf, Process, Live, Partial, Exe, Nowhere, OfOneProcess, Reading, TypeOK, Idle
<1>3. ToolsControl'
  BY DEF ToolsControl, Over, Idle, Members, Nowhere, SameTools, Control, Inside, TypeOK
<1>4. Stamps'
  BY DEF Stamps, PaneKnown, OfOneProcess, StatOf, With, Reading, Live, Control, Nowhere, TypeOK
<1>5. Known'
  BY DEF Known, Members, OfOneProcess, Reading, Nowhere, IsStill, StatOf, Live, Control, GroupAfter, TypeOK, Process
<1>6. Enclosed'
  BY DEF Enclosed, Inside, Members, OfOneProcess, Reading, WasThen, IsStill, Control, Nowhere, Known
<1>7. PaneInv'
  BY DEF PaneInv, PaneKnown, Inside, Over, Members, AsBefore, IsStill, StatOf, Control, Live, Nowhere, SameProcess, Stamps
<1>8. RecordsInv'
  BY DEF RecordsInv, Inside, Control, ToolsControl, Over, Nowhere
<1>9. StayedInv'
  BY DEF StayedInv, PaneKnown, Members, OfOneProcess, Control, InForeground, Live, Nowhere, StatOf, Inside
<1> QED
  BY <1>1, <1>2, <1>3, <1>4, <1>5, <1>6, <1>7, <1>8, <1>9

LEMMA ReadStatAgainKeeps == ASSUME IInv, ReadStatAgain PROVE IInv'
<1> USE DEF IInv, ReadStatAgain, processes, history
<1> USE NextOfIsOne, LastIsPositive, NoneIsNoPid, MaxChangesIsNat
<1>a. /\ Reading \in todo /\ Reading \in Pid /\ Live(Reading) /\ proc[Reading] \in Process
      /\ once.stat = StatOf(Reading) /\ once.stat.start = proc[Reading].start
      /\ IsStill(Reading, once.stat.start) /\ pc \in OfOneProcess
  BY ReadingIsPid, StatOfLive DEF OfOneProcess, SameProcess, IsStill, Live
<1>b. once \in Observed
  BY DEF Control, OfOneProcess, Partial, Observed
<1>c. /\ once' = None /\ pc' \in {"stat", "paneAgain"}
      /\ UNCHANGED <<pass, pane, tools, result, proc, fg, changes, between, stayed>>
  OBVIOUS
<1>d. \/ seen' = seen /\ todo' = todo /\ pc' = "stat"
      \/ /\ seen' = [seen EXCEPT ![pass] = With(@, Reading, once)]
         /\ todo' = todo \ {Reading}
  OBVIOUS
<1>e. ASSUME seen' # seen
      PROVE  /\ seen'[pass] = With(seen[pass], Reading, once)
             /\ \A n \in 1 .. 2 : n # pass => seen'[n] = seen[n]
  BY <1>d, <1>e DEF Control, TypeOK
<1>1. TypeOK'
  <2>1. \A n \in 1 .. 2 : /\ DOMAIN seen'[n] \subseteq Pid
                          /\ \A p \in DOMAIN seen'[n] : seen'[n][p] \in Observed
    <3>1. CASE seen' = seen
      BY <3>1 DEF TypeOK
    <3>2. CASE seen' # seen
      BY <1>a, <1>b, <1>e, <3>2 DEF TypeOK, With
    <3> QED
      BY <3>1, <3>2
  <2>2. todo' \subseteq Pid /\ first' \in Observed \cup {None}
    BY <1>b, <1>d DEF TypeOK
  <2> QED
    BY <1>c, <2>1, <2>2 DEF TypeOK, Reads
<1>2. Control'
  BY DEF Control, PaneKnown, Inside, Stat, StatOf, Process, Live, Partial, Exe, Nowhere, OfOneProcess, Reading, TypeOK, Idle
<1>3. ToolsControl'
  BY DEF ToolsControl, Over, Idle, Members, Nowhere, SameTools, Control, Inside, TypeOK
<1>4. Stamps'
  BY DEF Stamps, PaneKnown, OfOneProcess, StatOf, With, Reading, Live, Control, Nowhere, TypeOK
<1>5. Known'
  <2>1. Onward(Reading, AsSeen(once), proc[Reading])
    BY <1>a DEF Known, Onward, AsSeen
  <2>2. CASE seen' = seen
    BY <1>c, <2>2 DEF Known, OfOneProcess, Members, IsStill
  <2>3. CASE seen' # seen /\ pass = 1
    <3>1. ASSUME NEW p \in Members', IsStill(p, seen'[1][p].stat.start)
          PROVE  Onward(p, AsSeen(seen'[1][p]), proc[p])
      BY <1>e, <2>1, <2>3, <3>1 DEF Known, Members, With
    <3> QED
      BY <1>c, <3>1 DEF Known, OfOneProcess, IsStill
  <2>4. CASE seen' # seen /\ pass = 2
    BY <1>c, <1>e, <2>4 DEF Known, OfOneProcess, Members, IsStill
  <2> QED
    BY <2>2, <2>3, <2>4 DEF TypeOK
<1>6. Enclosed'
  <2> SUFFICES ASSUME Inside, NEW p \in Members
               PROVE  LET start == seen[1][p].stat.start  was == between.proc[p] IN
                      p \in DOMAIN seen'[2] /\ seen'[2][p].stat.start = start =>
                        /\ WasThen(p, start)
                        /\ was.here = seen'[2][p].stat.here
                        /\ GroupAfter(p, was.group, seen'[2][p].stat.group)
                        /\ was.argv <= seen'[2][p].argv
    <3>1. Inside' => Inside /\ seen'[1] = seen[1]
      BY <1>c, <1>e DEF Inside
    <3> QED
      BY <1>c, <3>1 DEF Enclosed, Inside, Members, OfOneProcess, WasThen, IsStill
  <2>1. CASE seen' = seen
    BY <2>1 DEF Enclosed
  <2>2. CASE seen' # seen
    <3>1. seen'[2] = With(seen[2], Reading, once)
      BY <1>e, <2>2 DEF Inside
    <3>2. CASE p # Reading
      <4>1. p \in DOMAIN seen'[2] => p \in DOMAIN seen[2] /\ seen'[2][p] = seen[2][p]
        BY <3>1, <3>2 DEF With
      <4> QED
        BY <4>1 DEF Enclosed
    <3>3. CASE p = Reading
      <4>1. seen'[2][p] = once
        BY <3>1, <3>3 DEF With
      <4> SUFFICES ASSUME once.stat.start = seen[1][p].stat.start
                   PROVE  /\ WasThen(p, once.stat.start)
                          /\ between.proc[p].here = once.stat.here
                          /\ GroupAfter(p, between.proc[p].group, once.stat.group)
                          /\ between.proc[p].argv <= once.argv
        BY <4>1
      <4>2. /\ WasThen(p, once.stat.start) /\ Onward(p, between.proc[p], proc[p])
            /\ GroupAfter(p, between.proc[p].group, once.stat.group)
            /\ between.proc[p].argv <= once.argv
        BY <1>a, <3>3 DEF Enclosed
      <4>3. once.stat.here = proc[p].here
        BY <1>a, <3>3 DEF Known
      <4> QED
        BY <4>2, <4>3 DEF Onward
    <3> QED
      BY <3>2, <3>3
  <2> QED
    BY <2>1, <2>2
<1>7. PaneInv'
  BY DEF PaneInv, PaneKnown, Inside, Over, Members, AsBefore, IsStill, StatOf, Control, Live, Nowhere, SameProcess, Stamps
<1>8. RecordsInv'
  BY DEF RecordsInv, Inside, Control, ToolsControl, Over, Nowhere
<1>9. StayedInv'
  <2>1. pass = 1 => todo \cup Members \subseteq todo' \cup Members'
    <3>1. CASE seen' = seen /\ todo' = todo
      BY <3>1 DEF Members
    <3>2. CASE /\ seen' = [seen EXCEPT ![pass] = With(@, Reading, once)]
               /\ todo' = todo \ {Reading}
      BY <3>2 DEF Members, With, Control
    <3> QED
      BY <1>d, <3>1, <3>2
  <2>2. pass = 2 => Members' = Members
    BY <1>e DEF Members
  <2>3. pc' = "paneAgain" => todo' = {}
    OBVIOUS
  <2> QED
    BY <1>c, <2>1, <2>2, <2>3 DEF StayedInv, PaneKnown, InForeground, Live, OfOneProcess, TypeOK
<1> QED
  BY <1>1, <1>2, <1>3, <1>4, <1>5, <1>6, <1>7, <1>8, <1>9

LEMMA ReadPaneAgainKeeps == ASSUME IInv, ReadPaneAgain PROVE IInv'
<1> USE DEF IInv, ReadPaneAgain, processes, history
<1> USE NextOfIsOne, LastIsPositive, NoneIsNoPid, MaxChangesIsNat
<1>1. TypeOK'
  BY DEF TypeOK, Reads, Stat, Partial, Observed, Process, StatOf, With, Nowhere, Live, Reading
<1>2. Control'
  BY DEF Control, PaneKnown, Inside, Stat, StatOf, Process, Live, Partial, Exe, Nowhere, OfOneProcess, Reading, TypeOK, Idle
<1>3. ToolsControl'
  BY DEF ToolsControl, Over, Idle, Members, Nowhere, SameTools, Control, Inside, TypeOK
<1>4. Stamps'
  BY DEF Stamps, PaneKnown, OfOneProcess, StatOf, With, Reading, Live, Control, Nowhere, TypeOK
<1>5. Known'
  BY DEF Known, Members, OfOneProcess, Reading, Nowhere, IsStill, StatOf, Live, Control, GroupAfter, TypeOK, Process
<1>6. Enclosed'
  BY DEF Enclosed, Inside, Members, OfOneProcess, Reading, WasThen, IsStill, Control, Nowhere, Known
<1>7. PaneInv'
  BY DEF PaneInv, PaneKnown, Inside, Over, Members, AsBefore, IsStill, StatOf, Control, Live, Nowhere, SameProcess, Stamps
<1>8. RecordsInv'
  BY DEF RecordsInv, Inside, Control, ToolsControl, Over, Nowhere
<1>9. StayedInv'
  BY DEF StayedInv, PaneKnown, Members, OfOneProcess, Control, InForeground, Live, Nowhere, StatOf, Inside
<1> QED
  BY <1>1, <1>2, <1>3, <1>4, <1>5, <1>6, <1>7, <1>8, <1>9

LEMMA EndOfPassKeeps == ASSUME IInv, EndOfPass PROVE IInv'
<1> USE DEF IInv, EndOfPass, processes, history
<1> USE NextOfIsOne, LastIsPositive, NoneIsNoPid, MaxChangesIsNat
<1>a. /\ Live(Root) /\ proc[Root].here /\ UNCHANGED <<pane, seen, tools, proc, fg, changes, between, stayed>>
      /\ Members' = Members /\ Idle' = Idle /\ pass \in 1 .. 2
      /\ pc' \in {"tools", "tty", "done"} /\ pass' \in 1 .. 2
      /\ Inside' => Inside /\ pass = 2 /\ pass' = 2
      /\ pass = 2 => AsBefore
  BY DEF Members, Idle, Inside, TypeOK
<1>1. TypeOK'
  <2>1. todo' \subseteq Pid
    BY DEF TypeOK, Members
  <2>2. result' \in {"none", "Idle", "Foreground", "Unavailable"}
    BY DEF TypeOK
  <2> QED
    BY <1>a, <2>1, <2>2 DEF TypeOK, Reads
<1>2. Control'
  BY DEF Control, PaneKnown, Inside, Stat, StatOf, Process, Live, Partial, Exe, Nowhere, OfOneProcess, Reading, TypeOK, Idle
<1>3. ToolsControl'
  BY DEF ToolsControl, Over, Idle, Members, Nowhere, SameTools, Control, Inside, TypeOK
<1>4. Stamps'
  BY DEF Stamps, PaneKnown, OfOneProcess, StatOf, With, Reading, Live, Control, Nowhere, TypeOK
<1>5. Known'
  BY DEF Known, Members, OfOneProcess, Reading, Nowhere, IsStill, StatOf, Live, Control, GroupAfter, TypeOK, Process
<1>6. Enclosed'
  BY <1>a DEF Enclosed, WasThen, IsStill, OfOneProcess
<1>7. PaneInv'
  <2>1. PaneKnown /\ pane \in Stat
    BY DEF PaneKnown, Control
  <2>2. IsStill(Root, pane.start) => pane.here
    BY <1>a, <2>1 DEF PaneInv
  <2>3. \A p \in DOMAIN seen[pass] : seen[pass][p].stat.group = pane.fg /\ seen[pass][p].stat.here = pane.here
    OBVIOUS
  <2>4. Inside' => pane.here /\ pane.fg = between.fg
    BY <1>a DEF PaneInv
  <2>5. ASSUME Over'
        PROVE  AsBefore /\ \A p \in Members : seen[1][p].stat.group = pane.fg /\ seen[1][p].stat.here
    <3>1. pass = 2 /\ pane.here
      BY <1>a, <2>4, <2>5 DEF Over, Inside
    <3>2. AsBefore
      BY <1>a, <3>1
    <3> QED
      BY <2>3, <3>1, <3>2 DEF AsBefore, SameProcess
  <2>6. AsBefore' = AsBefore
    BY <1>a DEF AsBefore
  <2>7. IsStill(Root, pane.start)' = IsStill(Root, pane.start)
    BY <1>a DEF IsStill
  <2> QED
    BY <1>a, <2>1, <2>2, <2>4, <2>5, <2>6, <2>7 DEF PaneInv
<1>8. RecordsInv'
  BY <1>a DEF RecordsInv
<1>9. StayedInv'
  BY <1>a DEF StayedInv, PaneKnown, InForeground, Live, OfOneProcess
<1> QED
  BY <1>1, <1>2, <1>3, <1>4, <1>5, <1>6, <1>7, <1>8, <1>9

LEMMA CollectToolsKeeps == ASSUME IInv, CollectTools PROVE IInv'
<1> DEFINE p == NextOf(todo)
<1>a. /\ todo # {}
      /\ \/ \E records \in {0, proc[p].records} :
               Live(p) /\ tools' = [tools EXCEPT ![pass] = With(@, p, records)] /\ todo' = todo \ {p}
         \/ tools' = [tools EXCEPT ![pass] = [q \in {None} |-> None]] /\ todo' = {}
  BY DEF CollectTools
<1> USE DEF IInv, CollectTools, processes, history
<1> USE NextOfIsOne, LastIsPositive, NoneIsNoPid, MaxChangesIsNat
<1>b. /\ p \in todo /\ p \in Pid /\ p # None /\ pass \in 1 .. 2
      /\ UNCHANGED <<pc, pass, pane, once, first, seen, result, proc, fg, changes, between, stayed>>
  BY <1>a DEF TypeOK, Pid
<1>c. /\ Members' = Members /\ Idle' = Idle /\ SameTools' = (tools'[1] = tools'[2])
      /\ Inside' = Inside /\ Over' = Over
  BY <1>b DEF Members, Idle, SameTools, Inside, Over
\* What the collection of this pass becomes.
<1>d. /\ \A n \in 1 .. 2 : n # pass => tools'[n] = tools[n]
      /\ \/ \E records \in {0, proc[p].records} :
              Live(p) /\ tools'[pass] = With(tools[pass], p, records) /\ todo' = todo \ {p}
         \/ tools'[pass] = [q \in {None} |-> None] /\ todo' = {}
  BY <1>b, <1>a DEF Control
<1>1. TypeOK'
  <2>1. \A n \in 1 .. 2 : DOMAIN tools'[n] \subseteq Pid \cup {None}
    BY <1>b, <1>d DEF TypeOK, With
  <2>2. todo' \subseteq Pid
    BY <1>a DEF TypeOK
  <2> QED
    BY <1>b, <2>1, <2>2 DEF TypeOK
<1>2. Control'
  BY DEF Control, PaneKnown, Inside, Stat, StatOf, Process, Live, Partial, Exe, Nowhere, OfOneProcess, Reading, TypeOK, Idle
<1>3. ToolsControl'
  <2>1. \/ DOMAIN tools'[pass] = {None} /\ todo' = {}
        \/ DOMAIN tools'[pass] \cup todo' = Members
    <3>1. CASE tools'[pass] = [q \in {None} |-> None] /\ todo' = {}
      BY <3>1
    <3>2. CASE \E records \in {0, proc[p].records} :
                 tools'[pass] = With(tools[pass], p, records) /\ todo' = todo \ {p}
      <4>1. DOMAIN tools'[pass] = DOMAIN tools[pass] \cup {p}
        BY <3>2 DEF With
      <4>2. DOMAIN tools[pass] \cup todo = Members
        BY <1>b DEF ToolsControl
      <4> QED
        BY <1>b, <3>2, <4>1, <4>2
    <3> QED
      BY <1>d, <3>1, <3>2
  <2>2. result = "none"
    BY DEF Control, TypeOK
  <2>3. pass = 2 => tools'[1] = tools[1]
    BY <1>d
  <2>4. pass = 1 => tools'[2] = tools[2]
    BY <1>d
  <2> QED
    BY <1>b, <1>c, <2>1, <2>2, <2>3, <2>4 DEF ToolsControl, Over
<1>4. Stamps'
  <2>1. Live(p) => 0 \in 0 .. changes /\ proc[p].records \in 0 .. changes
    BY <1>b DEF Stamps, TypeOK, Process, Live
  <2>2. \A n \in 1 .. 2 : \A q \in DOMAIN tools'[n] : q # None => tools'[n][q] \in 0 .. changes
    BY <1>b, <1>d, <2>1 DEF Stamps, With
  <2> QED
    BY <1>b, <2>2 DEF Stamps, PaneKnown, OfOneProcess
<1>5. Known'
  BY DEF Known, Members, OfOneProcess, Reading, Nowhere, IsStill, StatOf, Live, Control, GroupAfter, TypeOK, Process
<1>6. Enclosed'
  BY DEF Enclosed, Inside, Members, OfOneProcess, Reading, WasThen, IsStill, Control, Nowhere, Known
<1>7. PaneInv'
  BY DEF PaneInv, PaneKnown, Inside, Over, Members, AsBefore, IsStill, StatOf, Control, Live, Nowhere, SameProcess, Stamps
<1>8. RecordsInv'
  <2> SUFFICES ASSUME Inside, NEW q \in DOMAIN tools[1] \ {None}, tools[1][q] # 0,
                      q \in DOMAIN tools'[2], tools'[2][q] = tools[1][q]
               PROVE  /\ between.proc[q] # None
                      /\ between.proc[q].records = tools[1][q]
    <3>1. Inside => tools'[1] = tools[1]
      BY <1>d DEF Inside
    <3> QED
      BY <1>b, <1>c, <3>1 DEF RecordsInv
  <2>1. pass = 2
    BY DEF Inside
  <2>2. CASE q \in DOMAIN tools[2] /\ tools[2][q] = tools[1][q]
    BY <2>2 DEF RecordsInv
  <2>3. CASE ~(q \in DOMAIN tools[2] /\ tools[2][q] = tools[1][q])
    <3>1. q = p /\ Live(p) /\ tools'[2][p] \in {0, proc[p].records}
      BY <1>d, <2>1, <2>3 DEF With
    <3> QED
      BY <3>1 DEF RecordsInv, Live
  <2> QED
    BY <2>2, <2>3
<1>9. StayedInv'
  BY DEF StayedInv, PaneKnown, Members, OfOneProcess, Control, InForeground, Live, Nowhere, StatOf, Inside
<1> QED
  BY <1>1, <1>2, <1>3, <1>4, <1>5, <1>6, <1>7, <1>8, <1>9

LEMMA AfterToolsKeeps == ASSUME IInv, AfterTools PROVE IInv'
<1> USE DEF IInv, AfterTools, Unavailable, processes, history
<1> USE NextOfIsOne, LastIsPositive, NoneIsNoPid, MaxChangesIsNat
<1>1. TypeOK'
  BY DEF TypeOK, Reads, Stat, Partial, Observed, Process, StatOf, With, Nowhere, Live, Reading
<1>2. Control'
  BY DEF Control, PaneKnown, Inside, Stat, StatOf, Process, Live, Partial, Exe, Nowhere, OfOneProcess, Reading, TypeOK, Idle
<1>3. ToolsControl'
  <2>1. /\ (~Idle /\ Members' = Members) \/ result' = "Unavailable"
        /\ DOMAIN tools[pass] = {None} \/ DOMAIN tools[pass] = Members
    BY DEF ToolsControl, Members
  <2>2. CASE pass = 1
    <3>1. Members' = Members /\ Idle' = Idle /\ result = "none"
      BY <2>2 DEF Members, Idle, Control, TypeOK
    <3> QED
      BY <2>1, <2>2, <3>1 DEF ToolsControl, Over
  <2>3. CASE pass = 2 /\ SameTools
    <3>1. Members' = Members /\ Idle' = Idle /\ SameTools' = SameTools
      BY <2>3 DEF Members, Idle, SameTools
    <3> QED
      BY <2>1, <2>3, <3>1 DEF ToolsControl, Over
  <2>4. CASE pass = 2 /\ ~SameTools
    BY <2>4 DEF ToolsControl, Over
  <2> QED
    BY <2>2, <2>3, <2>4 DEF TypeOK
<1>4. Stamps'
  BY DEF Stamps, PaneKnown, OfOneProcess, StatOf, With, Reading, Live, Control, Nowhere, TypeOK
<1>5. Known'
  BY DEF Known, Members, OfOneProcess, Reading, Nowhere, IsStill, StatOf, Live, Control, GroupAfter, TypeOK, Process
<1>6. Enclosed'
  BY DEF Enclosed, Inside, Members, OfOneProcess, Reading, WasThen, IsStill, Control, Nowhere, Known
<1>7. PaneInv'
  BY DEF PaneInv, PaneKnown, Inside, Over, Members, AsBefore, IsStill, StatOf, Control, Live, Nowhere, SameProcess, Stamps
<1>8. RecordsInv'
  BY DEF RecordsInv, Inside, Control, ToolsControl, Over, Nowhere
<1>9. StayedInv'
  BY DEF StayedInv, PaneKnown, Members, OfOneProcess, Control, InForeground, Live, Nowhere, StatOf, Inside
<1> QED
  BY <1>1, <1>2, <1>3, <1>4, <1>5, <1>6, <1>7, <1>8, <1>9

LEMMA ReadFailsKeeps == ASSUME IInv, ReadFails PROVE IInv'
<1> USE DEF IInv, ReadFails, Unavailable, processes, history
<1> USE NextOfIsOne, LastIsPositive, NoneIsNoPid, MaxChangesIsNat
<1>1. TypeOK'
  BY DEF TypeOK, Reads, Stat, Partial, Observed, Process, StatOf, With, Nowhere, Live, Reading
<1>2. Control'
  BY DEF Control, PaneKnown, Inside, Stat, StatOf, Process, Live, Partial, Exe, Nowhere, OfOneProcess, Reading, TypeOK, Idle
<1>3. ToolsControl'
  BY DEF ToolsControl, Over, Idle, Members, Nowhere, SameTools, Control, Inside, TypeOK
<1>4. Stamps'
  BY DEF Stamps, PaneKnown, OfOneProcess, StatOf, With, Reading, Live, Control, Nowhere, TypeOK
<1>5. Known'
  BY DEF Known, Members, OfOneProcess, Reading, Nowhere, IsStill, StatOf, Live, Control, GroupAfter, TypeOK, Process
<1>6. Enclosed'
  BY DEF Enclosed, Inside, Members, OfOneProcess, Reading, WasThen, IsStill, Control, Nowhere, Known
<1>7. PaneInv'
  BY DEF PaneInv, PaneKnown, Inside, Over, Members, AsBefore, IsStill, StatOf, Control, Live, Nowhere, SameProcess, Stamps
<1>8. RecordsInv'
  BY DEF RecordsInv, Inside, Control, ToolsControl, Over, Nowhere
<1>9. StayedInv'
  BY DEF StayedInv, PaneKnown, Members, OfOneProcess, Control, InForeground, Live, Nowhere, StatOf, Inside
<1> QED
  BY <1>1, <1>2, <1>3, <1>4, <1>5, <1>6, <1>7, <1>8, <1>9

LEMMA InitHolds == Init => IInv
<1> SUFFICES ASSUME Init PROVE IInv
  OBVIOUS
<1>1. /\ changes = 0 /\ 0 \in 0 .. MaxChanges /\ Root \in Pid
      /\ proc \in [Pid -> Process \cup {None}] /\ fg \in Pid
      /\ \A p \in Pid : proc[p] # None =>
           proc[p].start = 0 /\ proc[p].argv = 0 /\ proc[p].records = 0
  <2>1. Root \in Pid /\ (Last > 1 => 2 \in Pid) /\ 0 \in 0 .. MaxChanges
    BY LastIsPositive, MaxChangesIsNat DEF Root, Pid
  <2>2. PICK count \in 1 .. Last :
          proc = [p \in Pid |->
                   IF p > count THEN None
                   ELSE [start |-> 0, parent |-> IF p = Root THEN None ELSE p - 1,
                         group |-> IF p = Root THEN Root ELSE 2, here |-> TRUE,
                         exe |-> IF p = Root THEN "shell" ELSE "tool",
                         argv |-> 0, records |-> 0]]
    BY DEF Init
  <2>3. ASSUME NEW p \in Pid, p # Root PROVE p - 1 \in Pid /\ 2 \in Pid
    BY <2>3, LastIsPositive DEF Pid, Root
  <2>4. proc \in [Pid -> Process \cup {None}]
    BY <2>1, <2>2, <2>3 DEF Process, Exe
  <2>5. fg \in Pid
    BY <2>1 DEF Init
  <2> QED
    BY <2>1, <2>2, <2>4, <2>5 DEF Init
<1>2. TypeOK
  BY <1>1 DEF Init, TypeOK, Reads, Nowhere
<1>3. Control /\ ToolsControl
  BY DEF Init, Control, ToolsControl, OfOneProcess, PaneKnown, Inside, Over, Nowhere
<1>4. Stamps
  BY <1>1 DEF Init, Stamps, OfOneProcess, PaneKnown, Nowhere
<1>5. Known /\ Enclosed /\ PaneInv /\ RecordsInv
  BY DEF Init, Known, Enclosed, PaneInv, RecordsInv, OfOneProcess, PaneKnown, Inside, Over,
         Members, Nowhere
<1>6. StayedInv
  BY DEF Init, StayedInv, PaneKnown
<1> QED
  BY <1>2, <1>3, <1>4, <1>5, <1>6 DEF IInv

LEMMA NextHolds == IInv /\ [Next]_vars => IInv'
<1> SUFFICES ASSUME IInv, [Next]_vars PROVE IInv'
  OBVIOUS
<1>1. CASE UNCHANGED vars
  <2>1. UNCHANGED <<pc, pass, todo, pane, listed, once, first, seen, tools, result,
                    proc, fg, changes, between, stayed>>
    BY <1>1 DEF vars, inspection, processes, history
  <2>2. /\ Members' = Members /\ Reading' = Reading /\ Idle' = Idle /\ SameTools' = SameTools
        /\ PaneKnown' = PaneKnown /\ Inside' = Inside /\ Over' = Over /\ AsBefore' = AsBefore
        /\ \A p, start : WasThen(p, start)' = WasThen(p, start)
        /\ \A p, start : IsStill(p, start)' = IsStill(p, start)
        /\ \A p : InForeground(p)' = InForeground(p)
    BY <2>1 DEF Members, Reading, Idle, SameTools, PaneKnown, Inside, Over, AsBefore,
                WasThen, IsStill, InForeground, Live
  <2>3. TypeOK' /\ Control' /\ ToolsControl' /\ Stamps'
    BY <2>1, <2>2 DEF IInv, TypeOK, Control, ToolsControl, Stamps
  <2>4. Known' /\ Enclosed' /\ PaneInv' /\ RecordsInv' /\ StayedInv'
    BY <2>1, <2>2 DEF IInv, Known, Enclosed, PaneInv, RecordsInv, StayedInv
  <2> QED
    BY <2>3, <2>4 DEF IInv
<1>2. CASE Observe
  BY <1>2, TtyKeeps, ReadPaneKeeps, EnumerateKeeps, SelectKeeps, ReadStatKeeps, ReadExeKeeps,
     ReadArgvKeeps, ReadExeAgainKeeps, ReadStatAgainKeeps, ReadPaneAgainKeeps,
     EndOfPassKeeps, CollectToolsKeeps, AfterToolsKeeps, ReadFailsKeeps DEF Observe
<1>3. CASE Others
  BY <1>3, OthersEvolve, OthersKeep DEF IInv
<1> QED
  BY <1>1, <1>2, <1>3 DEF Next

\* The invariant holds of every reachable state.
THEOREM InvariantHolds == Spec => []IInv
  BY InitHolds, NextHolds, PTL DEF Spec
----------------------------------------------------------------------------
(* The properties.                                                         *)

\* The evidence LinuxProcessInspector::observe returns was all true when its
\* second observation began: what both observations read equal encloses that
\* moment, and nothing comes back once it has changed.
THEOREM EvidenceHoldsAtOneMoment == Spec => []EvidenceIsOfOneMoment
<1>1. IInv => EvidenceIsOfOneMoment
  <2> SUFFICES ASSUME IInv, result \in {"Idle", "Foreground"}, NEW p \in Members
               PROVE  LET was == between.proc[p] IN
                      /\ was # None
                      /\ was.here /\ was.group = between.fg
                      /\ was.start = seen[1][p].stat.start
                      /\ was.exe = seen[1][p].exe /\ was.argv = seen[1][p].argv
                      /\ result = "Foreground" /\ None \notin DOMAIN tools[1] =>
                           tools[1][p] \in {0, was.records}
    BY DEF EvidenceIsOfOneMoment
  <2> DEFINE was == between.proc[p]
             o == seen[1][p]
  <2>1. Inside /\ Over
    BY DEF IInv, Control, Inside, Over
  <2>2. /\ AsBefore /\ o.stat.group = between.fg /\ o.stat.here
    BY <2>1 DEF IInv, PaneInv
  <2>3. p \in DOMAIN seen[2] /\ seen[2][p].stat = o.stat /\ seen[2][p].argv = o.argv
    BY <2>2 DEF AsBefore, SameProcess
  <2>4. /\ WasThen(p, o.stat.start) /\ was.here = o.stat.here
        /\ GroupAfter(p, was.group, o.stat.group) /\ was.argv <= o.argv
    BY <2>1, <2>3 DEF IInv, Enclosed
  <2>5. Onward(p, AsSeen(o), was)
    BY <2>1, <2>4 DEF IInv, Enclosed
  <2>6. was.argv \in Nat /\ o.argv \in Nat
    BY <2>4 DEF IInv, TypeOK, WasThen, Members, Process, Observed
  <2>7. was.argv = o.argv /\ was.exe = o.exe /\ was.group = o.stat.group
    BY <2>4, <2>5, <2>6, GroupsMoveOn DEF Onward, AsSeen
  <2>8. ASSUME result = "Foreground", None \notin DOMAIN tools[1]
        PROVE  tools[1][p] \in {0, was.records}
    <3>1. p \in DOMAIN tools[1] /\ p # None /\ tools[2] = tools[1]
      BY <2>1, <2>8 DEF IInv, TypeOK, ToolsControl, Over, SameTools, Members
    <3> QED
      BY <2>1, <3>1 DEF IInv, RecordsInv
  <2> QED
    BY <2>2, <2>4, <2>7, <2>8 DEF WasThen
<1> QED
  BY <1>1, InvariantHolds, PTL

\* Whoever has the foreground all the time, and is not missed by a read of its
\* stat (select_foreground_processes), is in what observe returns.
THEOREM NobodyIsEverLeftOut == Spec => []NobodyIsLeftOut
<1>1. IInv => NobodyIsLeftOut
  <2> SUFFICES ASSUME IInv, result \in {"Idle", "Foreground"}
               PROVE  stayed \subseteq Members
    BY DEF NobodyIsLeftOut
  <2>1. Inside
    BY DEF IInv, Control, Inside
  <2> QED
    BY <2>1 DEF IInv, PaneInv, StayedInv, Inside
<1> QED
  BY <1>1, InvariantHolds, PTL
=============================================================================
