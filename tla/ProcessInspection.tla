------------------------- MODULE ProcessInspection -------------------------
(***************************************************************************)
(* LinuxProcessInspector::observe (src/src/process.rs): who has the        *)
(* foreground of a pane, read file by file from /proc.                     *)
(*                                                                         *)
(* An inspection observes the foreground process group twice, and the tool *)
(* session records of its members twice around the second observation, and *)
(* accepts what it read only if nothing differs.  Meanwhile processes      *)
(* start, exit, execute other programs, change groups, leave the           *)
(* foreground, switch sessions, and get each other's process ids.          *)
(***************************************************************************)
EXTENDS Naturals, FiniteSets

CONSTANTS
  Last,       \* process ids are 1 .. Last; the pane's own process is Root
  None,       \* no process, no value
  MaxChanges  \* bound: changes and failed reads during the inspection

ASSUME LastIsPositive == Last \in Nat \ {0}
ASSUME MaxChangesIsNat == MaxChanges \in Nat
ASSUME NoneIsNoPid == None \notin 1 .. Last

Pid == 1 .. Last
Root == 1
Exe == {"shell", "tool"}

\* A process as the kernel has it.  Start times, argument vectors and sets of
\* session records are named by the change that brought them about: during
\* one inspection no process goes back to arguments or records it has left.
\* A zombie counts as gone: every read of one is refused or filtered out.
Process == [start : 0 .. MaxChanges, parent : Pid \cup {None}, group : Pid,
            here : BOOLEAN, exe : Exe, argv : 0 .. MaxChanges,
            records : 0 .. MaxChanges]

\* What a stat file says; `here` stands for the pane's tty and session, `fg`
\* is the foreground process group of the process's terminal.
Stat == [start : 0 .. MaxChanges, parent : Pid \cup {None}, group : Pid,
         here : BOOLEAN, fg : Pid]

\* InspectedProcess
Observed == [stat : Stat, exe : Exe, argv : 0 .. MaxChanges]
Partial == [stat : Stat, exe : Exe \cup {None}, argv : 0 .. MaxChanges \cup {None}]

VARIABLES
  pc,       \* the next read
  pass,     \* the first or the second observation of the group
  todo,     \* processes still to be read in this phase
  pane,     \* the pane process's stat that later ones must equal
  listed,   \* stats of the processes enumerated so far
  once,     \* the read of one process under way
  first,    \* the first read of that process
  seen,     \* seen[n][p]: process p as observed in pass n
  tools,    \* tools[n][p]: p's session records, collected the n-th time
  result,   \* PaneProcessObservation
  proc,     \* proc[p]: the process with id p
  fg,       \* the foreground process group of the pane's terminal
  changes,  \* changes and failed reads so far
  between,  \* history: the processes when the second observation began
  stayed    \* history: the group's members all along, no read of them failing

inspection == <<pc, pass, todo, pane, listed, once, first, seen, tools, result>>
processes == <<proc, fg, changes>>
history == <<between, stayed>>
vars == <<inspection, processes, history>>

Reads == {"tty", "pane", "list", "stat", "exe", "argv", "exeAgain",
          "statAgain", "paneAgain", "ttyAgain", "tools"}
Nowhere == [p \in {} |-> None]
PartialFunctions(S, T) == UNION {[D -> T] : D \in SUBSET S}

TypeOK ==
  /\ pc \in Reads \cup {"done"} /\ pass \in 1 .. 2 /\ todo \subseteq Pid
  /\ pane \in Stat \cup {None}
  /\ DOMAIN listed \subseteq Pid /\ \A p \in DOMAIN listed : listed[p] \in Stat
  /\ once \in Partial \cup {None} /\ first \in Observed \cup {None}
  /\ \A n \in 1 .. 2 :
       /\ DOMAIN seen[n] \subseteq Pid
       /\ \A p \in DOMAIN seen[n] : seen[n][p] \in Observed
       /\ DOMAIN tools[n] \subseteq Pid \cup {None}
  /\ result \in {"none", "Idle", "Foreground", "Unavailable"}
  /\ proc \in [Pid -> Process \cup {None}] /\ fg \in Pid
  /\ changes \in 0 .. MaxChanges
  /\ between.proc \in [Pid -> Process \cup {None}] /\ between.fg \in Pid
  /\ stayed \subseteq Pid

Live(p) == proc[p] # None
InForeground(p) == Live(p) /\ proc[p].here /\ proc[p].group = fg

\* A shell at its prompt, or a tool it started with or without a helper.
Init ==
  /\ pc = "tty" /\ pass = 1 /\ todo = {} /\ pane = None /\ listed = Nowhere
  /\ once = None /\ first = None /\ result = "none"
  /\ seen = [n \in 1 .. 2 |-> Nowhere] /\ tools = [n \in 1 .. 2 |-> Nowhere]
  /\ changes = 0
  /\ \E count \in 1 .. Last :
       proc = [p \in Pid |->
                IF p > count THEN None
                ELSE [start |-> 0, parent |-> IF p = Root THEN None ELSE p - 1,
                      group |-> IF p = Root THEN Root ELSE 2, here |-> TRUE,
                      exe |-> IF p = Root THEN "shell" ELSE "tool",
                      argv |-> 0, records |-> 0]]
  /\ fg = IF Last > 1 /\ Live(2) THEN 2 ELSE Root
  /\ between = [proc |-> proc, fg |-> fg]
  /\ stayed = {p \in Pid : InForeground(p)}
----------------------------------------------------------------------------
(* Reading.                                                                *)

StatOf(p) == [start |-> proc[p].start, parent |-> proc[p].parent,
              group |-> proc[p].group, here |-> proc[p].here,
              fg |-> IF proc[p].here THEN fg ELSE proc[p].group]

\* Wrong form: the start time is not compared.
SameProcessIgnoringStart(a, b) == [a EXCEPT !.start = 0] = [b EXCEPT !.start = 0]

\* same_process_identity_and_job
SameProcess(a, b) == a = b

\* q descends from the leader through members of the group.
Descends(q, leader, group, stats) ==
  \A X \in SUBSET (group \ {leader}) :
    q \in X => \E r \in X : stats[r].parent \in group \ X

GroupOf(p, stats) ==
  {q \in DOMAIN stats : stats[q].group = p.fg /\ stats[q].here = p.here}

\* Wrong form: members that do not descend from the leader are left out.
SelectDescendants(p, stats) ==
  {q \in GroupOf(p, stats) :
     p.fg \in DOMAIN stats /\ Descends(q, p.fg, GroupOf(p, stats), stats)}

\* select_foreground_processes: the foreground group of the pane process, or
\* nobody if its leader is gone or it is not one job of the leader.
SelectForeground(p, stats) ==
  LET group == GroupOf(p, stats) IN
  IF p.fg \in group /\ \A q \in group \ {p.fg} : Descends(q, p.fg, group, stats)
  THEN group ELSE {}

\* Which of the processes still to be read is next: they are sorted by id.
NextOf(S) == CHOOSE p \in S : \A q \in S : p <= q

\* Whatever was read is forgotten.
Unavailable ==
  /\ pc' = "done" /\ result' = "Unavailable"
  /\ pass' = 1 /\ todo' = {} /\ pane' = None /\ listed' = Nowhere
  /\ once' = None /\ first' = None
  /\ seen' = [n \in 1 .. 2 |-> Nowhere] /\ tools' = seen'
  /\ UNCHANGED <<processes, history>>

\* Any read may fail, or not be what it has to be, and then nothing is known
\* of the pane; session records that cannot be read are another matter.
ReadFails == pc \notin {"done", "tools"} /\ Unavailable

Tty ==
  /\ pc = "tty"
  /\ Live(Root) /\ proc[Root].here
  /\ pc' = "pane"
  /\ UNCHANGED <<pass, todo, pane, listed, once, first, seen, tools, result,
                 processes, history>>

\* The first stat of the pane process; in the second pass it must equal the
\* one the first pass ended with.
ReadPane ==
  /\ pc = "pane"
  /\ Live(Root) /\ (pass = 2 => SameProcess(pane, StatOf(Root)))
  /\ pane' = StatOf(Root)
  /\ pc' = "list" /\ todo' = Pid /\ listed' = Nowhere
  /\ between' = IF pass = 2 THEN [proc |-> proc, fg |-> fg] ELSE between
  /\ UNCHANGED <<pass, once, first, seen, tools, result, processes, stayed>>

With(f, p, v) == [q \in DOMAIN f \cup {p} |-> IF q = p THEN v ELSE f[q]]

\* A process whose stat cannot be read is passed over, gone or not.
Enumerate ==
  /\ pc = "list" /\ todo # {}
  /\ LET p == NextOf(todo) IN
       /\ todo' = todo \ {p}
       /\ \/ /\ listed' = IF Live(p) THEN With(listed, p, StatOf(p)) ELSE listed
             /\ UNCHANGED <<changes, stayed>>
          \/ /\ Live(p) /\ changes < MaxChanges /\ changes' = changes + 1
             /\ stayed' = stayed \ {p}
             /\ UNCHANGED listed
  /\ UNCHANGED <<pc, pass, pane, once, first, seen, tools, result, proc, fg, between>>

Select ==
  /\ pc = "list" /\ todo = {}
  /\ LET members == SelectForeground(pane, listed) IN
       IF members # {}
       THEN /\ pc' = "stat" /\ todo' = members
            /\ listed' = Nowhere
            /\ UNCHANGED <<pass, pane, once, first, seen, tools, result,
                           processes, history>>
       ELSE Unavailable

\* read_process_once: stat, executable, arguments and directory, executable
\* again, stat again.
Reading == NextOf(todo)
ReadOn(next) ==
  /\ pc' = next
  /\ UNCHANGED <<pass, todo, pane, listed, first, seen, tools, result,
                 processes, history>>

ReadStat ==
  /\ pc = "stat" /\ Live(Reading)
  /\ once' = [stat |-> StatOf(Reading), exe |-> None, argv |-> None]
  /\ ReadOn("exe")

ReadExe ==
  /\ pc = "exe" /\ Live(Reading)
  /\ once' = [once EXCEPT !.exe = proc[Reading].exe]
  /\ ReadOn("argv")

ReadArgv ==
  /\ pc = "argv" /\ Live(Reading)
  /\ once' = [once EXCEPT !.argv = proc[Reading].argv]
  /\ ReadOn("exeAgain")

ReadExeAgain ==
  /\ pc = "exeAgain" /\ Live(Reading) /\ proc[Reading].exe = once.exe
  /\ UNCHANGED once
  /\ ReadOn("statAgain")

\* The stat closes one read; read_process_stably compares two of them.
ReadStatAgain ==
  /\ pc = "statAgain" /\ Live(Reading) /\ SameProcess(once.stat, StatOf(Reading))
  /\ \/ first = None /\ first' = once /\ pc' = "stat" /\ UNCHANGED <<todo, seen>>
     \/ /\ first # None /\ SameProcess(first.stat, once.stat)
        /\ first.exe = once.exe /\ first.argv = once.argv
        /\ first' = None
        /\ seen' = [seen EXCEPT ![pass] = With(@, Reading, once)]
        /\ todo' = todo \ {Reading}
        /\ pc' = IF todo' = {} THEN "paneAgain" ELSE "stat"
  /\ once' = None
  /\ UNCHANGED <<pass, pane, listed, tools, result, processes, history>>

ReadPaneAgain ==
  /\ pc = "paneAgain"
  /\ Live(Root) /\ SameProcess(pane, StatOf(Root))
  /\ pc' = "ttyAgain"
  /\ UNCHANGED <<pass, todo, pane, listed, once, first, seen, tools, result,
                 processes, history>>

Members == DOMAIN seen[1]
Idle == Members = {Root} /\ seen[1][Root].exe = "shell"

\* same_process_observations
AsBefore ==
  /\ DOMAIN seen[2] = Members
  /\ \A p \in Members :
       /\ SameProcess(seen[1][p].stat, seen[2][p].stat)
       /\ seen[1][p].exe = seen[2][p].exe /\ seen[1][p].argv = seen[2][p].argv

\* A pass ends with the terminal, and with what was read of the processes
\* agreeing with the pane process.  An idle shell has no session records.
EndOfPass ==
  /\ pc = "ttyAgain"
  /\ Live(Root) /\ proc[Root].here
  /\ \A p \in DOMAIN seen[pass] :
       seen[pass][p].stat.group = pane.fg /\ seen[pass][p].stat.here = pane.here
  /\ pass = 2 => AsBefore
  /\ pass' = IF Idle THEN 2 ELSE pass
  /\ pc' = IF ~Idle THEN "tools" ELSE IF pass = 1 THEN "tty" ELSE "done"
  /\ result' = IF Idle /\ pass = 2 THEN "Idle" ELSE result
  /\ todo' = IF Idle THEN {} ELSE Members
  /\ UNCHANGED <<pane, listed, once, first, seen, tools, processes, history>>

\* collect_tool_evidence: a file that cannot be opened is passed over, a
\* process whose files cannot be listed makes the records unavailable.
CollectTools ==
  /\ pc = "tools" /\ todo # {}
  /\ LET p == NextOf(todo) IN
       \/ /\ Live(p)
          /\ \E records \in {0, proc[p].records} :
               tools' = [tools EXCEPT ![pass] = With(@, p, records)]
          /\ todo' = todo \ {p}
       \/ tools' = [tools EXCEPT ![pass] = [q \in {None} |-> None]] /\ todo' = {}
  /\ UNCHANGED <<pc, pass, pane, listed, once, first, seen, result, processes, history>>

\* ensure_tool_evidence_unchanged
SameTools == tools[1] = tools[2]

AfterTools ==
  /\ pc = "tools" /\ todo = {}
  /\ IF pass = 1
     THEN /\ pass' = 2 /\ pc' = "tty"
          /\ UNCHANGED <<todo, pane, listed, once, first, seen, tools, result,
                         processes, history>>
     ELSE IF SameTools
          THEN /\ pc' = "done" /\ result' = "Foreground"
               /\ UNCHANGED <<pass, todo, pane, listed, once, first, seen, tools,
                              processes, history>>
          ELSE Unavailable

Observe ==
  \/ Tty \/ ReadPane \/ Enumerate \/ Select
  \/ ReadStat \/ ReadExe \/ ReadArgv \/ ReadExeAgain \/ ReadStatAgain
  \/ ReadPaneAgain \/ EndOfPass \/ CollectTools \/ AfterTools \/ ReadFails
----------------------------------------------------------------------------
(* The processes.                                                          *)

Fresh == changes + 1

\* What stays of the group through a change.
Change ==
  /\ pc # "done"
  /\ changes < MaxChanges /\ changes' = Fresh
  /\ stayed' = {p \in stayed : /\ proc'[p] # None /\ proc'[p].start = proc[p].start
                               /\ proc'[p].here /\ proc'[p].group = fg'}
  /\ UNCHANGED <<inspection, between>>

\* A process starts with an id that is free, and at worst with the command line
\* the others had: in a group of the pane, or, like everything else on the
\* machine, on another terminal.
Starts(p) ==
  /\ ~Live(p)
  /\ \E exe \in Exe, here \in BOOLEAN, group \in Pid, parent \in Pid \cup {None} :
       /\ here => parent # None /\ Live(parent) /\ proc[parent].here
       /\ ~here => parent = None
       /\ group = p \/ (here /\ Live(group) /\ proc[group].here)
       /\ proc' = [proc EXCEPT ![p] =
            [start |-> Fresh, parent |-> parent, group |-> group, here |-> here,
             exe |-> exe, argv |-> 0, records |-> 0]]
  /\ UNCHANGED fg
  /\ Change

\* Its children are handed on.
Exits(p) ==
  /\ Live(p)
  /\ proc' = [q \in Pid |->
       IF q = p THEN None
       ELSE IF Live(q) /\ proc[q].parent = p THEN [proc[q] EXCEPT !.parent = None]
       ELSE proc[q]]
  /\ UNCHANGED fg
  /\ Change

Executes(p) ==
  /\ Live(p)
  /\ \E exe \in Exe : proc' = [proc EXCEPT ![p].exe = exe, ![p].argv = Fresh]
  /\ UNCHANGED fg
  /\ Change

\* Session logs are opened or closed, or their first record is replaced.
RecordsChange(p) ==
  /\ Live(p) /\ proc[p].exe = "tool"
  /\ proc' = [proc EXCEPT ![p].records = Fresh]
  /\ UNCHANGED fg
  /\ Change

\* setpgid: a process leaves the shell's group for a job's, or any for one of
\* its own; the leader of a group stays.
ChangesGroup(p) ==
  /\ Live(p) /\ proc[p].here /\ proc[p].group # p
  /\ \E group \in {p} \cup {q \in Pid : Live(q) /\ proc[q].here} :
       /\ group # proc[p].group /\ (group = p \/ proc[p].group = Root)
       /\ proc' = [proc EXCEPT ![p].group = group]
  /\ UNCHANGED fg
  /\ Change

\* Job control: fg, bg, Ctrl-Z, a job's end.
ForegroundChanges ==
  /\ \E p \in Pid : Live(p) /\ proc[p].here /\ fg' = proc[p].group /\ fg' # fg
  /\ UNCHANGED proc
  /\ Change

Others ==
  \/ \E p \in Pid : \/ Starts(p) \/ Exits(p) \/ Executes(p)
                    \/ RecordsChange(p) \/ ChangesGroup(p)
  \/ ForegroundChanges

Next == Observe \/ Others
Spec == Init /\ [][Next]_vars
----------------------------------------------------------------------------
(* Properties.                                                             *)

\* Evidence put together from dozens of reads is evidence of one moment: when
\* the second observation began, every process it names was in the pane's
\* foreground at the same time, was that very process, ran what the evidence
\* says, and had the session records the evidence says it had.
EvidenceIsOfOneMoment ==
  result \in {"Idle", "Foreground"} =>
    \A p \in Members :
      LET was == between.proc[p] IN
      /\ was # None
      /\ was.here /\ was.group = between.fg
      /\ was.start = seen[1][p].stat.start
      /\ was.exe = seen[1][p].exe /\ was.argv = seen[1][p].argv
      /\ result = "Foreground" /\ None \notin DOMAIN tools[1] =>
           tools[1][p] \in {0, was.records}

\* Nobody who had the foreground all the time is left out: least of all when
\* the pane is said to be idle.
NobodyIsLeftOut == result \in {"Idle", "Foreground"} => stayed \subseteq Members
=============================================================================
