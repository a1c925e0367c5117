--------------------------- MODULE Classification --------------------------
(***************************************************************************)
(* What program a pane is recovered with: classify_pane and its resolvers  *)
(* in src/src/recovery.rs, over the evidence of one pane's foreground      *)
(* process group at one moment (ProcessInspection shows that it is of one  *)
(* moment), and the command restore derives from the answer.               *)
(*                                                                         *)
(* Around them live the programs themselves.  Codex keeps the log of the   *)
(* session it runs open, with the session's directory in its first line;   *)
(* Claude Code names sessions in its arguments and keeps a record under    *)
(* its process id.  Logs and records outlive processes, process ids are    *)
(* used again, sessions are left for others, and after a restart of the    *)
(* machine the derived command starts the program again.                   *)
(***************************************************************************)
EXTENDS Naturals, Sequences, FiniteSets

CONSTANTS
  Pid,       \* process ids
  Session,   \* session ids of Codex and Claude Code
  Dir,       \* working directories
  None,      \* no process, no session, nothing captured
  MaxStart   \* bound: processes that ever start

ASSUME MaxStartIsPositive == MaxStart \in Nat \ {0}
ASSUME PidsAreFinite == IsFiniteSet(Pid)
ASSUME BadIsNoSession == "bad" \notin Session

\* A Codex or Claude Code TUI, one recognized `mdbook serve` or `book serve`
\* command, or anything else, servers and one-shot modes of the two tools
\* included.
Program == {"codex", "claude", "serve", "other"}

\* What a resolver answers; tool and session are None unless it is Automatic.
Outcome == [kind : {"Automatic", "NotRecognized", "Insufficient", "Conflicting"},
            tool : Program \cup {None}, session : Session \cup {None}]
Automatic(tool, s) == [kind |-> "Automatic", tool |-> tool, session |-> s]
Downgraded(kind) == [kind |-> kind, tool |-> None, session |-> None]

VARIABLES
  proc,      \* proc[p]: process p of the pane's foreground group, if there is one
  leader,    \* the process id of the group's leader
  clock,     \* processes started so far
  log,       \* log[s]: the log of Codex session s
  open,      \* open[p]: the logs process p has open
  record,    \* record[p]: Claude Code's record for process id p
  captured,  \* the recovery captured, and its directory, once restore runs
  relaunched \* the process restore started, while nothing has happened to it

vars == <<proc, leader, clock, log, open, record, captured, relaunched>>

\* named: the values of identity flags in the arguments; "bad" is no UUID.
Process == [program : Program, start : 1 .. MaxStart, dir : Dir,
            parent : Pid \cup {None}, named : Seq(Session \cup {"bad"}),
            session : Session \cup {None}]
\* root: a session of a user in the TUI, not of a sub-agent or another client.
\* A log is torn until its first line is complete.
Log == [dir : Dir, root : BOOLEAN, torn : BOOLEAN]
\* tui: the record of an interactive process at this pane's terminal.
Record == [session : Session \cup {None}, start : 1 .. MaxStart, dir : Dir, tui : BOOLEAN]

\* What a snapshot records of the pane.
Recovery == [outcome : Outcome, dir : Dir]

ASSUME NoneIsNothing ==
  /\ None \notin Pid \cup Session \cup Dir
  /\ None \notin Process /\ None \notin Log \cup Record \cup Recovery

TypeOK ==
  /\ proc \in [Pid -> Process \cup {None}]
  /\ leader \in Pid
  /\ clock \in 0 .. MaxStart
  /\ log \in [Session -> Log \cup {None}]
  /\ open \in [Pid -> SUBSET Session]
  /\ record \in [Pid -> Record \cup {None}]
  /\ captured \in Recovery \cup {None}
  /\ relaunched \in Pid \cup {None}

\* The pane waits for its first command.
Init ==
  /\ proc = [p \in Pid |-> None] /\ leader \in Pid /\ clock = 0
  /\ log = [s \in Session |-> None] /\ open = [p \in Pid |-> {}]
  /\ record = [p \in Pid |-> None]
  /\ captured = None /\ relaunched = None
----------------------------------------------------------------------------
(* The evidence.                                                           *)

Group == {p \in Pid : proc[p] # None}

\* with_foreground_members(): one tree below the leader, or no evidence.
Rooted ==
  /\ leader \in Group
  /\ \A p \in Group \ {leader} : proc[p].parent \in Group

PaneDir == proc[leader].dir
Tuis(tool) == {p \in Group : proc[p].program = tool}
----------------------------------------------------------------------------
(* The resolvers.  A set with one outcome, or none: the tool is not there. *)

\* Logs count once, however many Codex processes hold them, and only those
\* that Codex processes hold.
HeldByCodex == UNION {open[p] : p \in Tuis("codex")}

\* resolve_codex(): logsRead tells whether the open logs could be collected.
ResolveCodex(logsRead) ==
  LET matching == {s \in HeldByCodex : log[s].root /\ log[s].dir = PaneDir}
  IN IF Tuis("codex") = {} THEN {}
     ELSE IF ~logsRead \/ \E s \in HeldByCodex : log[s].torn
     THEN {Downgraded("Insufficient")}
     ELSE IF Cardinality(matching) > 1 THEN {Downgraded("Conflicting")}
     ELSE IF matching = {} THEN {Downgraded("Insufficient")}
     ELSE {Automatic("codex", s) : s \in matching}

\* Wrong form: the record of whoever had the process id before.
RecordOfPid(p) == record[p].tui /\ record[p].dir = PaneDir

\* A record speaks for p if it is of this very process, here.
RecordOf(p) ==
  /\ record[p].tui
  /\ record[p].dir = PaneDir
  /\ record[p].start = proc[p].start

\* The identity flags of the TUIs' arguments, and the values they give.
Arguments == {a \in Tuis("claude") \X (1 .. 2) : a[2] <= Len(proc[a[1]].named)}
NamedIn(a) == proc[a[1]].named[a[2]]
SoundArguments == {a \in Arguments : NamedIn(a) # "bad"}

Records(recordsRead) == {p \in Tuis("claude") : recordsRead /\ record[p] # None}
SoundRecords(recordsRead) == {p \in Records(recordsRead) : RecordOf(p)}

\* resolve_claude(): arguments and records each name one session at most, all
\* of them are sound, and they agree.
ResolveClaude(recordsRead) ==
  LET candidates == {NamedIn(a) : a \in SoundArguments}
                      \cup {record[p].session : p \in SoundRecords(recordsRead)}
  IN IF Tuis("claude") = {} THEN {}
     ELSE IF Cardinality(SoundArguments) > 1 \/ Cardinality(SoundRecords(recordsRead)) > 1
     THEN {Downgraded("Conflicting")}
     ELSE IF \/ SoundArguments # Arguments
             \/ SoundRecords(recordsRead) # Records(recordsRead)
             \/ candidates = {}
     THEN {Downgraded("Insufficient")}
     ELSE IF Cardinality(candidates) > 1 THEN {Downgraded("Conflicting")}
     ELSE {Automatic("claude", s) : s \in candidates}

\* resolve_serve(): the leader's own command.
ResolveServe ==
  {Automatic(t, None) : t \in {"serve"} \cap {proc[leader].program}}

\* classify_pane(), of a group that can be evidence.
Classify(logsRead, recordsRead) ==
  LET outcomes == {<<"codex", o>> : o \in ResolveCodex(logsRead)}
                    \cup {<<"claude", o>> : o \in ResolveClaude(recordsRead)}
                    \cup {<<"serve", o>> : o \in ResolveServe}
  IN IF outcomes = {} THEN Downgraded("NotRecognized")
     ELSE IF Cardinality(outcomes) > 1 THEN Downgraded("Conflicting")
     ELSE (CHOOSE o \in outcomes : TRUE)[2]
----------------------------------------------------------------------------
(* Restore.                                                                *)

\* Wrong form: Claude Code is asked to go on with whatever it ran last.
ArgumentsOfContinue(o) == <<>>

\* derive_automatic_command(): `claude --resume s`; `codex resume s` and the
\* serve commands carry no identity flag.
ArgumentsOf(o) == IF o.tool = "claude" THEN <<o.session>> ELSE <<>>

\* AutomaticRecoveryExpectation::matches()
Matches(expected, actual) == actual = expected

Running(program, parent, dir, named, s) ==
  [program |-> program, start |-> clock + 1, dir |-> dir, parent |-> parent,
   named |-> named, session |-> s]

\* The machine has restarted since a snapshot with an automatic recovery: logs
\* and records are still there, processes are not.  The derived command runs in
\* the recorded directory, at any process id.
Relaunch ==
  /\ captured = None /\ Rooted /\ clock < MaxStart
  /\ LET o == Classify(TRUE, TRUE)
     IN /\ o.kind = "Automatic"
        /\ captured' = [outcome |-> o, dir |-> PaneDir]
        /\ \E p \in Pid, s \in Session \cup {None} :
             /\ o.tool = "codex" => s = o.session
             /\ o.tool = "claude" =>
                  s \in (IF ArgumentsOf(o) = <<>> THEN Session ELSE {o.session})
             /\ o.tool = "serve" => s = None
             /\ leader' = p /\ relaunched' = p
             /\ proc' = [q \in Pid |->
                           IF q = p THEN Running(o.tool, None, PaneDir, ArgumentsOf(o), s)
                           ELSE None]
             /\ open' = [q \in Pid |-> IF q = p /\ o.tool = "codex" THEN {s} ELSE {}]
  /\ clock' = clock + 1
  /\ UNCHANGED <<log, record>>
----------------------------------------------------------------------------
(* The programs.                                                           *)

Fresh(s) == log[s] = None
Resumable(s) == log[s] # None /\ log[s].root /\ ~log[s].torn
NewLog(d, isRoot) == [dir |-> d, root |-> isRoot, torn |-> TRUE]

\* No identity flag, one, one without a UUID, or two.
ArgumentLists == {<<>>, <<"bad">>} \cup {<<s>> : s \in Session}
                    \cup {<<s, t>> : s \in Session, t \in Session}
NamedBy(arguments) == {arguments[i] : i \in DOMAIN arguments} \cap Session

Undisturbed == UNCHANGED <<captured, relaunched>>
Disturbed == relaunched' = None /\ UNCHANGED captured

\* The first process leads the group, in any directory; others start where a
\* member is, as its children or as the rest of a pipeline the shell started.
Enters(p, program, dir, arguments, s) ==
  /\ proc[p] = None /\ clock < MaxStart
  /\ clock' = clock + 1
  /\ IF Group = {} THEN leader' = p
     ELSE dir \in {proc[q].dir : q \in Group} /\ UNCHANGED leader
  /\ \E parent \in IF Group = {} THEN {None} ELSE Group \cup {None} :
       proc' = [proc EXCEPT ![p] = Running(program, parent, dir, arguments, s)]
  /\ Disturbed

StartsCodex(p) ==
  /\ \E d \in Dir, s \in Session :
       /\ Fresh(s) \/ Resumable(s)
       /\ Enters(p, "codex", d, <<>>, s)
       /\ log' = IF Fresh(s) THEN [log EXCEPT ![s] = NewLog(d, TRUE)] ELSE log
       /\ open' = [open EXCEPT ![p] = {s}]
  /\ UNCHANGED record

StartsClaude(p) ==
  /\ \E d \in Dir, arguments \in ArgumentLists, s \in Session :
       /\ NamedBy(arguments) = {} \/ s \in NamedBy(arguments)
       /\ Enters(p, "claude", d, arguments, s)
  /\ UNCHANGED <<log, open, record>>

StartsOther(p) ==
  /\ \E d \in Dir, program \in {"serve", "other"} : Enters(p, program, d, <<>>, None)
  /\ UNCHANGED <<log, open, record>>

\* The first line of a log is complete.
CompletesLog(p) ==
  /\ \E s \in open[p] :
       log[s].torn /\ log' = [log EXCEPT ![s].torn = FALSE]
  /\ Undisturbed
  /\ UNCHANGED <<proc, leader, clock, open, record>>

\* Codex leaves its session for a new one or resumes another: it has the log of
\* one root session open at a time.
CodexSwitches(p) ==
  /\ p \in Tuis("codex")
  /\ \E s \in Session \ {proc[p].session} :
       /\ Fresh(s) \/ Resumable(s)
       /\ log' = IF Fresh(s) THEN [log EXCEPT ![s] = NewLog(proc[p].dir, TRUE)] ELSE log
       /\ open' = [open EXCEPT ![p] = (@ \ {proc[p].session}) \cup {s}]
       /\ proc' = [proc EXCEPT ![p].session = s]
  /\ Disturbed
  /\ UNCHANGED <<leader, clock, record>>

\* A sub-agent of Codex has a log of its own.
SubAgentStarts(p) ==
  /\ p \in Tuis("codex")
  /\ \E s \in Session :
       /\ Fresh(s)
       /\ log' = [log EXCEPT ![s] = NewLog(proc[p].dir, FALSE)]
       /\ open' = [open EXCEPT ![p] = @ \cup {s}]
  /\ Undisturbed
  /\ UNCHANGED <<proc, leader, clock, record>>

\* Somebody else reads a log.
OtherOpensLog(p) ==
  /\ p \in Tuis("other")
  /\ \E s \in Session :
       log[s] # None /\ open' = [open EXCEPT ![p] = @ \cup {s}]
  /\ Undisturbed
  /\ UNCHANGED <<proc, leader, clock, log, record>>

\* Claude Code records the session it runs; what other processes of the tool
\* record is not of this pane's terminal.
WritesRecord(p) ==
  /\ p \in Tuis("claude") \cup Tuis("other")
  /\ record' = [record EXCEPT ![p] =
       [session |-> proc[p].session, start |-> proc[p].start,
        dir |-> proc[p].dir, tui |-> p \in Tuis("claude")]]
  /\ Undisturbed
  /\ UNCHANGED <<proc, leader, clock, log, open>>

\* Claude Code leaves its session: its record follows, its arguments do not.
ClaudeSwitches(p) ==
  /\ p \in Tuis("claude")
  /\ record[p] # None /\ record[p].start = proc[p].start
  /\ \E s \in Session \ {proc[p].session} :
       /\ proc' = [proc EXCEPT ![p].session = s]
       /\ record' = [record EXCEPT ![p].session = s]
  /\ Disturbed
  /\ UNCHANGED <<leader, clock, log, open>>

ChangesDir(p) ==
  /\ p \in Group
  /\ \E d \in Dir \ {proc[p].dir} : proc' = [proc EXCEPT ![p].dir = d]
  /\ Disturbed
  /\ UNCHANGED <<leader, clock, log, open, record>>

\* A process exits, and may leave its record behind; its children stay.
Exits(p) ==
  /\ p \in Group
  /\ proc' = [q \in Pid |->
                IF q = p \/ proc[q] = None THEN None
                ELSE IF proc[q].parent = p THEN [proc[q] EXCEPT !.parent = None]
                ELSE proc[q]]
  /\ open' = [open EXCEPT ![p] = {}]
  /\ \/ UNCHANGED record
     \/ record' = [record EXCEPT ![p] = None]
  /\ Disturbed
  /\ UNCHANGED <<leader, clock, log>>

Programs ==
  \E p \in Pid :
    \/ StartsCodex(p) \/ StartsClaude(p) \/ StartsOther(p)
    \/ CompletesLog(p) \/ CodexSwitches(p) \/ SubAgentStarts(p)
    \/ OtherOpensLog(p) \/ WritesRecord(p) \/ ClaudeSwitches(p)
    \/ ChangesDir(p) \/ Exits(p)

Next == Programs \/ Relaunch
Spec == Init /\ [][Next]_vars
----------------------------------------------------------------------------
(* Properties.                                                             *)

\* A session is recovered automatically only if one of the pane's own TUIs is
\* running it now, whatever logs and records earlier processes left behind,
\* whoever else reads them, and however often the user changed sessions.
AutomaticIsLive ==
  Rooted => \A logsRead \in BOOLEAN :
    LET o == Classify(logsRead, TRUE)
    IN o.kind = "Automatic" /\ o.session # None =>
         \E p \in Tuis(o.tool) : proc[p].session = o.session

\* Restore recognizes what it started itself: once the relaunched program has
\* replaced any record that is left under its process id, and no log of a
\* sub-agent is being begun, the classification of its pane meets the
\* expectation, even if Claude Code's records cannot be read.
RelaunchIsRecognized ==
  (/\ relaunched # None
   /\ record[relaunched] # None =>
        record[relaunched].start = proc[relaunched].start
   /\ \A s \in open[relaunched] : ~log[s].torn)
  => \A recordsRead \in BOOLEAN :
       Matches(captured.outcome, Classify(TRUE, recordsRead))
=============================================================================
