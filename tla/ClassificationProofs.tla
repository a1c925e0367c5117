------------------------ MODULE ClassificationProofs ------------------------
(***************************************************************************)
(* What classification promises of the evidence, for any processes,        *)
(* sessions and directories: the two properties of Classification.         *)
(***************************************************************************)
EXTENDS Classification, FiniteSetTheorems, TLAPS

\* A start time is of one process: the next one is later than all there are.
StartsAreNew ==
  \A p \in Pid :
    /\ proc[p] # None => proc[p].start <= clock
    /\ record[p] # None => record[p].start <= clock

\* Open logs exist, and whatever log of a user's session a Codex process has
\* open is the one of its own session.
LogsAreOwn ==
  /\ \A p \in Pid : \A s \in open[p] : log[s] # None
  /\ \A p \in Tuis("codex") : \A s \in open[p] : log[s].root => s = proc[p].session

\* A record that has the start time of a process is of that process ...
HasRecord(p) == record[p] # None /\ record[p].start = proc[p].start
RecordsFollow ==
  \A p \in Tuis("claude") : HasRecord(p) => record[p].session = proc[p].session

\* ... and a process that has none is still in the session it was started for.
ArgumentsHold ==
  \A p \in Tuis("claude") :
    /\ proc[p].session \in Session
    /\ ~HasRecord(p) /\ NamedBy(proc[p].named) # {} =>
         proc[p].session \in NamedBy(proc[p].named)

\* The relaunched process is alone, as it was started.
RelaunchedInv ==
  relaunched # None =>
    LET r == relaunched  o == captured.outcome IN
    /\ captured # None /\ o = Automatic(o.tool, o.session)
    /\ leader = r /\ \A q \in Pid \ {r} : proc[q] = None
    /\ proc[r] # None /\ proc[r].program = o.tool
    /\ proc[r].dir = captured.dir /\ proc[r].named = ArgumentsOf(o)
    /\ proc[r].session = o.session
    /\ o.tool = "codex" =>
         /\ o.session \in open[r]
         /\ log[o.session].root /\ log[o.session].dir = captured.dir
    /\ o.tool = "claude" /\ HasRecord(r) => record[r].tui /\ record[r].dir = captured.dir
    /\ o.tool \in {"codex", "claude"} \/ (o.tool = "serve" /\ o.session = None)

IInv == TypeOK /\ StartsAreNew /\ LogsAreOwn /\ RecordsFollow /\ ArgumentsHold
          /\ RelaunchedInv
----------------------------------------------------------------------------
(* Types.                                                                  *)

\* Every argument list is a sequence of session ids and values that are none.
LEMMA ArgumentListsAreSequences == ArgumentLists \subseteq Seq(Session \cup {"bad"})
<1> SUFFICES ASSUME NEW x \in ArgumentLists
             PROVE  x \in Seq(Session \cup {"bad"})
  OBVIOUS
<1>1. x \in {<<>>, <<"bad">>} \cup {<<s>> : s \in Session}
        \cup {<<s, t>> : s \in Session, t \in Session}
  BY DEF ArgumentLists
<1>2. CASE x = <<>>
  BY <1>2
<1>3. CASE x = <<"bad">>
  BY <1>3
<1>4. CASE \E s \in Session : x = <<s>>
  BY <1>4
<1>5. CASE \E s, t \in Session : x = <<s, t>>
  BY <1>5
<1> QED
  BY <1>1, <1>2, <1>3, <1>4, <1>5

\* What a start adds is a process, whoever started it.
LEMMA RunningIsProcess ==
  ASSUME TypeOK, clock < MaxStart,
         NEW program \in Program, NEW parent \in Pid \cup {None}, NEW dir \in Dir,
         NEW named \in Seq(Session \cup {"bad"}), NEW s \in Session \cup {None}
  PROVE  Running(program, parent, dir, named, s) \in Process
  BY MaxStartIsPositive DEF Running, Process, TypeOK

\* Entering adds one process with a new start time and changes nothing else
\* of the group.
LEMMA EntersAdds ==
  ASSUME TypeOK, NEW p \in Pid, NEW program \in Program, NEW dir \in Dir,
         NEW arguments \in Seq(Session \cup {"bad"}), NEW s \in Session \cup {None},
         Enters(p, program, dir, arguments, s)
  PROVE  /\ proc[p] = None
         /\ clock < MaxStart /\ clock' = clock + 1
         /\ leader' \in Pid /\ relaunched' = None /\ captured' = captured
         /\ \E parent \in Pid \cup {None} :
              /\ Running(program, parent, dir, arguments, s) \in Process
              /\ proc' = [proc EXCEPT ![p] = Running(program, parent, dir, arguments, s)]
<1>1. PICK parent \in IF Group = {} THEN {None} ELSE Group \cup {None} :
        proc' = [proc EXCEPT ![p] = Running(program, parent, dir, arguments, s)]
  BY DEF Enters
<1>2. parent \in Pid \cup {None}
  BY DEF Group
<1>3. clock < MaxStart /\ clock' = clock + 1
  BY DEF Enters
<1>4. Running(program, parent, dir, arguments, s) \in Process
  BY <1>2, <1>3, RunningIsProcess
<1>5. leader' \in Pid
  BY DEF Enters, TypeOK
<1> QED
  BY <1>1, <1>2, <1>3, <1>4, <1>5 DEF Enters, Disturbed

----------------------------------------------------------------------------
(* What the resolvers answer.                                              *)

\* The answer is one a resolver gave, or a downgrade.
LEMMA ClassifyChooses ==
  ASSUME NEW logsRead, NEW recordsRead,
         Classify(logsRead, recordsRead).kind = "Automatic"
  PROVE  Classify(logsRead, recordsRead) \in
           ResolveCodex(logsRead) \cup ResolveClaude(recordsRead) \cup ResolveServe
<1> DEFINE outcomes == {<<"codex", o>> : o \in ResolveCodex(logsRead)}
                         \cup {<<"claude", o>> : o \in ResolveClaude(recordsRead)}
                         \cup {<<"serve", o>> : o \in ResolveServe}
<1>1. Downgraded("NotRecognized").kind # "Automatic" /\ Downgraded("Conflicting").kind # "Automatic"
  BY DEF Downgraded
<1>2. outcomes # {} /\ Classify(logsRead, recordsRead) = (CHOOSE o \in outcomes : TRUE)[2]
  BY <1>1 DEF Classify
<1>3. (CHOOSE o \in outcomes : TRUE) \in outcomes
  BY <1>2
<1> QED
  BY <1>2, <1>3

\* A set that has not more than one element has no two.
LEMMA NoTwo ==
  ASSUME NEW S, IsFiniteSet(S), ~(Cardinality(S) > 1), NEW x \in S, NEW y \in S
  PROVE  x = y
<1>1. IsFiniteSet(S \ {x}) /\ Cardinality(S \ {x}) = Cardinality(S) - 1
  BY FS_RemoveElement
<1>2. Cardinality(S) \in Nat /\ Cardinality(S \ {x}) \in Nat
  BY <1>1, FS_CardinalityType
<1>3. Cardinality(S \ {x}) = 0
  BY <1>1, <1>2
<1> QED
  BY <1>1, <1>3, FS_EmptySet

\* A set with one element or none does not have more.
LEMMA NotMany == ~(Cardinality({}) > 1) /\ \A x : ~(Cardinality({x}) > 1)
<1>1. Cardinality({}) = 0 /\ \A x : Cardinality({x}) = 1
  BY FS_EmptySet, FS_Singleton
<1> QED
  BY <1>1

\* If only one resolver answers, and once, that is the answer.
LEMMA OneAnswer ==
  ASSUME NEW logsRead, NEW recordsRead, NEW x,
         LET codex == ResolveCodex(logsRead)
             claude == ResolveClaude(recordsRead) IN
         \/ codex = {x} /\ claude = {} /\ ResolveServe = {}
         \/ codex = {} /\ claude = {x} /\ ResolveServe = {}
         \/ codex = {} /\ claude = {} /\ ResolveServe = {x}
  PROVE  Classify(logsRead, recordsRead) = x
<1> DEFINE outcomes == {<<"codex", o>> : o \in ResolveCodex(logsRead)}
                         \cup {<<"claude", o>> : o \in ResolveClaude(recordsRead)}
                         \cup {<<"serve", o>> : o \in ResolveServe}
<1>1. PICK tag : outcomes = {<<tag, x>>}
  <2>1. outcomes = {<<"codex", x>>} \/ outcomes = {<<"claude", x>>} \/ outcomes = {<<"serve", x>>}
    OBVIOUS
  <2> QED
    BY <2>1
<1>2. (CHOOSE o \in outcomes : TRUE) = <<tag, x>>
  BY <1>1
<1>3. outcomes # {} /\ ~(Cardinality(outcomes) > 1)
  BY <1>1, NotMany
<1> QED
  BY <1>2, <1>3 DEF Classify

\* Codex: the log of a user's session that one of the pane's processes holds.
LEMMA CodexAnswer ==
  ASSUME TypeOK, NEW logsRead, NEW o \in ResolveCodex(logsRead), o.kind = "Automatic"
  PROVE  \E s \in Session : \E p \in Tuis("codex") :
           /\ o = Automatic("codex", s)
           /\ s \in open[p] /\ log[s].root /\ log[s].dir = PaneDir
<1>1. HeldByCodex \subseteq Session
  BY DEF HeldByCodex, Tuis, Group, TypeOK
<1>2. PICK s \in HeldByCodex : log[s].root /\ log[s].dir = PaneDir /\ o = Automatic("codex", s)
  BY DEF ResolveCodex, Downgraded, Automatic
<1> QED
  BY <1>1, <1>2 DEF HeldByCodex

\* Identity flags are few: processes have an id each, and two flags count.
LEMMA ArgumentsAreFinite ==
  IsFiniteSet(SoundArguments) /\ \A read : IsFiniteSet(SoundRecords(read))
<1>1. Tuis("claude") \subseteq Pid
  BY DEF Tuis, Group
<1>2. IsFiniteSet(Tuis("claude")) /\ IsFiniteSet(1 .. 2)
  BY <1>1, PidsAreFinite, FS_Subset, FS_Interval
<1>3. IsFiniteSet(Tuis("claude") \X (1 .. 2))
  BY <1>2, FS_Product
<1>4. SoundArguments \subseteq Tuis("claude") \X (1 .. 2)
  BY DEF SoundArguments, Arguments
<1>5. \A read : SoundRecords(read) \subseteq Tuis("claude")
  BY DEF SoundRecords, Records
<1> QED
  BY <1>2, <1>3, <1>4, <1>5, FS_Subset

\* What Claude Code may be in, by its sound arguments and records.
Candidates(read) ==
  {NamedIn(a) : a \in SoundArguments} \cup {record[p].session : p \in SoundRecords(read)}

LEMMA CandidatesAreFinite ==
  ASSUME NEW read PROVE IsFiniteSet(Candidates(read))
<1> DEFINE f == [a \in SoundArguments |-> NamedIn(a)]
           g == [p \in SoundRecords(read) |-> record[p].session]
<1>1. IsFiniteSet({f[a] : a \in SoundArguments})
  <2>1. f \in Surjection(SoundArguments, {f[a] : a \in SoundArguments})
    BY DEF Surjection
  <2> QED
    BY <2>1, FS_Surjection, ArgumentsAreFinite
<1>2. IsFiniteSet({g[p] : p \in SoundRecords(read)})
  <2>1. g \in Surjection(SoundRecords(read), {g[p] : p \in SoundRecords(read)})
    BY DEF Surjection
  <2> QED
    BY <2>1, FS_Surjection, ArgumentsAreFinite
<1>3. Candidates(read) = {f[a] : a \in SoundArguments} \cup {g[p] : p \in SoundRecords(read)}
  BY DEF Candidates
<1> QED
  BY <1>1, <1>2, <1>3, FS_Union

\* Claude Code: the only candidate, from arguments that are all sound and
\* records that are all sound.
LEMMA ClaudeUnfolded ==
  ASSUME NEW read, NEW o \in ResolveClaude(read), o.kind = "Automatic"
  PROVE  /\ Tuis("claude") # {}
         /\ \A a, b \in SoundArguments : a = b
         /\ SoundArguments = Arguments /\ SoundRecords(read) = Records(read)
         /\ \E s \in Candidates(read) : o = Automatic("claude", s)
         /\ \A s, t \in Candidates(read) : s = t
<1>1. /\ Tuis("claude") # {}
      /\ ~(Cardinality(SoundArguments) > 1)
      /\ SoundArguments = Arguments /\ SoundRecords(read) = Records(read)
      /\ ~(Cardinality(Candidates(read)) > 1)
      /\ \E s \in Candidates(read) : o = Automatic("claude", s)
  BY DEF ResolveClaude, Downgraded, Candidates
<1> QED
  BY <1>1, ArgumentsAreFinite, CandidatesAreFinite, NoTwo

\* It is the session of one of the TUIs: a record that is sound was written by
\* the process it is found for, and where there is none the only argument is.
LEMMA ClaudeAnswer ==
  ASSUME TypeOK, RecordsFollow, ArgumentsHold,
         NEW o \in ResolveClaude(TRUE), o.kind = "Automatic"
  PROVE  \E p \in Tuis("claude") : o = Automatic("claude", proc[p].session)
<1>1. PICK s \in Candidates(TRUE) : o = Automatic("claude", s)
  BY ClaudeUnfolded
<1>2. CASE SoundRecords(TRUE) # {}
  <2>1. PICK p \in SoundRecords(TRUE) : TRUE
    BY <1>2
  <2>2. p \in Tuis("claude") /\ HasRecord(p)
    BY DEF SoundRecords, Records, RecordOf, HasRecord
  <2>3. record[p].session = proc[p].session
    BY <2>2 DEF RecordsFollow
  <2>4. record[p].session \in Candidates(TRUE)
    BY DEF Candidates
  <2>5. s = proc[p].session
    BY <2>3, <2>4, ClaudeUnfolded
  <2> QED
    BY <1>1, <2>2, <2>5
<1>3. CASE SoundRecords(TRUE) = {}
  <2>1. PICK a \in SoundArguments : s = NamedIn(a)
    BY <1>1, <1>3 DEF Candidates
  <2> DEFINE p == a[1]
  <2>2. /\ p \in Tuis("claude") /\ p \in Pid /\ a[2] \in 1 .. 2
        /\ a = <<p, a[2]>> /\ a[2] <= Len(proc[p].named)
    BY DEF SoundArguments, Arguments, Tuis, Group
  <2>3. proc[p].named \in Seq(Session \cup {"bad"})
    BY <2>2 DEF Tuis, Group, TypeOK, Process
  <2>4. \A i \in DOMAIN proc[p].named : i = 1 /\ a[2] = 1
    <3>1. \A i \in 1 .. 2 : i <= Len(proc[p].named) => <<p, i>> \in Arguments
      BY <2>2 DEF Arguments
    <3>2. SoundArguments = Arguments /\ \A x, y \in SoundArguments : x = y
      BY ClaudeUnfolded
    <3>3. \A i \in 1 .. 2 : i <= Len(proc[p].named) => <<p, i>> = a
      BY <3>1, <3>2
    <3>4. \A i \in 1 .. 2 : i <= Len(proc[p].named) => i = a[2]
      BY <3>3, <2>2
    <3> QED
      BY <2>2, <2>3, <3>4
  <2>5. s = proc[p].named[1] /\ s \in Session
    <3>1. a[2] \in DOMAIN proc[p].named
      BY <2>2, <2>3
    <3> QED
      BY <2>1, <2>2, <2>3, <2>4, <3>1 DEF NamedIn, SoundArguments
  <2>6. NamedBy(proc[p].named) = {s}
    BY <2>2, <2>3, <2>4, <2>5 DEF NamedBy
  <2>7. record[p] = None
    <3>1. SoundRecords(TRUE) = Records(TRUE)
      BY ClaudeUnfolded
    <3> QED
      BY <1>3, <2>2, <3>1 DEF Records
  <2>8. s = proc[p].session
    BY <2>2, <2>6, <2>7 DEF ArgumentsHold, HasRecord
  <2> QED
    BY <1>1, <2>2, <2>8
<1> QED
  BY <1>2, <1>3

\* An automatic recovery of a session is of one that runs in the pane.
LEMMA AutomaticAnswer ==
  ASSUME TypeOK, LogsAreOwn, RecordsFollow, ArgumentsHold, NEW logsRead,
         Classify(logsRead, TRUE).kind = "Automatic"
  PROVE  LET o == Classify(logsRead, TRUE) IN
         \/ o = Automatic("serve", None)
         \/ \E p \in Tuis("claude") :
              proc[p].session \in Session /\ o = Automatic("claude", proc[p].session)
         \/ \E p \in Tuis("codex") :
              LET s == proc[p].session IN
              /\ o = Automatic("codex", s) /\ s \in Session
              /\ s \in open[p] /\ log[s].root /\ log[s].dir = PaneDir
<1> DEFINE o == Classify(logsRead, TRUE)
<1>1. o \in ResolveCodex(logsRead) \cup ResolveClaude(TRUE) \cup ResolveServe
  BY ClassifyChooses
<1>2. CASE o \in ResolveCodex(logsRead)
  <2>1. PICK s \in Session, p \in Tuis("codex") :
          o = Automatic("codex", s) /\ s \in open[p] /\ log[s].root /\ log[s].dir = PaneDir
    BY <1>2, CodexAnswer, Classify(logsRead, TRUE).kind = "Automatic"
  <2>2. s = proc[p].session
    BY <2>1 DEF LogsAreOwn
  <2> QED
    BY <2>1, <2>2
<1>3. CASE o \in ResolveClaude(TRUE)
  BY <1>3, ClaudeAnswer DEF ArgumentsHold
<1>4. CASE o \in ResolveServe
  BY <1>4 DEF ResolveServe
<1> QED
  BY <1>1, <1>2, <1>3, <1>4
----------------------------------------------------------------------------
(* The invariant is inductive.                                             *)

LEMMA InitHolds == Init => IInv
<1> SUFFICES ASSUME Init PROVE IInv
  OBVIOUS
<1>1. TypeOK
  BY MaxStartIsPositive DEF Init, TypeOK
<1>2. StartsAreNew /\ LogsAreOwn /\ RecordsFollow /\ ArgumentsHold /\ RelaunchedInv
  BY DEF Init, StartsAreNew, LogsAreOwn, RecordsFollow, ArgumentsHold, RelaunchedInv,
         Tuis, Group
<1> QED
  BY <1>1, <1>2 DEF IInv

LEMMA AutomaticForms ==
  ASSUME NEW tool \in {"codex", "claude", "serve"}, NEW t \in Session \cup {None}
  PROVE  LET o == Automatic(tool, t) IN
         /\ o \in Outcome /\ o.kind = "Automatic" /\ o.tool = tool /\ o.session = t
         /\ ArgumentsOf(o) = IF tool = "claude" THEN <<t>> ELSE <<>>
         /\ t \in Session \/ tool # "claude" => ArgumentsOf(o) \in Seq(Session \cup {"bad"})
<1>1. Automatic(tool, t).tool = tool /\ Automatic(tool, t).session = t
  BY DEF Automatic
<1>2. ArgumentsOf(Automatic(tool, t)) = IF tool = "claude" THEN <<t>> ELSE <<>>
  BY <1>1 DEF ArgumentsOf
<1>3. Automatic(tool, t) \in Outcome /\ Automatic(tool, t).kind = "Automatic"
  BY DEF Automatic, Outcome, Program
<1>4. t \in Session \/ tool # "claude" =>
        ArgumentsOf(Automatic(tool, t)) \in Seq(Session \cup {"bad"})
  <2>1. <<>> \in Seq(Session \cup {"bad"})
    OBVIOUS
  <2>2. t \in Session => <<t>> \in Seq(Session \cup {"bad"})
    OBVIOUS
  <2> QED
    BY <1>2, <2>1, <2>2
<1> QED
  BY <1>1, <1>2, <1>3, <1>4

\* What restore starts, and that it is what was captured.
LEMMA RelaunchStarts ==
  ASSUME IInv, Relaunch
  PROVE  \E p \in Pid, s \in Session \cup {None} :
           LET o == Classify(TRUE, TRUE)
               started == Running(o.tool, None, PaneDir, ArgumentsOf(o), s) IN
           /\ started \in Process /\ o \in Outcome /\ PaneDir \in Dir
           /\ o = Automatic(o.tool, s) /\ o.tool \in {"codex", "claude", "serve"}
           /\ o.tool = "codex" => s \in Session /\ log[s].root /\ log[s].dir = PaneDir /\ log[s] # None
           /\ o.tool = "claude" => s \in Session
           /\ o.tool = "serve" => s = None
           /\ clock < MaxStart /\ clock' = clock + 1
           /\ leader' = p /\ relaunched' = p /\ captured' = [outcome |-> o, dir |-> PaneDir]
           /\ proc' = [q \in Pid |-> IF q = p THEN started ELSE None]
           /\ open' = [q \in Pid |-> IF q = p /\ o.tool = "codex" THEN {s} ELSE {}]
           /\ UNCHANGED <<log, record>>
<1> DEFINE o == Classify(TRUE, TRUE)
<1>1. PICK p \in Pid, s \in Session \cup {None} :
        /\ o.tool = "codex" => s = o.session
        /\ o.tool = "claude" =>
             s \in (IF ArgumentsOf(o) = <<>> THEN Session ELSE {o.session})
        /\ o.tool = "serve" => s = None
        /\ leader' = p /\ relaunched' = p
        /\ proc' = [q \in Pid |->
                      IF q = p THEN Running(o.tool, None, PaneDir, ArgumentsOf(o), s)
                      ELSE None]
        /\ open' = [q \in Pid |-> IF q = p /\ o.tool = "codex" THEN {s} ELSE {}]
  BY DEF Relaunch
<1>2. /\ o.kind = "Automatic" /\ captured' = [outcome |-> o, dir |-> PaneDir]
      /\ clock < MaxStart /\ clock' = clock + 1 /\ UNCHANGED <<log, record>>
  BY DEF Relaunch
<1>3. PaneDir \in Dir
  BY DEF Relaunch, Rooted, Group, PaneDir, IInv, TypeOK, Process
<1>4. \/ o = Automatic("serve", None)
      \/ \E q \in Tuis("claude") :
           proc[q].session \in Session /\ o = Automatic("claude", proc[q].session)
      \/ \E q \in Tuis("codex") :
           LET t == proc[q].session IN
           /\ o = Automatic("codex", t) /\ t \in Session
           /\ t \in open[q] /\ log[t].root /\ log[t].dir = PaneDir
  BY <1>2, AutomaticAnswer DEF IInv
<1> HIDE DEF o
<1>5. CASE o = Automatic("serve", None)
  <2>1. s = None /\ o.tool = "serve" /\ ArgumentsOf(o) = <<>> /\ o \in Outcome
          /\ ArgumentsOf(o) \in Seq(Session \cup {"bad"})
    BY <1>1, <1>5, AutomaticForms
  <2>2. Running(o.tool, None, PaneDir, ArgumentsOf(o), s) \in Process
    BY <1>2, <1>3, <2>1, RunningIsProcess DEF Program, IInv
  <2> QED
    BY <1>1, <1>2, <1>3, <1>5, <2>1, <2>2 DEF o
<1>6. CASE \E q \in Tuis("claude") :
             proc[q].session \in Session /\ o = Automatic("claude", proc[q].session)
  <2>1. PICK t \in Session : o = Automatic("claude", t)
    BY <1>6
  <2>2. o.tool = "claude" /\ ArgumentsOf(o) = <<t>> /\ o \in Outcome /\ o.session = t
          /\ ArgumentsOf(o) \in Seq(Session \cup {"bad"})
    BY <2>1, AutomaticForms
  <2>3. s = t
    BY <1>1, <2>2
  <2>4. Running(o.tool, None, PaneDir, ArgumentsOf(o), s) \in Process
    BY <1>2, <1>3, <2>2, RunningIsProcess DEF Program, IInv
  <2> QED
    BY <1>1, <1>2, <1>3, <2>1, <2>2, <2>3, <2>4 DEF o
<1>7. CASE \E q \in Tuis("codex") :
             LET t == proc[q].session IN
             /\ o = Automatic("codex", t) /\ t \in Session
             /\ t \in open[q] /\ log[t].root /\ log[t].dir = PaneDir
  <2>1. PICK q \in Tuis("codex") :
             LET t == proc[q].session IN
             /\ o = Automatic("codex", t) /\ t \in Session
             /\ t \in open[q] /\ log[t].root /\ log[t].dir = PaneDir
    BY <1>7
  <2> DEFINE t == proc[q].session
  <2>2. o.tool = "codex" /\ ArgumentsOf(o) = <<>> /\ o \in Outcome /\ o.session = t
          /\ ArgumentsOf(o) \in Seq(Session \cup {"bad"})
    BY <2>1, AutomaticForms
  <2>3. s = t
    BY <1>1, <2>2
  <2>4. Running(o.tool, None, PaneDir, ArgumentsOf(o), s) \in Process
    BY <1>2, <1>3, <2>2, RunningIsProcess DEF Program, IInv
  <2>5. log[t] # None
    BY <2>1 DEF IInv, LogsAreOwn, Tuis, Group
  <2> QED
    BY <1>1, <1>2, <1>3, <2>1, <2>2, <2>3, <2>4, <2>5 DEF o
<1> QED
  BY <1>4, <1>5, <1>6, <1>7 DEF o

LEMMA RelaunchKeeps == ASSUME IInv, Relaunch PROVE IInv'
<1> DEFINE o == Classify(TRUE, TRUE)
<1>1. PICK p \in Pid, s \in Session \cup {None} :
        LET started == Running(o.tool, None, PaneDir, ArgumentsOf(o), s) IN
        /\ started \in Process /\ o \in Outcome /\ PaneDir \in Dir
        /\ o = Automatic(o.tool, s) /\ o.tool \in {"codex", "claude", "serve"}
        /\ o.tool = "codex" => s \in Session /\ log[s].root /\ log[s].dir = PaneDir /\ log[s] # None
        /\ o.tool = "claude" => s \in Session
        /\ o.tool = "serve" => s = None
        /\ clock < MaxStart /\ clock' = clock + 1
        /\ leader' = p /\ relaunched' = p /\ captured' = [outcome |-> o, dir |-> PaneDir]
        /\ proc' = [q \in Pid |-> IF q = p THEN started ELSE None]
        /\ open' = [q \in Pid |-> IF q = p /\ o.tool = "codex" THEN {s} ELSE {}]
        /\ UNCHANGED <<log, record>>
  BY RelaunchStarts
<1> DEFINE started == Running(o.tool, None, PaneDir, ArgumentsOf(o), s)
<1>2. /\ started.program = o.tool /\ started.start = clock + 1 /\ started.dir = PaneDir
      /\ started.named = ArgumentsOf(o) /\ started.session = s
  BY DEF Running
<1> HIDE DEF o, started
<1>3. o.session = s /\ ArgumentsOf(o) = IF o.tool = "claude" THEN <<s>> ELSE <<>>
  BY <1>1, AutomaticForms
<1>4. started # None /\ captured' # None
  BY <1>1, NoneIsNothing DEF started, Recovery
<1>5. TypeOK'
  BY <1>1, MaxStartIsPositive DEF IInv, TypeOK, started, Recovery
<1>6. \A q \in Pid : q # p => proc'[q] = None
  BY <1>1
<1>7. proc'[p] = started
  BY <1>1 DEF started
<1>8. StartsAreNew'
  BY <1>1, <1>2, <1>6, <1>7, MaxStartIsPositive DEF IInv, StartsAreNew, TypeOK, Record
<1>9. ~HasRecord(p)'
  BY <1>1, <1>2, <1>7 DEF HasRecord, IInv, StartsAreNew, TypeOK
<1>10. LogsAreOwn'
  BY <1>1, <1>2, <1>6, <1>7 DEF LogsAreOwn, Tuis, Group
<1>11. RecordsFollow'
  BY <1>6, <1>9 DEF RecordsFollow, Tuis, Group
<1>12. ArgumentsHold'
  <2> SUFFICES ASSUME o.tool = "claude"
               PROVE  s \in Session /\ s \in NamedBy(ArgumentsOf(o))
    BY <1>1, <1>2, <1>6, <1>7 DEF ArgumentsHold, Tuis, Group
  <2> QED
    BY <1>1, <1>3 DEF NamedBy
<1>13. RelaunchedInv'
  BY <1>1, <1>2, <1>3, <1>4, <1>6, <1>7, <1>9 DEF RelaunchedInv
<1> QED
  BY <1>5, <1>8, <1>10, <1>11, <1>12, <1>13 DEF IInv

\* A process that enters is new, and what was relaunched is no longer alone.
LEMMA EnteringKeeps ==
  ASSUME IInv, NEW p \in Pid, NEW program \in Program, NEW dir \in Dir,
         NEW arguments \in Seq(Session \cup {"bad"}), NEW s \in Session \cup {None},
         Enters(p, program, dir, arguments, s), UNCHANGED record,
         log' \in [Session -> Log \cup {None}], open' \in [Pid -> SUBSET Session],
         \A q \in Pid \ {p} : open'[q] = open[q],
         \A t \in Session : log[t] # None => log'[t] = log[t],
         program = "codex" => s \in Session /\ open'[p] = {s} /\ log'[s] # None,
         program # "codex" => open'[p] = open[p],
         program = "claude" =>
           s \in Session /\ (NamedBy(arguments) = {} \/ s \in NamedBy(arguments))
  PROVE  IInv'
<1>1. PICK parent \in Pid \cup {None} :
        /\ Running(program, parent, dir, arguments, s) \in Process
        /\ proc' = [proc EXCEPT ![p] = Running(program, parent, dir, arguments, s)]
        /\ proc[p] = None /\ clock < MaxStart /\ clock' = clock + 1
        /\ leader' \in Pid /\ relaunched' = None /\ captured' = captured
  BY EntersAdds DEF IInv
<1> DEFINE started == Running(program, parent, dir, arguments, s)
<1>2. /\ started.program = program /\ started.start = clock + 1
      /\ started.named = arguments /\ started.session = s
  BY DEF Running
<1> HIDE DEF started
<1>3. proc'[p] = started /\ \A q \in Pid \ {p} : proc'[q] = proc[q]
  BY <1>1 DEF started, IInv, TypeOK
<1>4. TypeOK'
  BY <1>1, MaxStartIsPositive DEF IInv, TypeOK
<1>5. StartsAreNew'
  BY <1>1, <1>2, <1>3 DEF IInv, StartsAreNew, TypeOK, Process, Record
<1>6. \A q \in Pid \ {p} : proc'[q] # None => HasRecord(q)' = HasRecord(q)
  BY <1>3 DEF HasRecord
<1>7. ~HasRecord(p)'
  BY <1>1, <1>2, <1>3 DEF HasRecord, IInv, StartsAreNew, TypeOK
<1>8. \A tool : \A q \in Tuis(tool)' : (q \in Tuis(tool) /\ q # p) \/ (q = p /\ program = tool)
  BY <1>2, <1>3 DEF Tuis, Group
<1>9. LogsAreOwn'
  BY <1>2, <1>3, <1>8 DEF IInv, LogsAreOwn, TypeOK, Tuis, Group
<1>10. RecordsFollow'
  BY <1>3, <1>6, <1>7, <1>8 DEF IInv, RecordsFollow, Tuis, Group
<1>11. ArgumentsHold'
  BY <1>2, <1>3, <1>6, <1>8 DEF IInv, ArgumentsHold, Tuis, Group
<1>12. RelaunchedInv'
  BY <1>1 DEF RelaunchedInv
<1> QED
  BY <1>4, <1>5, <1>9, <1>10, <1>11, <1>12 DEF IInv

\* A new log is a log, and replaces none.
LEMMA NewLogAppears ==
  ASSUME TypeOK, NEW s \in Session, NEW dir \in Dir, NEW isRoot \in BOOLEAN,
         Fresh(s) \/ Resumable(s),
         log' = IF Fresh(s) THEN [log EXCEPT ![s] = NewLog(dir, isRoot)] ELSE log
  PROVE  /\ log' \in [Session -> Log \cup {None}] /\ log'[s] # None
         /\ \A t \in Session : log[t] # None => log'[t] = log[t]
         /\ Fresh(s) => log'[s].root = isRoot
<1>1. NewLog(dir, isRoot) \in Log /\ NewLog(dir, isRoot).root = isRoot
  BY DEF NewLog, Log
<1>2. NewLog(dir, isRoot) # None
  BY <1>1, NoneIsNothing
<1> QED
  BY <1>1, <1>2 DEF Fresh, Resumable, TypeOK

LEMMA StartsKeep ==
  ASSUME IInv, NEW p \in Pid, StartsCodex(p) \/ StartsClaude(p) \/ StartsOther(p)
  PROVE  IInv'
<1> USE DEF Program
<1>1. CASE StartsCodex(p)
  <2>1. PICK d \in Dir, s \in Session :
          /\ Fresh(s) \/ Resumable(s)
          /\ Enters(p, "codex", d, <<>>, s)
          /\ log' = IF Fresh(s) THEN [log EXCEPT ![s] = NewLog(d, TRUE)] ELSE log
          /\ open' = [open EXCEPT ![p] = {s}]
          /\ UNCHANGED record
    BY <1>1 DEF StartsCodex
  <2>2. /\ log' \in [Session -> Log \cup {None}] /\ log'[s] # None
        /\ \A t \in Session : log[t] # None => log'[t] = log[t]
    BY <2>1, NewLogAppears DEF IInv
  <2>3. /\ open' \in [Pid -> SUBSET Session] /\ open'[p] = {s}
        /\ \A q \in Pid \ {p} : open'[q] = open[q]
    BY <2>1 DEF IInv, TypeOK
  <2>4. <<>> \in Seq(Session \cup {"bad"})
    OBVIOUS
  <2> QED
    BY <2>1, <2>2, <2>3, <2>4, EnteringKeeps
<1>2. CASE StartsClaude(p)
  <2>1. PICK d \in Dir, arguments \in ArgumentLists, s \in Session :
          /\ NamedBy(arguments) = {} \/ s \in NamedBy(arguments)
          /\ Enters(p, "claude", d, arguments, s)
          /\ UNCHANGED <<log, open, record>>
    BY <1>2 DEF StartsClaude
  <2>2. arguments \in Seq(Session \cup {"bad"})
    BY ArgumentListsAreSequences
  <2> QED
    BY <2>1, <2>2, EnteringKeeps DEF IInv, TypeOK
<1>3. CASE StartsOther(p)
  <2>1. PICK d \in Dir, program \in {"serve", "other"} :
          Enters(p, program, d, <<>>, None) /\ UNCHANGED <<log, open, record>>
    BY <1>3 DEF StartsOther
  <2>2. <<>> \in Seq(Session \cup {"bad"})
    OBVIOUS
  <2> QED
    BY <2>1, <2>2, EnteringKeeps DEF IInv, TypeOK
<1> QED
  BY <1>1, <1>2, <1>3

LEMMA LogsKeep ==
  ASSUME IInv, NEW p \in Pid, CompletesLog(p) \/ SubAgentStarts(p) \/ OtherOpensLog(p)
  PROVE  IInv'
<1>1. UNCHANGED <<proc, leader, clock, record, captured, relaunched>>
  BY DEF CompletesLog, SubAgentStarts, OtherOpensLog, Undisturbed
<1>2. \A tool : Tuis(tool)' = Tuis(tool)
  BY <1>1 DEF Tuis, Group
<1>3. /\ log' \in [Session -> Log \cup {None}] /\ open' \in [Pid -> SUBSET Session]
      /\ \A q \in Pid : open[q] \subseteq open'[q]
      /\ \A q \in Pid : \A s \in open'[q] : log'[s] # None
      /\ \A q \in Tuis("codex") : \A s \in open'[q] : s \notin open[q] => ~log'[s].root
      /\ \A s \in Session : log[s] # None =>
           /\ log'[s] # None /\ log'[s].root = log[s].root /\ log'[s].dir = log[s].dir
  <2>1. CASE CompletesLog(p)
    <3>1. PICK s \in open[p] :
            log[s].torn /\ log' = [log EXCEPT ![s].torn = FALSE] /\ UNCHANGED open
      BY <2>1 DEF CompletesLog
    <3>2. s \in Session
      BY <3>1 DEF IInv, TypeOK
    <3>3. log[s] # None
      BY <3>1 DEF IInv, LogsAreOwn
    <3>4. [log[s] EXCEPT !.torn = FALSE] \in Log
      BY <3>2, <3>3 DEF IInv, TypeOK, Log
    <3>5. [log[s] EXCEPT !.torn = FALSE] # None
      BY <3>4, NoneIsNothing
    <3>6. /\ [log[s] EXCEPT !.torn = FALSE].root = log[s].root
          /\ [log[s] EXCEPT !.torn = FALSE].dir = log[s].dir
      BY <3>2, <3>3 DEF IInv, TypeOK, Log
    <3> QED
      BY <3>1, <3>2, <3>4, <3>5, <3>6 DEF IInv, TypeOK, LogsAreOwn, Tuis, Group
  <2>2. CASE SubAgentStarts(p)
    <3>1. PICK s \in Session :
            /\ Fresh(s) /\ log' = [log EXCEPT ![s] = NewLog(proc[p].dir, FALSE)]
            /\ open' = [open EXCEPT ![p] = @ \cup {s}]
      BY <2>2 DEF SubAgentStarts
    <3>2. proc[p].dir \in Dir
      BY <2>2 DEF SubAgentStarts, Tuis, Group, IInv, TypeOK, Process
    <3>3. /\ log' \in [Session -> Log \cup {None}] /\ log'[s] # None
          /\ \A t \in Session : log[t] # None => log'[t] = log[t]
          /\ log'[s].root = FALSE
      BY <3>1, <3>2, NewLogAppears DEF IInv
    <3> QED
      BY <3>1, <3>3 DEF IInv, TypeOK, LogsAreOwn, Tuis, Group
  <2>3. CASE OtherOpensLog(p)
    <3>1. PICK s \in Session :
            /\ p \in Tuis("other") /\ UNCHANGED log /\ log[s] # None
            /\ open' = [open EXCEPT ![p] = @ \cup {s}]
      BY <2>3 DEF OtherOpensLog
    <3>2. p \notin Tuis("codex")
      BY <3>1 DEF Tuis
    <3> QED
      BY <3>1, <3>2 DEF IInv, TypeOK, LogsAreOwn, Tuis, Group
  <2> QED
    BY <2>1, <2>2, <2>3
<1>4. TypeOK'
  BY <1>1, <1>3 DEF IInv, TypeOK
<1>5. LogsAreOwn'
  BY <1>1, <1>2, <1>3 DEF IInv, LogsAreOwn, TypeOK, Tuis, Group
<1>6. StartsAreNew' /\ RecordsFollow' /\ ArgumentsHold'
  BY <1>1, <1>2 DEF IInv, StartsAreNew, RecordsFollow, ArgumentsHold, HasRecord
<1>7. RelaunchedInv'
  BY <1>1, <1>3 DEF IInv, RelaunchedInv, HasRecord, LogsAreOwn, TypeOK
<1> QED
  BY <1>4, <1>5, <1>6, <1>7 DEF IInv

LEMMA CodexSwitchesKeeps == ASSUME IInv, NEW p \in Pid, CodexSwitches(p) PROVE IInv'
<1>1. PICK s \in Session \ {proc[p].session} :
        /\ Fresh(s) \/ Resumable(s)
        /\ log' = IF Fresh(s) THEN [log EXCEPT ![s] = NewLog(proc[p].dir, TRUE)] ELSE log
        /\ open' = [open EXCEPT ![p] = (@ \ {proc[p].session}) \cup {s}]
        /\ proc' = [proc EXCEPT ![p].session = s]
  BY DEF CodexSwitches
<1>2. /\ p \in Tuis("codex") /\ relaunched' = None
      /\ UNCHANGED <<leader, clock, record, captured>>
  BY DEF CodexSwitches, Disturbed
<1>3. proc[p] \in Process /\ proc[p].program = "codex"
  BY <1>2 DEF IInv, TypeOK, Tuis, Group
<1>4. /\ log' \in [Session -> Log \cup {None}] /\ log'[s] # None
      /\ \A t \in Session : log[t] # None => log'[t] = log[t]
  <2>1. proc[p].dir \in Dir
    BY <1>3 DEF Process
  <2> QED
    BY <1>1, <2>1, NewLogAppears DEF IInv
<1> DEFINE switched == [proc[p] EXCEPT !.session = s]
<1>5. /\ switched \in Process /\ switched # None
      /\ switched.program = "codex" /\ switched.session = s /\ switched.start = proc[p].start
  <2>1. switched \in Process
    BY <1>3 DEF Process
  <2> QED
    BY <1>3, <2>1, NoneIsNothing DEF Process
<1>6. proc'[p] = switched /\ \A q \in Pid \ {p} : proc'[q] = proc[q]
  BY <1>1 DEF IInv, TypeOK
<1>7. TypeOK'
  <2>1. proc' \in [Pid -> Process \cup {None}]
    BY <1>1, <1>5 DEF IInv, TypeOK
  <2>2. open' \in [Pid -> SUBSET Session]
    BY <1>1 DEF IInv, TypeOK
  <2> QED
    BY <1>2, <1>4, <2>1, <2>2 DEF IInv, TypeOK
<1> HIDE DEF switched
<1>8. \A tool : Tuis(tool)' = Tuis(tool)
  BY <1>2, <1>5, <1>6 DEF Tuis, Group
<1>9. StartsAreNew'
  BY <1>2, <1>5, <1>6 DEF IInv, StartsAreNew, Tuis, Group
<1>10. LogsAreOwn'
  <2>1. /\ open'[p] = (open[p] \ {proc[p].session}) \cup {s}
        /\ \A q \in Pid \ {p} : open'[q] = open[q]
    BY <1>1, <1>2 DEF IInv, TypeOK
  <2>2. \A q \in Pid : \A t \in open[q] : t \in Session /\ log'[t] = log[t] /\ log[t] # None
    BY <1>4 DEF IInv, LogsAreOwn, TypeOK
  <2>3. \A q \in Tuis("codex") : q \in Pid /\ \A t \in open[q] : log[t].root => t = proc[q].session
    BY DEF IInv, LogsAreOwn, Tuis, Group
  <2>4. \A q \in Pid : \A t \in open'[q] : log'[t] # None
    BY <1>4, <2>1, <2>2
  <2>5. \A q \in Tuis("codex") : \A t \in open'[q] : log'[t].root => t = proc'[q].session
    BY <1>2, <1>5, <1>6, <2>1, <2>2, <2>3
  <2> QED
    BY <1>8, <2>4, <2>5 DEF LogsAreOwn
<1>11. p \notin Tuis("claude")
  BY <1>3 DEF Tuis
<1>12. RecordsFollow' /\ ArgumentsHold'
  BY <1>2, <1>6, <1>8, <1>11
     DEF IInv, RecordsFollow, ArgumentsHold, HasRecord, Tuis, Group
<1>13. RelaunchedInv'
  BY <1>2 DEF RelaunchedInv
<1> QED
  BY <1>7, <1>9, <1>10, <1>12, <1>13 DEF IInv

LEMMA ClaudeSwitchesKeeps == ASSUME IInv, NEW p \in Pid, ClaudeSwitches(p) PROVE IInv'
<1>1. PICK s \in Session \ {proc[p].session} :
        /\ proc' = [proc EXCEPT ![p].session = s]
        /\ record' = [record EXCEPT ![p].session = s]
  BY DEF ClaudeSwitches
<1>2. /\ p \in Tuis("claude") /\ relaunched' = None /\ HasRecord(p)
      /\ UNCHANGED <<leader, clock, log, open, captured>>
  BY DEF ClaudeSwitches, Disturbed, HasRecord
<1>3. proc[p] \in Process /\ proc[p].program = "claude" /\ record[p] \in Record
  BY <1>2 DEF IInv, TypeOK, Tuis, Group, HasRecord
<1> DEFINE switched == [proc[p] EXCEPT !.session = s]
           rewritten == [record[p] EXCEPT !.session = s]
<1>4. /\ switched \in Process /\ switched # None
      /\ switched.program = "claude" /\ switched.session = s /\ switched.start = proc[p].start
  <2>1. switched \in Process
    BY <1>3 DEF Process
  <2> QED
    BY <1>3, <2>1, NoneIsNothing DEF Process
<1>5. /\ rewritten \in Record /\ rewritten # None
      /\ rewritten.session = s /\ rewritten.start = record[p].start
  <2>1. rewritten \in Record
    BY <1>3 DEF Record
  <2> QED
    BY <1>3, <2>1, NoneIsNothing DEF Record
<1>6. proc'[p] = switched /\ \A q \in Pid \ {p} : proc'[q] = proc[q]
  BY <1>1 DEF IInv, TypeOK
<1>7. record'[p] = rewritten /\ \A q \in Pid \ {p} : record'[q] = record[q]
  BY <1>1 DEF IInv, TypeOK
<1>8. TypeOK'
  <2>1. proc' \in [Pid -> Process \cup {None}]
    BY <1>1, <1>4 DEF IInv, TypeOK
  <2>2. record' \in [Pid -> Record \cup {None}]
    BY <1>1, <1>5 DEF IInv, TypeOK
  <2> QED
    BY <1>2, <2>1, <2>2 DEF IInv, TypeOK
<1> HIDE DEF switched, rewritten
<1>9. \A tool : Tuis(tool)' = Tuis(tool)
  BY <1>2, <1>4, <1>6 DEF Tuis, Group
<1>10. StartsAreNew'
  BY <1>2, <1>4, <1>5, <1>6, <1>7 DEF IInv, StartsAreNew, Tuis, Group, HasRecord
<1>11. p \notin Tuis("codex")
  BY <1>3 DEF Tuis
<1>12. LogsAreOwn'
  BY <1>2, <1>6, <1>9, <1>11 DEF IInv, LogsAreOwn, Tuis, Group
<1>13. HasRecord(p)' /\ \A q \in Pid \ {p} : HasRecord(q)' = HasRecord(q)
  BY <1>2, <1>4, <1>5, <1>6, <1>7 DEF HasRecord
<1>14. RecordsFollow' /\ ArgumentsHold'
  BY <1>4, <1>5, <1>6, <1>7, <1>9, <1>13
     DEF IInv, RecordsFollow, ArgumentsHold, Tuis, Group
<1>15. RelaunchedInv'
  BY <1>2 DEF RelaunchedInv
<1> QED
  BY <1>8, <1>10, <1>12, <1>14, <1>15 DEF IInv

\* A record written now is of the process that has the id.
LEMMA WritesRecordKeeps == ASSUME IInv, NEW p \in Pid, WritesRecord(p) PROVE IInv'
<1> DEFINE written == [session |-> proc[p].session, start |-> proc[p].start,
                       dir |-> proc[p].dir, tui |-> p \in Tuis("claude")]
<1>1. /\ record' = [record EXCEPT ![p] = written]
      /\ UNCHANGED <<proc, leader, clock, log, open, captured, relaunched>>
  BY DEF WritesRecord, Undisturbed
<1>2. proc[p] \in Process /\ proc[p] # None
  BY DEF WritesRecord, Tuis, Group, IInv, TypeOK
<1>3. written \in Record /\ written # None
  <2>1. written \in Record
    BY <1>2 DEF Record, Process
  <2> QED
    BY <2>1, NoneIsNothing
<1>4. /\ written.session = proc[p].session /\ written.start = proc[p].start
      /\ written.dir = proc[p].dir /\ (p \in Tuis("claude") => written.tui)
  OBVIOUS
<1> HIDE DEF written
<1>5. record'[p] = written /\ \A q \in Pid \ {p} : record'[q] = record[q]
  BY <1>1 DEF IInv, TypeOK
<1>6. TypeOK'
  BY <1>1, <1>3 DEF IInv, TypeOK
<1>7. \A tool : Tuis(tool)' = Tuis(tool)
  BY <1>1 DEF Tuis, Group
<1>8. StartsAreNew'
  BY <1>1, <1>2, <1>4, <1>5 DEF IInv, StartsAreNew
<1>9. LogsAreOwn'
  BY <1>1, <1>7 DEF IInv, LogsAreOwn
<1>10. HasRecord(p)' /\ \A q \in Pid \ {p} : HasRecord(q)' = HasRecord(q)
  BY <1>1, <1>3, <1>4, <1>5 DEF HasRecord
<1>11. RecordsFollow' /\ ArgumentsHold'
  BY <1>1, <1>4, <1>5, <1>7, <1>10 DEF IInv, RecordsFollow, ArgumentsHold, Tuis, Group
<1>12. RelaunchedInv'
  BY <1>1, <1>2, <1>4, <1>5, <1>10 DEF IInv, RelaunchedInv, Tuis, Group, TypeOK
<1> QED
  BY <1>6, <1>8, <1>9, <1>11, <1>12 DEF IInv

LEMMA ChangesDirKeeps == ASSUME IInv, NEW p \in Pid, ChangesDir(p) PROVE IInv'
<1>1. PICK d \in Dir \ {proc[p].dir} : proc' = [proc EXCEPT ![p].dir = d]
  BY DEF ChangesDir
<1>2. /\ p \in Group /\ relaunched' = None
      /\ UNCHANGED <<leader, clock, log, open, record, captured>>
  BY DEF ChangesDir, Disturbed
<1>3. proc[p] \in Process
  BY <1>2 DEF IInv, TypeOK, Group
<1> DEFINE moved == [proc[p] EXCEPT !.dir = d]
<1>4. /\ moved \in Process /\ moved # None
      /\ moved.program = proc[p].program /\ moved.session = proc[p].session
      /\ moved.start = proc[p].start /\ moved.named = proc[p].named
  <2>1. moved \in Process
    BY <1>3 DEF Process
  <2> QED
    BY <1>3, <2>1, NoneIsNothing DEF Process
<1>5. proc'[p] = moved /\ \A q \in Pid \ {p} : proc'[q] = proc[q]
  BY <1>1 DEF IInv, TypeOK
<1>6. TypeOK'
  BY <1>1, <1>2, <1>4 DEF IInv, TypeOK
<1> HIDE DEF moved
<1>7. \A tool : Tuis(tool)' = Tuis(tool)
  BY <1>2, <1>4, <1>5 DEF Tuis, Group
<1>8. \A q \in Group : /\ proc'[q].program = proc[q].program /\ proc'[q].start = proc[q].start
                       /\ proc'[q].session = proc[q].session /\ proc'[q].named = proc[q].named
  BY <1>2, <1>4, <1>5 DEF Group
<1>9. StartsAreNew'
  BY <1>2, <1>4, <1>5 DEF IInv, StartsAreNew, Group
<1>10. LogsAreOwn' /\ RecordsFollow' /\ ArgumentsHold'
  BY <1>2, <1>7, <1>8 DEF IInv, LogsAreOwn, RecordsFollow, ArgumentsHold, HasRecord, Tuis
<1>11. RelaunchedInv'
  BY <1>2 DEF RelaunchedInv
<1> QED
  BY <1>6, <1>9, <1>10, <1>11 DEF IInv

\* The record that may stay behind is older than any process to come.
LEMMA ExitsKeeps == ASSUME IInv, NEW p \in Pid, Exits(p) PROVE IInv'
<1>1. /\ proc' = [q \in Pid |->
                IF q = p \/ proc[q] = None THEN None
                ELSE IF proc[q].parent = p THEN [proc[q] EXCEPT !.parent = None]
                ELSE proc[q]]
      /\ open' = [open EXCEPT ![p] = {}]
      /\ UNCHANGED record \/ record' = [record EXCEPT ![p] = None]
      /\ relaunched' = None /\ UNCHANGED <<leader, clock, log, captured>>
  BY DEF Exits, Disturbed
<1>2. /\ proc' \in [Pid -> Process \cup {None}]
      /\ \A q \in Pid : proc'[q] # None =>
           /\ q # p /\ proc[q] # None /\ proc'[q].program = proc[q].program
           /\ proc'[q].start = proc[q].start /\ proc'[q].session = proc[q].session
           /\ proc'[q].named = proc[q].named
  <2>1. ASSUME NEW q \in Pid, proc[q] # None
        PROVE  LET orphan == [proc[q] EXCEPT !.parent = None] IN
               /\ orphan \in Process /\ orphan.program = proc[q].program
               /\ orphan.start = proc[q].start /\ orphan.session = proc[q].session
               /\ orphan.named = proc[q].named
    <3>1. proc[q] \in Process
      BY <2>1 DEF IInv, TypeOK
    <3> QED
      BY <3>1 DEF Process
  <2> QED
    BY <1>1, <2>1 DEF IInv, TypeOK
<1>3. /\ record' \in [Pid -> Record \cup {None}]
      /\ \A q \in Pid : record'[q] # None => record'[q] = record[q]
      /\ \A q \in Pid \ {p} : record'[q] = record[q]
  BY <1>1 DEF IInv, TypeOK
<1>4. /\ open' \in [Pid -> SUBSET Session]
      /\ \A q \in Pid : open'[q] \subseteq open[q]
  BY <1>1 DEF IInv, TypeOK
<1>5. TypeOK'
  BY <1>1, <1>2, <1>3, <1>4 DEF IInv, TypeOK
<1>6. \A tool : \A q \in Tuis(tool)' : q \in Tuis(tool) /\ q # p
  BY <1>2 DEF Tuis, Group
<1>7. StartsAreNew'
  BY <1>1, <1>2, <1>3 DEF IInv, StartsAreNew
<1>8. LogsAreOwn'
  BY <1>1, <1>2, <1>4, <1>6 DEF IInv, LogsAreOwn, Tuis, Group
<1>9. RecordsFollow' /\ ArgumentsHold'
  BY <1>2, <1>3, <1>6 DEF IInv, RecordsFollow, ArgumentsHold, HasRecord, Tuis, Group
<1>10. RelaunchedInv'
  BY <1>1 DEF RelaunchedInv
<1> QED
  BY <1>5, <1>7, <1>8, <1>9, <1>10 DEF IInv

LEMMA NextHolds == IInv /\ [Next]_vars => IInv'
<1> SUFFICES ASSUME IInv, [Next]_vars PROVE IInv'
  OBVIOUS
<1>1. CASE UNCHANGED vars
  BY <1>1 DEF vars, IInv, TypeOK, StartsAreNew, LogsAreOwn, RecordsFollow, ArgumentsHold,
              RelaunchedInv, HasRecord, Tuis, Group
<1>2. CASE Relaunch
  BY <1>2, RelaunchKeeps
<1>3. CASE Programs
  <2>1. PICK p \in Pid :
          \/ StartsCodex(p) \/ StartsClaude(p) \/ StartsOther(p)
          \/ CompletesLog(p) \/ CodexSwitches(p) \/ SubAgentStarts(p)
          \/ OtherOpensLog(p) \/ WritesRecord(p) \/ ClaudeSwitches(p)
          \/ ChangesDir(p) \/ Exits(p)
    BY <1>3 DEF Programs
  <2> QED
    BY <2>1, StartsKeep, LogsKeep, CodexSwitchesKeeps, ClaudeSwitchesKeeps,
       WritesRecordKeeps, ChangesDirKeeps, ExitsKeeps
<1> QED
  BY <1>1, <1>2, <1>3 DEF Next

\* The invariant holds of every reachable state.
THEOREM InvariantHolds == Spec => []IInv
  BY InitHolds, NextHolds, PTL DEF Spec
----------------------------------------------------------------------------
(* The properties.                                                         *)

\* A session is recovered automatically only while one of the pane's own TUIs
\* runs it (classify_pane): a log of a user's session is open in the process
\* that runs it, a record with the start time of a process is its own, and
\* without one the arguments still tell the truth.
THEOREM AutomaticMeansLive == Spec => []AutomaticIsLive
<1>1. IInv => AutomaticIsLive
  <2> SUFFICES ASSUME IInv, NEW logsRead \in BOOLEAN,
                      Classify(logsRead, TRUE).kind = "Automatic",
                      Classify(logsRead, TRUE).session # None
               PROVE  LET o == Classify(logsRead, TRUE) IN
                      \E p \in Tuis(o.tool) : proc[p].session = o.session
    BY DEF AutomaticIsLive
  <2> DEFINE o == Classify(logsRead, TRUE)
  <2>1. \/ o = Automatic("serve", None)
        \/ \E p \in Tuis("claude") : o = Automatic("claude", proc[p].session)
        \/ \E p \in Tuis("codex") : o = Automatic("codex", proc[p].session)
    BY AutomaticAnswer DEF IInv
  <2>2. \A tool, s : Automatic(tool, s).tool = tool /\ Automatic(tool, s).session = s
    BY DEF Automatic
  <2>3. o.kind = "Automatic" /\ o.session # None
    OBVIOUS
  <2> HIDE DEF o
  <2>4. \E p \in Tuis(o.tool) : proc[p].session = o.session
    BY <2>1, <2>2, <2>3
  <2> QED
    BY <2>4 DEF o
<1> QED
  BY <1>1, InvariantHolds, PTL

\* Restore recognizes what it started itself (derive_automatic_command and the
\* expectation it has to meet): the process is alone in its group, and its one
\* log, or its argument and a record that agrees, name the session recorded.
THEOREM RelaunchIsAlwaysRecognized == Spec => []RelaunchIsRecognized
<1>1. IInv => RelaunchIsRecognized
  <2> SUFFICES ASSUME IInv, relaunched # None, NEW recordsRead \in BOOLEAN,
                      record[relaunched] # None =>
                        record[relaunched].start = proc[relaunched].start,
                      \A s \in open[relaunched] : ~log[s].torn
               PROVE  Classify(TRUE, recordsRead) = captured.outcome
    BY DEF RelaunchIsRecognized, Matches
  <2> DEFINE r == relaunched
             o == captured.outcome
  <2>1. RelaunchedInv /\ r \in Pid
    BY DEF IInv, TypeOK
  <2>2. Group = {r} /\ \A tool : Tuis(tool) = IF tool = o.tool THEN {r} ELSE {}
    BY <2>1 DEF RelaunchedInv, Group, Tuis
  <2>3. PaneDir = captured.dir /\ leader = r
    BY <2>1 DEF RelaunchedInv, PaneDir
  <2>4. CASE o.tool = "codex"
    <3>1. HeldByCodex = open[r]
      BY <2>2, <2>4 DEF HeldByCodex
    <3>2. {s \in HeldByCodex : log[s].root /\ log[s].dir = PaneDir} = {o.session}
      BY <2>1, <2>2, <2>3, <2>4, <3>1 DEF RelaunchedInv, IInv, LogsAreOwn
    <3>3. ~(Cardinality({s \in HeldByCodex : log[s].root /\ log[s].dir = PaneDir}) > 1)
      BY <3>2, NotMany
    <3>4. ResolveCodex(TRUE) = {Automatic("codex", o.session)}
      <4>1. /\ Tuis("codex") # {}
            /\ ~(~TRUE \/ \E s \in HeldByCodex : log[s].torn)
        BY <2>2, <2>4, <3>1
      <4> QED
        BY <4>1, <3>2, <3>3 DEF ResolveCodex
    <3>5. ResolveClaude(recordsRead) = {}
      BY <2>2, <2>4 DEF ResolveClaude
    <3>6. ResolveServe = {}
      BY <2>1, <2>3, <2>4 DEF ResolveServe, RelaunchedInv
    <3> QED
      BY <2>1, <2>4, <3>4, <3>5, <3>6, OneAnswer DEF RelaunchedInv
  <2>5. CASE o.tool = "serve"
    <3>1. ResolveCodex(TRUE) = {}
      BY <2>2, <2>5 DEF ResolveCodex
    <3>2. ResolveClaude(recordsRead) = {}
      BY <2>2, <2>5 DEF ResolveClaude
    <3>3. ResolveServe = {Automatic("serve", None)}
      BY <2>1, <2>3, <2>5 DEF ResolveServe, RelaunchedInv
    <3> QED
      BY <2>1, <2>5, <3>1, <3>2, <3>3, OneAnswer DEF RelaunchedInv
  <2>6. CASE o.tool = "claude"
    <3> DEFINE s == o.session
    <3>1. proc[r].named = <<s>> /\ s \in Session /\ s # "bad" /\ proc[r].session = s
      <4>1. r \in Tuis("claude")
        BY <2>2, <2>6
      <4>2. proc[r].session \in Session
        BY <4>1 DEF IInv, ArgumentsHold
      <4> QED
        BY <2>1, <2>6, <4>2, BadIsNoSession DEF RelaunchedInv, ArgumentsOf
    <3>2. Arguments = {<<r, 1>>} /\ NamedIn(<<r, 1>>) = s
      BY <2>2, <2>6, <3>1 DEF Arguments, NamedIn
    <3>3. SoundArguments = {<<r, 1>>}
      BY <3>1, <3>2 DEF SoundArguments
    <3>4. /\ SoundRecords(recordsRead) = Records(recordsRead)
          /\ Records(recordsRead) \subseteq {r}
          /\ \A p \in SoundRecords(recordsRead) : record[p].session = s
      <4>1. Records(recordsRead) \subseteq {r}
        BY <2>2, <2>6 DEF Records
      <4>2. record[r] # None => RecordOf(r) /\ record[r].session = s
        <5>1. r \in Tuis("claude")
          BY <2>2, <2>6
        <5> QED
          BY <2>1, <2>3, <2>6, <3>1, <5>1
             DEF RelaunchedInv, RecordOf, HasRecord, IInv, RecordsFollow
      <4> QED
        BY <4>1, <4>2 DEF SoundRecords, Records
    <3>5. Candidates(recordsRead) = {s}
      BY <3>2, <3>3, <3>4 DEF Candidates
    <3>6. ~(Cardinality(SoundArguments) > 1) /\ ~(Cardinality(Candidates(recordsRead)) > 1)
      BY <3>3, <3>5, NotMany
    <3>7. ~(Cardinality(SoundRecords(recordsRead)) > 1)
      <4>1. SoundRecords(recordsRead) = {} \/ SoundRecords(recordsRead) = {r}
        BY <3>4
      <4> QED
        BY <4>1, NotMany
    <3>8. ResolveClaude(recordsRead) = {Automatic("claude", s)}
      BY <2>2, <2>6, <3>2, <3>3, <3>4, <3>5, <3>6, <3>7 DEF ResolveClaude, Candidates
    <3>9. ResolveCodex(TRUE) = {}
      BY <2>2, <2>6 DEF ResolveCodex
    <3>10. ResolveServe = {}
      BY <2>1, <2>3, <2>6 DEF ResolveServe, RelaunchedInv
    <3> QED
      BY <2>1, <2>6, <3>8, <3>9, <3>10, OneAnswer DEF RelaunchedInv
  <2> QED
    BY <2>1, <2>4, <2>5, <2>6 DEF RelaunchedInv
<1> QED
  BY <1>1, InvariantHolds, PTL
=============================================================================
