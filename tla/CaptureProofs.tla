---------------------------- MODULE CaptureProofs ----------------------------
(***************************************************************************)
(* What a capture records is true, and what it lacks is reported, for any  *)
(* number of panes, sessions and attempts, and whatever the source server  *)
(* does meanwhile: the properties of Capture.                              *)
(***************************************************************************)
EXTENDS Capture, FiniteSetTheorems, TLAPS

\* A pane that exists or existed: no other one will ever be taken for it.
Old(p) == p.server < server \/ (p.server = server /\ p.id < nextId)

\* Panes are of the server that answers.  A session runs in its own pane only
\* and shows its own composer there.
SourceInv ==
  /\ \A c \in Coordinate : place[c] # None => place[c].server = server /\ place[c].id < nextId
  /\ \A p \in Pane, s \in Session : program[p] = s => home[s] = p /\ screen[p] = s

\* What is recorded for c belongs to its pane ...
Consistent(homes, places, recorded, c) ==
  /\ recorded[c] # None
  /\ recorded[c].kind = "Codex" => homes[recorded[c].session] = places[c]
  /\ recorded[c].prompt \in {None, recorded[c].session}

\* ... and what it lacks is reported, or was not on the screen.
Accounted(reported, blank, n, recorded, c) ==
  LET r == recorded[c]
      said(kind) == [kind |-> kind, attempt |-> n, at |-> c] \in reported IN
  /\ r.kind = "Unavailable" => said("PaneRecoveryUnavailable")
  /\ r.kind = "Downgraded" => said("ResolverDowngraded")
  /\ r.kind = "Codex" /\ r.prompt = None =>
       said("CodexPromptCaptureSkipped") \/ <<n, c>> \in blank

\* The attempt under way.  The draft that waits for the closing inspection is
\* the session's own if the session still has the pane.
Working == {"panes", "grid", "closing", "after"}
Reading == {"grid", "closing"}
AttemptInv ==
  /\ pc \in Working =>
       /\ todo \subseteq Occupied(topology)
       /\ \A c \in Occupied(topology) : Old(topology[c])
       /\ \A c \in Occupied(topology) \ todo :
            /\ Consistent(home, topology, recovery, c)
            /\ Accounted(events, absent, attempt, recovery, c)
  /\ pc = "after" => todo = {}
  /\ pc \in Reading =>
       /\ at \in todo /\ bound \in Session \X (Session \cup {None})
       /\ home[bound[1]] = topology[at]
  /\ pc = "closing" /\ There(topology[at]) /\ program[topology[at]] = bound[1] =>
       bound[2] = bound[1]

VerdictInv ==
  /\ pc \notin {"build", "done"} => verdict = "none"
  /\ verdict \in {"Unstable", "NoCompleteCandidate"} => attempt = Attempts
  /\ pc = "build" => verdict \in {"Stable", "Unstable"}
  /\ verdict \in {"Stable", "Unstable"} => saved # None
  /\ verdict = "NoCompleteCandidate" => saved = None

\* The candidate kept.
CandidateInv ==
  saved # None =>
    \A c \in Occupied(saved.topology) :
      /\ Consistent(home, saved.topology, saved.recovery, c)
      /\ verdict # "SnapshotTooLarge" =>
           Accounted(events, absent, saved.attempt, saved.recovery, c)

\* Attempts that are over.
Over(n) == n < attempt \/ verdict \in {"Unstable", "NoCompleteCandidate"}
HistoryInv ==
  verdict # "SnapshotTooLarge" =>
    \A n \in 1 .. Attempts : Over(n) =>
      /\ \E k \in Unvalidated : Emitted(k, n, None)
      /\ (saved # None => n > saved.attempt) => Emitted("BeforeReadFailed", n, None)

IInv == TypeOK /\ SourceInv /\ AttemptInv /\ VerdictInv /\ CandidateInv /\ HistoryInv
----------------------------------------------------------------------------
(* Types.                                                                  *)

\* What an inspection answers is a recovery, without a draft.
LEMMA InspectionTypes ==
  ASSUME TypeOK, NEW p \in Pane \cup {None}, NEW r \in Inspection(p)
  PROVE  /\ r \in Recovery /\ r.prompt = None
         /\ r.kind \in {"Idle", "Manual", "Downgraded", "Unavailable", "Codex"}
         /\ r.kind = "Codex" => /\ p \in Pane /\ r.session \in Session /\ There(p)
                               /\ program[p] = r.session /\ r = Codex(r.session, None)
<1>1. \A kind \in {"Idle", "Manual", "Downgraded", "Unavailable"} :
        /\ Plain(kind) \in Recovery /\ Plain(kind).kind = kind /\ Plain(kind).prompt = None
  BY DEF Plain, Recovery
<1>2. \A s \in Session : /\ Codex(s, None) \in Recovery /\ Codex(s, None).kind = "Codex"
                         /\ Codex(s, None).session = s /\ Codex(s, None).prompt = None
  BY DEF Codex, Recovery
<1>3. CASE r \in {Plain("Idle"), Plain("Manual"), Plain("Downgraded"), Plain("Unavailable")}
  BY <1>1, <1>3
<1>4. CASE ~ (r \in {Plain("Idle"), Plain("Manual"), Plain("Downgraded"), Plain("Unavailable")})
  <2>1. There(p) /\ program[p] \notin {"shell", "other"} /\ r = Codex(program[p], None)
    BY <1>4 DEF Inspection
  <2>2. p \in Pane
    BY <2>1 DEF There
  <2>3. program[p] \in Session
    BY <2>1, <2>2 DEF TypeOK, Program
  <2>. QED  BY <1>2, <2>1, <2>2, <2>3
<1>. QED  BY <1>3, <1>4

LEMMA NextAttemptTypes ==
  ASSUME TypeOK, NextAttempt
  PROVE  /\ attempt' \in 1 .. Attempts /\ pc' \in {"before", "build", "done"}
         /\ verdict' \in {verdict, "Unstable", "NoCompleteCandidate"}
BY AttemptsIsPositive DEF NextAttempt, TypeOK

LEMMA EmitTypes ==
  ASSUME TypeOK, NEW kind \in EventKind, NEW where \in Coordinate \cup {None},
         Emit(kind, where)
  PROVE  events' \subseteq Event /\ events \subseteq events'
BY DEF Emit, Event, TypeOK

LEMMA RecordTypes ==
  ASSUME TypeOK, NEW c \in Coordinate, NEW r \in Recovery, Record(c, r)
  PROVE  /\ recovery' \in [Coordinate -> Recovery \cup {None}]
         /\ todo' \subseteq Coordinate /\ pc' \in {"after", "panes"}
         /\ at' = None /\ bound' = None
BY DEF Record, TypeOK

\* strip_prompt_enrichment() changes the recoveries of a candidate, nothing else.
LEMMA StripTypes ==
  ASSUME saved \in Candidate, StripPrompts
  PROVE  /\ saved' \in Candidate /\ saved'.attempt = saved.attempt
         /\ saved'.topology = saved.topology
         /\ saved'.recovery =
              [c \in Coordinate |-> IF c \in WithPrompt
                 THEN Codex(saved.recovery[c].session, None) ELSE saved.recovery[c]]
<1> DEFINE stripped == [c \in Coordinate |-> IF c \in WithPrompt
                 THEN Codex(saved.recovery[c].session, None) ELSE saved.recovery[c]]
<1>1. \A c \in WithPrompt : Codex(saved.recovery[c].session, None) \in Recovery
  BY DEF WithPrompt, Candidate, Recovery, Codex
<1>2. stripped \in [Coordinate -> Recovery \cup {None}]
  BY <1>1 DEF Candidate
<1>3. saved' = [saved EXCEPT !.recovery = stripped]
  BY DEF StripPrompts
<1> HIDE DEF stripped
<1>4. saved' = [attempt |-> saved.attempt, topology |-> saved.topology, recovery |-> stripped]
  BY <1>3 DEF Candidate
<1>5. saved' \in Candidate /\ saved'.attempt = saved.attempt
      /\ saved'.topology = saved.topology /\ saved'.recovery = stripped
  BY <1>2, <1>4 DEF Candidate
<1>. QED  BY <1>5 DEF stripped

LEMMA TypeStep == ASSUME TypeOK, AttemptInv, VerdictInv, [Next]_vars PROVE TypeOK'
<1>1. CASE ReadBefore
  <2>1. /\ topology' \in [Coordinate -> Pane \cup {None}] /\ todo' \subseteq Coordinate
        /\ recovery' \in [Coordinate -> Recovery \cup {None}]
    BY <1>1 DEF ReadBefore, TypeOK, Occupied, Nowhere
  <2>2. /\ attempt' \in 1 .. Attempts /\ pc' \in {"before", "panes", "build", "done"}
        /\ verdict' \in {verdict, "Unstable", "NoCompleteCandidate"} /\ events' \subseteq Event
    BY <1>1, NextAttemptTypes, EmitTypes DEF ReadBefore, BeforeReadFailed, TypeOK, EventKind
  <2>. QED  BY <1>1, <2>1, <2>2 DEF ReadBefore, TypeOK, source
<1>2. CASE ReadAfter
  <2>1. saved' \in Candidate
    BY <1>2 DEF ReadAfter, KeepCandidate, Captured, Candidate, TypeOK
  <2>2. /\ attempt' \in 1 .. Attempts /\ pc' \in {"before", "build", "done"}
        /\ verdict' \in {verdict, "Stable", "Unstable", "NoCompleteCandidate"}
        /\ events' \subseteq Event
    BY <1>2, NextAttemptTypes, EmitTypes DEF ReadAfter, TypeOK, EventKind
  <2>. QED  BY <1>2, <2>1, <2>2 DEF ReadAfter, TypeOK, source
<1>3. CASE InspectPane
  <2>1. PICK c \in todo : \E r \in Inspection(topology[c]) :
          IF r.kind = "Codex"
          THEN /\ at' = c /\ bound' = <<r.session, None>> /\ pc' = "grid"
               /\ UNCHANGED <<attempt, topology, todo, recovery, saved, verdict, events>>
          ELSE /\ Record(c, r)
               /\ \/ r.kind = "Unavailable" /\ Emit("PaneRecoveryUnavailable", c)
                  \/ r.kind = "Downgraded" /\ Emit("ResolverDowngraded", c)
                  \/ r.kind \in {"Idle", "Manual"} /\ UNCHANGED events
    BY <1>3 DEF InspectPane, PaneOf
  <2>2. PICK r \in Inspection(topology[c]) :
          IF r.kind = "Codex"
          THEN /\ at' = c /\ bound' = <<r.session, None>> /\ pc' = "grid"
               /\ UNCHANGED <<attempt, topology, todo, recovery, saved, verdict, events>>
          ELSE /\ Record(c, r)
               /\ \/ r.kind = "Unavailable" /\ Emit("PaneRecoveryUnavailable", c)
                  \/ r.kind = "Downgraded" /\ Emit("ResolverDowngraded", c)
                  \/ r.kind \in {"Idle", "Manual"} /\ UNCHANGED events
    BY <2>1
  <2>3. c \in Coordinate /\ topology[c] \in Pane \cup {None} /\ UNCHANGED <<source, home, absent>>
    BY <1>3 DEF TypeOK, InspectPane
  <2>4. r \in Recovery /\ (r.kind = "Codex" => r.session \in Session)
    BY <2>3, InspectionTypes
  <2>5. CASE r.kind = "Codex"
    BY <2>2, <2>3, <2>4, <2>5 DEF TypeOK, source
  <2>6. CASE r.kind # "Codex"
    <3>1. Record(c, r) /\ events' \subseteq Event
      BY <2>2, <2>3, <2>6, EmitTypes DEF TypeOK, EventKind
    <3>2. UNCHANGED <<attempt, topology, saved, verdict>>
      BY <3>1 DEF Record
    <3>. QED  BY <2>3, <2>4, <3>1, <3>2, RecordTypes DEF TypeOK, source
  <2>. QED  BY <2>5, <2>6
<1>4. CASE ReadGrid \/ ClosingInspection
  <2>1. /\ at \in Coordinate /\ bound \in Session \X (Session \cup {None})
        /\ UNCHANGED <<source, home>>
    BY <1>4 DEF ReadGrid, ClosingInspection, AttemptInv, TypeOK, Reading
  <2>2. \A d \in Session \cup {None} : Codex(bound[1], d) \in Recovery
    BY <2>1 DEF Codex, Recovery
  <2>3. absent' \subseteq (1 .. Attempts) \X Coordinate
    BY <1>4, <2>1 DEF ReadGrid, ClosingInspection, TypeOK
  <2>4. ASSUME NEW d \in Session \cup {None}, Record(at, Codex(bound[1], d)),
               events' \subseteq Event
        PROVE  TypeOK'
    <3>1. UNCHANGED <<attempt, topology, saved, verdict>>
      BY <2>4 DEF Record
    <3>. QED  BY <2>1, <2>2, <2>3, <2>4, <3>1, RecordTypes DEF TypeOK, source
  <2>5. CASE SkipPrompt
    BY <2>1, <2>4, <2>5, EmitTypes DEF SkipPrompt, EventKind
  <2>6. ASSUME NEW p \in Pane, BindDraft(screen[p]) PROVE TypeOK'
    BY <2>1, <2>3, <2>6 DEF BindDraft, TypeOK, source
  <2>7. CASE ReadGrid
    BY <2>1, <2>4, <2>5, <2>6, <2>7 DEF ReadGrid, TypeOK, WithId
  <2>8. CASE ClosingInspection
    BY <2>1, <2>4, <2>5, <2>8 DEF ClosingInspection, TypeOK
  <2>. QED  BY <1>4, <2>7, <2>8
<1>5. CASE BuildResult
  <2>1. saved # None /\ saved \in Candidate
    BY <1>5 DEF BuildResult, VerdictInv, TypeOK
  <2>2. saved' \in Candidate
    BY <1>5, <2>1, StripTypes DEF BuildResult
  <2>3. UnstableEvent \subseteq Event /\ StrippedEvents \subseteq Event
    BY <2>1, AttemptsIsPositive DEF UnstableEvent, StrippedEvents, WithPrompt, Event, EventKind, Candidate
  <2>4. events' \subseteq Event
    BY <1>5, <2>3 DEF BuildResult, TypeOK
  <2>. QED  BY <1>5, <2>2, <2>4 DEF BuildResult, TypeOK, source
<1>6. ASSUME NEW c \in Coordinate, PaneOpens(c) \/ PaneCloses(c) PROVE TypeOK'
  <2>1. UNCHANGED <<capture, server, program, screen, home, absent>> /\ changes' \in 0 .. MaxChanges
    BY <1>6, MaxChangesIsNat DEF PaneOpens, PaneCloses, Change, TypeOK
  <2>2. place' \in [Coordinate -> Pane \cup {None}] /\ nextId' \in 0 .. MaxId + 1
    BY <1>6, MaxIdIsNat DEF PaneOpens, PaneCloses, TypeOK, Pane
  <2>. QED  BY <2>1, <2>2 DEF TypeOK, capture
<1>7. ASSUME NEW c \in Coordinate, NEW d \in Coordinate, PanesMove(c, d) PROVE TypeOK'
  BY <1>7, MaxChangesIsNat DEF PanesMove, Change, TypeOK, capture
<1>8. CASE ServerReplaced
  <2>1. /\ UNCHANGED <<capture, program, screen, home, absent>> /\ changes' \in 0 .. MaxChanges
        /\ server' = server + 1 /\ server' \in 0 .. MaxServers
        /\ nextId' = Cardinality(Occupied(place))
    BY <1>8, MaxChangesIsNat, MaxServersIsNat DEF ServerReplaced, Change, TypeOK
  <2>2. nextId' \in 0 .. MaxId + 1
    <3>1. Occupied(place) \subseteq Coordinate
      BY DEF Occupied
    <3>2. /\ Cardinality(Occupied(place)) \in Nat
          /\ Cardinality(Occupied(place)) <= Cardinality(Coordinate)
      BY <3>1, CoordinatesFit, FS_Subset, FS_CardinalityType
    <3>. QED  BY <2>1, <3>2, CoordinatesFit, MaxIdIsNat
  <2>3. PICK order \in [Occupied(place) -> 0 .. nextId' - 1] :
          place' = [c \in Coordinate |-> IF c \in Occupied(place)
                                         THEN [server |-> server + 1, id |-> order[c]] ELSE None]
    BY <1>8 DEF ServerReplaced
  <2>4. \A c \in Occupied(place) : order[c] \in 0 .. MaxId
    BY <2>2, <2>3, MaxIdIsNat
  <2>5. place' \in [Coordinate -> Pane \cup {None}]
    BY <2>1, <2>3, <2>4 DEF Pane
  <2>. QED  BY <2>1, <2>2, <2>5 DEF TypeOK, capture
<1>9. ASSUME NEW p \in Pane, ProgramChanges(p) PROVE TypeOK'
  <2>1. UNCHANGED <<capture, server, nextId, place, absent>> /\ changes' \in 0 .. MaxChanges
    BY <1>9, MaxChangesIsNat DEF ProgramChanges, Change, TypeOK
  <2>2. /\ program' \in [Pane -> Program] /\ screen' \in [Pane -> Session \cup {None}]
        /\ home' \in [Session -> Pane \cup {None}]
    BY <1>9 DEF ProgramChanges, TypeOK, Program
  <2>. QED  BY <2>1, <2>2 DEF TypeOK, capture
<1>10. CASE UNCHANGED vars
  BY <1>10 DEF vars, capture, source, TypeOK
<1>. QED  BY <1>1, <1>2, <1>3, <1>4, <1>5, <1>6, <1>7, <1>8, <1>9, <1>10
          DEF Next, Snapshot, Source
----------------------------------------------------------------------------
(* The source.                                                             *)

\* What the source may do to a capture under way: sessions stay at home, panes
\* that are gone never come back, and a session comes to no pane a second time.
LEMMA SourceMoves ==
  ASSUME TypeOK, TypeOK', SourceInv, Source
  PROVE  /\ SourceInv' /\ UNCHANGED <<capture, absent>>
         /\ \A s \in Session : home[s] # None => home'[s] = home[s]
         /\ \A p \in Pane : Old(p) => Old(p)' /\ (There(p)' => There(p))
         /\ \A p \in Pane, s \in Session :
              program'[p] = s /\ home[s] # None => program[p] = s
<1> USE NoneIsNothing
<1>1. /\ server \in Nat /\ nextId \in Nat
      /\ \A p \in Pane : p # None /\ p.server \in Nat /\ p.id \in Nat
      /\ \A c \in Coordinate : place[c] \in Pane \cup {None}
  BY MaxServersIsNat, MaxIdIsNat DEF TypeOK, Pane
<1>2. ASSUME NEW c \in Coordinate, PaneOpens(c)
      PROVE  /\ SourceInv'
             /\ \A p \in Pane : Old(p) => Old(p)' /\ (There(p)' => There(p))
  <2>1. /\ place' = [place EXCEPT ![c] = [server |-> server, id |-> nextId]]
        /\ nextId' = nextId + 1 /\ UNCHANGED <<server, program, screen, home>>
    BY <1>2 DEF PaneOpens
  <2>2. SourceInv'
    BY <1>1, <2>1 DEF SourceInv, TypeOK
  <2>3. \A p \in Pane : Old(p) => Old(p)'
    BY <1>1, <2>1 DEF Old
  <2>4. \A p \in Pane : Old(p) => p # [server |-> server, id |-> nextId]
    BY <1>1 DEF Old
  <2>5. \A p \in Pane : Old(p) /\ There(p)' => There(p)
    BY <1>1, <2>1, <2>4 DEF There, TypeOK
  <2>. QED  BY <2>2, <2>3, <2>5
<1>3. ASSUME NEW c \in Coordinate, PaneCloses(c)
      PROVE  /\ SourceInv'
             /\ \A p \in Pane : Old(p) => Old(p)' /\ (There(p)' => There(p))
  BY <1>1, <1>3 DEF PaneCloses, SourceInv, Old, There, TypeOK
<1>4. ASSUME NEW c \in Coordinate, NEW d \in Coordinate, PanesMove(c, d)
      PROVE  /\ SourceInv'
             /\ \A p \in Pane : Old(p) => Old(p)' /\ (There(p)' => There(p))
  BY <1>1, <1>4 DEF PanesMove, SourceInv, Old, There, TypeOK
<1>5. ASSUME ServerReplaced
      PROVE  /\ SourceInv'
             /\ \A p \in Pane : Old(p) => Old(p)' /\ (There(p)' => There(p))
  <2>1. PICK order \in [Occupied(place) -> 0 .. nextId' - 1] :
          place' = [c \in Coordinate |-> IF c \in Occupied(place)
                                         THEN [server |-> server + 1, id |-> order[c]] ELSE None]
    BY <1>5 DEF ServerReplaced
  <2>2. server' = server + 1 /\ nextId' \in Nat /\ UNCHANGED <<program, screen, home>>
    BY <1>5, MaxIdIsNat DEF ServerReplaced, TypeOK
  <2>3. \A c \in Occupied(place) : order[c] \in Nat /\ order[c] < nextId'
    BY <2>1, <2>2
  <2>4. SourceInv'
    BY <2>1, <2>2, <2>3 DEF SourceInv
  <2>5. \A p \in Pane : Old(p) => Old(p)' /\ ~ There(p)'
    BY <1>1, <2>1, <2>2 DEF Old, There
  <2>. QED  BY <2>4, <2>5
<1>6. ASSUME NEW p \in Pane, ProgramChanges(p)
      PROVE  /\ SourceInv'
             /\ \A q \in Pane : Old(q) => Old(q)' /\ (There(q)' => There(q))
             /\ \A s \in Session : home[s] # None => home'[s] = home[s]
             /\ \A q \in Pane, s \in Session :
                  program'[q] = s /\ home[s] # None => program[q] = s
  <2>1. UNCHANGED <<place, server, nextId>>
    BY <1>6 DEF ProgramChanges
  <2>2. /\ \A s \in Session : home[s] # None => home'[s] = home[s]
        /\ \A q \in Pane, s \in Session :
             program'[q] = s /\ home[s] # None => program[q] = s
    BY <1>6, ProgramsAreDistinct DEF ProgramChanges, TypeOK
  <2>3. \A q \in Pane, s \in Session : program'[q] = s => home'[s] = q /\ screen'[q] = s
    BY <1>6, ProgramsAreDistinct DEF ProgramChanges, TypeOK, SourceInv
  <2>. QED  BY <2>1, <2>2, <2>3 DEF SourceInv, Old, There
<1>7. \/ ServerReplaced
      \/ \E c \in Coordinate : PaneOpens(c) \/ PaneCloses(c)
      \/ \E c, d \in Coordinate : PanesMove(c, d)
      => UNCHANGED <<capture, program, home, absent>>
  BY DEF ServerReplaced, PaneOpens, PaneCloses, PanesMove
<1>8. \A p \in Pane : ProgramChanges(p) => UNCHANGED <<capture, absent>>
  BY DEF ProgramChanges
<1>. QED  BY <1>2, <1>3, <1>4, <1>5, <1>6, <1>7, <1>8 DEF Source

\* What is recorded stays true while sessions stay at home.
LEMMA RecordsStay ==
  ASSUME TypeOK, \A s \in Session : home[s] # None => home'[s] = home[s],
         NEW places \in [Coordinate -> Pane \cup {None}],
         NEW recorded \in [Coordinate -> Recovery \cup {None}],
         NEW c \in Occupied(places), Consistent(home, places, recorded, c)
  PROVE  Consistent(home', places, recorded, c)
<1>1. c \in Coordinate /\ places[c] # None
  BY DEF Occupied
<1>2. recorded[c].kind = "Codex" => recorded[c].session \in Session
  BY <1>1 DEF Consistent, Recovery
<1>. QED  BY <1>1, <1>2 DEF Consistent

LEMMA SourceKeeps ==
  ASSUME IInv, TypeOK', Source
  PROVE  IInv'
<1> USE DEF IInv
<1>1. /\ SourceInv' /\ UNCHANGED <<capture, absent>>
      /\ \A s \in Session : home[s] # None => home'[s] = home[s]
      /\ \A p \in Pane : Old(p) => Old(p)' /\ (There(p)' => There(p))
      /\ \A p \in Pane, s \in Session :
           program'[p] = s /\ home[s] # None => program[p] = s
  BY SourceMoves
<1>2. UNCHANGED <<pc, attempt, topology, todo, at, bound, recovery, saved, verdict, events>>
  BY <1>1 DEF capture
<1>3. VerdictInv' /\ HistoryInv'
  BY <1>2 DEF VerdictInv, HistoryInv, Over, Emitted
<1>4. CandidateInv'
  <2>1. CASE saved = None
    BY <1>2, <2>1 DEF CandidateInv
  <2>2. CASE saved # None
    <3>1. saved \in Candidate
      BY <2>2 DEF TypeOK
    <3>2. \A c \in Occupied(saved.topology) : Consistent(home', saved.topology, saved.recovery, c)
      BY <1>1, <2>2, <3>1, RecordsStay DEF CandidateInv, Candidate
    <3>. QED  BY <1>1, <1>2, <2>2, <3>2 DEF CandidateInv
  <2>. QED  BY <2>1, <2>2
<1>5. AttemptInv'
  <2>1. topology \in [Coordinate -> Pane \cup {None}]
        /\ recovery \in [Coordinate -> Recovery \cup {None}]
    BY DEF TypeOK
  <2>2. \A c \in Occupied(topology) : topology[c] \in Pane
    BY <2>1 DEF Occupied
  <2>3. pc \in Working =>
          \A c \in Occupied(topology) \ todo : Consistent(home', topology, recovery, c)
    BY <1>1, <2>1, RecordsStay DEF AttemptInv
  <2>4. pc \in Working => \A c \in Occupied(topology) : Old(topology[c])'
    BY <1>1, <1>2, <2>2 DEF AttemptInv, Old
  <2>5. pc \in Reading => /\ topology[at] \in Pane /\ Old(topology[at]) /\ bound[1] \in Session
                         /\ home[bound[1]] = topology[at] /\ topology[at] # None
    BY <2>2, NoneIsNothing DEF AttemptInv, Working, Reading
  <2>6. pc = "closing" /\ There(topology[at])' /\ program'[topology[at]] = bound[1] =>
          bound[2] = bound[1]
    BY <1>1, <1>2, <2>5 DEF AttemptInv, Reading, There
  <2>. QED  BY <1>1, <1>2, <2>3, <2>4, <2>5, <2>6
            DEF AttemptInv, Working, Reading, Occupied
<1>. QED  BY <1>1, <1>3, <1>4, <1>5
----------------------------------------------------------------------------
(* The capture.                                                            *)

\* Only events and reasons for missing drafts are added.
LEMMA AccountsStay ==
  ASSUME NEW more, NEW blank, events \subseteq more, absent \subseteq blank,
         NEW n, NEW recorded, NEW c, Accounted(events, absent, n, recorded, c)
  PROVE  Accounted(more, blank, n, recorded, c)
BY DEF Accounted

\* The candidate and the history outlive a step that only adds events.
LEMMA KeptStay ==
  ASSUME IInv, UNCHANGED <<attempt, saved, verdict, home>>, events \subseteq events',
         absent \subseteq absent'
  PROVE  CandidateInv' /\ HistoryInv'
<1>1. CandidateInv'
  BY AccountsStay DEF IInv, CandidateInv
<1>2. HistoryInv'
  BY DEF IInv, HistoryInv, Over, Emitted
<1>. QED  BY <1>1, <1>2

\* A pane is recorded, truly and with its reasons.
LEMMA RecordStep ==
  ASSUME IInv, TypeOK', pc \in {"panes", "grid", "closing"}, UNCHANGED <<source, home>>,
         NEW c \in todo, NEW r \in Recovery, Record(c, r),
         r.kind = "Codex" => home[r.session] = topology[c],
         r.prompt \in {None, r.session},
         events \subseteq events', absent \subseteq absent',
         Accounted(events', absent', attempt, recovery', c)
  PROVE  IInv'
<1> USE DEF IInv, Working
<1>1. /\ todo \subseteq Occupied(topology) /\ c \in Coordinate
      /\ recovery \in [Coordinate -> Recovery \cup {None}]
      /\ verdict = "none"
  BY DEF AttemptInv, TypeOK, VerdictInv
<1>2. /\ recovery' = [recovery EXCEPT ![c] = r] /\ todo' = todo \ {c}
      /\ pc' = IF todo = {c} THEN "after" ELSE "panes"
      /\ UNCHANGED <<attempt, topology, saved, verdict>>
  BY DEF Record
<1>3. SourceInv'
  BY DEF SourceInv, source
<1>4. VerdictInv'
  BY <1>1, <1>2 DEF VerdictInv
<1>5. CandidateInv' /\ HistoryInv'
  BY <1>2, KeptStay
<1>6. recovery'[c] = r /\ \A d \in Coordinate : d # c => recovery'[d] = recovery[d]
  BY <1>1, <1>2
<1>7. Consistent(home, topology, recovery', c)
  BY <1>6, NoneIsNothing DEF Consistent
<1>8. ASSUME NEW d \in Occupied(topology) \ todo, d # c
      PROVE  /\ Consistent(home, topology, recovery', d)
             /\ Accounted(events', absent', attempt, recovery', d)
  <2>1. d \in Coordinate
    BY DEF Occupied
  <2>2. recovery'[d] = recovery[d]
    BY <1>6, <1>8, <2>1
  <2>3. Consistent(home, topology, recovery, d) /\ Accounted(events, absent, attempt, recovery, d)
    BY <1>8 DEF AttemptInv
  <2>. QED  BY <2>2, <2>3 DEF Consistent, Accounted
<1>9. AttemptInv'
  BY <1>1, <1>2, <1>7, <1>8 DEF AttemptInv, Occupied, Reading, Old, source
<1>. QED  BY <1>3, <1>4, <1>5, <1>9

LEMMA InspectStep == ASSUME IInv, TypeOK', InspectPane PROVE IInv'
<1> USE DEF IInv
<1>1. PICK c \in todo : \E r \in Inspection(topology[c]) :
        IF r.kind = "Codex"
        THEN /\ at' = c /\ bound' = <<r.session, None>> /\ pc' = "grid"
             /\ UNCHANGED <<attempt, topology, todo, recovery, saved, verdict, events>>
        ELSE /\ Record(c, r)
             /\ \/ r.kind = "Unavailable" /\ Emit("PaneRecoveryUnavailable", c)
                \/ r.kind = "Downgraded" /\ Emit("ResolverDowngraded", c)
                \/ r.kind \in {"Idle", "Manual"} /\ UNCHANGED events
  BY DEF InspectPane, PaneOf
<1>2. PICK r \in Inspection(topology[c]) :
        IF r.kind = "Codex"
        THEN /\ at' = c /\ bound' = <<r.session, None>> /\ pc' = "grid"
             /\ UNCHANGED <<attempt, topology, todo, recovery, saved, verdict, events>>
        ELSE /\ Record(c, r)
             /\ \/ r.kind = "Unavailable" /\ Emit("PaneRecoveryUnavailable", c)
                \/ r.kind = "Downgraded" /\ Emit("ResolverDowngraded", c)
                \/ r.kind \in {"Idle", "Manual"} /\ UNCHANGED events
  BY <1>1
<1>3. /\ pc = "panes" /\ UNCHANGED <<source, home, absent>>
      /\ c \in Coordinate /\ topology[c] \in Pane \cup {None}
  BY DEF InspectPane, TypeOK
<1>4. /\ r \in Recovery /\ r.prompt = None
      /\ r.kind = "Codex" => /\ topology[c] \in Pane /\ r.session \in Session
                            /\ program[topology[c]] = r.session
  BY <1>3, InspectionTypes
<1>5. CASE r.kind = "Codex"
  <2>1. /\ at' = c /\ bound' = <<r.session, None>> /\ pc' = "grid"
        /\ UNCHANGED <<attempt, topology, todo, recovery, saved, verdict, events>>
    BY <1>2, <1>5
  <2>2. home[r.session] = topology[c]
    BY <1>4, <1>5 DEF SourceInv
  <2>3. SourceInv' /\ VerdictInv'
    BY <1>3, <2>1 DEF SourceInv, VerdictInv, source
  <2>4. CandidateInv' /\ HistoryInv'
    BY <1>3, <2>1, KeptStay
  <2>5. AttemptInv'
    BY <1>3, <1>4, <1>5, <2>1, <2>2 DEF AttemptInv, Working, Reading, Old, Occupied, source
  <2>. QED  BY <2>3, <2>4, <2>5
<1>6. CASE r.kind # "Codex"
  <2>1. /\ Record(c, r) /\ events \subseteq events'
        /\ r.kind = "Unavailable" =>
             [kind |-> "PaneRecoveryUnavailable", attempt |-> attempt, at |-> c] \in events'
        /\ r.kind = "Downgraded" =>
             [kind |-> "ResolverDowngraded", attempt |-> attempt, at |-> c] \in events'
    BY <1>2, <1>6 DEF Emit
  <2>2. recovery'[c] = r
    BY <1>3, <2>1 DEF Record, TypeOK
  <2>3. Accounted(events', absent', attempt, recovery', c)
    BY <1>6, <2>1, <2>2 DEF Accounted
  <2>. QED  BY <1>3, <1>4, <1>6, <2>1, <2>3, RecordStep
<1>. QED  BY <1>5, <1>6

\* A pane whose session waits for its draft is recorded with a draft that is
\* the session's, or without one and with the reason.
LEMMA DraftStep ==
  ASSUME IInv, TypeOK', pc \in Reading, UNCHANGED <<source, home>>,
         NEW d \in {None, bound[1]}, Record(at, Codex(bound[1], d)),
         events \subseteq events', absent \subseteq absent',
         d = None =>
           \/ [kind |-> "CodexPromptCaptureSkipped", attempt |-> attempt, at |-> at] \in events'
           \/ <<attempt, at>> \in absent'
  PROVE  IInv'
<1>1. /\ at \in todo /\ at \in Coordinate /\ bound[1] \in Session
      /\ home[bound[1]] = topology[at]
  BY DEF IInv, AttemptInv, Reading, TypeOK
<1>2. /\ Codex(bound[1], d) \in Recovery /\ Codex(bound[1], d).kind = "Codex"
      /\ Codex(bound[1], d).session = bound[1] /\ Codex(bound[1], d).prompt = d
  BY <1>1 DEF Codex, Recovery
<1>3. recovery'[at] = Codex(bound[1], d)
  BY <1>1 DEF Record, IInv, TypeOK
<1>4. Accounted(events', absent', attempt, recovery', at)
  BY <1>2, <1>3 DEF Accounted
<1>. QED  BY <1>1, <1>2, <1>4, RecordStep DEF Reading

LEMMA SkipStep ==
  ASSUME IInv, TypeOK', pc \in Reading, UNCHANGED <<source, home, absent>>, SkipPrompt
  PROVE  IInv'
BY DraftStep DEF SkipPrompt, Emit

\* read_visible_pane() finds the pane by its id: the draft is the session's, or
\* the session's pane is gone for good.
LEMMA GridStep == ASSUME IInv, TypeOK', ReadGrid PROVE IInv'
<1> USE DEF IInv
<1>1. pc = "grid" /\ UNCHANGED <<source, home>>
  BY DEF ReadGrid
<1>2. /\ at \in todo /\ at \in Coordinate /\ bound \in Session \X (Session \cup {None})
      /\ home[bound[1]] = topology[at] /\ at \in Occupied(topology)
  BY <1>1 DEF AttemptInv, Working, Reading, TypeOK
<1>3. topology[at] \in Pane /\ Old(topology[at]) /\ topology[at].server \in Nat /\ server \in Nat
  BY <1>1, <1>2, MaxServersIsNat DEF AttemptInv, Working, Occupied, TypeOK, Pane
<1>4. ASSUME NEW p \in WithId(topology[at].id), screen[p] # None, BindDraft(screen[p]),
             UNCHANGED absent
      PROVE  IInv'
  <2>1. p \in Pane /\ There(p) /\ p.id = topology[at].id
    BY DEF WithId
  <2>2. p.server = server
    BY <2>1 DEF There, SourceInv
  <2>3. screen[p] \in Session
    BY <1>4, <2>1 DEF TypeOK
  <2>4. There(topology[at]) => p = topology[at]
    <3>1. There(topology[at]) => topology[at].server = server
      BY DEF There, SourceInv
    <3>. QED  BY <1>3, <2>1, <2>2, <3>1 DEF Pane
  <2>5. /\ bound' = <<bound[1], screen[p]>> /\ pc' = "closing"
        /\ UNCHANGED <<attempt, topology, todo, at, recovery, saved, verdict, events>>
    BY <1>4 DEF BindDraft
  <2>6. There(topology[at]) /\ program[topology[at]] = bound[1] => screen[p] = bound[1]
    BY <1>2, <1>3, <2>4 DEF SourceInv
  <2>7. SourceInv' /\ VerdictInv'
    BY <1>1, <2>5 DEF SourceInv, VerdictInv, source
  <2>8. CandidateInv' /\ HistoryInv'
    BY <1>1, <1>4, <2>5, KeptStay
  <2>9. AttemptInv'
    BY <1>1, <1>2, <1>4, <2>3, <2>5, <2>6
       DEF AttemptInv, Working, Reading, Old, There, Occupied, source
  <2>. QED  BY <2>7, <2>8, <2>9
<1>5. CASE Record(at, Codex(bound[1], None)) /\ UNCHANGED events
            /\ absent' = absent \cup {<<attempt, at>>}
  BY <1>1, <1>5, DraftStep DEF Reading
<1>6. CASE SkipPrompt /\ UNCHANGED absent
  BY <1>1, <1>6, SkipStep DEF Reading
<1>. QED  BY <1>4, <1>5, <1>6 DEF ReadGrid

LEMMA ClosingStep == ASSUME IInv, TypeOK', ClosingInspection PROVE IInv'
<1>1. pc = "closing" /\ UNCHANGED <<source, home, absent>>
  BY DEF ClosingInspection
<1>2. at \in Coordinate /\ topology[at] \in Pane \cup {None} /\ bound[1] \in Session
  BY <1>1 DEF IInv, AttemptInv, Reading, TypeOK
<1>3. CASE SkipPrompt
  BY <1>1, <1>3, SkipStep DEF Reading
<1>4. ASSUME NEW r \in Inspection(topology[at]), r = Codex(bound[1], None),
             Record(at, Codex(bound[1], bound[2])), UNCHANGED events
      PROVE  IInv'
  <2>1. There(topology[at]) /\ program[topology[at]] = r.session /\ r.session = bound[1]
    BY <1>2, <1>4, InspectionTypes DEF Codex, IInv
  <2>2. bound[2] = bound[1] /\ bound[2] # None
    BY <1>1, <1>2, <2>1, NoneIsNothing DEF IInv, AttemptInv
  <2>. QED  BY <1>1, <1>4, <2>2, DraftStep DEF Reading
<1>. QED  BY <1>3, <1>4 DEF ClosingInspection, PaneOf

\* An attempt that gives no stable candidate: its reason, and the candidate kept.
LEMMA AttemptStep ==
  ASSUME IInv, TypeOK', verdict = "none", NextAttempt, UNCHANGED <<source, home, absent>>,
         NEW kind \in Unvalidated, Emit(kind, None),
         \/ saved' = saved /\ kind = "BeforeReadFailed"
         \/ saved' # None /\ saved'.attempt = attempt,
         CandidateInv'
  PROVE  IInv'
<1> USE DEF IInv
<1>1. /\ attempt \in 1 .. Attempts /\ Attempts \in Nat
      /\ \/ pc' = "before" /\ attempt' = attempt + 1 /\ verdict' = verdict
         \/ /\ attempt = Attempts /\ attempt' = attempt
            /\ \/ saved' = None /\ pc' = "done" /\ verdict' = "NoCompleteCandidate"
               \/ saved' # None /\ pc' = "build" /\ verdict' = "Unstable"
  BY AttemptsIsPositive DEF NextAttempt, TypeOK
<1>2. /\ events \subseteq events'
      /\ [kind |-> kind, attempt |-> attempt, at |-> None] \in events'
  BY DEF Emit
<1>3. SourceInv' /\ AttemptInv'
  BY <1>1 DEF SourceInv, AttemptInv, Working, Reading, source
<1>4. VerdictInv'
  BY <1>1 DEF VerdictInv
<1>5. HistoryInv'
  <2>1. SUFFICES ASSUME NEW n \in 1 .. Attempts, Over(n)'
                 PROVE  /\ \E k \in Unvalidated : Emitted(k, n, None)'
                        /\ (saved' # None => n > saved'.attempt) =>
                             Emitted("BeforeReadFailed", n, None)'
    BY DEF HistoryInv
  <2>2. CASE n = attempt
    BY <1>1, <1>2, <2>2 DEF Emitted
  <2>3. CASE n # attempt
    <3>1. n < attempt
      BY <1>1, <2>1, <2>3 DEF Over
    <3>2. /\ \E k \in Unvalidated : Emitted(k, n, None)
          /\ (saved # None => n > saved.attempt) => Emitted("BeforeReadFailed", n, None)
      BY <3>1 DEF HistoryInv, Over
    <3>. QED  BY <1>1, <1>2, <3>1, <3>2 DEF Emitted
  <2>. QED  BY <2>2, <2>3
<1>. QED  BY <1>3, <1>4, <1>5

LEMMA BeforeStep == ASSUME IInv, TypeOK', ReadBefore PROVE IInv'
<1> USE DEF IInv
<1>1. pc = "before" /\ verdict = "none" /\ UNCHANGED <<at, bound, source, home, absent, saved>>
  BY DEF ReadBefore, VerdictInv
<1>2. CASE BeforeReadFailed
  <2>1. events \subseteq events'
    BY <1>2 DEF BeforeReadFailed, Emit
  <2>2. CandidateInv'
    <3>1. verdict # "SnapshotTooLarge"
      BY <1>1
    <3>. QED  BY <1>1, <2>1, <3>1, AccountsStay DEF CandidateInv
  <2>. QED  BY <1>1, <1>2, <2>2, AttemptStep DEF BeforeReadFailed, Unvalidated
<1>3. CASE /\ topology' = place /\ todo' = Occupied(place) /\ pc' = "panes"
           /\ UNCHANGED <<attempt, verdict, saved, events>>
  <2>1. CandidateInv' /\ HistoryInv'
    BY <1>1, <1>3, KeptStay
  <2>2. SourceInv' /\ VerdictInv'
    BY <1>1, <1>3 DEF SourceInv, VerdictInv, source
  <2>3. \A c \in Occupied(place) : Old(place[c])
    BY DEF Occupied, Old, SourceInv
  <2>4. AttemptInv'
    BY <1>1, <1>3, <2>3 DEF AttemptInv, Working, Reading, Old, Occupied, source
  <2>. QED  BY <2>1, <2>2, <2>4
<1>. QED  BY <1>2, <1>3 DEF ReadBefore

LEMMA AfterStep == ASSUME IInv, TypeOK', ReadAfter PROVE IInv'
<1> USE DEF IInv
<1>1. /\ pc = "after" /\ verdict = "none" /\ saved' = Captured
      /\ UNCHANGED <<topology, todo, at, bound, recovery, source, home, absent>>
  BY DEF ReadAfter, KeepCandidate, VerdictInv
<1>2. /\ saved'.attempt = attempt /\ saved'.topology = topology
      /\ saved'.recovery = recovery /\ saved' # None
  BY <1>1, NoneIsNothing DEF Captured, Candidate, TypeOK
<1>3. \A c \in Occupied(topology) : /\ Consistent(home, topology, recovery, c)
                                    /\ Accounted(events, absent, attempt, recovery, c)
  BY <1>1 DEF AttemptInv, Working
<1>4. events \subseteq events'
  BY DEF ReadAfter, Emit
<1>5. \A c \in Occupied(topology) : Accounted(events', absent', attempt, recovery, c)
  BY <1>1, <1>3, <1>4, AccountsStay
<1>6. CandidateInv'
  BY <1>1, <1>2, <1>3, <1>5 DEF CandidateInv
<1>7. CASE verdict' = "Stable" /\ pc' = "build" /\ UNCHANGED <<attempt, events>>
  <2>1. SourceInv' /\ AttemptInv' /\ VerdictInv'
    BY <1>1, <1>2, <1>7 DEF SourceInv, AttemptInv, VerdictInv, Working, Reading, source
  <2>2. HistoryInv'
    <3>1. \A n \in 1 .. Attempts : n < attempt =>
            /\ \E k \in Unvalidated : Emitted(k, n, None)
            /\ (saved # None => n > saved.attempt) => Emitted("BeforeReadFailed", n, None)
      BY <1>1 DEF HistoryInv, Over
    <3>2. ASSUME NEW n \in 1 .. Attempts, Over(n)'
          PROVE  n < attempt /\ ~ (n > saved'.attempt)
      BY <1>2, <1>7, <3>2, AttemptsIsPositive DEF Over, TypeOK
    <3>. QED  BY <1>2, <1>7, <3>1, <3>2 DEF HistoryInv, Emitted
  <2>. QED  BY <1>6, <2>1, <2>2
<1>8. CASE NextAttempt /\ \/ Emit("TopologyMismatch", None) \/ Emit("AfterReadFailed", None)
  BY <1>1, <1>2, <1>6, <1>8, AttemptStep DEF Unvalidated
<1>. QED  BY <1>7, <1>8 DEF ReadAfter

LEMMA BuildStep == ASSUME IInv, TypeOK', BuildResult PROVE IInv'
<1> USE DEF IInv
<1>1. /\ pc = "build" /\ pc' = "done" /\ verdict \in {"Stable", "Unstable"}
      /\ saved # None /\ saved \in Candidate
      /\ UNCHANGED <<attempt, topology, todo, at, bound, recovery, source, home, absent>>
  BY DEF BuildResult, VerdictInv, TypeOK
<1>2. SourceInv' /\ AttemptInv'
  BY <1>1 DEF SourceInv, AttemptInv, Working, Reading, source
<1>3. CASE events' = events \cup UnstableEvent /\ UNCHANGED <<saved, verdict>>
  <2>1. VerdictInv'
    BY <1>1, <1>3 DEF VerdictInv
  <2>2. CandidateInv' /\ HistoryInv'
    BY <1>1, <1>3, KeptStay
  <2>. QED  BY <1>2, <2>1, <2>2
<1>4. CASE StripPrompts /\ events' = events \cup UnstableEvent \cup StrippedEvents
           /\ UNCHANGED verdict
  <2>2. /\ saved'.attempt = saved.attempt /\ saved'.topology = saved.topology
        /\ saved'.recovery =
             [c \in Coordinate |-> IF c \in WithPrompt
                THEN Codex(saved.recovery[c].session, None) ELSE saved.recovery[c]]
        /\ saved' # None
    BY <1>1, <1>4, StripTypes, NoneIsNothing
  <2>3. ASSUME NEW c \in Occupied(saved.topology)
        PROVE  /\ Consistent(home, saved.topology, saved'.recovery, c)
               /\ Accounted(events', absent', saved.attempt, saved'.recovery, c)
    <3>1. /\ c \in Coordinate /\ Consistent(home, saved.topology, saved.recovery, c)
          /\ Accounted(events, absent, saved.attempt, saved.recovery, c)
      BY <1>1 DEF CandidateInv, Occupied
    <3>2. CASE c \notin WithPrompt
      <4>1. saved'.recovery[c] = saved.recovery[c]
        BY <2>2, <3>1, <3>2
      <4>2. Accounted(events', absent', saved.attempt, saved.recovery, c)
        BY <1>1, <1>4, <3>1, AccountsStay
      <4>. QED  BY <3>1, <4>1, <4>2 DEF Consistent, Accounted
    <3>3. CASE c \in WithPrompt
      <4>1. /\ saved.recovery[c] \in Recovery /\ saved.recovery[c].prompt # None
        BY <1>1, <3>1, <3>3 DEF WithPrompt, Candidate
      <4>2. saved.recovery[c].kind = "Codex" /\ saved.recovery[c].session \in Session
        BY <4>1 DEF Recovery
      <4>3. saved'.recovery[c] = Codex(saved.recovery[c].session, None)
        BY <2>2, <3>1, <3>3
      <4>4. /\ saved'.recovery[c] # None /\ saved'.recovery[c].kind = "Codex"
            /\ saved'.recovery[c].prompt = None
            /\ saved'.recovery[c].session = saved.recovery[c].session
        BY <4>2, <4>3, NoneIsNothing DEF Codex, Recovery
      <4>5. [kind |-> "CodexPromptCaptureSkipped", attempt |-> saved.attempt, at |-> c] \in events'
        BY <1>4, <3>3 DEF StrippedEvents
      <4>. QED  BY <3>1, <4>2, <4>4, <4>5 DEF Consistent, Accounted
    <3>. QED  BY <3>2, <3>3
  <2>4. CandidateInv'
    BY <1>1, <2>2, <2>3 DEF CandidateInv
  <2>5. VerdictInv'
    BY <1>1, <1>4, <2>2 DEF VerdictInv
  <2>6. HistoryInv'
    BY <1>1, <1>4, <2>2 DEF HistoryInv, Over, Emitted
  <2>. QED  BY <1>2, <2>4, <2>5, <2>6
<1>5. CASE verdict' = "SnapshotTooLarge" /\ events' = {} /\ UNCHANGED saved
  <2>1. VerdictInv' /\ HistoryInv'
    BY <1>1, <1>5 DEF VerdictInv, HistoryInv
  <2>2. CandidateInv'
    BY <1>1, <1>5 DEF CandidateInv
  <2>. QED  BY <1>2, <2>1, <2>2
<1>. QED  BY <1>3, <1>4, <1>5 DEF BuildResult

LEMMA IInvHolds == Spec => []IInv
<1>1. Init => IInv
  <2> SUFFICES ASSUME Init PROVE IInv
    OBVIOUS
  <2>1. nextId \in 1 .. MaxId + 1 /\ server = 0
    BY CoordinatesFit DEF Init
  <2>2. PICK order \in [Coordinate -> 0 .. nextId - 1] :
          place = [c \in Coordinate |-> [server |-> 0, id |-> order[c]]]
    BY DEF Init
  <2>3. \A c \in Coordinate : order[c] \in 0 .. MaxId /\ order[c] < nextId
    BY <2>1, <2>2, MaxIdIsNat
  <2>4. place \in [Coordinate -> Pane] /\ 0 \in 0 .. MaxServers
    BY <2>2, <2>3, MaxServersIsNat DEF Pane
  <2>5. TypeOK
    BY <2>1, <2>4, AttemptsIsPositive, MaxChangesIsNat, MaxIdIsNat
       DEF Init, TypeOK, Nowhere, Program
  <2>6. SourceInv
    BY <2>1, <2>2, <2>3, ProgramsAreDistinct DEF Init, SourceInv
  <2>7. AttemptInv /\ VerdictInv /\ CandidateInv
    BY DEF Init, AttemptInv, VerdictInv, CandidateInv, Working, Reading
  <2>8. HistoryInv
    BY AttemptsIsPositive DEF Init, HistoryInv, Over
  <2>. QED  BY <2>5, <2>6, <2>7, <2>8 DEF IInv
<1>2. IInv /\ [Next]_vars => IInv'
  <2> SUFFICES ASSUME IInv, [Next]_vars PROVE IInv'
    OBVIOUS
  <2>1. TypeOK'
    BY TypeStep DEF IInv
  <2>2. CASE Source
    BY <2>1, <2>2, SourceKeeps
  <2>3. CASE Snapshot
    BY <2>1, <2>3, InspectStep, GridStep, ClosingStep, BeforeStep, AfterStep, BuildStep
       DEF Snapshot
  <2>4. CASE UNCHANGED vars
    BY <2>4 DEF vars, capture, source, IInv, TypeOK, SourceInv, AttemptInv, VerdictInv, CandidateInv,
       HistoryInv, Over, Emitted, There, Old, Occupied, Consistent, Accounted
  <2>. QED  BY <2>2, <2>3, <2>4 DEF Next
<1>. QED  BY <1>1, <1>2, PTL DEF Spec
----------------------------------------------------------------------------
(* The properties.                                                         *)

\* The capture and its source keep their types.
THEOREM TypeCorrect == Spec => []TypeOK
<1>1. IInv => TypeOK
  BY DEF IInv
<1>. QED  BY <1>1, IInvHolds, PTL

\* RecoveryIsOfItsPane: panes change places while capture_candidate() inspects
\* them; every session recorded ran in the pane it is recorded for.
THEOREM RecoveriesAreOfTheirPanes == Spec => []RecoveryIsOfItsPane
<1>1. IInv => RecoveryIsOfItsPane
  BY DEF IInv, CandidateInv, Consistent, RecoveryIsOfItsPane
<1>. QED  BY <1>1, IInvHolds, PTL

\* PromptBelongsToSession: try_bind() never files a draft under another session,
\* even when the pane's id was given to a pane of the next server.
THEOREM PromptsBelongToSessions == Spec => []PromptBelongsToSession
<1>1. IInv => PromptBelongsToSession
  BY DEF IInv, CandidateInv, Consistent, PromptBelongsToSession
<1>. QED  BY <1>1, IInvHolds, PTL

\* LostRecoveryIsReported: what a saved snapshot lacks is among the events,
\* drafts dropped by strip_prompt_enrichment() included.
THEOREM LossesAreReported == Spec => []LostRecoveryIsReported
<1>1. IInv => LostRecoveryIsReported
  BY DEF IInv, VerdictInv, CandidateInv, Accounted, LostRecoveryIsReported, Emitted
<1>. QED  BY <1>1, IInvHolds, PTL

\* EveryAttemptExplained: every attempt of capture_snapshot() without a stable
\* candidate left its reason.
THEOREM AttemptsAreExplained == Spec => []EveryAttemptExplained
<1>1. IInv => EveryAttemptExplained
  BY DEF IInv, HistoryInv, Over, EveryAttemptExplained
<1>. QED  BY <1>1, IInvHolds, PTL

\* MostRecentCandidate: no attempt after the one saved read a topology.
THEOREM LatestCandidateIsSaved == Spec => []MostRecentCandidate
<1>1. ASSUME IInv PROVE MostRecentCandidate
  <2>1. CASE verdict = "Unstable"
    <3>1. saved \in Candidate /\ saved # None
      BY <1>1, <2>1 DEF IInv, VerdictInv, TypeOK
    <3>2. saved.attempt \in Nat /\ Attempts \in Nat
      BY <3>1, AttemptsIsPositive DEF Candidate
    <3>3. \A n \in saved.attempt + 1 .. Attempts : n \in 1 .. Attempts /\ n > saved.attempt
      BY <3>2
    <3>. QED  BY <1>1, <2>1, <3>3 DEF IInv, HistoryInv, Over, MostRecentCandidate
  <2>2. CASE verdict = "NoCompleteCandidate"
    BY <1>1, <2>2 DEF IInv, VerdictInv, HistoryInv, Over, MostRecentCandidate
  <2>. QED  BY <2>1, <2>2 DEF MostRecentCandidate
<1>. QED  BY <1>1, IInvHolds, PTL

\* StableInOneServer: two equal fingerprints of one server are one topology.
THEOREM StableIsStable == Spec => StableInOneServer
<1>1. ASSUME IInv, IInv', [Next]_vars
      PROVE  [StableReported /\ SameServer(saved'.topology) => place = saved'.topology]_vars
  <2> SUFFICES ASSUME StableReported, SameServer(saved'.topology) PROVE place = saved'.topology
    OBVIOUS
  <2>1. ReadAfter
    <3>1. CASE BuildResult
      BY <3>1 DEF StableReported, BuildResult
    <3>2. CASE ReadBefore \/ InspectPane \/ ReadGrid \/ ClosingInspection
      BY <3>2 DEF StableReported, ReadBefore, BeforeReadFailed, NextAttempt, InspectPane,
         ReadGrid, ClosingInspection, SkipPrompt, BindDraft, Record
    <3>3. CASE Source \/ UNCHANGED vars
      BY <3>3 DEF StableReported, Source, PaneOpens, PaneCloses, PanesMove, ServerReplaced,
         ProgramChanges, capture, vars
    <3>. QED  BY <1>1, <3>1, <3>2, <3>3 DEF Next, Snapshot
  <2>2. Fingerprint(place) = Fingerprint(topology) /\ saved'.topology = topology
    BY <2>1 DEF ReadAfter, KeepCandidate, Captured, StableReported, NextAttempt
  <2>3. /\ place \in [Coordinate -> Pane \cup {None}] /\ topology \in [Coordinate -> Pane \cup {None}]
        /\ \A c \in Occupied(place) : place[c].server = server
        /\ \A c \in Occupied(topology) : topology[c].server = server
    BY <1>1, <2>2 DEF IInv, TypeOK, SourceInv, SameServer, Occupied
  <2>4. ASSUME NEW c \in Coordinate PROVE place[c] = topology[c]
    <3>1. ASSUME NEW f, NEW g, Fingerprint(f) = Fingerprint(g), c \in Occupied(f)
          PROVE  c \in Occupied(g) /\ f[c].id = g[c].id
      <4>1. <<c, f[c].id>> \in Fingerprint(g)
        BY <3>1 DEF Fingerprint
      <4>. QED  BY <4>1 DEF Fingerprint
    <3>2. /\ c \in Occupied(place) <=> c \in Occupied(topology)
          /\ c \in Occupied(place) => place[c].id = topology[c].id
      BY <2>2, <3>1
    <3>3. CASE c \in Occupied(place)
      <4>1. place[c] \in Pane /\ topology[c] \in Pane
        BY <2>3, <3>2, <3>3 DEF Occupied
      <4>. QED  BY <2>3, <3>2, <3>3, <4>1 DEF Pane
    <3>4. CASE c \notin Occupied(place)
      BY <2>3, <3>2, <3>4 DEF Occupied
    <3>. QED  BY <3>3, <3>4
  <2>. QED  BY <2>2, <2>3, <2>4
<1>. QED  BY <1>1, IInvHolds, PTL DEF Spec, StableInOneServer
=============================================================================
