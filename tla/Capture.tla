------------------------------ MODULE Capture ------------------------------
(***************************************************************************)
(* `tmux-rescue snapshot` reading the source server: capture_snapshot and  *)
(* its helpers in src/src/capture.rs, over the tmux and /proc reads of     *)
(* src/src/tmux.rs and src/src/process.rs.                                 *)
(*                                                                         *)
(* One attempt reads the topology, inspects the panes one after the other, *)
(* reads the visible draft of each Codex session and inspects that pane    *)
(* again, and reads the topology once more.  Meanwhile the server lives:   *)
(* panes open, close and change places, programs come and go, the server   *)
(* may be replaced by another one at the same socket.                      *)
(***************************************************************************)
EXTENDS Naturals, FiniteSets

CONSTANTS
  Coordinate, \* places of panes: session name, window index, pane index
  Session,    \* Codex sessions; each has the foreground of a pane at most once
  Attempts,   \* MAX_TOPOLOGY_VALIDATION_ATTEMPTS
  None,       \* no pane, no session
  MaxChanges, \* bound: what the source server and its panes do
  MaxId,      \* bound: the last pane id of a server
  MaxServers  \* bound: servers that follow the first one at the socket

ASSUME AttemptsIsPositive == Attempts \in Nat \ {0}
ASSUME MaxChangesIsNat == MaxChanges \in Nat
ASSUME MaxIdIsNat == MaxId \in Nat
ASSUME MaxServersIsNat == MaxServers \in Nat
ASSUME ProgramsAreDistinct == {"shell", "other"} \cap Session = {}
ASSUME CoordinatesFit ==
  IsFiniteSet(Coordinate) /\ Cardinality(Coordinate) \in 1 .. MaxId + 1

\* A pane of a server: ids (%0, %1, ...) are never used twice by one server,
\* and start again in the next one.
Pane == [server : 0 .. MaxServers, id : 0 .. MaxId]
Program == {"shell", "other"} \cup Session

\* PaneRecovery.  Manual stands for automatic recoveries other than Codex too,
\* which are captured without a second look; Downgraded is a Manual whose
\* resolvers had evidence, insufficient or conflicting.
Recovery ==
  [kind : {"Idle", "Manual", "Downgraded", "Unavailable"}, session : {None}, prompt : {None}]
    \cup [kind : {"Codex"}, session : Session, prompt : Session \cup {None}]
Plain(kind) == [kind |-> kind, session |-> None, prompt |-> None]
Codex(s, draft) == [kind |-> "Codex", session |-> s, prompt |-> draft]

EventKind == {"BeforeReadFailed", "AfterReadFailed", "TopologyMismatch",
              "PaneRecoveryUnavailable", "ResolverDowngraded",
              "CodexPromptCaptureSkipped", "UnstableCandidateSaved"}
Event == [kind : EventKind, attempt : 1 .. Attempts, at : Coordinate \cup {None}]

Candidate == [attempt : 1 .. Attempts,
              topology : [Coordinate -> Pane \cup {None}],
              recovery : [Coordinate -> Recovery \cup {None}]]

ASSUME NoneIsNothing ==
  /\ None \notin Coordinate /\ None \notin Session /\ None \notin Pane
  /\ None \notin Recovery /\ None \notin Candidate

VARIABLES
  pc,        \* the next step of the capture
  attempt,   \* the attempt under way
  topology,  \* the topology read before: the panes by coordinate
  todo,      \* coordinates not inspected yet
  at,        \* the coordinate whose draft is being read
  bound,     \* the session and the draft that wait for the closing inspection
  recovery,  \* what is recorded so far
  saved,     \* the most recent complete candidate
  verdict,   \* RawCaptureConsistency, or why there is no snapshot
  events,    \* CaptureEvents
  server,    \* the server at the socket, by number
  nextId,    \* its next pane id
  place,     \* place[c]: the pane at coordinate c
  program,   \* program[p]: what has p's foreground
  screen,    \* screen[p]: the session whose composer p shows
  changes,   \* what the source did so far
  home,      \* history: home[s]: the pane session s ran in
  absent     \* history: attempts and coordinates where no draft was shown

capture == <<pc, attempt, topology, todo, at, bound, recovery, saved, verdict,
             events>>
source == <<server, nextId, place, program, screen, changes>>
vars == <<capture, source, home, absent>>

TypeOK ==
  /\ pc \in {"before", "panes", "grid", "closing", "after", "build", "done"}
  /\ attempt \in 1 .. Attempts
  /\ topology \in [Coordinate -> Pane \cup {None}]
  /\ todo \subseteq Coordinate
  /\ at \in Coordinate \cup {None}
  /\ bound \in (Session \X (Session \cup {None})) \cup {None}
  /\ recovery \in [Coordinate -> Recovery \cup {None}]
  /\ saved \in Candidate \cup {None}
  /\ verdict \in {"none", "Stable", "Unstable", "NoCompleteCandidate",
                  "SnapshotTooLarge"}
  /\ events \subseteq Event
  /\ server \in 0 .. MaxServers /\ nextId \in 0 .. MaxId + 1
  /\ place \in [Coordinate -> Pane \cup {None}]
  /\ program \in [Pane -> Program]
  /\ screen \in [Pane -> Session \cup {None}]
  /\ changes \in 0 .. MaxChanges
  /\ home \in [Session -> Pane \cup {None}]
  /\ absent \subseteq (1 .. Attempts) \X Coordinate

Nowhere == [c \in Coordinate |-> None]
Occupied(places) == {c \in Coordinate : places[c] # None}

\* A server with one pane or more, all of them idle.
Init ==
  /\ pc = "before" /\ attempt = 1
  /\ topology = Nowhere /\ todo = {} /\ at = None /\ bound = None
  /\ recovery = Nowhere /\ saved = None /\ verdict = "none" /\ events = {}
  /\ server = 0 /\ nextId = Cardinality(Coordinate)
  /\ \E order \in [Coordinate -> 0 .. nextId - 1] :
       /\ \A c, d \in Coordinate : order[c] = order[d] => c = d
       /\ place = [c \in Coordinate |-> [server |-> 0, id |-> order[c]]]
  /\ program = [p \in Pane |-> "shell"]
  /\ screen = [p \in Pane |-> None]
  /\ changes = 0
  /\ home = [s \in Session |-> None] /\ absent = {}
----------------------------------------------------------------------------
(* What the source answers.                                                *)

There(p) == p # None /\ \E c \in Coordinate : place[c] = p

\* PaneProcessProbe::observe() and classify_pane(): the pane is found by its
\* process id and tty, so that no other pane is ever taken for it.
Inspection(p) ==
  {Plain("Unavailable")} \cup
  (IF ~There(p) THEN {}
   ELSE IF program[p] = "shell" THEN {Plain("Idle")}
   ELSE IF program[p] = "other" THEN {Plain("Manual"), Plain("Downgraded")}
   ELSE {Plain("Downgraded"), Codex(program[p], None)})

\* tmux finds a pane of the server that answers, by its id.
WithId(id) == {p \in Pane : There(p) /\ p.id = id}

\* Wrong form: the fingerprint of coordinates alone.
FingerprintOfCoordinates(places) == Occupied(places)

\* TopologyObservation::fingerprint()
Fingerprint(places) ==
  {<<c, places[c].id>> : c \in Occupied(places)}
----------------------------------------------------------------------------
(* Topology validation: capture_snapshot().                                *)

Emit(kind, where) ==
  events' = events \cup {[kind |-> kind, attempt |-> attempt, at |-> where]}

\* The next attempt, or the end of them.
NextAttempt ==
  IF attempt < Attempts
  THEN pc' = "before" /\ attempt' = attempt + 1 /\ UNCHANGED verdict
  ELSE /\ UNCHANGED attempt
       /\ IF saved' = None THEN pc' = "done" /\ verdict' = "NoCompleteCandidate"
          ELSE pc' = "build" /\ verdict' = "Unstable"

\* Wrong form: an attempt that cannot start goes unreported.
BeforeReadFailedSilently == NextAttempt /\ UNCHANGED events

BeforeReadFailed == NextAttempt /\ Emit("BeforeReadFailed", None)

\* A server without a session is no topology.
ReadBefore ==
  /\ pc = "before"
  /\ \/ /\ Occupied(place) # {}
        /\ topology' = place /\ todo' = Occupied(place)
        /\ recovery' = Nowhere
        /\ pc' = "panes"
        /\ UNCHANGED <<attempt, verdict, saved, events>>
     \/ /\ UNCHANGED saved /\ BeforeReadFailed
        /\ UNCHANGED <<topology, todo, recovery>>
  /\ UNCHANGED <<at, bound, source, home, absent>>

Captured == [attempt |-> attempt, topology |-> topology, recovery |-> recovery]

\* Wrong form: the first complete candidate is kept.
KeepCandidateFirst == saved' = IF saved = None THEN Captured ELSE saved

KeepCandidate == saved' = Captured

ReadAfter ==
  /\ pc = "after"
  /\ KeepCandidate
  /\ \/ /\ Fingerprint(place) = Fingerprint(topology)
        /\ verdict' = "Stable" /\ pc' = "build"
        /\ UNCHANGED <<attempt, events>>
     \/ /\ Occupied(place) # {} /\ Fingerprint(place) # Fingerprint(topology)
        /\ NextAttempt /\ Emit("TopologyMismatch", None)
     \/ NextAttempt /\ Emit("AfterReadFailed", None)
  /\ UNCHANGED <<topology, todo, at, bound, recovery, source, home, absent>>
----------------------------------------------------------------------------
(* The panes: capture_candidate() and capture_foreground_recovery().       *)

Record(c, r) ==
  /\ recovery' = [recovery EXCEPT ![c] = r]
  /\ todo' = todo \ {c}
  /\ pc' = IF todo = {c} THEN "after" ELSE "panes"
  /\ at' = None /\ bound' = None
  /\ UNCHANGED <<attempt, topology, saved, verdict>>

\* Wrong form: the pane is found again by its coordinate.
PaneAtCoordinate(c) == place[c]

\* inspect_pane() is given the pane that the topology names.
PaneOf(c) == topology[c]

\* The panes in the order of the topology, any order here.  A Codex session
\* is looked at again for its draft.
InspectPane ==
  /\ pc = "panes"
  /\ \E c \in todo : \E r \in Inspection(PaneOf(c)) :
       IF r.kind = "Codex"
       THEN /\ at' = c /\ bound' = <<r.session, None>> /\ pc' = "grid"
            /\ UNCHANGED <<attempt, topology, todo, recovery, saved, verdict,
                           events>>
       ELSE /\ Record(c, r)
            /\ \/ r.kind = "Unavailable" /\ Emit("PaneRecoveryUnavailable", c)
               \/ r.kind = "Downgraded" /\ Emit("ResolverDowngraded", c)
               \/ r.kind \in {"Idle", "Manual"} /\ UNCHANGED events
  /\ UNCHANGED <<source, home, absent>>

\* The draft stays out of the record; the session stays in.
SkipPrompt ==
  Record(at, Codex(bound[1], None)) /\ Emit("CodexPromptCaptureSkipped", at)

\* Wrong form: the draft is recorded without another look at the session.
BindDraftAtOnce(draft) ==
  Record(at, Codex(bound[1], draft)) /\ UNCHANGED events

BindDraft(draft) ==
  /\ bound' = <<bound[1], draft>> /\ pc' = "closing"
  /\ UNCHANGED <<attempt, topology, todo, at, recovery, saved, verdict, events>>

\* read_visible_pane() and capture_visible_codex_prompt().  Pane metadata that
\* changed around the read, and a layout that is not understood, are failures.
ReadGrid ==
  /\ pc = "grid"
  /\ \/ \E p \in WithId(topology[at].id) :
          /\ screen[p] # None /\ BindDraft(screen[p])
          /\ UNCHANGED absent
     \/ /\ \E p \in WithId(topology[at].id) : screen[p] # None
        /\ Record(at, Codex(bound[1], None)) /\ UNCHANGED events
        /\ absent' = absent \cup {<<attempt, at>>}
     \/ SkipPrompt /\ UNCHANGED absent
  /\ UNCHANGED <<source, home>>

\* SessionBoundCodexPromptCapture::try_bind()
ClosingInspection ==
  /\ pc = "closing"
  /\ \E r \in Inspection(PaneOf(at)) :
       IF r = Codex(bound[1], None)
       THEN Record(at, Codex(bound[1], bound[2])) /\ UNCHANGED events
       ELSE SkipPrompt
  /\ UNCHANGED <<source, home, absent>>
----------------------------------------------------------------------------
(* The result: build_result_with_serialization_limit().                    *)

WithPrompt == {c \in Coordinate : saved.recovery[c] # None
                                    /\ saved.recovery[c].prompt # None}

\* strip_prompt_enrichment()
StripPrompts ==
  saved' = [saved EXCEPT !.recovery =
             [c \in Coordinate |-> IF c \in WithPrompt
                                   THEN Codex(@[c].session, None) ELSE @[c]]]

\* Wrong form: the events name the last attempt, not the candidate's.
StrippedEventsLate ==
  {[kind |-> "CodexPromptCaptureSkipped", attempt |-> attempt, at |-> c]
     : c \in WithPrompt}

StrippedEvents ==
  {[kind |-> "CodexPromptCaptureSkipped", attempt |-> saved.attempt, at |-> c]
     : c \in WithPrompt}

UnstableEvent ==
  IF verdict = "Unstable"
  THEN {[kind |-> "UnstableCandidateSaved", attempt |-> Attempts, at |-> None]}
  ELSE {}

\* The candidate fits, fits without its prompts, or does not fit.
BuildResult ==
  /\ pc = "build" /\ pc' = "done"
  /\ \/ events' = events \cup UnstableEvent /\ UNCHANGED <<saved, verdict>>
     \/ /\ WithPrompt # {}
        /\ StripPrompts
        /\ events' = events \cup UnstableEvent \cup StrippedEvents
        /\ UNCHANGED verdict
     \/ verdict' = "SnapshotTooLarge" /\ events' = {} /\ UNCHANGED saved
  /\ UNCHANGED <<attempt, topology, todo, at, bound, recovery, source, home,
                 absent>>

Snapshot ==
  \/ ReadBefore \/ InspectPane \/ ReadGrid \/ ClosingInspection \/ ReadAfter
  \/ BuildResult
----------------------------------------------------------------------------
(* The source.                                                             *)

Change == changes < MaxChanges /\ changes' = changes + 1

\* A pane opens at a free coordinate, running the user's shell.
PaneOpens(c) ==
  /\ Change
  /\ place[c] = None /\ nextId <= MaxId
  /\ place' = [place EXCEPT ![c] = [server |-> server, id |-> nextId]]
  /\ nextId' = nextId + 1
  /\ UNCHANGED <<capture, server, program, screen, home, absent>>

PaneCloses(c) ==
  /\ Change
  /\ place[c] # None /\ place' = [place EXCEPT ![c] = None]
  /\ UNCHANGED <<capture, server, nextId, program, screen, home, absent>>

\* swap-pane, move-pane, renumbering, a renamed session
PanesMove(c, d) ==
  /\ Change
  /\ place[c] # place[d]
  /\ place' = [place EXCEPT ![c] = place[d], ![d] = place[c]]
  /\ UNCHANGED <<capture, server, nextId, program, screen, home, absent>>

\* The server ends, and a new one starts with as many panes, numbered from 0.
ServerReplaced ==
  /\ Change
  /\ server < MaxServers /\ server' = server + 1
  /\ nextId' = Cardinality(Occupied(place))
  /\ \E order \in [Occupied(place) -> 0 .. nextId' - 1] :
       /\ \A c, d \in Occupied(place) : order[c] = order[d] => c = d
       /\ place' = [c \in Coordinate |->
                     IF c \in Occupied(place)
                     THEN [server |-> server + 1, id |-> order[c]] ELSE None]
  /\ UNCHANGED <<capture, program, screen, home, absent>>

\* A program takes the foreground of p or gives it back to the shell.  A
\* Codex session draws its draft as it starts; when it ends, the draft may
\* stay on the screen.
ProgramChanges(p) ==
  /\ Change
  /\ There(p)
  /\ \/ /\ program' = [program EXCEPT ![p] = "shell"]
        /\ screen' \in {screen, [screen EXCEPT ![p] = None]}
        /\ UNCHANGED home
     \/ /\ program[p] = "shell"
        /\ program' = [program EXCEPT ![p] = "other"]
        /\ UNCHANGED <<screen, home>>
     \/ /\ program[p] = "shell"
        /\ \E s \in Session :
             /\ home[s] = None /\ home' = [home EXCEPT ![s] = p]
             /\ program' = [program EXCEPT ![p] = s]
             /\ screen' = [screen EXCEPT ![p] = s]
  /\ UNCHANGED <<capture, server, nextId, place, absent>>

Source ==
  \/ \E c \in Coordinate : PaneOpens(c) \/ PaneCloses(c)
  \/ \E c, d \in Coordinate : PanesMove(c, d)
  \/ ServerReplaced
  \/ \E p \in Pane : ProgramChanges(p)

Next == Snapshot \/ Source
Spec == Init /\ [][Next]_vars
----------------------------------------------------------------------------
(* Properties.                                                             *)

StableReported == verdict' = "Stable" /\ verdict # "Stable"

\* When a candidate is found stable, and one server stayed at the socket, the
\* panes it records are still the very panes at their coordinates.  (Panes of
\* another server can carry the same ids: the fingerprint cannot tell.)
SameServer(places) == \A c \in Occupied(places) : places[c].server = server
StableInOneServer ==
  [][StableReported /\ SameServer(saved'.topology) => place = saved'.topology]_vars

\* A candidate that may be saved is one attempt's, complete, with every
\* session at the coordinate the pane it ran in had when the attempt began,
\* although panes changed places while they were inspected.
RecoveryIsOfItsPane ==
  saved # None =>
    \A c \in Occupied(saved.topology) :
      /\ saved.recovery[c] # None
      /\ saved.recovery[c].kind = "Codex" =>
           home[saved.recovery[c].session] = saved.topology[c]

\* A draft is recorded only with the session that drew it: never with the
\* session before or after it in the same pane, nor with one in another pane.
PromptBelongsToSession ==
  saved # None =>
    \A c \in Occupied(saved.topology) :
      saved.recovery[c].prompt \in {None, saved.recovery[c].session}

Emitted(kind, n, c) == [kind |-> kind, attempt |-> n, at |-> c] \in events

\* Whatever a saved snapshot lacks is reported, for that candidate and that
\* pane: a pane nobody could inspect, a resolver that stepped down, a draft
\* that was not captured or was dropped later to save space.
LostRecoveryIsReported ==
  pc = "done" /\ verdict \in {"Stable", "Unstable"} =>
    \A c \in Occupied(saved.topology) :
      LET r == saved.recovery[c] IN
      /\ r.kind = "Unavailable" =>
           Emitted("PaneRecoveryUnavailable", saved.attempt, c)
      /\ r.kind = "Downgraded" => Emitted("ResolverDowngraded", saved.attempt, c)
      /\ r.kind = "Codex" /\ r.prompt = None =>
           \/ Emitted("CodexPromptCaptureSkipped", saved.attempt, c)
           \/ <<saved.attempt, c>> \in absent

Unvalidated == {"BeforeReadFailed", "AfterReadFailed", "TopologyMismatch"}

\* "logs every reason that prevented validation": every attempt that gave no
\* stable candidate left its reason, and nothing is said to be unstable, or
\* given up, before all attempts were made.
EveryAttemptExplained ==
  verdict # "SnapshotTooLarge" =>
    \A n \in 1 .. Attempts :
      n < attempt \/ verdict \in {"Unstable", "NoCompleteCandidate"} =>
        \E k \in Unvalidated : Emitted(k, n, None)

\* "publishes the most recent complete candidate": later attempts read no
\* topology at all, and there is no snapshot only if none did.
MostRecentCandidate ==
  /\ verdict = "Unstable" =>
       \A n \in saved.attempt + 1 .. Attempts : Emitted("BeforeReadFailed", n, None)
  /\ verdict = "NoCompleteCandidate" =>
       \A n \in 1 .. Attempts : Emitted("BeforeReadFailed", n, None)
=============================================================================
