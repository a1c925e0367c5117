---------------------------- MODULE OwnedTarget ----------------------------
(***************************************************************************)
(* How `tmux-rescue restore` owns the tmux server it creates               *)
(* (src/src/tmux.rs, driven by RestoreExecutor::execute in                 *)
(* src/src/restore.rs): the claim of a new server at one endpoint, the     *)
(* cleanup of a claim that could not be confirmed, the topology commands,  *)
(* the rollback when one of them fails, and the final report of what       *)
(* became of the server.                                                   *)
(*                                                                         *)
(* Meanwhile other processes start servers at the same endpoint, open and  *)
(* close sessions on whatever server answers there, remove or replace the  *)
(* socket, kill servers, and receive process ids that servers gave up.     *)
(* Every read of the endpoint, every read of /proc and every guarded       *)
(* command is a step of its own, and each of them may fail.                *)
(***************************************************************************)
EXTENDS Naturals, Sequences

CONSTANTS
  Mine,         \* the server this restore's start-server creates, if any
  Foreign,      \* servers anyone else starts at the endpoint
  Stranger,     \* any process that is not a tmux server
  Nobody,       \* no server, no process
  Pid,          \* process ids
  Plan,         \* the topology commands of the plan, in order
  Attempts,     \* ROLLBACK_OBSERVATION_ATTEMPTS
  MaxSessions   \* bound: sessions other clients have on one server

Server == {Mine} \cup Foreign
TopologyCommand == {"new-session", "pane"}

ASSUME PlanIsTopology == Plan \in Seq(TopologyCommand)
ASSUME AttemptsIsNat == Attempts \in Nat
ASSUME MaxSessionsIsNat == MaxSessions \in Nat
ASSUME KindsAreDistinct ==
  /\ Mine \notin Foreign
  /\ Nobody \notin Server \cup {Stranger}
  /\ Stranger \notin Server
  /\ Nobody \notin [pid : Pid, who : Server \cup {Stranger}]

\* Wrong form: exit-empty stays off.
ScriptLeavingOff == <<"default-shell">> \o Plan

\* What create_topology sends, in order; exit-empty comes back on last.
Script == <<"default-shell">> \o Plan \o <<"exit-empty">>

Disposition == {"Removed", "Retained", "Missing", "Unknown"}

VARIABLES
  pc,         \* the next step of the restore
  mode,       \* what a guarded command, and then the observation, is for
  asConfirm,  \* is this observation confirm()'s, not the failed claim's?
  obs,        \* the ServerObservation read first
  captured,   \* the OwnedProcessIdentity: a pid and who held it then
  step,       \* the command of Script to send next
  cleared,    \* removed_if_absent: does a gone process mean Removed?
  polls,      \* observations left before the last one
  report,     \* the RestoreTargetState reported, once pc = "done"
  occupant,   \* occupant[p]: the process that has id p
  born,       \* servers ever started
  endpoint,   \* the server whose socket is at the endpoint
  own,        \* sessions of the plan alive on Mine
  others,     \* others[s]: sessions other clients have on s
  exitEmpty,  \* does Mine exit once its last session ends?
  closing,    \* has Mine been told to quit?
  touched,    \* history: servers a guarded command took effect on
  spoiled     \* history: sessions a failed claim's cleanup ended

restore == <<pc, mode, asConfirm, obs, captured, step, cleared, polls, report>>
processes == <<occupant, born>>
tmux == <<endpoint, own, others, exitEmpty, closing>>
history == <<touched, spoiled>>
vars == <<restore, processes, tmux, history>>

Modes == {"cleanup", "command", "rollback", "final"}
Identities == [pid : Pid, who : Server \cup {Stranger}]
Observations == [server : Server, pid : Pid, sessions : Nat]

TypeOK ==
  /\ pc \in {"claim", "read1", "capture", "read2", "same", "recheck", "check",
             "dispatch", "recover", "observe", "absent", "present", "done"}
  /\ mode \in Modes
  /\ asConfirm \in BOOLEAN
  /\ obs \in Observations \cup {Nobody}
  /\ captured \in Identities \cup {Nobody}
  /\ step \in 1 .. Len(Script)
  /\ cleared \in BOOLEAN
  /\ polls \in 0 .. Attempts
  /\ report \in Disposition \cup {"NotEstablished", "none"}
  /\ occupant \in [Pid -> Server \cup {Stranger, Nobody}]
  /\ born \subseteq Server
  /\ endpoint \in Server \cup {Nobody}
  /\ own \in Nat
  /\ others \in [Server -> 0 .. MaxSessions]
  /\ exitEmpty \in BOOLEAN
  /\ closing \in BOOLEAN
  /\ touched \subseteq Server
  /\ spoiled \in Nat

Init ==
  /\ pc = "claim" /\ mode = "cleanup" /\ asConfirm = TRUE
  /\ obs = Nobody /\ captured = Nobody /\ step = 1
  /\ cleared = FALSE /\ polls = 0 /\ report = "none"
  /\ occupant = [p \in Pid |-> Nobody]
  /\ born = {} /\ endpoint = Nobody
  /\ own = 0 /\ others = [s \in Server |-> 0]
  /\ exitEmpty = TRUE /\ closing = FALSE
  /\ touched = {} /\ spoiled = 0
----------------------------------------------------------------------------
(* What tmux and /proc answer.                                             *)

Live(s) == \E p \in Pid : occupant[p] = s
Sessions(s) == others[s] + (IF s = Mine THEN own ELSE 0)

\* A client reaches the server whose socket is at the endpoint, if it runs.
Answering(s, p) == s \in Server /\ endpoint = s /\ occupant[p] = s
SomebodyAnswers == \E p \in Pid : endpoint \in Server /\ occupant[p] = endpoint

\* read_server_observation().  The token and the tmux start time together
\* tell exactly which server instance answered.
Observation(s, p) == [server |-> s, pid |-> p, sessions |-> Sessions(s)]

\* Wrong form: some process has the recorded id.
SameLiveByPid(identity) == occupant[identity.pid] # Nobody

\* observe_owned_process() finds the recorded pid with the recorded start
\* time, which only the recorded process has.
SameLive(identity) == occupant[identity.pid] = identity.who

\* Wrong form: the guard compares the process id alone.
ConditionByPid(s, p) == p = captured.pid

\* OwnedServer::condition(): token, pid and start time, evaluated by tmux.
Condition(s, p) == s = Mine /\ p = captured.pid

\* Wrong form: cleanup uses the guard of every other command.
CleanupConditionAnySessions(s, p) == Condition(s, p)

\* cleanup_condition(): the same, and no session at all.
CleanupCondition(s, p) == Condition(s, p) /\ Sessions(s) = 0

Permitted(s, p) ==
  IF mode = "cleanup" THEN CleanupCondition(s, p) ELSE Condition(s, p)
----------------------------------------------------------------------------
(* The claim.                                                              *)

\* Nothing was started: the adapter was used, no token, no claim
\* configuration, or tmux could not be spawned.
ClaimRefused ==
  /\ pc = "claim"
  /\ pc' = "done" /\ report' = "NotEstablished"
  /\ UNCHANGED <<mode, asConfirm, obs, captured, step, cleared, polls,
                 processes, tmux, history>>

\* Wrong form: the claim configuration sets the token only.
ClaimConfigTokenOnly == UNCHANGED exitEmpty

\* The claim configuration turns exit-empty off and sets the token.
ClaimConfig == exitEmpty' = FALSE

\* Wrong form: a start-server that failed is reported as never started.
StartServerNoted(ok) ==
  /\ asConfirm' = ok
  /\ IF ok THEN pc' = "read1" /\ UNCHANGED report
           ELSE pc' = "done" /\ report' = "NotEstablished"

StartServerReply(ok) ==
  /\ pc' = "read1" /\ asConfirm' = ok /\ UNCHANGED report

\* start-server creates a server only when nobody answers; whether or not it
\* does, the client may report failure, or waiting for it may fail.
StartServer ==
  /\ pc = "claim"
  /\ \/ /\ ~SomebodyAnswers
        /\ \E p \in Pid :
             /\ occupant[p] = Nobody
             /\ occupant' = [occupant EXCEPT ![p] = Mine]
        /\ born' = born \cup {Mine}
        /\ endpoint' = Mine
        /\ ClaimConfig
        /\ \E ok \in BOOLEAN : StartServerReply(ok)
     \/ /\ \E ok \in BOOLEAN : (ok => SomebodyAnswers) /\ StartServerReply(ok)
        /\ UNCHANGED <<processes, endpoint, exitEmpty>>
  /\ UNCHANGED <<mode, obs, captured, step, cleared, polls, own, others,
                 closing, history>>

\* MatchedServerIdentity::observe() fails.  confirm() hands over to
\* into_failure(), which observes once more; that second failure leaves no
\* evidence, so the disposition is Unknown.
Unmatched ==
  /\ obs' = Nobody /\ captured' = Nobody
  /\ asConfirm' = FALSE
  /\ IF asConfirm THEN pc' = "read1" /\ UNCHANGED report
                  ELSE pc' = "done" /\ report' = "Unknown"

ReadFirst ==
  /\ pc = "read1"
  /\ \/ /\ \E p \in Pid : Answering(Mine, p) /\ obs' = Observation(Mine, p)
        /\ pc' = "capture"
        /\ UNCHANGED <<asConfirm, captured, report>>
     \/ Unmatched
  /\ UNCHANGED <<mode, step, cleared, polls, processes, tmux, history>>

CaptureProcess ==
  /\ pc = "capture"
  /\ \/ /\ occupant[obs.pid] # Nobody
        /\ captured' = [pid |-> obs.pid, who |-> occupant[obs.pid]]
        /\ pc' = "read2"
        /\ UNCHANGED <<asConfirm, obs, report>>
     \/ Unmatched
  /\ UNCHANGED <<mode, step, cleared, polls, processes, tmux, history>>

\* Wrong form: the identity is not read a second time.
ReadAgainSkipped ==
  /\ pc = "read2" /\ pc' = "same"
  /\ UNCHANGED <<mode, asConfirm, obs, captured, step, cleared, polls, report,
                 processes, tmux, history>>

ReadAgain ==
  /\ pc = "read2"
  /\ \/ /\ \E s \in Server, p \in Pid :
             Answering(s, p) /\ Observation(s, p) = obs
        /\ pc' = "same"
        /\ UNCHANGED <<asConfirm, obs, captured, report>>
     \/ Unmatched
  /\ UNCHANGED <<mode, step, cleared, polls, processes, tmux, history>>

\* The last conjunct of a match; then confirm() and cleanup_proof() both
\* insist on zero sessions, and without them nothing is authorised: one
\* observation of what is there is all that follows.
Matched ==
  /\ pc = "same"
  /\ \/ /\ SameLive(captured)
        /\ IF obs.sessions # 0 THEN mode' = "cleanup" /\ pc' = "observe"
           ELSE IF asConfirm THEN mode' = "command" /\ pc' = "check"
           ELSE mode' = "cleanup" /\ pc' = "recheck"
        /\ UNCHANGED <<asConfirm, obs, captured, report>>
     \/ Unmatched /\ UNCHANGED mode
  /\ UNCHANGED <<step, cleared, polls, processes, tmux, history>>
----------------------------------------------------------------------------
(* Observing what became of the server.                                    *)

\* Look at the server up to n more times before the last time.
Observe(n, removed) == pc' = "observe" /\ polls' = n /\ cleared' = removed

\* rollback() reports Retained or Unknown for what was not removed.
Reported(d) ==
  IF mode = "rollback" /\ d \notin {"Removed", "Retained"} THEN "Unknown" ELSE d

\* Wrong form: the attempts are not counted.
ConcludeForever(d) ==
  IF d # "Removed" /\ polls > 0
  THEN pc' = "observe" /\ UNCHANGED <<polls, report>>
  ELSE pc' = "done" /\ report' = Reported(d) /\ UNCHANGED polls

Conclude(d) ==
  IF d # "Removed" /\ polls > 0
  THEN pc' = "observe" /\ polls' = polls - 1 /\ UNCHANGED report
  ELSE pc' = "done" /\ report' = Reported(d) /\ UNCHANGED polls

\* The read half of observe_disposition(): an error of any kind is followed
\* by a look at the process alone.
ObserveEndpoint ==
  /\ pc = "observe"
  /\ \/ /\ \E p \in Pid : Answering(Mine, p) /\ p = captured.pid
        /\ pc' = "present"
        /\ UNCHANGED <<polls, report>>
     \/ pc' = "absent" /\ UNCHANGED <<polls, report>>
     \/ /\ \E s \in Foreign, p \in Pid : Answering(s, p)
        /\ Conclude("Unknown")
  /\ UNCHANGED <<mode, asConfirm, obs, captured, step, cleared, processes,
                 tmux, history>>

\* Wrong form: an endpoint that does not answer is taken for removal.
WhenAbsentTrusting ==
  IF cleared THEN {"Removed"}
  ELSE {IF SameLive(captured) THEN "Retained" ELSE "Missing", "Unknown"}

\* disposition_when_endpoint_is_absent(); reading /proc may fail.
WhenAbsent ==
  {IF SameLive(captured) THEN "Retained"
   ELSE IF cleared THEN "Removed" ELSE "Missing", "Unknown"}

ObserveProcess ==
  /\ \/ pc = "absent" /\ \E d \in WhenAbsent : Conclude(d)
     \/ /\ pc = "present"
        /\ \/ SameLive(captured) /\ Conclude("Retained")
           \/ Conclude("Unknown")
  /\ UNCHANGED <<mode, asConfirm, obs, captured, step, cleared, processes,
                 tmux, history>>
----------------------------------------------------------------------------
(* Guarded commands: run_with_condition().                                 *)

\* What the restore does once the command succeeded or failed.
AfterCommand(ok) ==
  /\ \/ mode = "cleanup" /\ Observe(Attempts, ok) /\ UNCHANGED <<mode, step>>
     \/ mode = "rollback" /\ Observe(Attempts, TRUE) /\ UNCHANGED <<mode, step>>
     \/ /\ mode = "command" /\ ok
        /\ IF step = Len(Script) THEN pc' = "recover" /\ UNCHANGED step
                                 ELSE pc' = "check" /\ step' = step + 1
        /\ UNCHANGED <<mode, cleared, polls>>
     \/ /\ mode = "command" /\ ~ok
        /\ mode' = "rollback" /\ pc' = "check"
        /\ UNCHANGED <<step, cleared, polls>>
  /\ UNCHANGED <<asConfirm, obs, captured, report>>

\* ensure_cleanup_identity(): the evidence is read once more.  Its process
\* check is repeated at once by the guarded command, in Check.
Recheck ==
  /\ pc = "recheck"
  /\ \/ /\ \E p \in Pid :
             /\ Answering(Mine, p) /\ p = captured.pid
             /\ Sessions(Mine) = 0
        /\ pc' = "check"
        /\ UNCHANGED <<mode, asConfirm, obs, captured, step, cleared, polls,
                       report>>
     \/ AfterCommand(FALSE)
  /\ UNCHANGED <<processes, tmux, history>>

\* ensure_same_live() before the command is sent.
Check ==
  /\ pc = "check"
  /\ \/ /\ SameLive(captured)
        /\ pc' = "dispatch"
        /\ UNCHANGED <<mode, asConfirm, obs, captured, step, cleared, polls,
                       report>>
     \/ AfterCommand(FALSE)
  /\ UNCHANGED <<processes, tmux, history>>

\* The command takes effect on the server that answers.  kill-server closes
\* the socket at once; the process goes away later.
TakesEffect(s) ==
  IF mode = "command"
  THEN /\ own' = IF Script[step] = "new-session" THEN own + 1 ELSE own
       /\ exitEmpty' = IF Script[step] = "exit-empty" THEN TRUE ELSE exitEmpty
       /\ UNCHANGED <<endpoint, others, closing, spoiled>>
  ELSE /\ endpoint' = Nobody
       /\ others' = [others EXCEPT ![s] = 0]
       /\ own' = IF s = Mine THEN 0 ELSE own
       /\ closing' = IF s = Mine THEN TRUE ELSE closing
       /\ spoiled' = IF mode = "cleanup" THEN spoiled + Sessions(s) ELSE spoiled
       /\ UNCHANGED exitEmpty

\* tmux evaluates the condition and runs the command as one step, if the
\* condition holds; its reply may be lost or may not parse, and a pane it
\* created may differ from the plan.
Dispatch ==
  /\ pc = "dispatch"
  /\ \/ /\ \E s \in Server, p \in Pid :
             /\ Answering(s, p) /\ Permitted(s, p)
             /\ TakesEffect(s)
             /\ touched' = touched \cup {s}
        /\ \E ok \in BOOLEAN : AfterCommand(ok)
     \/ AfterCommand(FALSE) /\ UNCHANGED <<tmux, history>>
  /\ UNCHANGED processes

\* Pane recovery (module PaneRecovery) runs here; then the last observation.
Recover ==
  /\ pc = "recover"
  /\ mode' = "final" /\ Observe(0, FALSE)
  /\ UNCHANGED <<asConfirm, obs, captured, step, report, processes, tmux,
                 history>>

Restore ==
  \/ ClaimRefused \/ StartServer
  \/ ReadFirst \/ CaptureProcess \/ ReadAgain \/ Matched
  \/ ObserveEndpoint \/ ObserveProcess
  \/ Recheck \/ Check \/ Dispatch \/ Recover
----------------------------------------------------------------------------
(* Everybody else.                                                         *)

\* Another tmux client starts a server where nobody answers.
ForeignStarts ==
  /\ ~SomebodyAnswers
  /\ \E s \in Foreign \ born, p \in Pid :
       /\ occupant[p] = Nobody
       /\ occupant' = [occupant EXCEPT ![p] = s]
       /\ born' = born \cup {s}
       /\ endpoint' = s
  /\ UNCHANGED <<restore, own, others, exitEmpty, closing, history>>

\* A client opens a session on the server that answers.
SessionOpened ==
  /\ \E s \in Server, p \in Pid :
       /\ Answering(s, p) /\ others[s] < MaxSessions
       /\ others' = [others EXCEPT ![s] = @ + 1]
  /\ UNCHANGED <<restore, processes, endpoint, own, exitEmpty, closing, history>>

\* A session ends: its last pane's process exits, or a client kills it.
SessionEnds ==
  /\ \/ /\ \E s \in Server : others[s] > 0 /\ others' = [others EXCEPT ![s] = @ - 1]
        /\ UNCHANGED own
     \/ own > 0 /\ own' = own - 1 /\ UNCHANGED others
  /\ UNCHANGED <<restore, processes, endpoint, exitEmpty, closing, history>>

\* tmux: an empty server with exit-empty on closes.
EmptyServerCloses ==
  /\ Live(Mine) /\ ~closing /\ exitEmpty /\ Sessions(Mine) = 0
  /\ closing' = TRUE
  /\ endpoint' = IF endpoint = Mine THEN Nobody ELSE endpoint
  /\ UNCHANGED <<restore, processes, own, others, exitEmpty, history>>

\* A server's process ends: Mine once it closes, any server if it is killed.
ServerExits(s) ==
  /\ \E p \in Pid : occupant[p] = s /\ occupant' = [occupant EXCEPT ![p] = Nobody]
  /\ others' = [others EXCEPT ![s] = 0]
  /\ own' = IF s = Mine THEN 0 ELSE own
  /\ UNCHANGED <<restore, born, endpoint, exitEmpty, closing, history>>

\* The socket is removed, or a live server recreates it (SIGUSR1).
SocketMoved ==
  /\ \/ endpoint' = Nobody
     \/ endpoint' \in {s \in Server : Live(s) /\ ~(s = Mine /\ closing)}
  /\ UNCHANGED <<restore, processes, own, others, exitEmpty, closing, history>>

\* A process id is handed to an unrelated process, or given up by it.
PidReused ==
  /\ \E p \in Pid :
       \/ occupant[p] = Nobody /\ occupant' = [occupant EXCEPT ![p] = Stranger]
       \/ occupant[p] = Stranger /\ occupant' = [occupant EXCEPT ![p] = Nobody]
  /\ UNCHANGED <<restore, born, tmux, history>>

Others ==
  \/ ForeignStarts \/ SessionOpened \/ SessionEnds
  \/ EmptyServerCloses \/ (\E s \in Server : ServerExits(s))
  \/ SocketMoved \/ PidReused

Next == Restore \/ Others
Spec == Init /\ [][Next]_vars

\* The restore is one process that keeps running, its calls return, and tmux does
\* close an empty server and end its process.  Nobody else has to do anything.
Fairness ==
  /\ WF_vars(Restore)
  /\ WF_vars(EmptyServerCloses)
  /\ WF_vars(closing /\ ServerExits(Mine))

FairSpec == Spec /\ Fairness
----------------------------------------------------------------------------
(* Properties.                                                             *)

Identifying == {"claim", "read1", "capture", "read2", "same"}

\* Once the claim evidence is accepted it names this restore's own server:
\* its process id, and the process that is that server, although the pid was
\* read through the endpoint and looked up in /proc only afterwards.
ClaimIdentifiesServer ==
  captured # Nobody /\ pc \notin Identifying => captured.who = Mine

\* "leaves its process, sessions, topology, and options untouched": no
\* topology command, kill-server or cleanup ever takes effect on a server
\* somebody else started, whatever happens to the endpoint and the pid
\* between the checks and the command.
OnlyOwnServerTouched == touched \subseteq {Mine}

\* Cleaning up after a claim that was not confirmed never ends a session a
\* client opened on the new server in the meantime.
CleanupSparesSessions == spoiled = 0

\* Removed (and Missing) are reported only of a server that does not run:
\* a restore that fails never leaves its server behind while saying it is
\* gone.
RemovedMeansGone == report \in {"Removed", "Missing"} => ~Live(Mine)

\* A restore says that it established no target only if start-server, which
\* may have run, created none.
NoSilentServer == report = "NotEstablished" => Mine \notin born

\* Retained is reported by a step that finds the very process of this
\* restore's server running, not another process with its id.
RetainedReported == report' = "Retained" /\ report # "Retained"
RetainedIsHonest == [][RetainedReported => Live(Mine)]_vars

\* Until the topology is complete the new server does not close because it
\* is empty: only this restore's own kill-server makes it close.
StartsToClose == closing' /\ ~closing
KillServerSent == pc = "dispatch" /\ mode \in {"cleanup", "rollback"}
EmptyTargetWaits ==
  [][StartsToClose => KillServerSent \/ step = Len(Script)]_vars

\* The restore ends, with a report: rollback and cleanup stop looking for the
\* server after their attempts.
RestoreEnds == <>(pc = "done")

\* A server whose restore ended after the topology was complete, and whose
\* sessions all ended, exits: it is not left behind empty.
LeftEmpty == pc = "done" /\ mode = "final" /\ Sessions(Mine) = 0
EmptyTargetExits == LeftEmpty ~> (~Live(Mine) \/ Sessions(Mine) > 0)
----------------------------------------------------------------------------
(* The inductive invariant behind these properties.                        *)

Deciding == {"recheck", "check", "dispatch", "recover", "observe", "absent",
             "present"}

\* If the new server runs at all, p is its process id.
MineHas(p) == \A q \in Pid : occupant[q] = Mine => q = p

\* What is known of the server at each stage of the identification.  Between
\* the two reads the pid may have gone to somebody else, but then the server
\* is gone for good and the second read will not match.
Evidence ==
  /\ pc \in {"claim", "read1"} => captured = Nobody
  /\ pc = "capture" =>
       /\ obs \in Observations /\ obs.server = Mine /\ MineHas(obs.pid)
       /\ captured = Nobody
  /\ pc = "read2" =>
       /\ obs \in Observations /\ obs.server = Mine /\ MineHas(obs.pid)
       /\ captured \in Identities /\ captured.pid = obs.pid
       /\ captured.who = Mine \/ ~Live(Mine)
  /\ pc = "same" => obs \in Observations
  /\ pc \in {"same"} \cup Deciding =>
       /\ captured \in Identities /\ captured.who = Mine
       /\ MineHas(captured.pid)
  /\ pc = "done" => captured = Nobody \/ captured.who = Mine

\* The new server is started once, by start-server, before anything else, and
\* is one process.
Birth ==
  /\ \A p, q \in Pid : occupant[p] = Mine /\ occupant[q] = Mine => p = q
  /\ Live(Mine) => Mine \in born
  /\ pc = "claim" => Mine \notin born
  /\ pc # "done" => report = "none"

\* It does not close by itself before the last command of the script.
StaysOpen == Mine \in born /\ exitEmpty => step = Len(Script)

IInv ==
  /\ TypeOK /\ Evidence /\ Birth /\ StaysOpen
  /\ OnlyOwnServerTouched /\ CleanupSparesSessions
  /\ RemovedMeansGone /\ NoSilentServer
=============================================================================
