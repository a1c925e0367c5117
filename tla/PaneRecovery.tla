---------------------------- MODULE PaneRecovery ---------------------------
(***************************************************************************)
(* Program recovery in the panes of the restored server: phase 2 of        *)
(* `tmux-rescue restore` (execute_pane and execute_automatic in            *)
(* src/src/restore.rs over the pane operations of src/src/tmux.rs).        *)
(*                                                                         *)
(* The executor takes one pane after the other: it looks at the pane's     *)
(* foreground process in /proc, then sends input through one tmux          *)
(* conditional that rechecks what tmux can see.  Panes live their own      *)
(* lives meanwhile: shells read their input when they get to it, programs  *)
(* start and exit, panes close, input is switched off, the server may go   *)
(* away.  Every observation and every command may fail, and the reply to a *)
(* command that took effect may be lost.                                   *)
(***************************************************************************)
EXTENDS Naturals, Sequences, FiniteSets, RestorePlanning

CONSTANTS
  None,     \* no pane, no outcome
  Settle,   \* observations after a launch (MAX_AUTOMATIC_SETTLE_ATTEMPTS)
  MaxChanges \* bound: what panes do by themselves, reading aside

ASSUME SettleIsPositive == Settle \in Nat \ {0}
ASSUME MaxChangesIsNat == MaxChanges \in Nat
ASSUME PanesInOrder == Pane = 1 .. Cardinality(Pane)  \* the order of the plan

\* Who has the foreground: the pane's shell, a process tmux shows under the
\* shell's name, the program of the recovery expectation (for a prompt: that
\* exact Codex session), or anything else.
Foreground == {"shell", "alike", "expected", "other"}

\* raced: the foreground changed between the observation that allowed the input
\* and the conditional that sent it.
Item == {"command", "Enter", "prompt"}
Sent == [item : Item, to : Foreground, raced : BOOLEAN]

Attention == {"ShellNotForeground", "MissingPane", "UnexpectedForeground",
              "CapturedRecoveryUnavailable", "GuardedOperationFailed",
              "AutomaticObservationFailed"}
PromptFailure == {"SessionMismatch", "PaneMissing", "InputDisabled",
                  "PasteFailed", "CleanupFailed"}
Success == {"RestoredIdleShell", "RecoveredAutomatically",
            "RecoveredAutomaticallyWithPromptPrepared", "PreparedManualHint",
            "PreparedAutomaticFallbackHint", "AutomaticLaunchFailedHintPrepared"}
Outcome == Success \cup Attention \cup PromptFailure

\* None is nothing that is reported, and no exit code.
ASSUME NoneIsNothing ==
  /\ None \notin Pane /\ None \notin Outcome /\ None \notin {0, 1, 2}

\* RestoreTargetState and TargetDisposition
TargetState == {"NotEstablished", "Removed", "Retained", "Missing", "Unknown"}

VARIABLES
  action,    \* action[p]: the plan for pane p
  degraded,  \* does the plan have degradations?
  found,     \* history: were all recorded directories and programs there?
  pc,        \* the executor's next step
  current,   \* the pane it works on
  op,        \* the guarded operation under way
  tries,     \* settle observations left
  outcome,   \* outcome[p]: what is reported of p
  disposition, \* RestoreTargetState, observed after the last pane
  status,    \* RestoreRunStatus
  up,        \* is the restored server there?
  exists,    \* the pane it works on: does it still exist?
  fg,        \*   who has its foreground?
  inputOff,  \*   is its input switched off?
  unread,    \*   is there a submitted line that nobody has read?
  changes,   \*   what it did by itself so far
  buffer,    \* panes whose prompt is in a tmux paste buffer
  raced,     \* history: has the foreground changed since it was observed?
  sent       \* history: sent[p]: the input sent to p, and who had p then

plan == <<action, degraded, found>>
end == <<disposition, status>>
executor == <<plan, pc, current, op, tries, outcome, end>>
pane == <<exists, fg, inputOff, unread, changes>>
server == <<up, buffer>>
panes == <<pane, server>>
recovery == <<executor, panes, raced, sent>>

TypeOK ==
  /\ action \in [Pane -> Action] /\ degraded \in BOOLEAN /\ found \in BOOLEAN
  /\ pc \in {"next", "guard", "dispatch", "settle", "fresh", "prompt",
             "classify", "cleanup", "done"}
  /\ current \in Pane \cup {None}
  /\ op \in {"verify", "paste", "launch", "fallback"}
  /\ tries \in 0 .. Settle
  /\ outcome \in [Pane -> Outcome \cup {None}]
  /\ disposition \in TargetState \cup {None}
  /\ status \in {"running", "Complete", "Partial"}
  /\ up \in BOOLEAN /\ exists \in BOOLEAN /\ fg \in Foreground
  /\ inputOff \in BOOLEAN /\ unread \in BOOLEAN
  /\ buffer \subseteq Pane
  /\ changes \in 0 .. MaxChanges
  /\ raced \in BOOLEAN
  /\ sent \in [Pane -> Seq(Sent)]

\* The plan of any snapshot on any machine that has a plan for it.
Planned ==
  \E recorded \in [Pane -> Recorded], machine \in Environment :
    /\ Plannable(recorded, machine)
    /\ action = Plan(recorded, machine)
    /\ degraded = Degraded(recorded, machine)
    /\ found = (/\ machine.sessions
                 /\ \A p \in Pane :
                      /\ machine.directory[p]
                      /\ recorded[p] \in {"Automatic", "Draft"} =>
                            machine.executable[p])

RecoveryInit ==
  /\ Planned
  /\ pc = "next" /\ current = None /\ op = "verify" /\ tries = 0
  /\ outcome = [p \in Pane |-> None]
  /\ disposition = None /\ status = "running"
  /\ up = TRUE /\ buffer = {} /\ raced = FALSE
  /\ exists = TRUE /\ fg = "shell" /\ inputOff = FALSE /\ unread = FALSE
  /\ changes = 0
  /\ sent = [p \in Pane |-> <<>>]
----------------------------------------------------------------------------
(* What /proc and tmux say of a pane.                                      *)

There == up /\ exists

\* observe_pane(): the process with the pane's foreground, seen in /proc.
Observed(f) == There /\ fg = f

\* running_pane_condition(), evaluated by tmux.  Of a pane that is gone tmux
\* says either that the condition fails or that there is no such pane.
RunningCondition == ~inputOff

\* shell_pane_condition() adds the name of the foreground command.
ShellCondition == RunningCondition /\ fg \in {"shell", "alike"}
----------------------------------------------------------------------------
(* Ends of a pane.                                                         *)

\* pane_outcome_is_partial()
PartialOutcome(o) ==
  o \in Attention \cup PromptFailure
        \cup {"PreparedAutomaticFallbackHint", "AutomaticLaunchFailedHintPrepared"}

\* With its outcome a pane goes out of sight, and the one whose turn comes is as it
\* was created: what happened in it before can as well happen then, and what
\* happens in it afterwards concerns nobody.
OutOfSight ==
  /\ exists' = TRUE /\ fg' = "shell" /\ changes' = 0
  /\ inputOff' = FALSE /\ unread' = FALSE

Report(o) ==
  /\ outcome' = [outcome EXCEPT ![current] = o]
  /\ pc' = "next" /\ current' = None /\ op' = "verify" /\ tries' = 0
  /\ OutOfSight
  /\ UNCHANGED <<plan, end>>

Go(to) ==
  /\ pc' = to
  /\ UNCHANGED <<plan, current, op, tries, outcome, end, pane>>
----------------------------------------------------------------------------
(* The executor.                                                           *)

OperationOf(a) ==
  CASE a = "LeaveIdle" -> "verify"
    [] a \in Launch -> "launch"
    [] OTHER -> "paste"

\* execute_pane(): panes in the order of the plan.
NextPane ==
  /\ pc = "next"
  /\ \E p \in Pane :
       /\ outcome[p] = None
       /\ \A q \in Pane : q < p => outcome[q] # None
       /\ IF action[p] = "NoInput"
          THEN /\ outcome' = [outcome EXCEPT ![p] = "CapturedRecoveryUnavailable"]
               /\ UNCHANGED <<pc, current, op>>
          ELSE /\ op' = OperationOf(action[p])
               /\ current' = p /\ pc' = "guard"
               /\ UNCHANGED outcome
  /\ UNCHANGED <<plan, tries, end, panes, raced, sent>>

\* guarded_pane_operation() up to the observation.  A file identity that
\* changed, an unavailable observation and an error all end the operation; an
\* error of a pane that cannot be found counts as a missing pane.
Guard ==
  /\ pc = "guard"
  /\ \/ Observed("shell") /\ Go("dispatch")
     \/ There /\ fg # "shell" /\ Report("ShellNotForeground")
     \/ Report("GuardedOperationFailed")
     \/ Report("MissingPane")
  /\ UNCHANGED <<server, raced, sent>>

\* Wrong form: the hint after a failed launch is submitted too.
ItemsSubmitted(o) ==
  CASE o = "verify" -> <<>>
    [] o \in {"launch", "fallback"} -> <<"command", "Enter">>
    [] OTHER -> <<"command">>

Items(o) ==
  CASE o = "verify" -> <<>>
    [] o = "launch" -> <<"command", "Enter">>
    [] OTHER -> <<"command">>

\* Input arrives at the pane, whoever has its foreground.
Deliver(items) ==
  sent' = [sent EXCEPT ![current] =
               @ \o [i \in 1 .. Len(items) |->
                      [item |-> items[i], to |-> fg, raced |-> raced]]]

\* What a guarded operation that went through leads to.
Succeeded ==
  CASE op = "verify" -> Report("RestoredIdleShell")
    [] op = "paste" ->
         Report(IF action[current] = "PasteManualHint" THEN "PreparedManualHint"
                ELSE "PreparedAutomaticFallbackHint")
    [] op = "fallback" -> Report("AutomaticLaunchFailedHintPrepared")
    [] op = "launch" ->
         /\ pc' = "settle" /\ tries' = Settle - 1 /\ unread' = TRUE
         /\ UNCHANGED <<plan, current, op, outcome, end, exists, fg, inputOff, changes>>

\* Wrong form: a command whose reply is lost counts as blocked.
LostReplyBlocked == "ShellNotForeground"

\* ConditionalFailure::Failed and NotDispatched
LostReply == "GuardedOperationFailed"

\* The tmux conditional of a guarded operation.  A command of its list that
\* fails ends the list, and the operation with it.
Dispatch ==
  /\ pc = "dispatch"
  /\ \/ /\ There /\ ShellCondition
        /\ \E n \in 0 .. Len(Items(op)) :
             /\ Deliver(SubSeq(Items(op), 1, n))
             /\ \/ n = Len(Items(op)) /\ Succeeded
                \/ Report(LostReply)
     \/ /\ up /\ ~(There /\ ShellCondition)
        /\ Report("ShellNotForeground")
        /\ UNCHANGED sent
     \/ Report("GuardedOperationFailed") /\ UNCHANGED sent
  /\ raced' = FALSE
  /\ UNCHANGED server

ObserveAgain ==
  /\ tries > 0
  /\ tries' = tries - 1
  /\ UNCHANGED <<plan, pc, current, op, outcome, end, pane>>

\* The last observation stands when the attempts are used up.
Conclude(last) == tries = 0 /\ Report(last)

\* observe_automatic(): the expected program and a missing pane end the
\* settling; an idle shell at the last attempt means a hint is pasted.
Settling ==
  /\ pc = "settle"
  /\ \/ /\ Observed("expected")
        /\ IF action[current] = "LaunchWithPrompt" THEN Go("fresh")
           ELSE Report("RecoveredAutomatically")
     \/ Report("MissingPane")
     \/ ObserveAgain
     \/ /\ Observed("shell") /\ tries = 0
        /\ op' = "fallback" /\ pc' = "guard"
        /\ UNCHANGED <<plan, current, tries, outcome, end, pane>>
     \/ /\ There /\ fg \in {"alike", "other"}
        /\ Conclude("UnexpectedForeground")
     \/ Conclude("AutomaticObservationFailed")
  /\ UNCHANGED <<server, raced, sent>>

\* Wrong form: the observation of the settling is used again.
FreshObservationReused ==
  pc = "fresh" /\ Go("prompt") /\ UNCHANGED <<server, raced, sent>>

\* paste_codex_prompt_area(): the session is looked up once more.
FreshObservation ==
  /\ pc = "fresh"
  /\ \/ Observed("expected") /\ Go("prompt")
     \/ /\ There /\ fg # "expected"
        /\ Report("SessionMismatch")
     \/ Report("PasteFailed")
     \/ Report("PaneMissing")
  /\ UNCHANGED <<server, raced, sent>>

\* Wrong form: the buffer is left to tmux.
PromptFailedNoCleanup == Report("PasteFailed")

\* ConditionalFailure::Failed: the buffer may be there still.
PromptFailed == Go("cleanup")

\* set-buffer and paste-buffer -d in one conditional: all of it, or the buffer
\* without the paste, or nothing.
PromptDispatch ==
  /\ pc = "prompt"
  /\ \/ /\ There /\ RunningCondition
        /\ Deliver(<<"prompt">>)
        /\ \/ Report("RecoveredAutomaticallyWithPromptPrepared")
           \/ PromptFailed
        /\ UNCHANGED buffer
     \/ /\ There /\ RunningCondition
        /\ buffer' = buffer \cup {current}
        /\ PromptFailed
        /\ UNCHANGED sent
     \/ /\ PromptFailed \/ Report("PasteFailed")
        /\ UNCHANGED <<sent, buffer>>
     \/ /\ up /\ ~(There /\ RunningCondition)
        /\ Go("classify")
        /\ UNCHANGED <<sent, buffer>>
  /\ raced' = FALSE
  /\ UNCHANGED up

\* blocked_prompt_input_failure(): why the conditional refused.
ClassifyBlocked ==
  /\ pc = "classify"
  /\ \/ Report("PaneMissing")
     \/ There /\ inputOff /\ Report("InputDisabled")
     \/ Report("PasteFailed")
  /\ UNCHANGED <<server, raced, sent>>

\* delete-buffer fails when there is no such buffer, and may fail otherwise.
CleanUpBuffer ==
  /\ pc = "cleanup"
  /\ \/ /\ up /\ current \in buffer
        /\ buffer' = buffer \ {current}
        /\ Report("PasteFailed") \/ Report("CleanupFailed")
     \/ Report("CleanupFailed") /\ UNCHANGED buffer
  /\ UNCHANGED <<up, raced, sent>>

\* Wrong form: a missing pane ends the run, as an error of tmux would.
AllTriedOrLost ==
  \/ \A p \in Pane : outcome[p] # None
  \/ \E p \in Pane : outcome[p] = "MissingPane"

\* The loop over the panes is over.
AllTried == \A p \in Pane : outcome[p] # None

\* After the last pane: observe_disposition(), and the status of the run.
Finish ==
  /\ pc = "next" /\ AllTried
  /\ pc' = "done"
  /\ \/ up /\ disposition' = "Retained"
     \/ ~up /\ disposition' = "Missing"
     \/ disposition' = "Unknown"
  /\ status' = IF \/ degraded \/ disposition' # "Retained"
                  \/ \E p \in Pane : PartialOutcome(outcome[p])
               THEN "Partial" ELSE "Complete"
  /\ UNCHANGED <<plan, current, op, tries, outcome, panes, raced, sent>>

Execute ==
  \/ NextPane \/ Guard \/ Dispatch \/ Settling
  \/ FreshObservation \/ PromptDispatch \/ ClassifyBlocked \/ CleanUpBuffer
  \/ Finish
----------------------------------------------------------------------------
(* The panes.                                                              *)

InTurn == There /\ current # None

\* The executor is between an observation and the conditional it allows.
InGap == pc \in {"dispatch", "prompt"}
Races == raced' = (raced \/ InGap)

Change == changes < MaxChanges /\ changes' = changes + 1

\* Whoever has the foreground reads the submitted line; a shell runs it: the
\* expected program, something else, or nothing that stays.
Read ==
  /\ InTurn /\ unread /\ unread' = FALSE
  /\ IF fg = "shell" THEN fg' \in {"shell", "expected", "other"} /\ Races
     ELSE UNCHANGED <<fg, raced>>
  /\ UNCHANGED <<executor, exists, inputOff, changes, server, sent>>

\* A program exits, or somebody at the pane starts one.
ForegroundChanges ==
  /\ InTurn /\ Change /\ Races
  /\ fg' \in IF fg = "shell" THEN {"alike", "other"} ELSE {"shell"}
  /\ UNCHANGED <<executor, exists, inputOff, unread, server, sent>>

InputToggled ==
  /\ InTurn /\ Change
  /\ inputOff' = ~inputOff
  /\ UNCHANGED <<executor, exists, fg, unread, server, raced, sent>>

PaneCloses ==
  /\ InTurn /\ Change
  /\ exists' = FALSE
  /\ UNCHANGED <<executor, fg, inputOff, unread, server, raced, sent>>

\* The server goes away, and its buffers with it.
ServerGone ==
  /\ up /\ up' = FALSE /\ buffer' = {}
  /\ UNCHANGED <<executor, pane, raced, sent>>

Others == Read \/ ForegroundChanges \/ InputToggled \/ PaneCloses \/ ServerGone
----------------------------------------------------------------------------
(* Properties.                                                             *)

ItemsSent(p) == [i \in 1 .. Len(sent[p]) |-> sent[p][i].item]
WasSent(p, item) == \E i \in 1 .. Len(sent[p]) : sent[p][i].item = item

\* Everything a pane may ever be sent, by its planned action: hints are never
\* submitted, a launch is submitted once and followed at most by one hint or
\* one prompt, whatever replies were lost in between.
PlannedInput(a) ==
  CASE a \in {"LeaveIdle", "NoInput"} -> {<<>>}
    [] a \in {"PasteManualHint", "PasteAutomaticFallback"} -> {<<>>, <<"command">>}
    [] a \in Launch ->
         {<<>>, <<"command">>, <<"command", "Enter">>,
          <<"command", "Enter", "command">>}
         \cup (IF a = "LaunchWithPrompt"
               THEN {<<"command", "Enter", "prompt">>} ELSE {})

InputIsPlanned == \A p \in Pane : ItemsSent(p) \in PlannedInput(action[p])

\* Even when the foreground changes after it was observed, a command is only
\* sent to a pane that tmux shows under the shell's name: never to a program
\* with another name.
CommandsMeetAShell ==
  \A p \in Pane : \A i \in 1 .. Len(sent[p]) :
    sent[p][i].item # "prompt" => sent[p][i].to \in {"shell", "alike"}

\* Unless the foreground changed between an observation and the conditional it
\* allows, the gap the document acknowledges, commands meet the shell itself,
\* and the draft meets exactly the Codex session it was captured in, although
\* other things happened since the settling saw that session.
InputReachesItsTarget ==
  \A p \in Pane : \A i \in 1 .. Len(sent[p]) :
    ~sent[p][i].raced =>
      sent[p][i].to = IF sent[p][i].item = "prompt" THEN "expected" ELSE "shell"

\* A pane that is reported as prepared got its input, and a pane whose hint
\* was refused got none.
OutcomesAreEarned ==
  \A p \in Pane :
    /\ outcome[p] \in {"PreparedManualHint", "PreparedAutomaticFallbackHint"}
         => ItemsSent(p) = <<"command">>
    /\ outcome[p] = "RecoveredAutomatically" => ItemsSent(p) = <<"command", "Enter">>
    /\ outcome[p] = "RecoveredAutomaticallyWithPromptPrepared"
         => ItemsSent(p) = <<"command", "Enter", "prompt">>
    /\ outcome[p] \in {"ShellNotForeground", "MissingPane"} /\ action[p] \notin Launch
         => sent[p] = <<>>
    /\ outcome[p] \in {"SessionMismatch", "PaneMissing", "InputDisabled"}
         => ~WasSent(p, "prompt")

\* Every directory and program the snapshot names was found, and every pane got
\* everything the plan says.
EverythingDone ==
  /\ found
  /\ \A p \in Pane :
       /\ action[p] \notin {"NoInput", "PasteAutomaticFallback"}
       /\ action[p] = "PasteManualHint" => ItemsSent(p) = <<"command">>
       /\ action[p] = "LaunchAutomatic" => ItemsSent(p) = <<"command", "Enter">>
       /\ action[p] = "LaunchWithPrompt" =>
            ItemsSent(p) = <<"command", "Enter", "prompt">>

\* A draft is not left in a tmux buffer, where any client can paste it, unless
\* the report says so.
DraftIsNotLeftBehind ==
  \A p \in buffer : outcome[p] \in {None, "CleanupFailed"}
=============================================================================
