--------------------------- MODULE RestoreCommand ---------------------------
(***************************************************************************)
(* `tmux-rescue restore`, from the request to the exit code:               *)
(* run_restore_with_factory and the reports of src/src/cli.rs around the   *)
(* executor of src/src/restore.rs.                                         *)
(*                                                                         *)
(* The snapshot is loaded and planned, the plan is printed, and only then, *)
(* and only with --run, is a server claimed, its topology built            *)
(* (OwnedTarget, Topology) and every pane recovered (PaneRecovery).  The   *)
(* result is printed at the end.  Whoever reads the output may go away,    *)
(* so that any write fails: before, between or after the effects.          *)
(***************************************************************************)
EXTENDS PaneRecovery

VARIABLES
  run,       \* RestoreRequest::run, the option --run
  phase,     \* what the command does next
  result,    \* RestoreRunResult: its status
  output,    \* what it has written, to standard output and standard error
  lost,      \* history: has a write failed?
  exit       \* the exit code

vars == <<recovery, run, phase, result, output, lost, exit>>

\* The plan, "executing ...", the target state, the outcome of a pane and the
\* warning of it, the error or warning at the end.
Line == {<<"plan">>, <<"executing">>, <<"end">>}
        \cup {<<"target", d>> : d \in TargetState}
        \cup {<<kind, p>> : kind \in {"pane", "warning"}, p \in Pane}

CommandTypeOK ==
  /\ TypeOK
  /\ run \in BOOLEAN /\ lost \in BOOLEAN
  /\ phase \in {"prepare", "unestablished", "announce", "establish", "recover",
                "report", "exited"}
  /\ result \in {None, "Complete", "Partial", "Fatal"}
  /\ output \subseteq Line
  /\ exit \in {None, 0, 1, 2}

Init ==
  /\ RecoveryInit
  /\ run \in BOOLEAN /\ phase = "prepare" /\ result = None
  /\ output = {} /\ lost = FALSE /\ exit = None

\* restore_exit_code()
ExitCode(s) == CASE s = "Complete" -> 0 [] s = "Fatal" -> 1 [] s = "Partial" -> 2

Exit(code) == phase' = "exited" /\ exit' = code
Goes(to) == phase' = to /\ UNCHANGED exit

\* Lines are written, or a write fails.  What was out before it failed is left
\* aside: how a report ends says whether it is complete.
Write(lines) ==
  \/ output' = output \cup lines /\ UNCHANGED lost
  \/ lost' = TRUE /\ UNCHANGED output

\* A write that fails ends the command: io_failure(), and report_failure(), whose
\* own write may fail unnoticed.
ThenOr(next, failed) == IF lost' THEN failed ELSE next
----------------------------------------------------------------------------
(* Before any effect.                                                      *)

AfterPlan == IF run THEN Goes("announce") ELSE Exit(0)

\* prepare_and_render_restore(): the snapshot cannot be loaded, there is no plan
\* for it, or the plan cannot be printed.
Prepare ==
  /\ phase = "prepare"
  /\ \/ /\ Write({<<"plan">>})
        /\ ThenOr(AfterPlan, Goes("unestablished"))
     \/ Goes("unestablished") /\ UNCHANGED <<output, lost>>
  /\ UNCHANGED <<recovery, run, result>>

\* render_unestablished_failure()
ReportUnestablished ==
  /\ phase = "unestablished"
  /\ Write({<<"target", "NotEstablished">>})
  /\ Exit(1)
  /\ UNCHANGED <<recovery, run, result>>

Announce ==
  /\ phase = "announce"
  /\ Write({<<"executing">>})
  /\ ThenOr(Goes("establish"), Exit(1))
  /\ UNCHANGED <<recovery, run, result>>
----------------------------------------------------------------------------
(* RestoreExecutor::execute().                                             *)

\* RestoreRunResult::fatal(): a failed claim leaves whatever its cleanup found, a
\* failed topology what the rollback found; OwnedTarget shows what is true of it.
Fatal ==
  /\ disposition' \in TargetState
  /\ result' = "Fatal"
  /\ Goes("report")

Establish ==
  /\ phase = "establish"
  /\ \/ Goes("recover") /\ UNCHANGED <<disposition, result>>
     \/ Fatal
  /\ UNCHANGED <<plan, pc, current, op, tries, outcome, status, panes, raced, sent,
                 run, output, lost>>

\* The recovery of the panes is a phase of its own: the panes are there before
\* it begins, and nothing the command does after it depends on them.
Recover ==
  /\ phase = "recover" /\ Execute
  /\ IF pc' = "done" THEN result' = status' /\ Goes("report")
     ELSE UNCHANGED <<result, phase, exit>>
  /\ UNCHANGED <<run, output, lost>>

PanesMove ==
  /\ phase = "recover" /\ Others
  /\ UNCHANGED <<run, phase, result, output, lost, exit>>
----------------------------------------------------------------------------
(* render_restore_result().                                                *)

\* render_pane_warning(): prompts that need attention are not among them.
Warned(o) ==
  o \in Attention \cup {"AutomaticLaunchFailedHintPrepared",
                        "PreparedAutomaticFallbackHint"}

PaneLines ==
  {<<"pane", p>> : p \in Pane} \cup {<<"warning", p>> : p \in {q \in Pane : Warned(outcome[q])}}

\* RestoreRunResult::panes() of a fatal run has none.
ResultLines ==
  {<<"target", disposition>>}
    \cup (IF result = "Fatal" THEN {} ELSE PaneLines)
    \cup (IF result = "Complete" THEN {} ELSE {<<"end">>})

ReportResult ==
  /\ phase = "report"
  /\ Write(ResultLines)
  /\ ThenOr(Exit(ExitCode(result)), Exit(1))
  /\ UNCHANGED <<recovery, run, result>>

Command ==
  \/ Prepare \/ ReportUnestablished \/ Announce \/ Establish \/ Recover
  \/ ReportResult

Next == Command \/ PanesMove
Spec == Init /\ [][Next]_vars

\* The command is one process that keeps running, and the tmux calls and writes it
\* waits for, without a timeout, return; what runs in the panes owes it nothing.
FairSpec == Spec /\ WF_vars(Command)
----------------------------------------------------------------------------
(* Properties.                                                             *)

NothingSent == \A p \in Pane : sent[p] = <<>>
Says(line) == line \in output

\* The exit code says what was done.  Of a command that executes, 0 means that
\* the whole plan was carried out on a server that is still there, and reported;
\* 2 that the recovery began and something is left to see to, with the report
\* complete.  1 means that no pane got any input, unless output was lost, which
\* hides how far the command came; the target state is printed when it can be.
\* Without --run nothing is sent at all.
ExitCodeIsHonest ==
  /\ ~run => NothingSent /\ exit # 2
  /\ exit = 0 => Says(<<"plan">>)
  /\ exit = 0 /\ run => /\ EverythingDone /\ Says(<<"target", "Retained">>)
                        /\ \A p \in Pane : Says(<<"pane", p>>)
  /\ exit = 2 => /\ \A p \in Pane : outcome[p] # None /\ Says(<<"pane", p>>)
                 /\ \E d \in TargetState : Says(<<"target", d>>)
                 /\ \/ ~EverythingDone \/ ~Says(<<"target", "Retained">>)
                    \/ \E p \in Pane : PartialOutcome(outcome[p])
  /\ exit = 1 /\ ~lost => /\ NothingSent
                          /\ \E d \in TargetState : Says(<<"target", d>>)

\* The command ends, and when it began to recover panes, with an outcome for
\* every pane: trouble with one pane stops neither the settling nor the panes
\* after it.
CommandEnds ==
  <>(exit # None /\ (status # "running" => \A p \in Pane : outcome[p] # None))
=============================================================================
