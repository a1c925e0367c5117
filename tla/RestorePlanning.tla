-------------------------- MODULE RestorePlanning --------------------------
(***************************************************************************)
(* plan_restore in src/src/restore.rs: what `tmux-rescue restore` decides  *)
(* to do in each pane, before it touches any tmux server, from what the    *)
(* snapshot recorded of the pane and what the planner finds on this        *)
(* machine.  A pure function of the two; either every pane gets an action  *)
(* or there is no plan and no effect.                                      *)
(***************************************************************************)

CONSTANT Pane  \* the panes of the snapshot

\* PaneRecovery.  Draft is the automatic recovery of a Codex session with a
\* captured prompt; Automatic is every other automatic recovery.
Recorded == {"Idle", "Unavailable", "Manual", "Automatic", "Draft"}

\* PlannedPaneAction; LaunchWithPrompt carries the captured Codex draft.
Action == {"LeaveIdle", "PasteManualHint", "PasteAutomaticFallback", "NoInput",
           "LaunchAutomatic", "LaunchWithPrompt"}
Launch == {"LaunchAutomatic", "LaunchWithPrompt"}

\* RestoreEnvironment: do the home directory and the directories of sessions
\* and panes exist, is the program of the pane's automatic recovery found from
\* the pane's directory, and can the pane's command be rendered: is it free of
\* terminal controls, and short enough for one tmux argument?
Environment ==
  [home : BOOLEAN, sessions : BOOLEAN, directory : [Pane -> BOOLEAN],
   executable : [Pane -> BOOLEAN], renderable : [Pane -> BOOLEAN]]

\* A launch needs the recorded directory and the program; the draft of a
\* recovery that becomes a hint is dropped.
PlanPane(r, found, p) ==
  CASE r = "Idle" -> "LeaveIdle"
    [] r = "Unavailable" -> "NoInput"
    [] r = "Manual" -> "PasteManualHint"
    [] r \in {"Automatic", "Draft"} /\ found.directory[p] /\ found.executable[p] ->
         IF r = "Draft" THEN "LaunchWithPrompt" ELSE "LaunchAutomatic"
    [] OTHER -> "PasteAutomaticFallback"

Plan(recorded, found) == [p \in Pane |-> PlanPane(recorded[p], found, p)]

\* Planning fails as a whole without a home directory, or for one command that
\* cannot be rendered.
Plannable(recorded, found) ==
  /\ found.home
  /\ \A p \in Pane : recorded[p] \notin {"Idle", "Unavailable"} => found.renderable[p]

\* Wrong form: a session that starts in the home directory is not mentioned.
DegradedPanesOnly(recorded, found) ==
  \E p \in Pane :
    \/ ~found.directory[p]
    \/ PlanPane(recorded[p], found, p) = "PasteAutomaticFallback"

\* Is there a PlanDegradation?
Degraded(recorded, found) ==
  \/ ~found.sessions
  \/ \E p \in Pane :
       \/ ~found.directory[p]
       \/ PlanPane(recorded[p], found, p) = "PasteAutomaticFallback"
=============================================================================
