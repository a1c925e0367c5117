-------------------------- MODULE MCRestoreCommand -------------------------
(* Small instances of RestoreCommand for TLC: two panes in the plan's order. *)
EXTENDS RestoreCommand
============================================================================
