----------------------------- MODULE MCCapture -----------------------------
(* Small instances of Capture for TLC. *)
EXTENDS Capture
=============================================================================
