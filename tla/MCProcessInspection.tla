------------------------ MODULE MCProcessInspection ------------------------
(* Instances of ProcessInspection for TLC; the cfg files give the constants. *)
EXTENDS ProcessInspection
=============================================================================
