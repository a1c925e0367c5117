--------------------------- MODULE MCOwnedTarget ---------------------------
(* Small instances of OwnedTarget for TLC. *)
EXTENDS OwnedTarget

SessionWithSplit == <<"new-session", "pane">>
=============================================================================
