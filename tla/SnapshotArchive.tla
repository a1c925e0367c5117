-------------------------- MODULE SnapshotArchive --------------------------
(***************************************************************************)
(* What the state store promises, without files, locks or processes: a set *)
(* of committed snapshots that only grows, and a pointer that only moves   *)
(* to newer committed snapshots.  The machine may lose power: the pointer  *)
(* then falls back to one of the values it had since it was last made      *)
(* durable, and never to a snapshot that is not committed.  Once somebody   *)
(* else had a hand in the pointer or the snapshots, or a publisher could    *)
(* not read what the pointer names, only the commits are promised.          *)
(***************************************************************************)
EXTENDS SnapshotKeys

VARIABLES
  committed,   \* keys of the snapshots that can no longer be lost
  pointer,     \* the key `latest` names, or None
  candidates,  \* what the pointer may be after a power loss
  undisturbed  \* has nobody interfered?

archiveVars == <<committed, pointer, candidates, undisturbed>>

Init ==
  /\ committed = {}
  /\ pointer = None
  /\ candidates = {None}
  /\ undisturbed = TRUE

\* Snapshots become permanent, one or (when publishers share a sync) several.
CommitsLast == committed' \in SUBSET Key /\ committed \subseteq committed'

Commit ==
  /\ CommitsLast
  /\ UNCHANGED <<pointer, candidates>>

\* The pointer moves to a newer committed snapshot, at first in memory only.
Advance(k) ==
  /\ k \in committed
  /\ pointer # None => Newer(k, pointer)
  /\ pointer' = k
  /\ candidates' = candidates \cup {k}
  /\ UNCHANGED committed

\* The pointer becomes durable.
Settle ==
  /\ candidates' = {pointer}
  /\ UNCHANGED <<committed, pointer>>

\* A power loss: the pointer is one of its candidates, no commit is undone.
Recover ==
  /\ pointer' \in candidates
  /\ candidates' = {pointer'}
  /\ CommitsLast

Undisturbed ==
  /\ undisturbed = TRUE /\ UNCHANGED undisturbed
  /\ \/ Commit
     \/ \E k \in Key : Advance(k)
     \/ Settle
     \/ Recover

Disturbed == undisturbed' = FALSE /\ CommitsLast

Next == Undisturbed \/ Disturbed

Spec == Init /\ [][Next]_archiveVars

\* Whatever the pointer is or can fall back to is a committed snapshot, and the
\* pointer is the newest of them.
PointerIsNewestCommitted ==
  undisturbed = TRUE =>
    /\ pointer \in candidates
    /\ candidates \subseteq committed \cup {None}
    /\ \A c \in candidates :
         c # None /\ c # pointer => pointer # None /\ Newer(pointer, c)
=============================================================================
