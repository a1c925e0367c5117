---------------------------- MODULE SnapshotKeys ----------------------------
(***************************************************************************)
(* The keys of immutable snapshots (SnapshotKey in src/src/storage.rs): a  *)
(* capture timestamp and a unique suffix, compared in that order.          *)
(***************************************************************************)
EXTENDS Naturals

CONSTANTS
  Time,    \* capture timestamps (captured_at), naturals
  Suffix,  \* unique suffixes (UUIDs), naturals
  None,    \* no key, no `latest`
  Junk     \* anything that is not a link to a valid snapshot

Key == [time : Time, suffix : Suffix]

ASSUME KeysAreOrdered == Time \subseteq Nat /\ Suffix \subseteq Nat
ASSUME MarkersAreNoKeys == None \notin Key /\ Junk \notin Key /\ None # Junk

\* The derived order of SnapshotKey: timestamp first, suffix as tie-breaker.
Newer(a, b) ==
  \/ a.time > b.time
  \/ a.time = b.time /\ a.suffix > b.suffix
=============================================================================
