----------------------------- MODULE MCTopology ----------------------------
(* Small instances of Topology for TLC. *)
EXTENDS Topology

\* One to four panes in and out of order; none, one index twice and too many.
PaneLists == {<<0>>, <<1, 0>>, <<0, 1, 2>>, <<3, 1, 0, 2>>}
Windows(lists) == [index : {0, 2}, panes : lists]
WindowLists ==
  {<<>>} \cup {<<w>> : w \in Windows({<<>>, <<0, 0>>, <<0, 1, 2, 3, 4>>} \cup PaneLists)}
    \cup {<<v, w>> : v \in Windows(PaneLists), w \in Windows({<<0>>, <<0, 1, 2>>})}
MCSnapshots ==
  {<<>>} \cup {<<[name |-> "a", windows |-> l]>> : l \in WindowLists}
    \cup {<<[name |-> "b", windows |-> <<[index |-> 2, panes |-> <<0>>]>>],
           [name |-> n, windows |-> l]>> : n \in {"a", "b"}, l \in WindowLists}
=============================================================================
