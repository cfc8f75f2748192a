------------------------------ MODULE MCVmPool ------------------------------
(* The VM pool on small instances.  The constants that size the instance   *)
(* are given here once; the .cfg files choose the threads and the events.  *)
EXTENDS VmPool, TLC

CONSTANTS p1, p2, c1, c2, c3, user, none

TwoProjects == {p1, p2}
OneProject == {p1}
ThreeConns == {c1, c2, c3}
TwoConns == {c1, c2}
BothNetworks == {user, none}
OneNetwork == {user}

\* Threads are interchangeable, and so are projects and network modes.
Symmetry ==
    Permutations(Projects) \union Permutations(Conns)
    \union Permutations(Networks)

=============================================================================
