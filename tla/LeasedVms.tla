----------------------------- MODULE LeasedVms ------------------------------
(***************************************************************************)
(* What the VM pool promises its clients, without cids, boots, counters    *)
(* and locks: a project has a VM from the time somebody leases it, it      *)
(* stays as long as there is a lease, and only an unleased VM is reclaimed *)
(* (the module documentation of linux/src/pool.rs, ensure, release, reap). *)
(***************************************************************************)
CONSTANTS Projects, Clients

VARIABLES
    on,        \* projects that have a VM
    leases     \* the clients that lease the VM of each project

vars == <<on, leases>>

Init ==
    /\ on = {}
    /\ leases = [p \in Projects |-> {}]

\* A client leases the VM of one project, which is started if need be.
Acquire(c, p) ==
    /\ \A q \in Projects : c \notin leases[q]
    /\ on' = on \union {p}
    /\ leases' = [leases EXCEPT ![p] = @ \union {c}]

Release(c, p) ==
    /\ c \in leases[p]
    /\ leases' = [leases EXCEPT ![p] = @ \ {c}]
    /\ UNCHANGED on

Reclaim(S) ==
    /\ S \subseteq on
    /\ \A p \in S : leases[p] = {}
    /\ on' = on \ S
    /\ UNCHANGED leases

Next ==
    \/ \E c \in Clients, p \in Projects : Acquire(c, p) \/ Release(c, p)
    \/ \E S \in SUBSET Projects : Reclaim(S)

SafetySpec == Init /\ [][Next]_vars

\* A VM nobody leases is reclaimed in the end.
Spec ==
    /\ SafetySpec
    /\ \A p \in Projects : WF_vars(\E S \in SUBSET Projects : p \in S /\ Reclaim(S))

=============================================================================
