------------------------------ MODULE MCDaemon ------------------------------
(* Three daemon processes and a CLI, which need not wait for one daemon    *)
(* before it starts another: poll_for_socket gives up at any time.         *)
EXTENDS Daemon

CONSTANTS d1, d2, d3, c1

ThreeDaemons == {d1, d2, d3}
OneClient == {c1}

=============================================================================
