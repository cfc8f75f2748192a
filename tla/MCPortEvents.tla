---------------------------- MODULE MCPortEvents ----------------------------
(* Two guest ports, one of them in use on the host, and two sessions.      *)
EXTENDS PortEvents

CONSTANTS p1, p2, s1, s2

TwoPorts == {p1, p2}
OneTaken == {p2}
TwoSessions == {s1, s2}

=============================================================================
