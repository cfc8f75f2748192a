-------------------------------- MODULE Relay --------------------------------
(***************************************************************************)
(* One forwarded connection: a program on the host (the client) connects   *)
(* to a port the CLI forwards, relay_host_connection and relay of          *)
(* linux/src/session.rs carry its bytes over a vsock to handle_forward and *)
(* relay of fendd/src/port_forward.rs, which carry them to the server in   *)
(* the guest, and back.                                                    *)
(*                                                                         *)
(* Each relay has two threads, and each thread owns a duplicate of both    *)
(* sockets: a socket is closed when both threads of its side have ended.   *)
(* A pipe is one direction of a socket.  The CLI does not exit here; that  *)
(* would close the sockets of its side.                                    *)
(***************************************************************************)
EXTENDS Naturals, Sequences

CONSTANTS
    Amount,     \* bytes each end sends at most
    Room        \* bytes a pipe holds

VARIABLES
    pipe,       \* bytes in each pipe
    shut,       \* pipes whose writer shut them down or closed
    deaf,       \* pipes whose reader is gone
    thread,     \* relay threads: "none", "copy", "done"
    stage,      \* relay_host_connection and handle_forward
    end,        \* the client and the server: "open", "half" (shut down for
                \* writing), "closed"
    sent        \* bytes the client and the server have sent

vars == <<pipe, shut, deaf, thread, stage, end, sent>>

\* Client to host, host to guest, guest to server, and the way back.
Pipes == {"c2h", "h2g", "g2s", "s2g", "g2h", "h2c"}
Threads == {"host_t1", "host_t2", "guest_t1", "guest_t2"}

\* What each thread reads and writes: t1 from the vsock to TCP, t2 the other way.
In(t) == CASE t = "host_t1" -> "g2h" [] t = "host_t2" -> "c2h"
           [] t = "guest_t1" -> "h2g" [] t = "guest_t2" -> "s2g"
Out(t) == CASE t = "host_t1" -> "h2c" [] t = "host_t2" -> "h2g"
            [] t = "guest_t1" -> "g2s" [] t = "guest_t2" -> "g2h"
Sibling(t) == CASE t = "host_t1" -> "host_t2" [] t = "host_t2" -> "host_t1"
                [] t = "guest_t1" -> "guest_t2" [] t = "guest_t2" -> "guest_t1"
Host == {"host_t1", "host_t2"}
Guest == {"guest_t1", "guest_t2"}

Port == 0     \* the header that names the port

Init ==
    /\ pipe = [p \in Pipes |-> <<>>]
    /\ shut = {} /\ deaf = {}
    /\ thread = [t \in Threads |-> "none"]
    /\ stage = [side \in {"host", "guest"} |-> "none"]
    /\ end = [e \in {"client", "server"} |-> "open"]
    /\ sent = [e \in {"client", "server"} |-> 0]

-----------------------------------------------------------------------------
(* The programs at both ends.                                              *)

Writes(e) == IF e = "client" THEN "c2h" ELSE "s2g"
Reads(e) == IF e = "client" THEN "h2c" ELSE "g2s"

\* The client has its connection from the start, the server once fendd connected.
Joined(e) == e = "client" \/ stage["guest"] = "relay"

EndSends(e) ==
    /\ Joined(e) /\ end[e] = "open"
    /\ sent[e] < Amount /\ Len(pipe[Writes(e)]) < Room
    /\ sent' = [sent EXCEPT ![e] = @ + 1]
    /\ pipe' = [pipe EXCEPT ![Writes(e)] = Append(@, sent[e] + 1)]
    /\ UNCHANGED <<shut, deaf, thread, stage, end>>

EndReads(e) ==
    /\ end[e] # "closed" /\ pipe[Reads(e)] # <<>>
    /\ pipe' = [pipe EXCEPT ![Reads(e)] = Tail(@)]
    /\ UNCHANGED <<shut, deaf, thread, stage, end, sent>>

EndShutsDown(e) ==
    /\ Joined(e) /\ end[e] = "open"
    /\ end' = [end EXCEPT ![e] = "half"]
    /\ shut' = shut \union {Writes(e)}
    /\ UNCHANGED <<pipe, deaf, thread, stage, sent>>

EndCloses(e) ==
    /\ Joined(e) /\ end[e] # "closed"
    /\ end' = [end EXCEPT ![e] = "closed"]
    /\ shut' = shut \union {Writes(e)}
    /\ deaf' = deaf \union {Reads(e)}
    /\ UNCHANGED <<pipe, thread, stage, sent>>

-----------------------------------------------------------------------------
(* Setting the relays up.                                                  *)

\* relay_host_connection: connect_vsock, the port, and relay's threads.
HostConnects ==
    /\ stage["host"] = "none"
    /\ stage' = [stage EXCEPT !["host"] = "relay"]
    /\ pipe' = [pipe EXCEPT !["h2g"] = <<Port>>]
    /\ thread' = [t \in Threads |-> IF t \in Host THEN "copy" ELSE thread[t]]
    /\ UNCHANGED <<shut, deaf, end, sent>>

\* ... or the vsock cannot be connected, and the TCP stream is dropped.
HostFails ==
    /\ stage["host"] = "none"
    /\ stage' = [stage EXCEPT !["host"] = "failed"]
    /\ shut' = shut \union {"h2c"}
    /\ deaf' = deaf \union {"c2h"}
    /\ UNCHANGED <<pipe, thread, end, sent>>

\* handle_forward: the port is read, the server connected, relay started.
GuestConnects ==
    /\ stage["guest"] = "none" /\ pipe["h2g"] # <<>>
    /\ stage' = [stage EXCEPT !["guest"] = "relay"]
    /\ pipe' = [pipe EXCEPT !["h2g"] = Tail(@)]
    /\ thread' = [t \in Threads |-> IF t \in Guest THEN "copy" ELSE thread[t]]
    /\ UNCHANGED <<shut, deaf, end, sent>>

\* ... or nobody listens on the port any more, and the vsock is dropped.
GuestFails ==
    /\ stage["guest"] = "none" /\ pipe["h2g"] # <<>>
    /\ stage' = [stage EXCEPT !["guest"] = "failed"]
    /\ shut' = shut \union {"g2h"}
    /\ deaf' = deaf \union {"h2g"}
    /\ UNCHANGED <<pipe, thread, end, sent>>

-----------------------------------------------------------------------------
(* The threads of relay.                                                   *)

\* A thread ends.  t1 shuts its TCP stream down for writing; when the other
\* thread of the side has ended as well, both sockets are closed.
Ends(t) ==
    LET last == thread[Sibling(t)] = "done"
        both == {t, Sibling(t)}
    IN /\ thread' = [thread EXCEPT ![t] = "done"]
       /\ shut' = shut \union (IF last THEN {Out(u) : u \in both} ELSE {})
                       \union (IF t \in {"host_t1", "guest_t1"} THEN {Out(t)} ELSE {})
       /\ deaf' = deaf \union (IF last THEN {In(u) : u \in both} ELSE {})

\* read and write_all; a write to a reader that is gone is lost, or fails.
Copy(t) ==
    /\ thread[t] = "copy" /\ pipe[In(t)] # <<>>
    /\ \/ /\ Out(t) \notin deaf /\ Len(pipe[Out(t)]) < Room
          /\ pipe' = [pipe EXCEPT ![In(t)] = Tail(@), ![Out(t)] = Append(@, Head(pipe[In(t)]))]
          /\ UNCHANGED <<shut, deaf, thread>>
       \/ /\ Out(t) \in deaf
          /\ pipe' = [pipe EXCEPT ![In(t)] = Tail(@)]
          /\ Ends(t) \/ UNCHANGED <<shut, deaf, thread>>
    /\ UNCHANGED <<stage, end, sent>>

\* read returns 0: the other end shut this pipe down.
EndOfFile(t) ==
    /\ thread[t] = "copy" /\ pipe[In(t)] = <<>> /\ In(t) \in shut
    /\ Ends(t)
    /\ UNCHANGED <<pipe, stage, end, sent>>

-----------------------------------------------------------------------------

Next ==
    \/ \E e \in {"client", "server"} :
         EndSends(e) \/ EndReads(e) \/ EndShutsDown(e) \/ EndCloses(e)
    \/ HostConnects \/ HostFails \/ GuestConnects \/ GuestFails
    \/ \E t \in Threads : Copy(t) \/ EndOfFile(t)

\* The relays run; the ends read what they get.  When they send, shut down or
\* close is up to them.
FairSpec ==
    /\ Init /\ [][Next]_vars
    /\ WF_vars(HostConnects \/ HostFails) /\ WF_vars(GuestConnects \/ GuestFails)
    /\ \A t \in Threads : WF_vars(Copy(t)) /\ WF_vars(EndOfFile(t))
    /\ \A e \in {"client", "server"} : WF_vars(EndReads(e))

-----------------------------------------------------------------------------

\* relay in the guest carries bytes "until either side closes"
\* (fendd/src/port_forward.rs:65): when both the client and the server have
\* closed their connections, its threads end.
RelayEnds ==
    (end["client"] = "closed" /\ end["server"] = "closed")
        ~> (\A t \in Guest : thread[t] = "done")

=============================================================================
