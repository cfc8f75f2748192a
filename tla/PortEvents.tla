----------------------------- MODULE PortEvents -----------------------------
(***************************************************************************)
(* Automatic port forwarding between one guest and the CLI sessions that   *)
(* share it: the port monitor of fendd (fendd/src/port_monitor.rs) scans   *)
(* the guest's listening ports and sends every change to its subscribers,  *)
(* and each session (port_forward_loop in linux/src/session.rs) opens or   *)
(* closes a listener on the same port of the host.                         *)
(*                                                                         *)
(* poll_loop and event_listener update the known ports and the subscribers *)
(* and write the events under one lock; each such section is one action.   *)
(* A write blocks while the stream is full.                                *)
(***************************************************************************)
EXTENDS Integers, FiniteSets, Sequences, Functions

CONSTANTS
    Ports,        \* port numbers the guest's programs use
    Taken,        \* host ports that other programs hold
    Sessions,     \* CLI sessions with this guest
    StreamSize    \* events that fit into the stream of a subscriber

ASSUME PortAssumption ==
    Taken \subseteq Ports /\ StreamSize \in Nat /\ StreamSize > 0

VARIABLES
    listening,     \* ports on which programs of the guest listen
    scanned,       \* the result of a scan that poll_loop has yet to report
    known,         \* known_ports (poll_loop's prev is the same between scans)
    subscribers,   \* subscribers, as the sessions at their other ends
    backlog,       \* sessions that connected and are not accepted yet
    stream,        \* events written and not yet read, per session
    phase,         \* of each session: "off", "on", "ended"
    listeners,     \* host ports each session listens on
    refused        \* ports each session could not bind on the host

vars == <<listening, scanned, known, subscribers, backlog, stream, phase,
          listeners, refused>>
host == <<phase, listeners, refused>>

Idle == <<>>

\* The orders in which the ports of a HashSet may come.
Orders(ports) == Injection(1..Cardinality(ports), ports)

Event(kind, ports) == [i \in DOMAIN ports |-> [event |-> kind, port |-> ports[i]]]

Init ==
    /\ listening = {}
    /\ scanned = Idle
    /\ known = {}
    /\ subscribers = <<>>
    /\ backlog = {}
    /\ stream = [s \in Sessions |-> <<>>]
    /\ phase = [s \in Sessions |-> "off"]
    /\ listeners = [s \in Sessions |-> {}]
    /\ refused = [s \in Sessions |-> {}]

-----------------------------------------------------------------------------
(* The guest.                                                              *)

GuestListens(p) ==
    /\ p \notin listening
    /\ listening' = listening \union {p}
    /\ UNCHANGED <<scanned, known, subscribers, backlog, stream, host>>

GuestCloses(p) ==
    /\ p \in listening
    /\ listening' = listening \ {p}
    /\ UNCHANGED <<scanned, known, subscribers, backlog, stream, host>>

\* poll_loop: scan_listening_ports, outside the lock; nothing else happens
\* when nothing changed.
Scan ==
    /\ scanned = Idle
    /\ listening # known
    /\ scanned' = <<listening>>
    /\ UNCHANGED <<listening, known, subscribers, backlog, stream, host>>

\* Vec::swap_remove: the last element takes the place of the removed one.
swap_remove(seq, i) == SubSeq([seq EXCEPT ![i] = seq[Len(seq)]], 1, Len(seq) - 1)

\* Mutant of RemoveDead: an index is there twice, for an "opened" and a
\* "closed" event that failed.
RemoveDeadTwice(seq, dead) ==
    LET once(rest, i) == IF i > Len(rest) THEN rest ELSE swap_remove(rest, i)
        left[n \in 0..Len(seq)] ==
            IF n = 0 THEN seq
            ELSE LET i == Len(seq) + 1 - n IN
                 IF seq[i] \in dead THEN once(once(left[n - 1], i), i) ELSE left[n - 1]
    IN left[Len(seq)]

\* The indices of dead subscribers are removed from the highest down; left[n]
\* is what is left when the n highest have been looked at.
RemoveDead(seq, dead) ==
    LET left[n \in 0..Len(seq)] ==
            IF n = 0 THEN seq
            ELSE LET i == Len(seq) + 1 - n IN
                 IF seq[i] \in dead THEN swap_remove(left[n - 1], i) ELSE left[n - 1]
    IN left[Len(seq)]

\* poll_loop, under the lock: known_ports is replaced, every subscriber gets
\* the "opened" events and then the "closed" ones.  Writing to a session that
\* has ended may fail, and drops the subscriber, or still succeed.
Notify ==
    /\ scanned # Idle
    /\ \E opened \in Orders(scanned[1] \ known),
          closed \in Orders(known \ scanned[1]),
          dead \in SUBSET {s \in Range(subscribers) : phase[s] = "ended"} :
         LET events == Event("opened", opened) \o Event("closed", closed)
             reached == {s \in Range(subscribers) : phase[s] = "on"}
         IN /\ \A s \in reached : Len(stream[s]) + Len(events) <= StreamSize
            /\ stream' = [s \in Sessions |-> IF s \in reached
                                             THEN stream[s] \o events
                                             ELSE stream[s]]
            /\ subscribers' = RemoveDead(subscribers, dead)
    /\ known' = scanned[1]
    /\ scanned' = Idle
    /\ UNCHANGED <<listening, backlog, host>>

\* Mutant of Accept: the ports that are open already are not replayed.
AcceptNoReplay(s) ==
    /\ s \in backlog
    /\ backlog' = backlog \ {s}
    /\ subscribers' = Append(subscribers, s)
    /\ UNCHANGED <<listening, scanned, known, stream, host>>

\* event_listener, under the lock: the known ports are replayed, then the
\* subscriber is registered, unless a write failed.
Accept(s) ==
    /\ s \in backlog
    /\ backlog' = backlog \ {s}
    /\ \/ /\ phase[s] = "on"
          /\ Cardinality(known) <= StreamSize
          /\ \E ports \in Orders(known) :
               stream' = [stream EXCEPT ![s] = Event("opened", ports)]
          /\ subscribers' = Append(subscribers, s)
       \/ /\ phase[s] = "ended"
          /\ subscribers' \in {Append(subscribers, s)}
                \union (IF known = {} THEN {} ELSE {subscribers})
          /\ UNCHANGED stream
    /\ UNCHANGED <<listening, scanned, known, host>>

-----------------------------------------------------------------------------
(* The host.                                                               *)

\* PortForwarding::start: connect_vsock_with_retry succeeds.
Subscribe(s) ==
    /\ phase[s] = "off"
    /\ phase' = [phase EXCEPT ![s] = "on"]
    /\ backlog' = backlog \union {s}
    /\ UNCHANGED <<listening, scanned, known, subscribers, stream, listeners,
                   refused>>

\* TcpListener::bind(("127.0.0.1", port)) succeeds.
HostPortFree(p) == p \notin Taken /\ \A s \in Sessions : p \notin listeners[s]

\* An "opened" event: bind, unless this session listens there already.  A port
\* that cannot be bound is reported and not tried again.
Opened(s, p) ==
    IF p \in listeners[s] THEN UNCHANGED <<listeners, refused>>
    ELSE IF HostPortFree(p)
    THEN /\ listeners' = [listeners EXCEPT ![s] = @ \union {p}]
         /\ refused' = [refused EXCEPT ![s] = @ \ {p}]
    ELSE /\ refused' = [refused EXCEPT ![s] = @ \union {p}]
         /\ UNCHANGED listeners

\* Mutant of Closed: the listener stays.
ClosedKeepsListener(s, p) ==
    /\ refused' = [refused EXCEPT ![s] = @ \ {p}]
    /\ UNCHANGED listeners

Closed(s, p) ==
    /\ listeners' = [listeners EXCEPT ![s] = @ \ {p}]
    /\ refused' = [refused EXCEPT ![s] = @ \ {p}]

\* port_forward_loop reads one event.
Receive(s) ==
    /\ phase[s] = "on"
    /\ stream[s] # <<>>
    /\ LET e == Head(stream[s]) IN
       IF e.event = "opened" THEN Opened(s, e.port) ELSE Closed(s, e.port)
    /\ stream' = [stream EXCEPT ![s] = Tail(@)]
    /\ UNCHANGED <<listening, scanned, known, subscribers, backlog, phase>>

\* The command is over: PortForwarding is dropped, the loop ends, its
\* listeners are stopped and joined and the stream is closed.
EndSession(s) ==
    /\ phase[s] = "on"
    /\ phase' = [phase EXCEPT ![s] = "ended"]
    /\ listeners' = [listeners EXCEPT ![s] = {}]
    /\ refused' = [refused EXCEPT ![s] = {}]
    /\ stream' = [stream EXCEPT ![s] = <<>>]
    /\ UNCHANGED <<listening, scanned, known, subscribers, backlog>>

Next ==
    \/ \E p \in Ports : GuestListens(p) \/ GuestCloses(p)
    \/ Scan \/ Notify
    \/ \E s \in Sessions : \/ Accept(s) \/ Subscribe(s)
                           \/ Receive(s) \/ EndSession(s)

Spec == Init /\ [][Next]_vars

\* The threads of fendd and of the sessions keep running; programs of the guest
\* and users do what they like.
FairSpec ==
    /\ Spec
    /\ WF_vars(Scan) /\ WF_vars(Notify)
    /\ \A s \in Sessions : WF_vars(Accept(s)) /\ WF_vars(Receive(s))

-----------------------------------------------------------------------------

\* Whether port p is held once the events are read, by a session that holds
\* those in held before.
After(events, held, p) ==
    LET about == {i \in DOMAIN events : events[i].port = p}
    IN \/ \E i \in about : events[i].event = "opened" /\ \A j \in about : j <= i
       \/ about = {} /\ p \in held

\* What session s will have tried to forward once it has read its stream.
Expected(s, p) == After(stream[s], listeners[s] \union refused[s], p)

\* A session that was accepted and goes on stays subscribed, and its forwards
\* with the events on their way to it are exactly the known ports: whichever
\* scans, replays, other subscribers and failed writes came in between, it
\* neither misses a port nor keeps one that was closed.
SubscribersInSync ==
    \A s \in Sessions : phase[s] = "on" /\ s \notin backlog =>
        /\ s \in Range(subscribers)
        /\ \A p \in Ports : Expected(s, p) <=> p \in known

\* A port the guest goes on listening on is forwarded by every session that
\* goes on, or reported as not available on the host.
OpenPortForwarded ==
    \A s \in Sessions, p \in Ports :
        <>[](p \in listening /\ phase[s] = "on")
            => <>[](p \in listeners[s] \union refused[s])

\* A port nobody in the guest listens on any more is given back on the host.
ClosedPortReleased ==
    \A p \in Ports :
        <>[](p \notin listening)
            => <>[](\A s \in Sessions : p \notin listeners[s])

=============================================================================
