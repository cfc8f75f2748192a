-------------------------------- MODULE Smoke --------------------------------
(***************************************************************************)
(* The readers of frames on the host, byte by byte and against the clock:  *)
(*   "smoke"     run_smoke of linux/src/smoke.rs, which has a deadline;    *)
(*   "attached"  run_attached of linux/src/session.rs, with a timeout      *)
(*               until the command is sent;                                *)
(*   "ports"     port_forward_loop of linux/src/session.rs, which polls.   *)
(*                                                                         *)
(* pending holds the bytes the guest has written and the host has not      *)
(* read.  A byte arrives when it is read; how long that takes is up to the *)
(* guest.  Time is counted in ticks, a socket timeout in units of Grain    *)
(* ticks (microseconds in the code), 0 meaning none.                       *)
(***************************************************************************)
EXTENDS Frames, FiniteSetsExt

CONSTANTS
    Clients,        \* the readers considered
    Scripts,        \* per reader, what the guest may send: sequences of
                    \* messages, for a command with the greeting in front
    Timeout,        \* config.timeout, in ticks
    RETRY_INTERVAL, \* between two attempts to connect, in ticks
    EVENT_POLL_INTERVAL,  \* the timeout of "ports", in units
    Grain,          \* ticks per unit of a socket timeout
    MaxOutput       \* config.max_output_bytes

COMMAND_ID == 1
stdout == 1
stderr == 2

\* A message of a script; "own" has the id of the command in front.
Bytes(message, id) ==
    write_frame(message.kind, IF message.own THEN <<id>> \o message.rest ELSE message.rest)
AllBytes(messages, id) == Concat([i \in DOMAIN messages |-> Bytes(messages[i], id)])

Odd(kind, payload) == [kind |-> kind, own |-> FALSE, rest |-> payload]
Ready == Odd(MessageType.Ready, <<0, 0>>)
Output(stream, bytes) ==
    [kind |-> MessageType.OutputData, own |-> TRUE, rest |-> Tail(OutputData(0, stream, bytes)),
     stream |-> stream, bytes |-> bytes]
Exit(code) ==
    [kind |-> MessageType.ExitStatus, own |-> TRUE, rest |-> Tail(ExitStatus(0, code)), code |-> code]

\* fendd's messages about the command carry its id, and its exit comes last.
\* What is not "own" does not pass for it: the id is another, or the object is
\* not one the host can read.
OwnMessage(m) ==
    \/ /\ m.kind = MessageType.OutputData
       /\ m.stream \in {stdout, stderr} /\ m.bytes \in Seq(0..255)
       /\ m = Output(m.stream, m.bytes)
    \/ m.kind = MessageType.ExitStatus /\ m.code \in Nat /\ m = Exit(m.code)
StrangeMessage(m) ==
    /\ m.kind = MessageType.OutputData =>
           LET parsed == parse_output_data(m.rest) IN
           \/ parsed = None
           \/ parsed[1].id # COMMAND_ID
           \/ parsed[1].stream \notin {stdout, stderr}
           \/ host_base64_decode(parsed[1].data) = None
    /\ m.kind = MessageType.ExitStatus =>
           LET parsed == parse_exit_status(m.rest) IN
           parsed = None \/ parsed[1].id # COMMAND_ID

\* The length of a message fits the header.
Message(m) ==
    /\ m.kind \in Nat /\ m.own \in BOOLEAN
    /\ m.rest \in Seq(Nat) /\ Len(m.rest) < MaxLength

ASSUME SmokeAssumption ==
    /\ Clients \subseteq {"smoke", "attached", "ports"}
    /\ {Timeout, RETRY_INTERVAL, EVENT_POLL_INTERVAL, Grain, MaxOutput} \subseteq Nat \ {0}

ASSUME ScriptsAssumption ==
    \A c \in Clients : \A messages \in Scripts[c] :
        /\ messages \in Seq({messages[i] : i \in DOMAIN messages})
        /\ \A i \in DOMAIN messages : Message(messages[i])
        /\ c = "ports" => \A i \in DOMAIN messages : ~messages[i].own
        /\ c # "ports" => messages # <<>> /\ ~messages[1].own
        /\ \A i \in DOMAIN messages :
               /\ messages[i].own => OwnMessage(messages[i])
               /\ messages[i].own /\ messages[i].kind = MessageType.ExitStatus => i = Len(messages)
               /\ i > 1 /\ ~messages[i].own => StrangeMessage(messages[i])

VARIABLES
    client,    \* which reader this is
    script,    \* the messages the guest sends
    pc,        \* "connect", "ready", "execute", "loop", "done"
    attempt,   \* connections tried
    request,   \* bytes of the ExecuteCommand frame fendd has not read
    pending,   \* bytes written by the guest and not read yet
    open,      \* the guest has its end of the stream open
    reading,   \* within read_frame
    buf,       \* bytes of the current frame
    io,        \* the timeout of the socket, in units
    waited,    \* ticks since the current recv began
    elapsed,   \* ticks since the deadline was set, at most Timeout
    output,    \* bytes taken for stdout and stderr
    frames,    \* frames taken
    result,    \* how the reader ended
    late,      \* frames taken after the deadline
    torn       \* a timeout struck within a frame, and its bytes were dropped

clock == <<io, waited, elapsed>>
taken == <<output, frames, result, late>>
guest == <<script, request, pending, open>>
vars == <<client, pc, attempt, guest, reading, buf, clock, taken, torn>>

Init ==
    /\ client \in Clients
    /\ script \in Scripts[client]
    /\ pc = "connect"
    /\ attempt = 0
    /\ request = <<>> /\ pending = <<>> /\ open = TRUE
    /\ reading = FALSE /\ buf = <<>>
    /\ io = 0 /\ waited = 0 /\ elapsed = 0
    /\ output = [s \in {stdout, stderr} |-> <<>>]
    /\ frames = <<>> /\ result = [kind |-> "none", code |-> 0] /\ late = 0
    /\ torn = FALSE

ReturnWith(r, code) ==
    /\ pc' = "done"
    /\ result' = [kind |-> r, code |-> code]
Return(error) == ReturnWith(error, 0)

-----------------------------------------------------------------------------
(* Timeouts.                                                               *)

connection_attempts(timeout) == (timeout \div RETRY_INTERVAL) + 1

\* Mutant of duration_to_timeval: what is left is rounded down to "none".
duration_to_timeval_rounds(timeout) == timeout \div Grain

duration_to_timeval(timeout) == Max({timeout \div Grain, 1})

\* Mutant of remaining: at the deadline, no time left is still some time.
remaining_saturates == Some(Timeout - elapsed)

\* SmokeDeadline::remaining.
remaining == IF elapsed < Timeout THEN Some(Timeout - elapsed) ELSE None

Tick ==
    /\ pc \in {"ready", "execute", "loop"}
    /\ io # 0 /\ waited < io * Grain
    /\ waited' = waited + 1
    /\ elapsed' = IF client = "smoke" THEN Min({elapsed + 1, Timeout}) ELSE 0
    /\ UNCHANGED <<client, pc, attempt, guest, reading, buf, io, taken, torn>>

-----------------------------------------------------------------------------
(* Connecting.                                                             *)

\* connect_vsock succeeds and fendd greets, or writes events; smoke starts its
\* deadline, the others set the timeout of the socket.
Connect ==
    /\ pc = "connect"
    /\ pending' = IF client = "ports" THEN AllBytes(script, 0) ELSE Bytes(script[1], 0)
    /\ pc' = IF client = "ports" THEN "loop" ELSE "ready"
    /\ io' = CASE client = "smoke" -> 0
               [] client = "attached" -> duration_to_timeval(Timeout)
               [] client = "ports" -> EVENT_POLL_INTERVAL
    /\ waited' = 0
    /\ elapsed' = 0
    /\ UNCHANGED <<client, script, attempt, request, open, reading, buf, taken, torn>>

ConnectFails ==
    /\ pc = "connect"
    /\ attempt' = attempt + 1
    /\ IF attempt' < connection_attempts(Timeout) THEN UNCHANGED <<pc, result>>
       ELSE Return("ConnectionTimeout")
    /\ UNCHANGED <<client, guest, reading, buf, clock, output, frames, late, torn>>

-----------------------------------------------------------------------------
(* The guest.                                                              *)

\* fendd reads the command and runs it, or closes the connection.
GuestExecutes ==
    /\ open /\ request # <<>>
    /\ LET frame == guest_read_frame(request)
           good == frame # None /\ frame[1].kind = MessageType.ExecuteCommand
       IN /\ pending' = IF good THEN pending \o AllBytes(Tail(script), frame[1].payload[1])
                        ELSE pending
          /\ open' = good
    /\ request' = <<>>
    /\ UNCHANGED <<client, script, pc, attempt, reading, buf, clock, taken, torn>>

\* The VM dies, or fendd closes: bytes that have not arrived are gone.
GuestCloses ==
    /\ pc \in {"ready", "execute", "loop"}
    /\ open
    /\ open' = FALSE
    /\ pending' = <<>>
    /\ UNCHANGED <<client, script, pc, attempt, request, reading, buf, clock, taken, torn>>

-----------------------------------------------------------------------------
(* read_frame.                                                             *)

\* read_frame_with_deadline sets the timeout to what is left of the deadline.
BeginFrame ==
    /\ pc \in {"ready", "loop"}
    /\ ~reading
    /\ IF client = "smoke" /\ remaining = None
       THEN Return("SessionTimeout") /\ UNCHANGED <<reading, buf, io, waited>>
       ELSE /\ reading' = TRUE
            /\ buf' = <<>>
            /\ io' = IF client = "smoke" THEN duration_to_timeval(remaining[1]) ELSE io
            /\ waited' = 0
            /\ UNCHANGED <<pc, result>>
    /\ UNCHANGED <<client, attempt, guest, elapsed, output, frames, late, torn>>

ReadByte ==
    /\ reading
    /\ pending # <<>> /\ ~Complete(buf) /\ ~TooLarge(buf)
    /\ buf' = Append(buf, Head(pending))
    /\ pending' = Tail(pending)
    /\ waited' = 0
    /\ UNCHANGED <<client, script, pc, attempt, request, open, reading, io, elapsed, taken, torn>>

\* "payload too large", or the stream ends before the frame does.
ReadFails ==
    /\ reading
    /\ TooLarge(buf) \/ (pending = <<>> /\ ~open /\ ~Complete(buf))
    /\ Return("Io")
    /\ reading' = FALSE
    /\ UNCHANGED <<client, attempt, guest, buf, clock, output, frames, late, torn>>

TimesOut == io # 0 /\ waited >= io * Grain

\* Mutant of ReadTimesOut: smoke tries again, as port_forward_loop does.
ReadTimesOutRetries ==
    /\ reading /\ TimesOut /\ ~Complete(buf) /\ ~TooLarge(buf)
    /\ IF client # "attached" THEN UNCHANGED <<pc, result>> ELSE Return("SessionTimeout")
    /\ reading' = FALSE
    /\ torn' = (torn \/ (client = "ports" /\ buf # <<>>))
    /\ UNCHANGED <<client, attempt, guest, buf, clock, output, frames, late>>

\* io_or_timeout ends smoke and attached; port_forward_loop reads on, and what
\* read_exact had taken of the frame is lost.
ReadTimesOut ==
    /\ reading /\ TimesOut /\ ~Complete(buf) /\ ~TooLarge(buf)
    /\ IF client = "ports" THEN UNCHANGED <<pc, result>> ELSE Return("SessionTimeout")
    /\ reading' = FALSE
    /\ torn' = (torn \/ (client = "ports" /\ buf # <<>>))
    /\ UNCHANGED <<client, attempt, guest, buf, clock, output, frames, late>>

-----------------------------------------------------------------------------
(* What is done with a frame.                                              *)

\* Mutant of append_output: every chunk is held against the limit by itself.
append_output_per_chunk(stream, bytes) ==
    IF client = "smoke" /\ Len(bytes) > MaxOutput
    THEN Return("OutputLimitExceeded") /\ UNCHANGED output
    ELSE /\ output' = [output EXCEPT ![stream] = @ \o bytes]
         /\ UNCHANGED <<pc, result>>

\* append_output; attached writes to its own stdout and stderr without limit.
append_output(stream, bytes) ==
    IF client = "smoke" /\ Len(output[stream]) + Len(bytes) > MaxOutput
    THEN Return("OutputLimitExceeded") /\ UNCHANGED output
    ELSE /\ output' = [output EXCEPT ![stream] = @ \o bytes]
         /\ UNCHANGED <<pc, result>>

\* Mutant of TakeOutput: both streams end up in one.
TakeOutputMerged(payload) ==
    \E parsed \in {parse_output_data(payload)} :
    IF parsed = None \/ parsed[1].id # COMMAND_ID
    THEN Return("Protocol") /\ UNCHANGED output
    ELSE \E bytes \in {host_base64_decode(parsed[1].data)} :
         IF bytes = None THEN Return("Protocol") /\ UNCHANGED output
         ELSE append_output(stdout, bytes[1])

TakeOutput(payload) ==
    \E parsed \in {parse_output_data(payload)} :
    IF parsed = None \/ parsed[1].id # COMMAND_ID \/ parsed[1].stream \notin {stdout, stderr}
    THEN Return("Protocol") /\ UNCHANGED output
    ELSE \E bytes \in {host_base64_decode(parsed[1].data)} :
         IF bytes = None THEN Return("Protocol") /\ UNCHANGED output
         ELSE append_output(parsed[1].stream, bytes[1])

TakeExit(payload) ==
    LET parsed == parse_exit_status(payload) IN
    /\ IF parsed = None \/ parsed[1].id # COMMAND_ID THEN Return("Protocol")
       ELSE ReturnWith("Ok", parsed[1].code)
    /\ UNCHANGED output

TakeFrame ==
    /\ reading /\ Complete(buf) /\ ~TooLarge(buf)
    /\ reading' = FALSE
    /\ \E frame \in {Frame(buf)} :
       /\ frames' = Append(frames, frame)
       /\ IF client = "ports" THEN UNCHANGED <<pc, output, result>>
          ELSE IF pc = "ready" THEN
                 /\ IF frame.kind = MessageType.Ready THEN pc' = "execute" /\ UNCHANGED result
                    ELSE Return("Protocol")
                 /\ UNCHANGED output
          ELSE IF frame.kind = MessageType.OutputData THEN TakeOutput(frame.payload)
          ELSE IF frame.kind = MessageType.ExitStatus THEN TakeExit(frame.payload)
          ELSE Return("Protocol") /\ UNCHANGED output
    /\ late' = late + (IF client = "smoke" /\ elapsed = Timeout THEN 1 ELSE 0)
    /\ UNCHANGED <<client, attempt, guest, buf, clock, torn>>

\* The command is sent, within the deadline; attached then lifts its timeout.
SendExecute ==
    /\ pc = "execute"
    /\ IF client = "smoke" /\ remaining = None
       THEN Return("SessionTimeout") /\ UNCHANGED <<request, io, waited>>
       ELSE /\ request' = write_frame(MessageType.ExecuteCommand, <<COMMAND_ID, 0>>)
            /\ pc' = "loop"
            /\ io' = IF client = "smoke" THEN duration_to_timeval(remaining[1]) ELSE 0
            /\ waited' = 0
            /\ UNCHANGED result
    /\ UNCHANGED <<client, script, pending, open, attempt, reading, buf, elapsed, output, frames,
                   late, torn>>

\* The write fails: the guest is gone, or does not take the bytes in time.
SendFails ==
    /\ pc = "execute"
    /\ IF open THEN Return("SessionTimeout") ELSE Return("Io")
    /\ UNCHANGED <<client, attempt, guest, reading, buf, clock, output, frames, late, torn>>

\* port_forward_loop sees its stop flag between two frames.
StopPorts ==
    /\ client = "ports" /\ pc = "loop" /\ ~reading
    /\ Return("Stopped")
    /\ UNCHANGED <<client, attempt, guest, reading, buf, clock, output, frames, late, torn>>

-----------------------------------------------------------------------------

HostStep ==
    \/ Connect \/ ConnectFails \/ BeginFrame \/ ReadByte \/ ReadFails
    \/ ReadTimesOut \/ TakeFrame \/ SendExecute \/ SendFails \/ StopPorts
Next == HostStep \/ Tick \/ GuestExecutes \/ GuestCloses

Spec == Init /\ [][Next]_vars

\* The host runs and its clock goes on.  Nothing is assumed of the guest: a
\* byte that is not read yet may never arrive.
FairSpec ==
    /\ Spec
    /\ WF_vars(Tick)
    /\ WF_vars(Connect \/ ConnectFails)
    /\ WF_vars(BeginFrame) /\ WF_vars(TakeFrame) /\ WF_vars(ReadFails)
    /\ WF_vars(ReadTimesOut) /\ WF_vars(SendExecute \/ SendFails)

-----------------------------------------------------------------------------

\* The frames of the script, as the guest writes them for the command.
Sent == [i \in DOMAIN script |-> Frame(Bytes(script[i], COMMAND_ID))]

\* The frames a reader takes are the frames the guest wrote, from the first on,
\* however their bytes arrive and wherever timeouts and a dying guest cut the
\* stream; only a timeout of port_forward_loop within a frame, after which it
\* reads on, puts it out of step.
FramesInStep ==
    /\ torn \/ IsPrefix(frames, Sent)
    /\ torn => client = "ports"

\* What the command writes to a stream.
Said(stream) ==
    LET Mine(m) == m.kind = MessageType.OutputData /\ m.own /\ m.stream = stream
    IN Concat([i \in DOMAIN script |-> IF Mine(script[i]) THEN script[i].bytes ELSE <<>>])

\* What smoke and attached hand out is what the command wrote to that stream,
\* byte for byte and in order, and all of it when they report an exit code,
\* which is the command's.
OutputIsTheCommands ==
    /\ \A stream \in {stdout, stderr} : IsPrefix(output[stream], Said(stream))
    /\ result.kind = "Ok" =>
           /\ \E i \in DOMAIN script : script[i] = Exit(result.code)
           /\ \A stream \in {stdout, stderr} : output[stream] = Said(stream)

\* append_output: smoke never holds more than the limit of a stream, and gives
\* up for it only when the command really writes more.
LimitIsExact ==
    /\ client = "smoke" => \A stream \in {stdout, stderr} : Len(output[stream]) <= MaxOutput
    /\ result.kind = "OutputLimitExceeded" =>
           \E stream \in {stdout, stderr} : Len(Said(stream)) > MaxOutput

\* The timeout is per recv, so a frame may be completed after the deadline: one
\* frame, since the next read finds no time remaining.
AtMostOneLateFrame == late <= 1

\* A smoke test ends and an attached session is started or given up, whatever
\* the guest does, be it silent in the middle of a frame.
HostDoesNotHang ==
    /\ (client = "smoke") ~> (pc = "done")
    /\ (client = "attached") ~> (pc \in {"loop", "done"})

=============================================================================
