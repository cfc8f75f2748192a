------------------------------- MODULE Session ------------------------------
(***************************************************************************)
(* One attached command: the CLI (run_attached in linux/src/session.rs)    *)
(* and its connection handler in the guest (handle in                      *)
(* fendd/src/connection.rs, spawn and spawn_pty in fendd/src/process.rs),  *)
(* joined by the two directions of a vsock stream.                         *)
(*                                                                         *)
(* The guest has a handler thread, one stream_pipe thread per output       *)
(* stream and a waiter; frames are written under a mutex, so that a frame  *)
(* is a step.  The CLI has its main thread, the port forwarding thread and *)
(* the signal thread; what a SIGINT does depends on their signal masks.    *)
(* Output is numbered: the n-th chunk the command writes to a stream is n. *)
(***************************************************************************)
EXTENDS Integers, Sequences

CONSTANTS
    Chunks,      \* bound of the model: chunks written to each stream
    PipeSize,    \* chunks a pipe (or the PTY) holds
    Signals,     \* bound of the model: SIGINTs sent to the CLI
    Codes        \* exit codes of commands

ASSUME SessionAssumption ==
    /\ {Chunks, PipeSize, Signals} \subseteq Nat /\ PipeSize > 0
    /\ Codes \subseteq 0 .. 255

NoCode == -2
BySignal == -1      \* status.code().unwrap_or(-1)
NotFound == 127
Streams == {"stdout", "stderr"}

VARIABLES
    main,       \* where the CLI's main thread is in run_attached
    threads,    \* threads of the CLI
    blocked,    \* threads of the CLI that block SIGINT
    pending,    \* a SIGINT waits for the signalfd
    sent,       \* SIGINTs so far
    printed,    \* chunks the CLI has printed, per stream
    result,     \* exit code run_attached returned
    up, down,   \* frames on their way to the CLI, and to the guest
    handler,    \* where the handler thread is in handle
    reader,     \* stream_pipe threads: "none", "reading", "done"
    waiter,     \* "none", "joining", "reaped", "done"
    child,      \* the command: "none", "running", "zombie", "reaped"
    code,       \* its exit code
    helper,     \* it left a process behind that holds its output streams
    wrote,      \* chunks written so far, per stream
    pipe        \* chunks written and not read by stream_pipe

cli == <<main, threads, blocked, pending, sent, printed, result>>
process == <<child, code, helper, wrote, pipe>>
guest == <<handler, reader, waiter>>
vars == <<cli, up, down, guest, process>>

Output(s, n) == [kind |-> "OutputData", stream |-> s, value |-> n]
Exit(n) == [kind |-> "ExitStatus", stream |-> "none", value |-> n]
Ready == [kind |-> "Ready", stream |-> "none", value |-> 0]

Init ==
    /\ main = "connect" /\ threads = {"main"} /\ blocked = {}
    /\ pending = FALSE /\ sent = 0
    /\ printed = [s \in Streams |-> <<>>] /\ result = NoCode
    /\ up = <<>> /\ down = <<>>
    /\ handler = "none" /\ waiter = "none"
    /\ reader = [s \in Streams |-> "none"]
    /\ child = "none" /\ code = NoCode /\ helper = FALSE
    /\ wrote = [s \in Streams |-> 0] /\ pipe = [s \in Streams |-> <<>>]

\* The CLI's end of the stream is open; a write to a closed one fails.
Connected == main \notin {"connect", "done", "failed", "killed"}
Send(frame) == up' = IF Connected THEN Append(up, frame) ELSE up

-----------------------------------------------------------------------------
(* The CLI.                                                                *)

Main(from, to) == main = from /\ main' = to

\* connect_vsock_with_retry and the accept of the guest, which sends Ready.
Connect ==
    /\ Main("connect", "ready")
    /\ handler = "none"
    /\ handler' = "command"
    /\ up' = <<Ready>>
    /\ UNCHANGED <<threads, blocked, pending, sent, printed, result, down,
                   reader, waiter, process>>

ConnectTimeout ==
    /\ Main("connect", "failed")
    /\ UNCHANGED <<threads, blocked, pending, sent, printed, result, up, down,
                   guest, process>>

\* Ready is read, ExecuteCommand is written.
SendExecute ==
    /\ Main("ready", "ports")
    /\ up # <<>> /\ Head(up).kind = "Ready"
    /\ up' = Tail(up)
    /\ down' = Append(down, "ExecuteCommand")
    /\ UNCHANGED <<threads, blocked, pending, sent, printed, result, guest,
                   process>>

\* A new thread inherits the signal mask of the thread that spawns it.
SpawnThread(t, by) ==
    /\ threads' = threads \union {t}
    /\ blocked' = IF by \in blocked THEN blocked \union {t} ELSE blocked

\* PortForwarding::start ...
StartPorts ==
    /\ Main("ports", "mask")
    /\ SpawnThread("ports", "main")
    /\ UNCHANGED <<pending, sent, printed, result, up, down, guest, process>>

\* ... and then SignalForwarder::start: pthread_sigmask, signalfd ...
BlockSignals ==
    /\ Main("mask", "signals")
    /\ blocked' = blocked \union {"main"}
    /\ UNCHANGED <<threads, pending, sent, printed, result, up, down, guest,
                   process>>

\* ... and the thread.
StartSignals ==
    /\ Main("signals", "attached")
    /\ SpawnThread("signals", "main")
    /\ UNCHANGED <<pending, sent, printed, result, up, down, guest, process>>

\* The subscription to port events failed or ended.
PortsThreadEnds ==
    /\ "ports" \in threads
    /\ threads' = threads \ {"ports"}
    /\ UNCHANGED <<main, blocked, pending, sent, printed, result, up, down,
                   guest, process>>

\* Mutant of ReadFrame: output of stderr is not printed.
ReadFrameDropsStderr ==
    /\ main = "attached"
    /\ up # <<>>
    /\ up' = Tail(up)
    /\ LET frame == Head(up) IN
       IF frame.kind = "OutputData"
       THEN /\ printed' = IF frame.stream = "stderr" THEN printed ELSE
                          [printed EXCEPT ![frame.stream] = Append(@, frame.value)]
            /\ UNCHANGED <<main, result>>
       ELSE /\ result' = frame.value
            /\ main' = "detach"
            /\ UNCHANGED printed
    /\ UNCHANGED <<threads, blocked, pending, sent, down, guest, process>>

\* The loop of run_attached: output is printed, ExitStatus ends the loop.
ReadFrame ==
    /\ main = "attached"
    /\ up # <<>>
    /\ up' = Tail(up)
    /\ LET frame == Head(up) IN
       IF frame.kind = "OutputData"
       THEN /\ printed' = [printed EXCEPT ![frame.stream] = Append(@, frame.value)]
            /\ UNCHANGED <<main, result>>
       ELSE /\ result' = frame.value
            /\ main' = "detach"
            /\ UNCHANGED printed
    /\ UNCHANGED <<threads, blocked, pending, sent, down, guest, process>>

\* Mutant of Detach: the old mask is not restored.
DetachStaysBlocked ==
    /\ main = "detach"
    /\ main' = "done"
    /\ threads' = {"main"} /\ UNCHANGED blocked
    /\ up' = <<>>
    /\ UNCHANGED <<pending, sent, printed, result, down, guest, process>>

\* The SignalForwarder is dropped first: its thread is joined and the old mask
\* is restored, which delivers a SIGINT nobody took from the signalfd.  Then the
\* PortForwarding and the stream are.
Detach ==
    /\ main = "detach"
    /\ main' = IF pending THEN "killed" ELSE "done"
    /\ threads' = {"main"} /\ blocked' = {}
    /\ up' = <<>>
    /\ UNCHANGED <<pending, sent, printed, result, down, guest, process>>

\* A SIGINT for the CLI: some thread that does not block it takes it and its
\* default action ends the process; if all block it, it waits for the signalfd.
Interrupt ==
    /\ main \notin {"done", "failed", "killed"}
    /\ sent < Signals
    /\ sent' = sent + 1
    /\ IF threads \subseteq blocked
       THEN pending' = TRUE /\ UNCHANGED <<main, up>>
       ELSE main' = "killed" /\ up' = <<>> /\ UNCHANGED pending
    /\ UNCHANGED <<threads, blocked, printed, result, down, guest, process>>

\* signal_loop reads the signalfd and writes a ForwardSignal frame.
ForwardSignal ==
    /\ "signals" \in threads /\ Connected /\ pending
    /\ pending' = FALSE
    /\ down' = Append(down, "ForwardSignal")
    /\ UNCHANGED <<main, threads, blocked, sent, printed, result, up, guest,
                   process>>

-----------------------------------------------------------------------------
(* The command: it writes, exits, may leave a process behind.              *)

Writing == child = "running" \/ helper

CommandWrites(s) ==
    /\ Writing
    /\ reader[s] = "reading"
    /\ wrote[s] < Chunks /\ Len(pipe[s]) < PipeSize
    /\ wrote' = [wrote EXCEPT ![s] = @ + 1]
    /\ pipe' = [pipe EXCEPT ![s] = Append(@, wrote[s] + 1)]
    /\ UNCHANGED <<child, code, helper, cli, up, down, guest>>

CommandExits(n, leaves) ==
    /\ child = "running"
    /\ child' = "zombie" /\ code' = n /\ helper' = leaves
    /\ UNCHANGED <<wrote, pipe, cli, up, down, guest>>

\* Writing to a stream whose stream_pipe gave up ends a process.
BrokenPipe ==
    /\ \E s \in Streams : reader[s] = "done"
    /\ \/ child = "running" /\ child' = "zombie" /\ code' = BySignal
          /\ UNCHANGED helper
       \/ helper /\ helper' = FALSE /\ UNCHANGED <<child, code>>
    /\ UNCHANGED <<wrote, pipe, cli, up, down, guest>>

HelperExits ==
    /\ helper
    /\ helper' = FALSE
    /\ UNCHANGED <<child, code, wrote, pipe, cli, up, down, guest>>

-----------------------------------------------------------------------------
(* fendd.                                                                  *)

\* handle reads ExecuteCommand and spawns; with a PTY there is one stream.
Spawn(tty) ==
    /\ handler = "command"
    /\ down # <<>>
    /\ down' = Tail(down)
    /\ handler' = "frames"
    /\ child' = "running"
    /\ reader' = [s \in Streams |->
                    IF tty /\ s = "stderr" THEN "done" ELSE "reading"]
    /\ waiter' = "joining"
    /\ UNCHANGED <<code, helper, wrote, pipe, cli, up>>

\* The command cannot be started: a message and 127, and handle returns.
SpawnFails ==
    /\ handler = "command"
    /\ down # <<>>
    /\ down' = Tail(down)
    /\ handler' = "done"
    /\ code' = NotFound
    /\ wrote' = [wrote EXCEPT !["stderr"] = 1]
    /\ up' = IF Connected THEN up \o <<Output("stderr", 1), Exit(NotFound)>> ELSE up
    /\ UNCHANGED <<reader, waiter, child, helper, pipe, cli>>

\* Mutant of StreamPipe: a failed write does not end stream_pipe.
StreamPipeRetries(s) ==
    /\ reader[s] = "reading"
    /\ pipe[s] # <<>>
    /\ Connected
    /\ pipe' = [pipe EXCEPT ![s] = Tail(@)]
    /\ Send(Output(s, Head(pipe[s])))
    /\ UNCHANGED <<reader, handler, waiter, child, code, helper, wrote, cli, down>>

\* stream_pipe: a chunk is read and sent; when that fails, the thread ends and
\* closes its end of the pipe.
StreamPipe(s) ==
    /\ reader[s] = "reading"
    /\ pipe[s] # <<>>
    /\ pipe' = [pipe EXCEPT ![s] = Tail(@)]
    /\ Send(Output(s, Head(pipe[s])))
    /\ reader' = IF Connected THEN reader ELSE [reader EXCEPT ![s] = "done"]
    /\ UNCHANGED <<handler, waiter, child, code, helper, wrote, cli, down>>

\* End of file (EIO on a PTY): nobody holds the other end any more.
StreamEnds(s) ==
    /\ reader[s] = "reading"
    /\ pipe[s] = <<>> /\ ~Writing
    /\ reader' = [reader EXCEPT ![s] = "done"]
    /\ UNCHANGED <<handler, waiter, process, cli, up, down>>

\* Mutant of Reap: the waiter does not join the stream_pipe threads.
ReapEarly ==
    /\ waiter = "joining" /\ child = "zombie"
    /\ waiter' = "reaped" /\ child' = "reaped"
    /\ UNCHANGED <<handler, reader, code, helper, wrote, pipe, cli, up, down>>

\* The waiter joins the stream_pipe threads and reaps the command ...
Reap ==
    /\ waiter = "joining" /\ child = "zombie"
    /\ \A s \in Streams : reader[s] = "done"
    /\ waiter' = "reaped" /\ child' = "reaped"
    /\ UNCHANGED <<handler, reader, code, helper, wrote, pipe, cli, up, down>>

\* ... and sends ExitStatus.
SendExit ==
    /\ waiter = "reaped"
    /\ waiter' = "done"
    /\ Send(Exit(code))
    /\ UNCHANGED <<handler, reader, process, cli, down>>

\* handle reads a ForwardSignal frame: kill(pid).  The command dies of it, or
\* handles it and exits, or goes on; when it has exited nothing happens here.
DeliverSignal ==
    /\ handler = "frames"
    /\ down # <<>>
    /\ down' = Tail(down)
    /\ \/ UNCHANGED <<child, code>>
       \/ /\ child = "running"
          /\ child' = "zombie"
          /\ code' \in Codes \union {BySignal}
    /\ UNCHANGED <<helper, wrote, pipe, cli, up, guest>>

\* The CLI closed the stream: handle stops reading and joins the waiter.  The
\* command is not killed.
HandlerStops ==
    /\ handler \in {"command", "frames"}
    /\ ~Connected /\ down = <<>>
    /\ handler' = IF handler = "frames" THEN "join" ELSE "done"
    /\ UNCHANGED <<reader, waiter, process, cli, up, down>>

HandlerReturns ==
    /\ handler = "join" /\ waiter = "done"
    /\ handler' = "done"
    /\ UNCHANGED <<reader, waiter, process, cli, up, down>>

MainStep ==
    \/ Connect \/ ConnectTimeout \/ SendExecute
    \/ StartPorts \/ BlockSignals \/ StartSignals
    \/ ReadFrame \/ Detach

FenddStep ==
    \/ (\E tty \in BOOLEAN : Spawn(tty)) \/ SpawnFails
    \/ Reap \/ SendExit
    \/ DeliverSignal \/ HandlerStops \/ HandlerReturns

Next ==
    \/ MainStep \/ PortsThreadEnds \/ Interrupt \/ ForwardSignal
    \/ FenddStep
    \/ \E s \in Streams : StreamPipe(s) \/ StreamEnds(s) \/ CommandWrites(s)
    \/ \E n \in Codes, leaves \in BOOLEAN : CommandExits(n, leaves)
    \/ BrokenPipe \/ HelperExits

Spec == Init /\ [][Next]_vars

\* The threads of the CLI and of fendd go on, the ports thread apart: signal_loop
\* polls its signalfd.  The command and what it leaves behind need never write or
\* exit.
FairSpec ==
    /\ Spec
    /\ WF_vars(MainStep) /\ WF_vars(ForwardSignal) /\ WF_vars(FenddStep)
    /\ \A s \in Streams : WF_vars(StreamPipe(s)) /\ WF_vars(StreamEnds(s))

-----------------------------------------------------------------------------

\* The frames with chunks of stream s that are on their way to the CLI.
OutputFrames(s) == {i \in DOMAIN up : up[i].kind = "OutputData" /\ up[i].stream = s}

\* As long as the CLI is connected, what it printed of a stream, what is on its
\* way and what is still in the pipe is exactly what the command wrote, in the
\* order it wrote it (stream_pipe, send_output, run_attached): the first chunks
\* are printed, the next ones each in one frame and the frames in order, and the
\* others in the pipe.
NoOutputLost ==
    Connected => \A s \in Streams :
        LET shown == Len(printed[s])
            taken == wrote[s] - Len(pipe[s])     \* by stream_pipe
        IN /\ shown <= taken
           /\ printed[s] = [i \in 1 .. shown |-> i]
           /\ {up[i].value : i \in OutputFrames(s)} = (shown + 1) .. taken
           /\ \A i, j \in OutputFrames(s) : i < j => up[i].value < up[j].value
           /\ pipe[s] = [i \in 1 .. Len(pipe[s]) |-> taken + i]

\* When run_attached returns an exit code, it is that of the command, and all
\* output was printed before: the waiter joins the streams first.
ExitAfterOutput ==
    result # NoCode =>
        /\ result = code
        /\ \A s \in Streams : printed[s] = [i \in 1 .. wrote[s] |-> i]

\* A command that has exited and left nothing behind ends the session, however
\* it ended: the CLI returns, and the handler in the guest does too.
SessionEnds ==
    (child = "zombie" /\ ~helper)
        ~> (main \in {"done", "failed", "killed"} /\ handler = "done")

\* A SIGINT that did not end the CLI at once is not swallowed: the signal thread
\* forwards it to the guest, or it ends the CLI when the old mask is restored
\* (SignalForwarder, signal_loop).  A SIGINT does end the CLI at once as long as
\* the thread of PortForwarding runs: started before SIGINT is blocked, it takes
\* the signal with its default action, and nothing is forwarded.
InterruptTakesEffect ==
    pending ~> (main = "killed" \/ \E i \in DOMAIN down : down[i] = "ForwardSignal")

=============================================================================
