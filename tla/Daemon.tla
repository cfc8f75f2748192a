------------------------------- MODULE Daemon -------------------------------
(***************************************************************************)
(* Starting and stopping fend-daemon processes (run and run_listener in    *)
(* linux/src/daemon.rs) and the CLIs that look for one and start one       *)
(* (connect_or_spawn in linux/src/client.rs).  All processes share the pid *)
(* file, the socket path and the run directories of the state directory.   *)
(*                                                                         *)
(* The pool is abstracted to whether a daemon's VM processes are running   *)
(* (VmPool.tla has the details); a daemon that dies leaves them running,   *)
(* recorded in its run directories (Supervisor.tla).                       *)
(***************************************************************************)
EXTENDS Naturals

CONSTANTS
    Daemons,       \* daemon processes that are ever started
    Clients,       \* CLI processes
    NoDaemon,      \* no daemon
    DaemonEvents   \* "crash": daemons may be killed

ASSUME DaemonAssumption ==
    /\ NoDaemon \notin Daemons
    /\ DaemonEvents \subseteq {"crash"}

VARIABLES
    daemon_pid,   \* the daemon whose pid is in daemon.pid
    sock,         \* the daemon whose listener is bound at the socket path
    daemon_pc,    \* where each daemon is in run
    vms,          \* daemons whose VM processes are running
    client,       \* where each CLI is in ensure_vm
    raced         \* history: two daemons were between the check of the pid file
                  \* and its writing at once

daemon_vars == <<daemon_pid, sock, daemon_pc, vms, client, raced>>

Dead == {"off", "exited", "crashed"}
Starting == {"check", "sweep", "truncate_pidfile", "write_pidfile", "unlink",
             "bind"}
\* Between the check of the pid file and its writing.
Window == {"sweep", "truncate_pidfile", "write_pidfile"}
Exiting == {"stop_all", "remove_socket", "remove_pidfile"}

\* Mutant of process_alive: a daemon that shuts down is taken for a dead one.
process_alive_serving(d) == daemon_pc[d] \in Starting \union {"serving", "zombie"}

\* kill(pid, 0) succeeds, also for a "zombie": a daemon that died and that the
\* CLI it was started by has not outlived.
process_alive(d) == daemon_pc[d] \notin Dead

\* The daemon runs no code any more.
Gone(d) == daemon_pc[d] \in Dead \union {"zombie"}

\* connect() succeeds: the listener at the path is open.
Listening(d) == d # NoDaemon /\ daemon_pc[d] = "serving"

DaemonInit ==
    /\ daemon_pid = NoDaemon
    /\ sock = NoDaemon
    /\ daemon_pc = [d \in Daemons |-> "off"]
    /\ vms = {}
    /\ client = [c \in Clients |-> "connect"]
    /\ raced = FALSE

Move(d, label) == daemon_pc' = [daemon_pc EXCEPT ![d] = label]

-----------------------------------------------------------------------------
(* run: a pid file of a living daemon ends it, that of a dead one makes it *)
(* sweep the run directories before it writes its own.                     *)

\* Where the check leads d, and whether another daemon is past it and has not
\* written the file yet.
PastCheck(d, label) ==
    /\ Move(d, label)
    /\ raced' = \/ raced
                \/ /\ label \in Window
                   /\ \E e \in Daemons \ {d} : daemon_pc[e] \in Window
    /\ UNCHANGED <<daemon_pid, sock, vms, client>>

\* Mutant of CheckPidfile: a stale pid file is overwritten without a sweep.
CheckPidfileNoSweep(d) ==
    /\ daemon_pc[d] = "check"
    /\ PastCheck(d, IF daemon_pid # NoDaemon /\ process_alive(daemon_pid)
                    THEN "exited" ELSE "truncate_pidfile")

CheckPidfile(d) ==
    /\ daemon_pc[d] = "check"
    /\ PastCheck(d, IF daemon_pid = NoDaemon THEN "truncate_pidfile"
                    ELSE IF process_alive(daemon_pid) THEN "exited"
                    ELSE "sweep")

\* sweep_orphan_run_dirs: every VM recorded in the state directory is killed.
sweep_orphan_run_dirs(d) ==
    /\ daemon_pc[d] = "sweep"
    /\ vms' = {}
    /\ Move(d, "truncate_pidfile")
    /\ UNCHANGED <<daemon_pid, sock, client, raced>>

\* write_pidfile empties the file first; read_pid takes an empty one for none.
truncate_pidfile(d) ==
    /\ daemon_pc[d] = "truncate_pidfile"
    /\ daemon_pid' = NoDaemon
    /\ Move(d, "write_pidfile")
    /\ UNCHANGED <<sock, vms, client, raced>>

\* Mutant of write_pidfile: the file is created and stays empty.
write_pidfile_empty(d) ==
    /\ daemon_pc[d] = "write_pidfile"
    /\ Move(d, "unlink")
    /\ UNCHANGED <<daemon_pid, sock, vms, client, raced>>

write_pidfile(d) ==
    /\ daemon_pc[d] = "write_pidfile"
    /\ daemon_pid' = d
    /\ Move(d, "unlink")
    /\ UNCHANGED <<sock, vms, client, raced>>

\* Mutant of RemoveSocket: a left-over socket is kept.
RemoveSocketSkipped(d) ==
    /\ daemon_pc[d] = "unlink"
    /\ Move(d, "bind")
    /\ UNCHANGED <<daemon_pid, sock, vms, client, raced>>

\* run_listener removes whatever is at the socket path ...
RemoveSocket(d) ==
    /\ daemon_pc[d] = "unlink"
    /\ sock' = NoDaemon
    /\ Move(d, "bind")
    /\ UNCHANGED <<daemon_pid, vms, client, raced>>

\* ... and binds; a path that exists again is an error that ends the daemon.
Bind(d) ==
    /\ daemon_pc[d] = "bind"
    /\ sock' = IF sock = NoDaemon THEN d ELSE sock
    /\ Move(d, IF sock = NoDaemon THEN "serving" ELSE "stop_all")
    /\ UNCHANGED <<daemon_pid, vms, client, raced>>

\* The pool of a serving daemon boots its first VM or loses its last one.  The
\* connection threads are not joined, so that a boot may also end later.
PoolStep(d) ==
    /\ daemon_pc[d] \in Exiting \union {"serving"}
    /\ vms' = IF d \in vms THEN vms \ {d} ELSE vms \union {d}
    /\ UNCHANGED <<daemon_pid, sock, daemon_pc, client, raced>>

\* A Shutdown request or a signal: the listener is closed.
Shutdown(d) ==
    /\ daemon_pc[d] = "serving"
    /\ Move(d, "stop_all")
    /\ UNCHANGED <<daemon_pid, sock, vms, client, raced>>

\* pool.stop(None), then the socket and the pid file are removed, whoever
\* they belong to by now.
StopAll(d) ==
    /\ daemon_pc[d] = "stop_all"
    /\ vms' = vms \ {d}
    /\ Move(d, "remove_socket")
    /\ UNCHANGED <<daemon_pid, sock, client, raced>>

RemoveSocketOnExit(d) ==
    /\ daemon_pc[d] = "remove_socket"
    /\ sock' = NoDaemon
    /\ Move(d, "remove_pidfile")
    /\ UNCHANGED <<daemon_pid, vms, client, raced>>

RemovePidfile(d) ==
    /\ daemon_pc[d] = "remove_pidfile"
    /\ daemon_pid' = NoDaemon
    /\ Move(d, "exited")
    /\ UNCHANGED <<sock, vms, client, raced>>

DaemonDies(d) ==
    /\ "crash" \in DaemonEvents
    /\ ~Gone(d)
    /\ Move(d, "zombie")
    /\ UNCHANGED <<daemon_pid, sock, vms, client, raced>>

\* The CLI that started it exits, and init reaps the daemon.
Reaped(d) ==
    /\ daemon_pc[d] = "zombie"
    /\ Move(d, "crashed")
    /\ UNCHANGED <<daemon_pid, sock, vms, client, raced>>

-----------------------------------------------------------------------------
(* The CLI.                                                                *)

\* connect_or_spawn: connect, ...
Connect(c) ==
    /\ client[c] = "connect"
    /\ Listening(sock)
    /\ client' = [client EXCEPT ![c] = "connected"]
    /\ UNCHANGED <<daemon_pid, sock, daemon_pc, vms, raced>>

\* ... or start a daemon (auto_spawn) and poll for its socket.
AutoSpawn(c, d) ==
    /\ client[c] = "connect"
    /\ ~Listening(sock)
    /\ daemon_pc[d] = "off"
    /\ Move(d, "check")
    /\ client' = [client EXCEPT ![c] = "poll"]
    /\ UNCHANGED <<daemon_pid, sock, vms, raced>>

PollSucceeds(c) ==
    /\ client[c] = "poll"
    /\ Listening(sock)
    /\ client' = [client EXCEPT ![c] = "connected"]
    /\ UNCHANGED <<daemon_pid, sock, daemon_pc, vms, raced>>

\* DaemonStartTimeout, and any other error but an answer of the daemon, makes
\* try_run_via_daemon Recoverable: the command runs in a disposable VM.
Fallback(c) ==
    /\ client[c] = "poll"
    /\ client' = [client EXCEPT ![c] = "disposable"]
    /\ UNCHANGED <<daemon_pid, sock, daemon_pc, vms, raced>>

\* The command is over, or its daemon is gone; the user runs another one.
NextCommand(c) ==
    /\ client[c] \in {"connected", "disposable"}
    /\ client' = [client EXCEPT ![c] = "connect"]
    /\ UNCHANGED <<daemon_pid, sock, daemon_pc, vms, raced>>

StartStep(d) ==
    \/ CheckPidfile(d) \/ sweep_orphan_run_dirs(d)
    \/ truncate_pidfile(d) \/ write_pidfile(d)
    \/ RemoveSocket(d) \/ Bind(d)

ExitStep(d) == StopAll(d) \/ RemoveSocketOnExit(d) \/ RemovePidfile(d)

DaemonNext ==
    \/ \E d \in Daemons : \/ StartStep(d) \/ ExitStep(d)
                          \/ PoolStep(d) \/ Shutdown(d)
                          \/ DaemonDies(d) \/ Reaped(d)
    \/ \E c \in Clients : \/ Connect(c) \/ PollSucceeds(c)
                          \/ Fallback(c) \/ NextCommand(c)
                          \/ \E d \in Daemons : AutoSpawn(c, d)

DaemonSpec == DaemonInit /\ [][DaemonNext]_daemon_vars

\* A daemon that has started goes on until it serves; nothing else is fair.
DaemonFairSpec == DaemonSpec /\ \A d \in Daemons : WF_daemon_vars(StartStep(d))

-----------------------------------------------------------------------------

\* The files name daemons that were started, and run and ensure_vm are at one
\* of their steps.
DaemonTypeOK ==
    /\ {daemon_pid, sock} \subseteq Daemons \union {NoDaemon}
    /\ daemon_pc \in [Daemons -> Dead \union Starting \union Exiting \union
                                 {"serving", "zombie"}]
    /\ vms \subseteq Daemons
    /\ client \in [Clients -> {"connect", "poll", "connected", "disposable"}]
    /\ raced \in BOOLEAN

\* The serving daemon is the only one, and both the pid file and the socket path
\* are its own: CLIs reach it and a second daemon refuses to start ("fend-daemon
\* already running").  Any number of daemons may start at once, as CLIs start
\* them; only the window between the check of the pid file and its writing is
\* open: it no longer holds once two daemons have been in that window at once.
ServingIsUnique ==
    ~raced => \A d \in Daemons : daemon_pc[d] = "serving" =>
        /\ daemon_pid = d /\ sock = d
        /\ \A e \in Daemons \ {d} : daemon_pc[e] # "serving"

\* VMs of a daemon that died are only there while a stale pid file that makes
\* the next daemon sweep them is there too: none is lost for good, also when
\* daemons die while they start, sweep or shut down (daemon.rs:55).  It does
\* not hold of a daemon that exits: a boot that ends after StopAll is left
\* running, and the pid file is removed; nor after the race above.
CrashedVmsSwept ==
    ~raced => \A d \in vms : daemon_pc[d] \in {"zombie", "crashed"} =>
        daemon_pid # NoDaemon /\ Gone(daemon_pid)

\* A sweep only kills VMs of daemons that are gone, never those of one that
\* serves or is about to stop (linux-backend.md:59-60), up to the race above.
SweepSparesLiveVms ==
    ~raced => \A d, e \in Daemons :
        daemon_pc[d] = "sweep" /\ e \in vms => Gone(e)

\* What a crashed daemon leaves behind (its pid file, its socket, its VMs) does
\* not keep new daemons from serving: when one starts and no other lives, one
\* will serve, whatever others are started meanwhile.
StartSucceeds ==
    \A d \in Daemons :
        (daemon_pc[d] = "check" /\ \A e \in Daemons \ {d} : ~process_alive(e))
            ~> \E e \in Daemons : daemon_pc[e] \in {"serving", "zombie"}

=============================================================================
