----------------------------- MODULE Supervisor -----------------------------
(***************************************************************************)
(* The processes of one VM and their traces in its run directory           *)
(* (linux/src/supervisor.rs): launch_plan starts one virtiofsd per share   *)
(* and then QEMU, RunningVm::cleanup kills them, and stop_run_dir, run by  *)
(* another process (`fend stop`, or a later daemon's                       *)
(* sweep_orphan_run_dirs), kills what the pid files record.  The process   *)
(* that supervises the VM may die between any two steps; its children go   *)
(* on living.                                                              *)
(*                                                                         *)
(* Label i <= Shares stands for the virtiofsd of plan.shares[i], label     *)
(* Qemu for QEMU; each has a pid file, each share a socket.  The vectors   *)
(* `virtiofsd`, `sockets` and `pid_files` of launch_plan always hold the   *)
(* labels below the one being started.                                     *)
(***************************************************************************)
EXTENDS Naturals, Sequences

CONSTANTS
    Shares,       \* number of shares of the plan (3 in build_launch_plan)
    Launches,     \* bound of the model: launches in the run directory
    Events        \* what may happen: "crash", "stop"

ASSUME SupervisorAssumption ==
    /\ Shares \in Nat \ {0} /\ Launches \in Nat
    /\ Events \subseteq {"crash", "stop"}

Qemu == Shares + 1
Labels == 1 .. Qemu

VARIABLES
    proc,       \* the process of each label; "bound" once its socket is there
    pidfile,    \* the pid file of each label: none, empty or with its pid
    socket,     \* shares whose socket path exists
    pc,         \* where launch_plan / cleanup is
    cur,        \* the label launch_plan is starting
    todo,       \* what is left of the cleanup in progress
    up,         \* whether the supervising process lives
    launches,   \* launches so far
    stopper,    \* where stop_run_dir is, in the process that runs it
    queue,      \* pid files stop_run_dir has yet to handle
    stop_ran    \* whether `fend stop` has met this launch or VM

vars == <<proc, pidfile, socket, pc, cur, todo, up, launches, stopper, queue,
          stop_ran>>
run_dir == <<proc, pidfile, socket>>
stop_vars == <<stopper, queue, stop_ran>>

-----------------------------------------------------------------------------
(* Cleanup, as a list of the calls the code makes, in its order.           *)

Each(op, n) == [i \in 1 .. n |-> <<op, i>>]

cleanup_child(l) == << <<"kill", l>> >>
cleanup_children(n) == Each("kill", n)
cleanup_pid_files(n) == Each("remove_pid_file", n)
cleanup_sockets(n) == Each("remove_socket", n)

\* Mutant of cleanup: the records are removed first.
cleanup_records_first ==
    cleanup_pid_files(Qemu) \o cleanup_child(Qemu)
        \o cleanup_children(Shares) \o cleanup_sockets(Shares)

\* RunningVm::cleanup: the processes first, their records after them.
cleanup ==
    cleanup_child(Qemu) \o cleanup_children(Shares)
        \o cleanup_pid_files(Qemu) \o cleanup_sockets(Shares)

\* Mutant of undo: the records stay.
undo_keeps_records(l) == cleanup_children(l - 1) \o cleanup_sockets(l - 1)

\* The error paths of launch_plan once the labels below l are running.
undo(l) ==
    cleanup_pid_files(l - 1) \o cleanup_children(l - 1)
        \o cleanup_sockets(l - 1)

-----------------------------------------------------------------------------

Init ==
    /\ proc = [l \in Labels |-> "none"]
    /\ pidfile = [l \in Labels |-> "none"]
    /\ socket = {}
    /\ pc = "prepare" /\ cur = 1 /\ todo = <<>>
    /\ up = TRUE
    /\ launches = 1
    /\ stopper = "idle" /\ queue = {} /\ stop_ran = FALSE

Goto(label) == pc' = label /\ UNCHANGED <<cur, todo, up, launches>>

\* launch_plan returns Err after the calls in ops.
Fail(ops) ==
    /\ pc' = IF ops = <<>> THEN "failed" ELSE "undo"
    /\ todo' = ops
    /\ UNCHANGED <<cur, up, launches>>

\* prepare_plan_paths: directories are made, the workspace must exist.
Prepare ==
    /\ up /\ pc = "prepare"
    /\ Goto("exists") \/ Goto("failed")
    /\ UNCHANGED <<run_dir, stop_vars>>

\* `if share.socket.exists()`: the sockets started before are left behind.
SocketExists ==
    /\ up /\ pc = "exists"
    /\ IF cur \in socket
       THEN Fail(cleanup_pid_files(cur - 1) \o cleanup_children(cur - 1))
       ELSE Goto("spawn")
    /\ UNCHANGED <<run_dir, stop_vars>>

Spawn ==
    /\ up /\ pc = "spawn"
    /\ proc' = [proc EXCEPT ![cur] = "alive"]
    /\ Goto(IF cur = Qemu THEN "create_pid_file" ELSE "wait_for_socket")
    /\ UNCHANGED <<pidfile, socket, stop_vars>>

\* Spawning QEMU fails: everything is undone.  Spawning a virtiofsd fails: the
\* `?` returns at once and undoes nothing.
SpawnFails ==
    /\ up /\ pc = "spawn"
    /\ IF cur = Qemu THEN Fail(undo(Qemu)) ELSE Goto("abandoned")
    /\ UNCHANGED <<run_dir, stop_vars>>

\* wait_for_socket sees the socket ...
SocketReady ==
    /\ up /\ pc = "wait_for_socket"
    /\ cur \in socket
    /\ Goto("create_pid_file")
    /\ UNCHANGED <<run_dir, stop_vars>>

\* Mutant of SocketNotReady: wait_for_socket has no timeout.
SocketNotReadyNoTimeout ==
    /\ up /\ pc = "wait_for_socket"
    /\ cur \notin socket /\ proc[cur] = "dead"
    /\ Fail(cleanup_child(cur) \o undo(cur))
    /\ UNCHANGED <<run_dir, stop_vars>>

\* ... or the exit of the child, or its timeout.
SocketNotReady ==
    /\ up /\ pc = "wait_for_socket"
    /\ cur \notin socket
    /\ Fail(cleanup_child(cur) \o undo(cur))
    /\ UNCHANGED <<run_dir, stop_vars>>

\* write_pid_file creates the file and then writes the pid.
CreatePidFile ==
    /\ up /\ pc = "create_pid_file"
    /\ pidfile' = [pidfile EXCEPT ![cur] = "empty"]
    /\ Goto("write_pid_file")
    /\ UNCHANGED <<proc, socket, stop_vars>>

\* The write ends the start of this label; a file that was unlinked meanwhile
\* stays gone.
WritePidFile ==
    /\ up /\ pc = "write_pid_file"
    /\ pidfile' = [pidfile EXCEPT ![cur] = IF @ = "empty" THEN "pid" ELSE @]
    /\ pc' = CASE cur = Qemu -> "running"
               [] cur = Shares -> "spawn"
               [] OTHER -> "exists"
    /\ cur' = IF cur = Qemu THEN cur ELSE cur + 1
    /\ UNCHANGED <<proc, socket, todo, up, launches, stop_vars>>

WritePidFileFails ==
    /\ up /\ pc \in {"create_pid_file", "write_pid_file"}
    /\ Fail(cleanup_child(cur) \o undo(cur))
    /\ UNCHANGED <<run_dir, stop_vars>>

\* The RunningVm is dropped: the pool lets go of it, or wait_for_qemu returned.
Drop ==
    /\ up /\ pc = "running"
    /\ pc' = "cleanup"
    /\ todo' = cleanup
    /\ UNCHANGED <<cur, up, launches, run_dir, stop_vars>>

CleanupStep ==
    /\ up /\ pc \in {"undo", "cleanup"}
    /\ todo # <<>>
    /\ LET op == Head(todo)[1]
           l == Head(todo)[2]
       IN /\ proc' = IF op = "kill" THEN [proc EXCEPT ![l] = "dead"] ELSE proc
          /\ pidfile' = IF op = "remove_pid_file"
                        THEN [pidfile EXCEPT ![l] = "none"] ELSE pidfile
          /\ socket' = IF op = "remove_socket" THEN socket \ {l} ELSE socket
    /\ todo' = Tail(todo)
    /\ UNCHANGED <<pc, cur, up, launches, stop_vars>>

CleanupEnds ==
    /\ up /\ pc \in {"undo", "cleanup"}
    /\ todo = <<>>
    /\ Goto(IF pc = "undo" THEN "failed" ELSE "stopped")
    /\ UNCHANGED <<run_dir, stop_vars>>

-----------------------------------------------------------------------------
(* The children, and the death of the supervising process.                 *)

\* A virtiofsd binds its socket some time after it was started.
BindSocket(l) ==
    /\ proc[l] = "alive" /\ l \notin socket
    /\ socket' = socket \union {l}
    /\ proc' = [proc EXCEPT ![l] = "bound"]
    /\ UNCHANGED <<pidfile, pc, cur, todo, up, launches, stop_vars>>

ChildExits(l) ==
    /\ proc[l] \in {"alive", "bound"}
    /\ proc' = [proc EXCEPT ![l] = "dead"]
    /\ UNCHANGED <<pidfile, socket, pc, cur, todo, up, launches, stop_vars>>

Crash ==
    /\ "crash" \in Events
    /\ up /\ pc \notin {"failed", "stopped"}
    /\ up' = FALSE
    /\ UNCHANGED <<run_dir, pc, cur, todo, launches, stop_vars>>

-----------------------------------------------------------------------------
(* stop_run_dir.                                                           *)

\* pid_files_in_run_dir: a snapshot of the directory ...
pid_files_in_run_dir == {l \in Labels : pidfile[l] # "none"}

\* ... which is gone through with qemu.pid first and then by name.  The order of
\* the names is not that of the labels: any order of the shares is considered.
IsNext(l) == l \in queue /\ (Qemu \in queue => l = Qemu)

\* `fend stop` runs while the supervisor may be doing anything; a new daemon
\* sweeps the directory of a supervisor that died.
StopBegins ==
    /\ stopper \in {"idle", "stopped"}
    /\ ~up \/ "stop" \in Events
    /\ stopper' = IF up THEN "stop" ELSE "sweep"
    /\ queue' = pid_files_in_run_dir
    /\ stop_ran' = (stop_ran \/ up)
    /\ UNCHANGED <<run_dir, pc, cur, todo, up, launches>>

\* Mutant of StopPid: fend stop reads the files and terminates nothing.
StopPidOnlyInSweep(l) ==
    /\ stopper \in {"stop", "sweep"}
    /\ IsNext(l)
    /\ queue' = queue \ {l}
    /\ IF stopper = "stop" THEN UNCHANGED run_dir
       ELSE /\ proc' = [proc EXCEPT ![l] = "dead"]
            /\ pidfile' = [pidfile EXCEPT ![l] = "none"]
            /\ UNCHANGED socket
    /\ UNCHANGED <<stopper, stop_ran, pc, cur, todo, up, launches>>

\* read_pid_file, terminate_pid and the removal of the file.  A file that is
\* gone by now is an error that ends stop_run_dir.  (Not in a sweep: the only
\* other process that removes files is dead.)
StopPid(l) ==
    /\ stopper \in {"stop", "sweep"}
    /\ IsNext(l)
    /\ IF pidfile[l] = "none"
       THEN /\ stopper' = "stopped"
            /\ queue' = {}
            /\ UNCHANGED run_dir
       ELSE /\ proc' = IF pidfile[l] = "pid" THEN [proc EXCEPT ![l] = "dead"]
                       ELSE proc
            /\ pidfile' = [pidfile EXCEPT ![l] = "none"]
            /\ queue' = queue \ {l}
            /\ UNCHANGED <<socket, stopper>>
    /\ UNCHANGED <<stop_ran, pc, cur, todo, up, launches>>

\* Mutant of StopEnds: the sockets stay.
StopEndsKeepsSockets ==
    /\ stopper \in {"stop", "sweep"}
    /\ queue = {}
    /\ pidfile' = IF stopper = "sweep" THEN [l \in Labels |-> "none"] ELSE pidfile
    /\ stopper' = IF stopper = "sweep" THEN "swept" ELSE "stopped"
    /\ UNCHANGED <<proc, socket, pc, cur, todo, up, launches, queue, stop_ran>>

\* cleanup_run_dir_sockets; the sweep then removes the whole directory.
StopEnds ==
    /\ stopper \in {"stop", "sweep"}
    /\ queue = {}
    /\ socket' = {}
    /\ pidfile' = IF stopper = "sweep" THEN [l \in Labels |-> "none"] ELSE pidfile
    /\ stopper' = IF stopper = "sweep" THEN "swept" ELSE "stopped"
    /\ UNCHANGED <<proc, pc, cur, todo, up, launches, queue, stop_ran>>

\* The run directory is used again: its name is the project and the cid, and
\* cids start over in every daemon.  (Only followed when nothing still runs in
\* it: nothing could reach such a process any more.)
Relaunch ==
    /\ launches < Launches
    /\ IF up THEN /\ pc \in {"failed", "stopped"}
                  /\ stopper \in {"idle", "stopped"}
       ELSE stopper = "swept"
    /\ \A l \in Labels : proc[l] \notin {"alive", "bound"}
    /\ proc' = [l \in Labels |-> "none"]
    /\ pc' = "prepare" /\ cur' = 1 /\ todo' = <<>> /\ up' = TRUE
    /\ launches' = launches + 1
    /\ stopper' = "idle" /\ queue' = {} /\ stop_ran' = FALSE
    /\ UNCHANGED <<pidfile, socket>>

SupervisorStep ==
    \/ Prepare \/ SocketExists \/ Spawn \/ SpawnFails
    \/ SocketReady \/ SocketNotReady
    \/ CreatePidFile \/ WritePidFile \/ WritePidFileFails
    \/ CleanupStep \/ CleanupEnds

StopStep == (\E l \in Labels : StopPid(l)) \/ StopEnds

Next ==
    \/ SupervisorStep \/ Drop
    \/ StopBegins \/ StopStep
    \/ \E l \in Labels : ChildExits(l)
    \/ \E l \in 1 .. Shares : BindSocket(l)
    \/ Crash \/ Relaunch

Spec == Init /\ [][Next]_vars

\* A live supervisor and a started stop_run_dir go on; wait_for_socket ends by
\* its timeout.  Nobody need drop the VM, and no process need exit.
FairSpec == Spec /\ WF_vars(SupervisorStep) /\ WF_vars(StopStep)

-----------------------------------------------------------------------------

\* The VM has been launched and not yet cleaned up completely.
Launched == pc \in {"running", "cleanup"}

Alive == {l \in Labels : proc[l] \in {"alive", "bound"}}

\* Every living process is recorded in its pid file, so that another process can
\* find it when the supervisor dies, with two exceptions: the one launch_plan is
\* just starting, and, while a failed launch is undone, those the supervisor has
\* still to kill (the error paths of launch_plan unlink the pid files first, so
\* that dying there loses processes; RunningVm::cleanup kills first).  Not after a
\* `fend stop`: it may unlink a pid file that is still empty, and the pid is then
\* written into a file without a name.
LivingAreRecorded ==
    ~stop_ran => \A l \in Alive :
        \/ pidfile[l] = "pid"
        \/ l = cur /\ ~Launched
        \/ pc = "undo" /\ \E i \in DOMAIN todo : todo[i] = <<"kill", l>>

\* Sweeping the run directory of a supervisor that died with a launched VM
\* leaves no process and no file behind (daemon.rs:55, sweep_orphan_run_dirs).
SweepLeavesNothing ==
    stopper = "swept" /\ Launched /\ ~stop_ran =>
        Alive = {} /\ socket = {} /\ \A l \in Labels : pidfile[l] = "none"

\* A failed launch and a dropped VM leave no process running and no record of
\* one (the error paths of launch_plan, RunningVm::cleanup).  A launch that is
\* abandoned at the spawn of a virtiofsd is the exception: it undoes nothing.
NothingLeftRunning ==
    up /\ pc \in {"failed", "stopped"} =>
        Alive = {} /\ \A l \in Labels : pidfile[l] # "pid"

\* launch_plan returns: wait_for_socket does not wait for ever.
LaunchEnds ==
    (up /\ pc \notin {"running", "abandoned", "cleanup", "stopped"})
        ~> (~up \/ pc \in {"running", "failed", "abandoned"})

\* `fend stop` that found the pid files of a launched VM kills all of it, also
\* when the supervisor dies or cleans up (and removes the files) meanwhile.
StopKills ==
    (stopper = "stop" /\ pc = "running" /\ queue = Labels) ~> (Alive = {})

=============================================================================
