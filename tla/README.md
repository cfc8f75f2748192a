# fend: TLA+ models and proofs

fend runs development commands inside one micro-VM per project. This directory
holds TLA+ models of fend on Linux, host and guest, the TLC runs that check them
on small instances, and TLAPS proofs of their main invariants for instances of
any size. `PROJECT.json` is the index: components, runs, the lines each
definition models, hazards, findings and theorems.

Paths below are relative to the repository (`src/`).

- [1. The system](#1-the-system)
- [2. The modules](#2-the-modules)
- [3. The runs](#3-the-runs)
- [4. The proofs](#4-the-proofs)
- [5. Where code and documentation disagree](#5-where-code-and-documentation-disagree)
- [6. Known gaps](#6-known-gaps)
- [7. Not modelled](#7-not-modelled)

## 1. The system

On Linux the `fend` CLI asks `fend-daemon` for a VM over a Unix socket and then
talks to the guest agent `fendd` over vsock. The daemon's pool boots and reaps
VMs; a supervisor starts and kills the processes of one VM (a virtiofsd per
share, and QEMU). Without a daemon the CLI runs a disposable VM by itself. macOS
has its own daemon, VM manager and CLI, written in Swift, and the same guest.

```
 words, environment
    |  Cli, Doctor: configuration, checks      Bootstrap: kernel, initrd, rootfs
    v                                          Runtime: Node.js, Bun
 fend CLI --Unix socket--> fend-daemon: connection threads, reaper thread
    |  (Launch)                |  VmPool (one mutex)
    |                          |  Supervisor: virtiofsd x3 + QEMU, run directory
    |                          v
    +------- vsock -------> guest: fendd
       1024 commands, 1025 port events, 1026 port relay, 1027 network events
```

### Inventory

| Part | Source | State | What makes it hard | Module |
|---|---|---|---|---|
| VM pool | `linux/src/pool.rs` | map project -> entry, cid counter | the mutex is not held during a boot; entries leave the map before their processes die | `VmPool`, `LeasedVms` |
| Daemon, client start-up | `linux/src/daemon.rs`, `client.rs` | `daemon.pid`, socket, threads | several daemons on one state directory; death at any step | `Daemon` |
| Supervisor | `linux/src/supervisor.rs` | children, pid files, sockets | partial launches; death of the supervisor; a stop by another process | `Supervisor` |
| Attached session | `linux/src/session.rs`, `fendd/src/connection.rs`, `process.rs` | stream, threads, signal masks, child, pipes | output against exit status; which thread takes a signal | `Session` |
| Port events, relay | `fendd/src/port_monitor.rs`, `port_forward.rs`, `linux/src/session.rs` | known ports, subscribers, listeners, relay threads | subscribe against scan; dead subscribers; who closes a socket | `PortEvents`, `Relay` |
| Frames, smoke test | `fendd/src/protocol.rs`, `linux/src/smoke.rs` | bytes of a stream, deadline | timeouts between bytes; limits | `Frames`, `Smoke` |
| Runtimes | `linux/src/runtime.rs` | tools directory | ranges of versions; installs at once, or interrupted | `SemVer`, `Runtime` |
| Bootstrap | `linux/src/bootstrap.rs` | work directory, runtime directory | what an interrupted bootstrap leaves; releases that change | `Bootstrap` |
| Command line | `linux/src/cli.rs` | none | whose option a word is; which source wins | `Cli` |
| Host checks, launch plan | `linux/src/doctor.rs`, `tools.rs`, `qemu.rs` | none | the same question asked in several places | `Doctor` |
| Flow of an invocation | `linux/src/app.rs` | its progress | fallback after a failure | `Launch` |
| Daemon protocol, network monitor, guest init, macOS, scripts | see section 7 | | | none |

### Interactions

- The CLI's socket to the daemon **is** its session: `handle_connection` counts
  the session in `ensure` and counts it down when the socket closes. VmPool has
  both ends.
- `VmPool::boot` calls the supervisor; dropping a pool entry's process runs
  `RunningVm::cleanup`. VmPool takes a launch and a kill as one step each,
  Supervisor opens them up.
- What a daemon leaves when it dies is found by the next one through
  `daemon.pid` and the pid files of the run directories. Daemon has the first,
  Supervisor the second.
- Sessions of one project share a guest: one port monitor, many subscribers
  (PortEvents); each session has its own connection handler (Session) and each
  forwarded connection its own pair of relays (Relay).
- An invocation goes through all of it. Launch composes Cli and Doctor in full
  and takes the other parts as steps that succeed or fail.
- Session takes a frame as one step; Smoke takes it byte by byte and justifies
  that: readers stay in step with the frames (but see section 6).

### What should hold

1. A running QEMU always has exactly one owner, and a cid of its own.
2. A VM somebody holds is not taken away; a VM nobody holds goes away.
3. What a dead process leaves behind can be found and is removed.
4. One daemon serves, and leftovers of others do not stop the next one.
5. A command's output arrives complete, in order and before its exit code.
6. Forwarded ports follow the guest's ports, in every session.
7. What is installed or bootstrapped is complete and what was asked for, whoever
   died before.
8. The words, the policy and the network of an invocation arrive unchanged; the
   command is executed at most once, and a success is the command's.

## 2. The modules

| Module | Models | Used by |
|---|---|---|
| `VmPool` | pool, connection threads, reaper, clients | `MCVmPool`, `VmPoolProofs` |
| `LeasedVms` | what the pool promises, abstractly | `VmPool` (refinement mapping `Leases`) |
| `Supervisor` | one run directory and its processes | run directly, `HostProofs` |
| `Daemon` | several daemons and CLIs on one state directory | `MCDaemon`, `HostProofs` |
| `PortEvents` | port monitor and port forwarding | `MCPortEvents`, `PortEventsProofs` |
| `Relay` | one forwarded connection | run directly |
| `Session` | one attached command, both ends | run directly, `SessionProofs` |
| `Frames` | bytes of frames and messages, base64 | `Smoke`, `FramesProofs` |
| `Smoke` | the three readers of frames, against the clock | `MCSmoke`, `SmokeProofs` |
| `SemVer` | versions and requirements | `Runtime` |
| `Runtime` | processes that pick and install runtimes | `MCRuntime`, `RuntimeProofs` |
| `Bootstrap` | bootstraps one after the other | `MCBootstrap`, `HostProofs` |
| `Cli` | command line and configuration | `Doctor` |
| `Doctor` | host checks, virtiofsd, launch plan | `Launch` |
| `Launch` | one invocation from words to exit code | `MCLaunch`, `LaunchProofs` |

Definitions keep the names of the functions they model where they can. An
operator whose comment starts with "Mutant of" is a plausible bug of the
definition after it; putting it in the place of that definition must make TLC
find a violation. Mutants are in no specification.

### VmPool

State: `vms` is `PoolState.vms` (a record in state `"Absent"` stands for a missing
key), `next_cid` the `AtomicU32`, `alive` the cids whose processes run, `pc`,
`session` and `open` the connection threads and their clients, `dropping` and
`reaping` the `VmProcess`es a thread took out of the map and is about to drop.
`last_used` is abstracted to whether the idle TTL has passed (`age`).

Every critical section of the pool's mutex is one action: `EnsureReuse`,
`EnsureConflict`, `EnsureExhausted` and `EnsureInsert` (the branches of
`ensure`), `BootCommit`, `BootUnclaimed` and `BootAbort` (after the boot),
`Release`, `Stop`, `Reap`. Outside the mutex are `BootOk`/`BootFail`,
`DropProcess`/`ReaperDrop` (`RunningVm::drop`), and the writes to the client
(`WriteReady`, `WriteReadyFails`, `WriteReply`). `BootCommit` kills a process it
overwrites, since the assignment to `entry.process` drops it inside the mutex.
The branch of `ensure` for a `Stopping` entry has no counterpart: `stop` and
`reap` remove an entry before they change its state, so no entry in the map is
ever `Stopping`.

The constant `Events` selects what the environment does: stop requests, failed
boots, clients that hang up before the answer, guests that exit.

### LeasedVms

Two variables: which projects have a VM, and who leases it. `Acquire` starts a VM
if need be, `Release` leaves it running, `Reclaim` takes only VMs nobody leases,
and an unleased VM is reclaimed in the end. `VmPool!ImplementsLeases` maps `on` to
the projects with an entry and `leases` to the threads in a session.

### Supervisor

State: the process, pid file and socket of every label (`1..Shares` for the
virtiofsds, `Shares + 1` for QEMU), the position of `launch_plan` and what is
left of a cleanup, whether the supervising process lives, and a `stop_run_dir`
run by another process. Actions follow `launch_plan` line by line: `Prepare`,
`SocketExists`, `Spawn`, `SocketReady`/`SocketNotReady`, `CreatePidFile` and
`WritePidFile` (creating and writing the file are two steps), the failures of
each, `Drop`, and the calls of a cleanup one at a time in the order of the code
(`cleanup`, `undo`). `StopBegins`, `StopPid`, `StopEnds` are `stop_run_dir`, by a
`fend stop` next to a live supervisor or by a sweep after its death; the pid files
it has yet to handle are a set, QEMU's first and the others in any order, which
includes that of their names. `Relaunch`
uses the directory again: its name is project and cid, and cids start over in
every daemon.

### Daemon

State: the pid file, the daemon bound at the socket path, the position of every
daemon in `run`, the daemons whose VMs run, and the CLIs. The pid file is
emptied and written in two steps, as `fs::write` does, and `read_pid` takes an
empty one for none. A dead daemon stays a zombie, for which `kill(pid, 0)`
succeeds, until the CLI that started it exits. `PoolStep` stands for the whole
pool; connection threads are not joined, so it may also happen while the daemon
exits. On exit the socket and the pid file are removed whoever they belong to.
Daemons start at any time, also while others start. `raced` is a history variable:
two of them have been between the check of the pid file and its writing at once.

### PortEvents and Relay

PortEvents has the ports the guest's programs listen on, a scan not yet reported,
the monitor's `known_ports` and subscriber vector, the event stream of each
session (bounded, a write to a full one blocks), and each session's host
listeners. `Scan` is outside the lock, `Notify` and `Accept` are the two sections
under it. Removal of dead subscribers is by index from the highest down with
`Vec::swap_remove` (`RemoveDead`, a recursive function of how many are left to
remove); the order in which a `HashSet` yields ports is any order (`Orders`). A
write to a session that has ended may fail or still succeed.

Relay follows the bytes of one connection: client, host relay, vsock, guest
relay, server, with two threads per relay. Each thread has duplicates of both
sockets, so that a socket is closed only when both threads have ended.

### Session

State: the CLI's main thread, its threads and which of them block SIGINT, what
it printed, the two directions of the stream, and in the guest the handler
thread, a `stream_pipe` thread per stream, the waiter, the command and its pipes.
Output is numbered, so loss, duplication and reordering are visible. A command
may leave a process behind that keeps its output streams open. A new thread
inherits the signal mask of its creator; a SIGINT goes to some thread that does
not block it and ends the CLI, else it stays pending for the signalfd. The thread
of `PortForwarding` is started before SIGINT is blocked and does not block it.

### Frames and Smoke

Frames has the codec on bytes: `write_frame` and `guest_read_frame` of `fendd`,
the host's reading by length (`PayloadLen`, `TooLarge`, `Complete`), base64 in
both directions, and the messages the guest sends. base64 is per group of three
bytes (`Quad`) and of four characters (`Triple`). The JSON object of a message is
the sequence of its fields; its syntax is left out.

Smoke runs one of three readers against one guest: `run_smoke` (retries,
deadline, output limit), `run_attached` until the command is sent, and
`port_forward_loop`, which polls. A byte arrives early, late or never
(`ReadByte`), every `recv` has a timeout (`TimesOut`), and the guest may die
(`GuestCloses`). A socket timeout is the remaining time rounded as
`duration_to_timeval` does, with 0 meaning none. Scripts are what `fendd` can
send: messages of the command carry its id, and its exit comes last.

### SemVer and Runtime

SemVer is `SemVer`, `PartialSemVer` and `version_satisfies`: a requirement is a
set of clauses (`||`), a clause a sequence of words, a word an operator and a
partial version; an operator by itself is joined with the next word, also where
the two make a longer operator (`comparator_tokens`, `Together`). `Admits` is
npm's reading of one comparator, written independently, against which
`comparator_accepts` is checked.

Runtime has several `fend` processes on one tools directory. Each goes through
`prepare_guest_command`: it lists what is installed (`installed_runtimes`),
resolves a version from pins, version files, `package.json`, the host or a
release list (`Resolve`, `resolve_latest_version`), installs it if need be
(`create_temp_dir`, `Download`, `BeginExtract`, `Extract`,
`finalize_runtime_install`, `Rename`, `RemoveTempDir`), where the temporary
directory is partial until the archive is unpacked, and rewrites the command (`Rewrite`). Any step may fail and any
process may die.

### Bootstrap

State: SHA256SUMS, kernel, initrd, root file system and claude, each by its
release and by whether it is whole (the release of a root file system is that of
its kernel modules, `NoModules` if it has none); the `.tmp` files; the position of
the running bootstrap and its options; the release under Ubuntu's URLs. One action per step
of `ensure_linux_runtime`; each may fail, and the process may die, at most
`MaxFaults` times. `left` is a history variable: what earlier bootstraps left
that later ones cannot tell from finished work. The properties name these cases.

### Cli, Doctor and Launch

Cli turns a sequence of words into what `parse_args` returns, word by word
(`ParseWord`, `TakeValue`, and `parse` as a recursive function over them), and builds the configuration from options,
environment variables and defaults. Which words start with a dash, what number a
word is and what an `--env` item splits into are constants.

Doctor has a host as a record: its files, `PATH`, devices and sub-ids. It
resolves virtiofsd, probes, and evaluates the probe once for `fend doctor` and
once for a launch.

Launch is `run` of `app.rs`: parse, bootstrap, prepare, probe, ask the daemon or
boot a VM, send the command, exit. Parts with modules of their own succeed or fail
as a whole; a failure after the command was sent ends the invocation, one before
may fall back to a VM of its own. A VM the daemon boots is planned in the daemon's
environment (`PoolPlan`, `DaemonEnvs`), which need not be the one the preflight
looked at; of a warm VM only its network is known (`WarmPlan`).

## 3. The runs

`MC*.tla` modules give the constants as sets of model values or definitions.
Symmetry is used only where no liveness property is checked.

| Run | Instance | Checks | Distinct states |
|---|---|---|---|
| `pool_race` | 1 project, 3 threads, 2 networks, all events | `LiveVmsOwned`, `CidsDistinct` | 534,656 (symmetric) |
| `pool_leases` | 2 projects, 2 threads, guests that exit | `SessionsCounted`, `NoDoubleBoot`, `ImplementsLeases`, `RemovedVmKilled` | 38,108 |
| `supervisor` | 3 shares, 2 launches, crashes, `fend stop` | `LivingAreRecorded`, `SweepLeavesNothing`, `NothingLeftRunning`, `LaunchEnds`, `StopKills` | 112,744 |
| `daemon_serve` | 3 daemons, 2 CLIs, crashes | `ServingIsUnique`, `CrashedVmsSwept`, `SweepSparesLiveVms`, `StartSucceeds` | 218,423 |
| `ports` | 2 ports (1 taken on the host), 2 sessions, stream of 3 | `SubscribersInSync`, `OpenPortForwarded`, `ClosedPortReleased` | 37,344 |
| `session` | 2 chunks per stream, pipe of 1, 2 SIGINTs, codes 0 and 1 | `NoOutputLost`, `ExitAfterOutput`, `SessionEnds`, `InterruptTakesEffect` | 26,499 |
| `runtime` | 2 processes, 5 versions, 10 requirements in every place they can stand | `RuntimesAppearComplete`, `ReadyIsInstalled`, `RequirementMet` | 256,500 |
| `bootstrap` | all options, 2 releases, 3 faults, any number of bootstraps | `OkIsVerified`, `OkIsConsistent`, `RetrySucceeds` | 1,049,559 |
| `launch` | some 17,000 command lines, 7 environments, 10 hosts, 2 daemons | `CommandIsVerbatim`, `PolicyReachesGuest`, `ExplicitNetworkKept`, `LaunchedIsEquipped`, `SentAtMostOnce`, `SuccessIsEarned`, `DoctorPredictsLaunch` | 1,344,724 |
| `smoke` | 3 readers, 24 scripts of a guest, deadline of 5 ticks | `FramesInStep`, `OutputIsTheCommands`, `LimitIsExact`, `AtMostOneLateFrame`, `HostDoesNotHang` | 175,607 |
| `pool_held_reaped` | 1 project, 2 threads, stop requests | `HeldVmNotStale` violated (section 5) | |
| `relay_close` | 1 byte each way, pipes of 1 | `RelayEnds` violated (section 5) | |

### What the runs show

- **pool_race.** Whatever the interleaving of ensures, stops, reaps, failed and
  late boots, every running QEMU is owned by exactly one of: the thread booting
  it, a map entry, a thread dropping it. So no VM is lost by the pool and none is
  killed twice, and no two VMs share a cid.
- **pool_leases.** Guests crash, and there are no stops, no failed boots and no
  clients that leave before they are answered. Then the pool implements
  `LeasedVms`, with its liveness, an entry counts exactly the connections that hold
  it, no project boots twice, and what the reaper takes out of the map is killed.
  With any of the three events the code miscounts (sections 5 and 6).
- **supervisor.** The supervising process may die between any two steps. All that
  still runs then is in the pid files, but for the process that was being started
  and, where a failed launch was being undone, the processes not yet killed: the
  error paths of `launch_plan` remove the records first. Of a VM whose launch had
  ended, a sweep leaves nothing, a `fend stop` before it excepted. Where the
  supervisor lives, failed launches and dropped VMs leave no process running, also
  with a concurrent `fend stop` and in a reused directory. A launch always returns,
  and a stop that saw all pid files ends the whole VM.
- **daemon_serve.** Daemons start whenever they like. Until two of them have been
  between the check of the pid file and its writing at once (`raced`), the serving
  one is unique and owns pid file and socket; VMs of a daemon that died are there
  only together with the stale pid file that makes the next one sweep; and a sweep
  spares VMs of the living. After such a race these do not hold (section 5).
  Leftovers never stop the next daemon.
- **ports.** No subscriber misses a port or keeps a closed one, whatever scans,
  subscriptions and failed writes come in between; open ports are forwarded or
  reported, closed ones given back.
- **session.** Output is neither lost nor reordered, all of it precedes the exit
  code, both ends finish once the command and what it left behind are gone, and
  no SIGINT is swallowed: the guest gets it or the CLI ends. Which of the two is
  not up to the user while the port forwarding thread runs (section 5).
- **runtime.** A runtime directory appears complete and never changes again,
  although nothing locks the tools directory and archives may fail to unpack. A rewritten command runs a program
  and a script that are there, in a version that satisfies the project's
  requirement, also in npm's reading of it but for the comparators of section 6.
- **bootstrap.** A bootstrap that reports success has a kernel and an initrd that
  matched the checksums and are of one release, and a whole root file system with
  the kernel modules of that release or with none, never with those of another,
  all but for what `left` names. That there are modules is not shown: the code goes
  on without them. Faults do not block later bootstraps as long as SHA256SUMS is
  current.
- **launch.** The command's words reach the guest as typed (or as Runtime rewrote
  them), `--network off` cannot be undone by `--env`, and the VM in use, booted for
  the invocation or warm, has the network that was asked for. What the CLI boots
  itself has all it needs on the host; of what the daemon boots this is shown for
  the artifacts, KVM and vsock only, since the daemon looks for virtiofsd, QEMU and
  passt in its own environment. `fend doctor` and the preflight agree, the command
  is sent once, and exit code 0 is the guest's.
- **smoke.** Readers take the frames the guest wrote, or give up; output is the
  command's byte for byte; the limit is exact; at most one frame is taken after
  the deadline; and nobody waits for ever on a silent guest.

### Bounds

- *VmPool.* Three threads on one project are a booting thread, one that stops or
  fails, and one that boots again: the most actors any of the races of `ensure`
  involves. Two projects are used where entries must not disturb each other.
  `CID_MAX` is 4, so that cids run out; `CidBound` ends a behaviour's allocations
  just past that, before the counter wraps. `SessionBound` caps leaked sessions.
- *Supervisor.* Three shares is what `build_launch_plan` makes. `Launches = 2`
  lets a directory be reused.
- *Daemon.* Three daemons: one that serves, one that starts meanwhile or replaces
  it, and one that meets what both left.
- *PortEvents.* A free and a taken port; a stream that holds less than two full
  reports, so that the monitor blocks.
- *Session.* Two chunks can be swapped; a pipe of one fills at once; a second
  SIGINT can meet a CLI that is already detaching.
- *Runtime.* The first process takes every job, the second the ones that install
  the same or another version at the same time. The versions are on both sides
  of every bound of the requirements.
- *Bootstrap.* Three faults: one that leaves something, one that meets it, one in
  the repair. `MaxRelease = 2` gives files of two releases.
- *Launch.* Two options are enough for one to take the other as its value, to
  repeat or to override it. Hosts lack one thing each, or two that go together.
- *Smoke.* Streams of up to three bytes have all three lengths of base64 padding;
  four bytes exceed `MaxOutput`. `Grain` is 2, so that a remaining tick
  rounds to nothing. `MAX_PAYLOAD` is below the longest payload.
- *Relay.* One byte in each direction and pipes of one byte fill and drain.

Deadlock is checked for VmPool, PortEvents, Bootstrap and Launch (which stutters
at its exit). It is not for Supervisor and Daemon, where the number of launches
and daemons is bounded by the model, nor for Session, Relay, Runtime and Smoke,
where the processes end.

### Fairness

Threads that are not waiting for anybody keep running: connection threads and
the reaper (VmPool), a live supervisor and a started `stop_run_dir`
(Supervisor), a daemon in start-up (Daemon), the monitor and the sessions'
loops (PortEvents), the threads of CLI and `fendd` (Session, Relay), a bootstrap
(Bootstrap), a reader of frames (Smoke). All of it is weak fairness, as an
operating system's scheduler gives. The clock is fair in VmPool (an idle TTL
runs out) and in Smoke (`Tick`); the timeout of `wait_for_socket` is part of the
supervisor's step. In Bootstrap the user runs another command after a bootstrap,
and client and server of Relay read what they get. Nothing else is assumed of
users, clients, commands and programs of the guest: a client may hold its VM for
ever, a command need not write or exit, a byte may never arrive, no process need
die, and nobody need drop a VM. Launch and Runtime have safety properties only.

## 4. The proofs

All theorems hold for instances of any size: any sets of projects, threads,
daemons, sessions, ports, processes, versions, command lines and hosts, messages
of any number and length, and any bounds. Every invariant and every action
property that a passing run checks is proved.

| Module | Theorem | States |
|---|---|---|
| `VmPoolProofs` | `PoolTypeCorrect`, `PoolOwnsLiveVms`, `PoolCidsDistinct` | `[]` of `TypeOK`, `LiveVmsOwned`, `CidsDistinct` |
| | `PoolNoDoubleBoot` | without stops, `Spec => []NoDoubleBoot` |
| | `PoolImplementsLeases` | if `Undisturbed`, `Spec => Leases!SafetySpec` |
| | `PoolSessionsCounted` | if `Undisturbed` and `Patient`, `Spec => []SessionsCounted` |
| `HostProofs` | `SupervisorRecords`, `SupervisorSwept`, `SupervisorLeavesNothing` | `[]` of `LivingAreRecorded`, `SweepLeavesNothing`, `NothingLeftRunning` |
| | `BootstrapVerified`, `BootstrapConsistent` | `BootSpec => []` of `OkIsVerified`, `OkIsConsistent` |
| | `DaemonTypeCorrect`, `DaemonServingUnique`, `DaemonSweepSpares`, `DaemonCrashedSwept` | `DaemonSpec => []` of `DaemonTypeOK`, `ServingIsUnique`, `SweepSparesLiveVms`, `CrashedVmsSwept` |
| `PortEventsProofs` | `PortsInSync` | `Spec => []SubscribersInSync` |
| `SessionProofs` | `SessionLosesNothing`, `SessionExit` | `[]` of `NoOutputLost`, `ExitAfterOutput` |
| `FramesProofs` | `DecodeEncode` | `host_base64_decode(base64_encode(b)) = <<b>>` |
| `SmokeProofs` | `SmokeFramesInStep`, `SmokeOutputIsTheCommands`, `SmokeLimitIsExact`, `SmokeAtMostOneLateFrame` | `[]` of `FramesInStep`, `OutputIsTheCommands`, `LimitIsExact`, `AtMostOneLateFrame` |
| `RuntimeProofs` | `RuntimeTypeCorrect`, `RuntimeReadyInstalled`, `RuntimeRequirementMet` | `[]` of `TypeOK`, `ReadyIsInstalled`, `RequirementMet` |
| | `RuntimesNeverChange` | `Spec => RuntimesAppearComplete` |
| `LaunchProofs` | `LaunchSendsOnce`, `LaunchSuccessEarned`, `LaunchNetworkKept`, `LaunchEquipped`, `LaunchVerbatim`, `LaunchPolicy` | `[]` of `SentAtMostOnce`, `SuccessIsEarned`, `ExplicitNetworkKept`, `LaunchedIsEquipped`, `CommandIsVerbatim`, `PolicyReachesGuest` |
| | `LaunchDoctorPredicts` | `Spec => DoctorPredictsLaunch` |

HostProofs extends Supervisor, Bootstrap and Daemon, which is why the last two
have names of their own for `Spec` and the like (`BootSpec`, `DaemonSpec`).

**Assumptions.** Every module names what it assumes of its constants, and TLC
evaluates these on the instances of section 3. Most only give types. Those that
restrict what is proved:

- `CidAssumption`: `CidBound` is below the size of the counter, so the results
  about the pool hold until `next_cid` wraps, which takes a daemon close to 2^32
  allocations. `ConnsAssumption`: finitely many connections.
- `Undisturbed`: no stop requests and no failed boots. With them an entry can
  vanish under its sessions, as section 5 describes. `Patient`: clients wait for
  the answer. `PoolSessionsCounted` does not hold without any of the three;
  `PoolImplementsLeases` holds with impatient clients, whose sessions are counted
  for ever.
- `DashedAssumption`: the words of options start with a dash.
  `LaunchAssumption`: words are strings, an environment variable has at most one
  value, and `PATH` is a list of directories.
- `RuntimeAssumption`: what is pinned in full or found on the host is among the
  versions.
- `ScriptsAssumption`: messages about the command are what `send_output` and
  `send_exit` make, with its id, and the exit is the last message; the first one
  is not about the command; and what else comes after it cannot be taken for a
  message about the command, having another id or an object the host rejects.
  Payloads are shorter than 2^31 bytes, so that their length fits the header;
  whether the reader accepts them is up to `MAX_PAYLOAD`, any number.

### Induction over data

The library's induction theorems take an operator, which the provers cannot
instantiate. The proofs that need induction over a sequence or a number go by sets
instead: `LeastNat` (a set of numbers has a least one, from the well-foundedness
of `<`) and `Induction` (a set with 0 and all successors has all numbers), applied
to the set of numbers for which the claim holds. A recursive function in a model
is first shown to satisfy its equation, by proving along the way that a function
that satisfies it exists up to every number: `JoinedJoins` for concatenation and
for the tokens of a requirement, `RemoveDeadRemoves` for the removal of
subscribers, `Leads` for the parser.

### The inductive invariants

**VmPoolProofs.** `LiveVmsOwned` and `CidsDistinct` are not inductive: a `BootOk`
of a cid that is still in somebody's hands would give it two owners, and nothing
in either property says where cids come from. `IInv` adds that:

- `SessionOK`, `EntryOK`, `DropOK`: every cid in a session, an entry or a set of
  processes to drop was allocated before, so it is below `next_cid`; and threads
  that are not dropping anything hold nothing to drop;
- `EntryCids`: entries have distinct cids;
- `BootUnique`, `EntryUnique`, `DropUnique`: no cid has two owners, kind by kind,
  including cids that are being booted and do not run yet;
- `AliveOwned`: a running cid is with a thread that launched it, in an entry, or
  with a thread that will drop it.

A fresh cid differs from all others by the first group, and every other action
moves a cid from one owner to the next. `PoolNoDoubleBoot` rests on a second
invariant, `PlaceholderInv`: a thread that has not settled its placeholder finds
it in the map, still Booting and with the thread's own cid. Only `Stop` breaks it.

For the refinement, every action has one of four effects on an entry and its
sessions: none (`Quiet`), a thread gets a session (`Takes`), a thread gives it
up (`Gives`), the reaper removes an entry (`Removes`). `Counted` says that an
entry counts the connections that hold it, so that the reaper's
`active_sessions == 0` means that nobody leases the VM: this is what `Reclaim` of
`LeasedVms` asks for. Cardinalities of the sets of connections are the bulk of
the argument.

**HostProofs, Supervisor.** `LivingAreRecorded` is not inductive because
`RunningVm::cleanup` removes records. `Recorded` adds what is left of a cleanup:
no pid file is removed before its process is killed (`KillsFirst`), which
`CleanupOrder` shows for the list of calls and `CleanupCall` for its rest.
While a failed launch is undone it is the other way round, and `UndoOK` says that
every process that has lost its record is one the undoing has yet to kill.
`Sweeps` says that what a sweep has yet to handle is exactly the pid files that
are there, since the supervisor is dead. `Reached` says how far a launch has come
and that what is left of a cleanup or an undo kills all that lives and removes
all records (`Undoes`); `ErrorPaths` shows it for the lists of the error paths.

**HostProofs, Bootstrap.** A file that is there is whole and of the release of
SHA256SUMS, unless it is being checked right now or `left` has it (`WholeOK`,
`RelOK`), which rests on the sums being there first (`SumsFirst`), and the root
file system has the modules of the kernel next to it or none (`RootfsOK`). With `--force-downloads`
files of two releases are side by side for a while; `PassedOK` says which are new.

**HostProofs, Daemon.** `DaemonInv` follows the pid file. Until `raced` it is
`Guarded`: at most one daemon is past the check of the pid file (`OnePast`), it
owns the file once it has written it (`OwnsPidfile`) and the socket once it has
bound it (`OwnsSocket`); it has no VMs before that (`NoVmsYet`), sweeps only on
behalf of the dead (`SweepsForDead`), and as long as there are VMs of dead daemons
the stale pid file is there, and past the sweep there are none (`OrphansKnown`).
A daemon that starts while another one is past the check finds the file of that
one, written, or makes the step that sets `raced`.

**PortEventsProofs.** `RemoveDeadExact`: taking the dead out by `swap_remove` from
the highest index down leaves exactly the living, although every removal moves
the last subscriber to another place.
`AfterAdded` and `AfterRead` say what a list of events means for a port when
events are added at its end or read from its front, and `ChangesTell` that the
events of a scan take a session from the ports known before to those found, in
any order of the `HashSet`s. `PortInv` is then `InStep` for every session, that
sessions not yet there have no state (`NotYet`), and that a session waiting to be
accepted was started (`NotQueued`).

**SessionProofs.** `Flow` is `NoOutputLost` element by element: printed, on its
way and in the pipe are consecutive numbers. `ExitLast` says that the exit code is
the last frame, is the command's, and is sent only when the pipes are empty and
both streams ended, which rests on the order in which the guest's threads start
and join (`Early`, `Threads`).

**FramesProofs.** `FrameRead`: the header's four bytes give the length back, and a
frame that is read has the type and payload that were written. `SameFrame`: bytes
that are complete by their own header, from the front of a stream that starts with
a frame, are that frame. `DecodeEncode`: what `Quad` makes of three, two or one
bytes `Triple` turns back, and characters are taken in the same fours.

**SmokeProofs.** `InStep` says that the bytes of the frame being read and those on
their way are a prefix of the frames not yet taken (`Follows` in `AheadInv`), by
the state of the reader: the greeting until the command is sent, nothing until
`fendd` has read it, then what follows; and that the frames taken are the first
of the script (`TakenInv`). `OutInv` adds that each stream holds what the messages
taken so far say (`Flow`). `LateInv`: after a late frame no time remains, and no
read begins.

**RuntimeProofs.** What a process found in the tools directory is still there when
it uses it (`FoundOK`), because directories are never removed; it renames only a
temporary directory that was unpacked to the end (`TempOK`), so from the rename on
its runtime is complete (`ReadyOK`); and it checked the scripts (`ScriptOK`).
`MetOK` follows a requirement from where it stands to the version chosen, through
every branch of `Resolve`. That `version_satisfies` implies npm's reading is
`BoundsMean` for each comparator, and an induction over the words of a clause.

**LaunchProofs.** `StepOK` and `SentOK` tie the position in `run` to what was sent
and reported; `NetworkOK` carries the network that was asked for from the
configuration to the plan. `RunInv` adds the configuration and the preflight a VM
is booted after (`ConfigOK`) and the message (`MessageOK`). That the command is
the rest of the words is an induction over them (`RunParse`): the first words are
options and their values, and from the first that is neither on everything is the
command's. `LaunchDoctorPredicts` needs `DoctorCovers`: every issue of the
preflight is one of `fend doctor`, but for passt.

### Model-checked only

Liveness, which is outside the prover's reach: `ImplementsLeases` with its
fairness (its safety part is `PoolImplementsLeases`), `RemovedVmKilled`,
`LaunchEnds`, `StopKills`, `StartSucceeds`, `OpenPortForwarded`,
`ClosedPortReleased`, `SessionEnds`, `InterruptTakesEffect`, `RetrySucceeds` and
`HostDoesNotHang`; and
the two properties that do not hold (section 5).

## 5. Where code and documentation disagree

Two runs check one property each that a comment states, and TLC finds a behaviour
of the code that breaks it.

| Run | Property | The code | The text |
|---|---|---|---|
| `pool_held_reaped` | `HeldVmNotStale` | `release` finds the entry by project: the end of a session of a stopped VM counts down the VM booted after it, which is then reaped under its client (`pool.rs:307`) | `client.rs:73-75`: a VM is not reaped while the socket is held |
| `relay_close` | `RelayEnds` | neither relay shuts the vsock down at the end of its TCP stream, so when client and server have closed, the vsock-to-TCP threads of both sides wait for each other (`port_forward.rs:106`) | `port_forward.rs:65`: "until either side closes" |

More are seen by changing an instance or a property:

- `NoDoubleBoot` in `pool_leases` with `Events = {"stop"}`: `stop` removes a
  Booting entry (`pool.rs:321`), so the next `ensure` boots the project while the
  first boot goes on. `pool.rs:10-12` says the placeholder prevents this.
- `SessionsCounted` in `pool_leases` with `Events = {"early_close"}`: if writing
  `VmReady` fails, `?` skips `release` (`daemon.rs:140`).
  `docs/linux-backend.md:68-69` says that a closed socket ends the session.
- `SweepSparesLiveVms` and `ServingIsUnique` in `daemon_serve` without `~raced`:
  the pid file is checked and written in separate steps (`daemon.rs:48-56`); of two
  daemons that pass the check before either has written, both may serve, and a
  third one may sweep VMs of a serving one. `docs/linux-backend.md:59-60` and
  `daemon.rs:55` say a sweep is for directories of a stale daemon.
- `InterruptTakesEffect` said of every SIGINT and with forwarding as its only
  outcome: the port forwarding thread starts before SIGINT is blocked
  (`session.rs:128`), so in an ordinary session it may take the signal with the
  default action, and nothing is forwarded. `ARCHITECTURE.md:480-484` says the CLI
  forwards SIGINT.
- `AtMostOneLateFrame` with no late frame allowed: `docs/linux-backend.md:147` says
  that the timeout "also bounds the command session". `smoke.rs` looks at the
  deadline between frames and gives the remaining time to every `recv` of the next
  one, so that a frame whose bytes trickle in is taken however late it ends. The
  bound that does hold is one frame.

In the first two, `LiveVmsOwned` holds all the same: the pool may boot or reap at
the wrong time, and never loses a process.

The usage text of `fend run` (`cli.rs`, `run_usage`) calls its VM disposable; with
a daemon the VM is shared and warm, and `--cid`, `--run-dir` and, for a warm VM,
the sizes and directories have no effect. Launch has this; no run is about it.

## 6. Known gaps

Behaviours of the code that a property leaves out on purpose, each named in the
property or in its hazard:

- *Supervisor.* A virtiofsd that cannot be spawned makes `launch_plan` return by
  `?` (`supervisor.rs:282`) without undoing the sidecars started before
  (`pc = "abandoned"`). A child whose supervisor dies between `Spawn` and
  `WritePidFile` is recorded nowhere; `LivingAreRecorded` limits this to one. The
  error paths after that remove the pid files and then kill: a supervisor that dies
  in between leaves processes without a record. A socket that a dead launch left
  makes the next launch in its directory fail.
- *VmPool.* A client that leaves before its answer is written is counted for ever,
  and its VM is never reaped. After a failed boot, sessions that reused the
  placeholder hold a cid that never boots.
- *Daemon.* A boot that ends after `pool.stop(None)` in a daemon that exits
  leaves its VM running without a pid file for the next daemon to find.
  `StartSucceeds` presumes that no other daemon lives, and one that is still a zombie
  of the CLI that started it counts as living, as it does for `process_alive`.
- *Session.* The command outlives a CLI that was killed: nobody kills it.
- *Runtime.* The comparators `>1`, `<=1`, `=1`, `^0` and `^0.0.1` and a lone `v`
  accept other versions than npm's (`Deviates`). Of two processes that install one version,
  the slower one's rename fails and its command with it.
- *Bootstrap.* A file renamed into place and not yet checked when the process
  dies is taken for a checked one by the next bootstrap (`"unchecked"` in `left`);
  a root file system that mke2fs did not finish is kept (`"rootfs"`);
  SHA256SUMS is never renewed but by `--force-downloads`, so that downloads of a
  newer release fail.
- *Launch.* A warm VM is used whatever sizes and directories are asked for.
  `LaunchedIsEquipped` does not speak of warm VMs, nor of the programs of VMs the
  daemon boots.
- *PortEvents.* `OpenPortForwarded` assumes that sessions read their stream; one
  that never does stops the monitor, and with it the others. `Receive` takes an
  event whole and knows no other end of a stream than that of its session: the
  timeout of 250 ms within a frame and the return on a stream error
  (`session.rs:368-378`) are left out; Smoke has the former.
- *Smoke.* The timeout of `port_forward_loop` can strike within a frame, after
  which it takes the middle of a frame for a header (`torn`).

Abstractions:

- A process is its label, its cid or its daemon: reuse of pids by the kernel is
  not modelled, neither in pid files nor in `ForwardSignal`.
- Kills succeed: `terminate_pid` and `cleanup_child` end the process.
- `next_cid` does not wrap (section 4), and the cid a disposable VM gets from a
  hash is any of its range; two VMs that get the same are not modelled.
- Bootstraps run one after the other: two at once share `.tmp` files and Docker
  tags.
- Error texts, logs, reports, JSON syntax, shell quoting, the literal QEMU
  arguments, environment and privileges of commands.

## 7. Not modelled

- *Daemon protocol* (`linux/src/ipc.rs`): length-prefixed JSON, one message per
  direction and no timeouts. A message arrives whole or the connection ends, which
  is how VmPool and Daemon take it.
- *Network monitor* (`fendd/src/network_monitor.rs`): the structure of the port
  monitor without replay and closing events. On Linux nothing subscribes to it.
- *Guest init* (`fendd/src/init.rs`, `main.rs`): a straight sequence of system
  calls before anything runs concurrently.
- *The guest's base64 decoder* (`fendd/src/protocol.rs`): it only serves input
  frames, which the Linux CLI does not send.
- *macOS* (`swift/`): the VM manager is an actor that is re-entered at every
  `await`, with pause and resume, on Virtualization.framework, whose behaviour the
  repository does not contain. Daemon, port forwarder and relay depend on it. It
  would need models of its own. Audit and fixes decide over answers of a remote
  registry and rewrite files.
- *Configuration, logs, terminal, shell integration, scripts*: parsing, printing
  and driving of external tools.
