------------------------------- MODULE VmPool -------------------------------
(***************************************************************************)
(* The VM pool of fend-daemon (linux/src/pool.rs) and the connection       *)
(* threads that drive it (handle_connection in linux/src/daemon.rs).       *)
(*                                                                         *)
(* The map `vms` is protected by one mutex, and every critical section of  *)
(* the code is one action here.  What the code does outside the mutex is a *)
(* step of its own: booting a VM, killing the processes of a removed       *)
(* entry, writing the answer to the client, waiting for the client to hang *)
(* up.  A connection thread reads its request before it touches the pool,  *)
(* so accepting, reading and the first critical section are one action.    *)
(*                                                                         *)
(* A guest's context id (cid) also names its QEMU and virtiofsd processes. *)
(***************************************************************************)
EXTENDS Naturals, FiniteSets

CONSTANTS
    Projects,     \* canonical project paths (the keys of the map)
    Conns,        \* connection threads of the daemon
    Networks,     \* values of qemu::NetworkMode
    None,         \* no project, no network
    CID_BASE,     \* first cid handed out
    CID_MAX,      \* cids from here on are refused
    U32,          \* 2^32, the size of the AtomicU32 next_cid
    CidBound,     \* bound of the model: no allocation once next_cid is here
    SessionBound, \* bound of the model: no reuse past this many sessions
    Events        \* which of the events below the environment produces

ASSUME ConnsAssumption == IsFiniteSet(Conns)

ASSUME NoneAssumption == None \notin Projects \union Networks

ASSUME CidAssumption ==
    /\ {CID_BASE, CID_MAX, U32, CidBound, SessionBound} \subseteq Nat
    /\ 0 < CID_BASE /\ CID_BASE <= CID_MAX
    /\ CID_BASE <= CidBound /\ CidBound < U32

ASSUME EventsAssumption ==
    Events \subseteq {"stop", "boot_failure", "early_close", "qemu_exit"}

VARIABLES
    vms,        \* PoolState.vms, a record in state "Absent" for a missing key
    next_cid,   \* VmPool.next_cid
    alive,      \* cids whose QEMU and virtiofsd processes are running
    pc,         \* where each connection thread is in handle_connection
    session,    \* the EnsureVm request of each thread and the cid it got
    open,       \* whether the client's end of each connection is open
    dropping,   \* processes a connection thread owns and is about to kill
    reaping     \* processes the reaper thread owns and is about to kill

vars == <<vms, next_cid, alive, pc, session, open, dropping, reaping>>

NoCid == 0

Absent == [state |-> "Absent", cid |-> NoCid, network |-> None,
           active_sessions |-> 0, age |-> "fresh", process |-> NoCid]

\* A thread that serves no EnsureVm request.
NoSession == [project |-> None, cid |-> NoCid]

Present(p) == vms[p].state # "Absent"

\* The processes owned by the entries of the projects in S.
Processes(S) == {vms[p].process : p \in S} \ {NoCid}

\* `now.duration_since(entry.last_used) > self.idle_ttl` is the age
\* "expired": time makes it so (TtlPasses), `last_used = Instant::now()` makes
\* the entry "fresh" again.
Stale(p) ==
    /\ vms[p].active_sessions = 0
    /\ vms[p].state = "Running"
    /\ vms[p].age = "expired"

-----------------------------------------------------------------------------

Init ==
    /\ vms = [p \in Projects |-> Absent]
    /\ next_cid = CID_BASE
    /\ alive = {}
    /\ pc = [c \in Conns |-> "idle"]
    /\ session = [c \in Conns |-> NoSession]
    /\ open = [c \in Conns |-> FALSE]
    /\ dropping = [c \in Conns |-> {}]
    /\ reaping = {}

Goto(c, label) == pc' = [pc EXCEPT ![c] = label]

\* The thread's handler returns and its stream is dropped.
Finish(c) ==
    /\ Goto(c, "idle")
    /\ session' = [session EXCEPT ![c] = NoSession]
    /\ open' = [open EXCEPT ![c] = FALSE]

BeginSession(c, p, cid) ==
    /\ session' = [session EXCEPT ![c] = [project |-> p, cid |-> cid]]
    /\ open' = [open EXCEPT ![c] = TRUE]

\* Mutant of allocate_cid: the counter is read and not advanced.
allocate_cid_stuck == next_cid < CidBound /\ next_cid' = next_cid

\* AtomicU32::fetch_add wraps; it counts up even when the cid is refused.
allocate_cid ==
    /\ next_cid < CidBound
    /\ next_cid' = (next_cid + 1) % U32

\* Mutant of EnsureReuse: a thread that meets a placeholder boots, too.
EnsureReuseBoots(c, p, n) ==
    /\ pc[c] = "idle"
    /\ Present(p) /\ vms[p].network = n
    /\ vms[p].active_sessions < SessionBound
    /\ vms' = [vms EXCEPT ![p] = [@ EXCEPT !.active_sessions = vms[p].active_sessions + 1,
                                        !.age = "fresh"]]
    /\ BeginSession(c, p, vms[p].cid)
    /\ Goto(c, IF vms[p].state = "Booting" THEN "boot" ELSE "ready")
    /\ UNCHANGED <<next_cid, alive, dropping, reaping>>

\* ensure, the reuse path: a Running or a Booting entry of the same network.
EnsureReuse(c, p, n) ==
    /\ pc[c] = "idle"
    /\ Present(p) /\ vms[p].network = n
    /\ vms[p].active_sessions < SessionBound
    /\ vms' = [vms EXCEPT ![p] = [@ EXCEPT !.active_sessions = vms[p].active_sessions + 1,
                                        !.age = "fresh"]]
    /\ BeginSession(c, p, vms[p].cid)
    /\ Goto(c, "ready")
    /\ UNCHANGED <<next_cid, alive, dropping, reaping>>

\* ensure, NetworkConflict: the error is answered and nothing is counted.
EnsureConflict(c, p, n) ==
    /\ pc[c] = "idle"
    /\ Present(p) /\ vms[p].network # n
    /\ Goto(c, "reply")
    /\ UNCHANGED <<vms, next_cid, alive, session, open, dropping, reaping>>

\* ensure, CidExhausted.
EnsureExhausted(c, p) ==
    /\ pc[c] = "idle"
    /\ ~Present(p)
    /\ next_cid >= CID_MAX
    /\ allocate_cid
    /\ Goto(c, "reply")
    /\ UNCHANGED <<vms, alive, session, open, dropping, reaping>>

\* ensure, the placeholder: a Booting entry without a process is inserted
\* before the mutex is released.
EnsureInsert(c, p, n) ==
    /\ pc[c] = "idle"
    /\ ~Present(p)
    /\ next_cid < CID_MAX
    /\ allocate_cid
    /\ vms' = [vms EXCEPT ![p] =
                 [state |-> "Booting", cid |-> next_cid, network |-> n,
                  active_sessions |-> 1, age |-> "fresh", process |-> NoCid]]
    /\ BeginSession(c, p, next_cid)
    /\ Goto(c, "boot")
    /\ UNCHANGED <<alive, dropping, reaping>>

\* VmPool::boot, outside the mutex: the launcher returns a process ...
BootOk(c) ==
    /\ pc[c] = "boot"
    /\ alive' = alive \union {session[c].cid}
    /\ Goto(c, "launched")
    /\ UNCHANGED <<vms, next_cid, session, open, dropping, reaping>>

\* ... or fails; what a failed launch cleans up is the subject of Supervisor.
BootFail(c) ==
    /\ "boot_failure" \in Events
    /\ pc[c] = "boot"
    /\ Goto(c, "failed")
    /\ UNCHANGED <<vms, next_cid, alive, session, open, dropping, reaping>>

\* Mutant of BootCommit: the replaced process is forgotten, not killed.
BootCommitForgets(c) ==
    LET p == session[c].project IN
    /\ pc[c] = "launched"
    /\ Present(p)
    /\ vms' = [vms EXCEPT ![p] = [@ EXCEPT !.state = "Running",
                                        !.process = session[c].cid]]
    /\ Goto(c, "ready")
    /\ UNCHANGED <<alive, next_cid, session, open, dropping, reaping>>

\* Mutant of BootCommit: the entry stays Booting.
BootCommitStaysBooting(c) ==
    LET p == session[c].project IN
    /\ pc[c] = "launched"
    /\ Present(p)
    /\ alive' = alive \ Processes({p})
    /\ vms' = [vms EXCEPT ![p].process = session[c].cid]
    /\ Goto(c, "ready")
    /\ UNCHANGED <<next_cid, session, open, dropping, reaping>>

\* ensure after a successful boot: whatever entry is under the key becomes
\* Running and takes the process.  Assigning entry.process drops a process
\* that was there, which kills it before the mutex is released.
BootCommit(c) ==
    LET p == session[c].project IN
    /\ pc[c] = "launched"
    /\ Present(p)
    /\ alive' = alive \ Processes({p})
    /\ vms' = [vms EXCEPT ![p] = [@ EXCEPT !.state = "Running",
                                        !.process = session[c].cid]]
    /\ Goto(c, "ready")
    /\ UNCHANGED <<next_cid, session, open, dropping, reaping>>

\* ensure after a successful boot when the entry is gone: the process is
\* dropped on return, after the mutex, and the outcome is still Ok.
BootUnclaimed(c) ==
    /\ pc[c] = "launched"
    /\ ~Present(session[c].project)
    /\ dropping' = [dropping EXCEPT ![c] = {session[c].cid}]
    /\ Goto(c, "ready")
    /\ UNCHANGED <<vms, next_cid, alive, session, open, reaping>>

\* ensure after a failed boot: whatever entry is under the key is removed.
BootAbort(c) ==
    LET p == session[c].project IN
    /\ pc[c] = "failed"
    /\ vms' = [vms EXCEPT ![p] = Absent]
    /\ dropping' = [dropping EXCEPT ![c] = Processes({p})]
    /\ Goto(c, "reply")
    /\ UNCHANGED <<next_cid, alive, session, open, reaping>>

\* VmPool::stop: the entries of S leave the map in one critical section; their
\* processes are killed after it.
Stop(c, S) ==
    /\ "stop" \in Events
    /\ pc[c] = "idle"
    /\ vms' = [p \in Projects |-> IF p \in S THEN Absent ELSE vms[p]]
    /\ dropping' = [dropping EXCEPT ![c] = Processes(S)]
    /\ Goto(c, "reply")
    /\ UNCHANGED <<next_cid, alive, session, open, reaping>>

\* RunningVm::drop kills one of the processes a thread took out of the map.
DropProcess(c, k) ==
    /\ k \in dropping[c]
    /\ alive' = alive \ {k}
    /\ dropping' = [dropping EXCEPT ![c] = @ \ {k}]
    /\ UNCHANGED <<vms, next_cid, pc, session, open, reaping>>

\* Error, Stopped and Status answers: written or not, the handler returns.
WriteReply(c) ==
    /\ pc[c] = "reply"
    /\ dropping[c] = {}
    /\ Finish(c)
    /\ UNCHANGED <<vms, next_cid, alive, dropping, reaping>>

\* VmReady is written and the thread waits for the client to hang up.
WriteReady(c) ==
    /\ pc[c] = "ready"
    /\ dropping[c] = {}
    /\ open[c]
    /\ Goto(c, "held")
    /\ UNCHANGED <<vms, next_cid, alive, session, open, dropping, reaping>>

\* Writing VmReady fails: `?` leaves the handler, pool.release is not called.
WriteReadyFails(c) ==
    /\ pc[c] = "ready"
    /\ dropping[c] = {}
    /\ ~open[c]
    /\ Finish(c)
    /\ UNCHANGED <<vms, next_cid, alive, dropping, reaping>>

\* Mutant of Release: the session is not counted down.
ReleaseForgotten(c) ==
    /\ pc[c] = "held"
    /\ ~open[c]
    /\ Finish(c)
    /\ UNCHANGED <<vms, next_cid, alive, dropping, reaping>>

\* wait_for_session_close returns and pool.release runs: it finds the entry by
\* the project, saturating_sub, and restarts the idle clock at zero sessions.
Release(c) ==
    LET p == session[c].project
        left == IF vms[p].active_sessions = 0 THEN 0
                ELSE vms[p].active_sessions - 1
    IN
    /\ pc[c] = "held"
    /\ ~open[c]
    /\ vms' = IF Present(p)
              THEN [vms EXCEPT ![p] =
                      [@ EXCEPT !.active_sessions = left,
                                !.age = IF left = 0 THEN "fresh"
                                        ELSE vms[p].age]]
              ELSE vms
    /\ Finish(c)
    /\ UNCHANGED <<next_cid, alive, dropping, reaping>>

\* The client closes its end: at the end of its command, or before the answer.
ClientClose(c) ==
    /\ open[c]
    /\ pc[c] = "held" \/ "early_close" \in Events
    /\ open' = [open EXCEPT ![c] = FALSE]
    /\ UNCHANGED <<vms, next_cid, alive, pc, session, dropping, reaping>>

\* VmPool::status only reads; so does a request that is refused before it
\* reaches the map (protocol version, path that cannot be canonicalized).
Status(c) ==
    /\ pc[c] = "idle"
    /\ Goto(c, "reply")
    /\ UNCHANGED <<vms, next_cid, alive, session, open, dropping, reaping>>

\* VmPool::reap, by the reaper thread, which first finishes its last drop.
Reap ==
    LET stale == {p \in Projects : Stale(p)} IN
    /\ reaping = {}
    /\ stale # {}
    /\ vms' = [p \in Projects |-> IF p \in stale THEN Absent ELSE vms[p]]
    /\ reaping' = Processes(stale)
    /\ UNCHANGED <<next_cid, alive, pc, session, open, dropping>>

\* Mutant of ReaperDrop: a process is let go without being killed.
ReaperDropForgets(k) ==
    /\ k \in reaping
    /\ reaping' = reaping \ {k}
    /\ UNCHANGED <<alive, vms, next_cid, pc, session, open, dropping>>

ReaperDrop(k) ==
    /\ k \in reaping
    /\ alive' = alive \ {k}
    /\ reaping' = reaping \ {k}
    /\ UNCHANGED <<vms, next_cid, pc, session, open, dropping>>

\* The idle TTL of an entry runs out.
TtlPasses(p) ==
    /\ Present(p) /\ vms[p].age = "fresh"
    /\ vms' = [vms EXCEPT ![p].age = "expired"]
    /\ UNCHANGED <<next_cid, alive, pc, session, open, dropping, reaping>>

\* A guest powers off or its QEMU crashes; nothing in the pool notices.
QemuExit(k) ==
    /\ "qemu_exit" \in Events
    /\ k \in alive
    /\ alive' = alive \ {k}
    /\ UNCHANGED <<vms, next_cid, pc, session, open, dropping, reaping>>

Ensure(c) ==
    \E p \in Projects :
        \/ \E n \in Networks : \/ EnsureReuse(c, p, n)
                               \/ EnsureConflict(c, p, n)
                               \/ EnsureInsert(c, p, n)
        \/ EnsureExhausted(c, p)

Boot(c) ==
    \/ BootOk(c) \/ BootFail(c)
    \/ BootCommit(c) \/ BootUnclaimed(c) \/ BootAbort(c)

\* What a connection thread does by itself once it has its request.
Proceed(c) ==
    \/ Boot(c)
    \/ \E k \in dropping[c] : DropProcess(c, k)
    \/ WriteReply(c) \/ WriteReady(c) \/ WriteReadyFails(c)
    \/ Release(c)

ReaperStep == Reap \/ \E k \in reaping : ReaperDrop(k)

Next ==
    \/ \E c \in Conns : \/ Ensure(c)
                        \/ \E S \in {{p} : p \in Projects} \union {Projects} :
                               Stop(c, S)
                        \/ Status(c)
                        \/ Proceed(c)
                        \/ ClientClose(c)
    \/ ReaperStep
    \/ \E p \in Projects : TtlPasses(p)
    \/ \E k \in alive : QemuExit(k)

Spec == Init /\ [][Next]_vars

\* Connection threads, the reaper thread and the clock keep running; a client
\* need not close its connection, and no request need ever arrive.
FairSpec ==
    /\ Spec
    /\ \A c \in Conns : WF_vars(Proceed(c))
    /\ WF_vars(ReaperStep)
    /\ \A p \in Projects : WF_vars(TtlPasses(p))

-----------------------------------------------------------------------------
(* Correctness.                                                            *)

Cids == CID_BASE .. CidBound

VmEntry == [state : {"Absent", "Booting", "Running"},
            cid : Cids \union {NoCid}, network : Networks \union {None},
            active_sessions : Nat, age : {"fresh", "expired"},
            process : Cids \union {NoCid}]

\* No entry of the map is ever Stopping (it leaves the map before its state
\* changes), so the retry loop of ensure runs once.
TypeOK ==
    /\ vms \in [Projects -> VmEntry]
    /\ next_cid \in Cids
    /\ alive \subseteq Cids
    /\ pc \in [Conns -> {"idle", "boot", "launched", "failed", "ready",
                         "held", "reply"}]
    /\ session \in [Conns -> [project : Projects \union {None},
                              cid : Cids \union {NoCid}]]
    /\ open \in [Conns -> BOOLEAN]
    /\ dropping \in [Conns -> SUBSET Cids]
    /\ reaping \subseteq Cids

\* Threads whose EnsureVm is counted in an entry's active_sessions.
InSession(c) == pc[c] \in {"boot", "launched", "failed", "ready", "held"}

SessionThreads(p) == {c \in Conns : InSession(c) /\ session[c].project = p}

\* Who is responsible for the processes of cid k: the thread that boots them,
\* an entry of the map, or a thread that took them out of the map.
Owners(k) ==
    {<<"boot", c>> : c \in {d \in Conns : /\ pc[d] \in {"boot", "launched"}
                                          /\ session[d].cid = k}}
    \union {<<"entry", p>> : p \in {q \in Projects : vms[q].process = k}}
    \union {<<"drop", c>> : c \in {d \in Conns : k \in dropping[d]}}
    \union {<<"reap", k>> : x \in {y \in {k} : k \in reaping}}

\* No orphan: whatever the interleaving of ensure, stop, reap and failed or
\* late boots, every running QEMU is owned by the map or by a thread that will
\* kill it, and by one only, so that no process is lost or killed twice.
LiveVmsOwned ==
    /\ \A k \in alive : Owners(k) # {}
    /\ \A k \in Cids : \A o1, o2 \in Owners(k) : o1 = o2

\* A VM is never booted with the cid of a running one or of another boot, and
\* two entries never share a cid: vsock addresses are unambiguous.
CidsDistinct ==
    /\ \A c \in Conns : pc[c] = "boot" => session[c].cid \notin alive
    /\ \A c, d \in Conns :
         /\ {pc[c], pc[d]} \subseteq {"boot", "launched"}
         /\ session[c].cid = session[d].cid
         => c = d
    /\ \A p, q \in Projects :
         Present(p) /\ vms[p].cid = vms[q].cid => p = q

\* The placeholder inserted before unlocking keeps two threads from booting
\* the same project (pool.rs:10-12).
NoDoubleBoot ==
    \A c, d \in Conns :
        /\ {pc[c], pc[d]} \subseteq {"boot", "launched", "failed"}
        /\ session[c].project = session[d].project
        => c = d

\* The reaper never finds a VM stale that a client still holds.
HeldVmNotStale ==
    \A p \in Projects : Stale(p) =>
        \A c \in Conns : ~(pc[c] = "held" /\ open[c]
                           /\ session[c].cid = vms[p].cid)

\* An entry counts exactly the sessions of its project, from ensure to the end
\* of their connections (linux-backend.md:67-69): more would keep the VM for
\* ever, fewer would have it reaped under a client.
SessionsCounted ==
    \A p \in Projects :
        vms[p].active_sessions = Cardinality(SessionThreads(p))

\* The refinement mapping: a VM is on while its project has an entry, and a
\* connection leases it from ensure to release.
Leases == INSTANCE LeasedVms WITH
    Clients <- Conns,
    on <- {p \in Projects : Present(p)},
    leases <- [p \in Projects |-> SessionThreads(p)]

\* Without stops and failed boots the pool (ensure, release, reap) implements
\* LeasedVms: a VM is there from the first ensure on, stays while a connection
\* is in a session with it, and is reaped in the end when none is.
ImplementsLeases == Leases!Spec

\* Processes that are not in the map are adopted by an entry or killed: the
\* thread that removes an entry, or whose boot comes too late, finishes.
RemovedVmKilled ==
    \A k \in Cids :
        (k \in alive /\ \A p \in Projects : vms[p].process # k)
            ~> (k \notin alive \/ \E p \in Projects : vms[p].process = k)

=============================================================================
