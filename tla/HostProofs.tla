----------------------------- MODULE HostProofs -----------------------------
(***************************************************************************)
(* Theorems about what the host keeps between commands: the processes of a *)
(* VM (Supervisor), the files it boots from (Bootstrap) and the daemons    *)
(* that start and sweep VMs (Daemon).                                      *)
(*                                                                         *)
(* Supervisor, for any number of shares and launches: what the supervisor  *)
(* started is on record while it lives and when it has died, a sweep finds *)
(* all of it, and what fails or is dropped leaves nothing running.         *)
(*                                                                         *)
(* Bootstrap and Daemon follow at the end.                                 *)
(***************************************************************************)
EXTENDS Supervisor, Bootstrap, Daemon, TLAPS

\* The provers for the steps that name none, and the seconds they have.
USE SMTT(30), ZenonT(60)

Ops == {"kill", "remove_pid_file", "remove_socket"}
Calls == Seq(Ops \X Labels)

\* The types of the variables that matter here.
TypeOK ==
    /\ proc \in [Labels -> {"none", "alive", "bound", "dead"}]
    /\ pidfile \in [Labels -> {"none", "empty", "pid"}]
    /\ cur \in Labels
    /\ todo \in Calls
    /\ queue \subseteq Labels

\* No pid file is removed before its process is killed.
KillsFirst(calls) ==
    \A i \in DOMAIN calls : calls[i][1] = "remove_pid_file" =>
        \/ calls[i][2] \notin Alive
        \/ \E j \in 1 .. (i - 1) : calls[j] = <<"kill", calls[i][2]>>

\* The pid files as the supervisor writes them and as a sweep, which only comes
\* when the supervisor is dead, finds them.
Recorded ==
    ~stop_ran =>
        /\ stopper \in {"idle", "sweep", "swept"}
        /\ pc = "prepare" => Alive = {}
        /\ up /\ pc = "write_pid_file" => pidfile[cur] = "empty"
        /\ pc \notin {"wait_for_socket", "create_pid_file", "write_pid_file",
                     "undo", "failed", "stopped"} =>
             \A l \in Alive : pidfile[l] = "pid"
        /\ pc \in {"wait_for_socket", "create_pid_file", "write_pid_file"} =>
             \A l \in Alive \ {cur} : pidfile[l] = "pid"
        /\ pc = "cleanup" => KillsFirst(todo)

\* What a sweep has before it and what it leaves: the snapshot it goes through
\* stays true to the directory, since nobody else is there to change it.
Sweeps ==
    /\ stopper \in {"sweep", "swept"} => ~up
    /\ stopper = "sweep" => queue = pid_files_in_run_dir
    /\ stopper = "swept" => \A l \in Labels : pidfile[l] = "none"
    /\ stopper = "swept" /\ Launched /\ ~stop_ran => socket = {}

\* The labels with a pid in their file.
Written == {l \in Labels : pidfile[l] = "pid"}

\* The calls in a list end every living process and remove every record.
Has(calls, call) == \E i \in DOMAIN calls : calls[i] = call
Undoes(calls) ==
    /\ \A l \in Alive : Has(calls, <<"kill", l>>)
    /\ \A l \in Written : Has(calls, <<"remove_pid_file", l>>)

\* How far a launch has come, and what a cleanup has yet to do, in a supervisor
\* that lives.
Reached ==
    up =>
        /\ pc \in {"prepare", "failed", "stopped"} => Alive = {} /\ Written = {}
        /\ pc \in {"exists", "spawn"} => Alive \union Written \subseteq 1 .. (cur - 1)
        /\ pc \in {"wait_for_socket", "create_pid_file", "write_pid_file"} =>
             Alive \subseteq 1 .. cur /\ Written \subseteq 1 .. (cur - 1)
        /\ pc \in {"undo", "cleanup"} => Undoes(todo)

\* A failed launch kills what it has not killed yet, unless it dies; it is over
\* only in a supervisor that lives.
UndoOK ==
    /\ pc = "undo" => \A l \in Alive : Has(todo, <<"kill", l>>)
    /\ pc \in {"failed", "stopped"} => up

IInv == TypeOK /\ Recorded /\ Sweeps /\ Reached /\ UndoOK

-----------------------------------------------------------------------------

\* Where the calls of two lists are in their concatenation.
LEMMA Concatenated ==
    ASSUME NEW s \in Calls, NEW t \in Calls
    PROVE  /\ s \o t \in Calls /\ Len(s \o t) = Len(s) + Len(t)
           /\ \A i \in 1 .. Len(s) : (s \o t)[i] = s[i]
           /\ \A i \in 1 .. Len(t) : (s \o t)[Len(s) + i] = t[i]
BY DEF Calls

\* A list of one call per label.
LEMMA EachCalls ==
    ASSUME NEW op \in Ops, NEW k \in 0 .. Qemu
    PROVE  /\ Each(op, k) \in Calls /\ Len(Each(op, k)) = k
           /\ \A i \in 1 .. k : Each(op, k)[i] = <<op, i>>
BY SupervisorAssumption DEF Each, Calls, Qemu, Labels

\* RunningVm::cleanup kills all processes and then removes their records.
LEMMA CleanupOrder == cleanup \in Calls /\ KillsFirst(cleanup)
<1> DEFINE n == Shares
           kill == cleanup_child(Qemu) \o cleanup_children(Shares)
           remove == kill \o cleanup_pid_files(Qemu)
<1>0. n \in Nat /\ n > 0 /\ Qemu = n + 1 /\ Labels = 1 .. (n + 1)
  BY SupervisorAssumption DEF Qemu, Labels
<1>1. /\ cleanup_child(Qemu) \in Calls /\ Len(cleanup_child(Qemu)) = 1
      /\ cleanup_child(Qemu)[1] = <<"kill", Qemu>>
  BY <1>0 DEF cleanup_child, Calls, Ops
<1>2. /\ cleanup_children(Shares) \in Calls /\ Len(cleanup_children(Shares)) = n
      /\ \A i \in 1 .. n : cleanup_children(Shares)[i] = <<"kill", i>>
  BY <1>0, EachCalls DEF cleanup_children, Ops
<1>3. /\ cleanup_pid_files(Qemu) \in Calls /\ Len(cleanup_pid_files(Qemu)) = n + 1
      /\ \A i \in 1 .. (n + 1) : cleanup_pid_files(Qemu)[i] = <<"remove_pid_file", i>>
  BY <1>0, EachCalls DEF cleanup_pid_files, Ops
<1>4. /\ cleanup_sockets(Shares) \in Calls /\ Len(cleanup_sockets(Shares)) = n
      /\ \A i \in 1 .. n : cleanup_sockets(Shares)[i] = <<"remove_socket", i>>
  BY <1>0, EachCalls DEF cleanup_sockets, Ops
<1>5. /\ kill \in Calls /\ Len(kill) = n + 1
      /\ kill[1] = <<"kill", Qemu>>
      /\ \A i \in 1 .. n : kill[1 + i] = <<"kill", i>>
  <2>1. /\ kill \in Calls
        /\ Len(kill) = Len(cleanup_child(Qemu)) + Len(cleanup_children(Shares))
        /\ \A i \in 1 .. Len(cleanup_child(Qemu)) : kill[i] = cleanup_child(Qemu)[i]
        /\ \A i \in 1 .. Len(cleanup_children(Shares)) :
             kill[Len(cleanup_child(Qemu)) + i] = cleanup_children(Shares)[i]
    BY <1>1, <1>2, Concatenated, Zenon
  <2> HIDE DEF kill, n
  <2>2. Len(kill) = n + 1  BY <1>0, <1>1, <1>2, <2>1
  <2>3. kill[1] = <<"kill", Qemu>>  BY <1>1, <2>1
  <2>4. \A i \in 1 .. n : kill[1 + i] = <<"kill", i>>  BY <1>0, <1>1, <1>2, <2>1
  <2> QED  BY <2>1, <2>2, <2>3, <2>4
<1>6. cleanup = remove \o cleanup_sockets(Shares)
  <2>1. kill \in Calls  BY <1>5
  <2> QED  BY <1>1, <1>2, <1>3, <1>4 DEF cleanup, Calls
<1> HIDE DEF kill, n
<1>7. /\ remove \in Calls /\ Len(remove) = 2 * n + 2
      /\ \A i \in 1 .. (n + 1) : remove[i] = kill[i]
      /\ \A i \in 1 .. (n + 1) : remove[(n + 1) + i] = <<"remove_pid_file", i>>
  <2>1. /\ remove \in Calls
        /\ Len(remove) = Len(kill) + Len(cleanup_pid_files(Qemu))
        /\ \A i \in 1 .. Len(kill) : remove[i] = kill[i]
        /\ \A i \in 1 .. Len(cleanup_pid_files(Qemu)) :
             remove[Len(kill) + i] = cleanup_pid_files(Qemu)[i]
    BY <1>3, <1>5, Concatenated, Zenon
  <2> HIDE DEF remove
  <2>2. Len(kill) = n + 1 /\ Len(cleanup_pid_files(Qemu)) = n + 1
    BY <1>0, <1>3, <1>5
  <2>3. Len(remove) = 2 * n + 2  BY <1>0, <2>1, <2>2
  <2>4. \A i \in 1 .. (n + 1) : remove[i] = kill[i]  BY <2>1, <2>2, Zenon
  <2>5. \A i \in 1 .. (n + 1) : remove[(n + 1) + i] = <<"remove_pid_file", i>>
    BY <1>3, <2>1, <2>2
  <2> QED  BY <2>1, <2>3, <2>4, <2>5, Zenon
<1> HIDE DEF remove
<1>8. /\ cleanup \in Calls /\ Len(cleanup) = 3 * n + 2
      /\ \A i \in 1 .. (2 * n + 2) : cleanup[i] = remove[i]
      /\ \A i \in 1 .. n : cleanup[(2 * n + 2) + i] = <<"remove_socket", i>>
  <2>1. /\ cleanup \in Calls
        /\ Len(cleanup) = Len(remove) + Len(cleanup_sockets(Shares))
        /\ \A i \in 1 .. Len(remove) : cleanup[i] = remove[i]
        /\ \A i \in 1 .. Len(cleanup_sockets(Shares)) :
             cleanup[Len(remove) + i] = cleanup_sockets(Shares)[i]
    BY <1>4, <1>6, <1>7, Concatenated, Zenon
  <2> QED  BY <1>0, <1>4, <1>7, <2>1
<1>9. ASSUME NEW i \in 1 .. (3 * n + 2), cleanup[i][1] = "remove_pid_file"
      PROVE  \E j \in 1 .. (i - 1) : cleanup[j] = <<"kill", cleanup[i][2]>>
  <2>1. i > n + 1
    <3>1. i # 1  BY <1>0, <1>5, <1>7, <1>8, <1>9
    <3>2. ASSUME i \in 2 .. (n + 1) PROVE FALSE
      <4>1. i - 1 \in 1 .. n /\ i = 1 + (i - 1)  BY <1>0, <3>2
      <4>2. kill[i] = <<"kill", i - 1>>  BY <1>5, <4>1
      <4>3. cleanup[i] = kill[i]  BY <1>0, <1>7, <1>8, <3>2
      <4> QED  BY <1>9, <4>2, <4>3
    <3> QED  BY <1>0, <3>1, <3>2
  <2>2. i <= 2 * n + 2
    <3>1. ASSUME i > 2 * n + 2 PROVE FALSE
      <4>1. i - (2 * n + 2) \in 1 .. n /\ i = (2 * n + 2) + (i - (2 * n + 2))
        BY <1>0, <3>1
      <4>2. cleanup[i] = <<"remove_socket", i - (2 * n + 2)>>  BY <1>8, <4>1
      <4> QED  BY <1>9, <4>2
    <3> QED  BY <1>0, <3>1
  <2> DEFINE l == i - (n + 1)
  <2>3. l \in 1 .. (n + 1) /\ i = (n + 1) + l  BY <1>0, <2>1, <2>2
  <2>4. cleanup[i][2] = l
    <3>1. remove[i] = <<"remove_pid_file", l>>  BY <1>7, <2>3
    <3>2. cleanup[i] = remove[i]  BY <1>0, <1>8, <2>2
    <3> QED  BY <3>1, <3>2
  <2>5. CASE l = n + 1
    <3>1. cleanup[1] = <<"kill", l>>  BY <1>0, <1>5, <1>7, <1>8, <2>5
    <3> QED  BY <1>0, <2>1, <2>4, <3>1
  <2>6. CASE l \in 1 .. n
    <3>1. cleanup[1 + l] = <<"kill", l>>
      <4>1. kill[1 + l] = <<"kill", l>>  BY <1>5, <2>6
      <4>2. 1 + l \in 1 .. (n + 1) /\ 1 + l \in 1 .. (2 * n + 2)  BY <1>0, <2>6
      <4> QED  BY <1>7, <1>8, <4>1, <4>2
    <3>2. 1 + l \in 1 .. (i - 1)  BY <1>0, <2>3, <2>6
    <3> QED  BY <2>4, <3>1, <3>2
  <2>7. l = n + 1 \/ l \in 1 .. n  BY <1>0, <2>3
  <2> HIDE DEF l
  <2> QED  BY <2>5, <2>6, <2>7
<1>10. DOMAIN cleanup = 1 .. (3 * n + 2)  BY <1>8 DEF Calls
<1> QED  BY <1>8, <1>9, <1>10, Zenon DEF KillsFirst

\* One call of the cleanup: the head of the list is carried out.
LEMMA CleanupCall ==
    ASSUME TypeOK, pc = "cleanup", todo # <<>>, KillsFirst(todo),
           \A l \in Alive : pidfile[l] = "pid", CleanupStep
    PROVE  /\ todo' \in Calls /\ KillsFirst(todo)'
           /\ \A l \in Alive' : pidfile'[l] = "pid"
<1> DEFINE op == todo[1][1]
           l == todo[1][2]
<1>1. /\ todo \in Calls /\ Len(todo) \in Nat /\ Len(todo) > 0
      /\ DOMAIN todo = 1 .. Len(todo) /\ Head(todo) = todo[1]
  BY DEF TypeOK, Calls
<1>2. /\ todo' \in Calls /\ Len(todo') = Len(todo) - 1
      /\ DOMAIN todo' = 1 .. Len(todo')
      /\ \A i \in 1 .. Len(todo') : todo'[i] = todo[i + 1]
  BY <1>1 DEF CleanupStep, Calls
<1>3. todo[1] \in Ops \X Labels  BY <1>1 DEF Calls
<1>4. op \in Ops /\ l \in Labels /\ todo[1] = <<op, l>>  BY <1>3
<1>5. /\ proc' = IF op = "kill" THEN [proc EXCEPT ![l] = "dead"] ELSE proc
      /\ pidfile' = IF op = "remove_pid_file"
                    THEN [pidfile EXCEPT ![l] = "none"] ELSE pidfile
  BY <1>1, Zenon DEF CleanupStep
<1>6. op = "remove_pid_file" => l \notin Alive
  BY <1>1 DEF KillsFirst
<1> HIDE DEF op, l
<1>7. Alive' \subseteq Alive /\ (op = "kill" => l \notin Alive')
  BY <1>4, <1>5 DEF Alive, TypeOK
<1>8. \A m \in Alive' : pidfile'[m] = "pid"
  <2>1. \A m \in Alive : m \in Labels  BY DEF Alive
  <2> QED  BY <1>4, <1>5, <1>6, <1>7, <2>1 DEF TypeOK
<1>9. ASSUME NEW i \in DOMAIN todo', todo'[i][1] = "remove_pid_file",
             todo'[i][2] \in Alive'
      PROVE  \E j \in 1 .. (i - 1) : todo'[j] = <<"kill", todo'[i][2]>>
  <2>1. /\ i \in 1 .. Len(todo') /\ i + 1 \in DOMAIN todo
        /\ todo'[i] = todo[i + 1]
    BY <1>1, <1>2, <1>9
  <2>2. PICK j \in 1 .. i : todo[j] = <<"kill", todo[i + 1][2]>>
    <3> DEFINE n == i + 1
    <3>1. n \in DOMAIN todo /\ n - 1 = i  BY <1>1, <1>2, <2>1
    <3>2. todo[n][1] = "remove_pid_file" /\ todo[n][2] \in Alive
      BY <1>7, <1>9, <2>1
    <3> HIDE DEF n
    <3>3. \E j \in 1 .. (n - 1) : todo[j] = <<"kill", todo[n][2]>>
      BY <3>1, <3>2, Zenon DEF KillsFirst
    <3> QED  BY <3>1, <3>3 DEF n
  <2>3. j # 1
    <3>1. ASSUME j = 1 PROVE FALSE
      <4>1. op = "kill" /\ l = todo'[i][2]  BY <1>4, <2>1, <2>2, <3>1
      <4> QED  BY <1>7, <1>9, <4>1
    <3> QED  BY <3>1
  <2>4. j - 1 \in 1 .. (i - 1) /\ j - 1 \in 1 .. Len(todo') /\ (j - 1) + 1 = j
    BY <1>1, <1>2, <2>1, <2>2, <2>3
  <2>5. todo'[j - 1] = <<"kill", todo'[i][2]>>  BY <1>2, <2>1, <2>2, <2>4
  <2> QED  BY <2>4, <2>5
<1>10. KillsFirst(todo)'  BY <1>9, Zenon DEF KillsFirst
<1> QED  BY <1>2, <1>8, <1>10

\* A call in one of two lists is in their concatenation.
LEMMA HasConcatenated ==
    ASSUME NEW s \in Calls, NEW t \in Calls, NEW call
    PROVE  Has(s, call) \/ Has(t, call) => Has(s \o t, call)
<1> DEFINE st == s \o t
<1>1. /\ st \in Calls /\ Len(st) = Len(s) + Len(t)
      /\ \A i \in 1 .. Len(s) : st[i] = s[i]
      /\ \A i \in 1 .. Len(t) : st[Len(s) + i] = t[i]
  BY Concatenated
<1> HIDE DEF st
<1>2. /\ DOMAIN s = 1 .. Len(s) /\ DOMAIN t = 1 .. Len(t) /\ DOMAIN st = 1 .. Len(st)
      /\ Len(s) \in Nat /\ Len(t) \in Nat
  BY <1>1 DEF Calls
<1>3. ASSUME NEW i \in DOMAIN s, s[i] = call PROVE Has(st, call)
  <2>1. i \in DOMAIN st /\ st[i] = call  BY <1>1, <1>2, <1>3
  <2> QED  BY <2>1 DEF Has
<1>4. ASSUME NEW i \in DOMAIN t, t[i] = call PROVE Has(st, call)
  <2>1. Len(s) + i \in DOMAIN st /\ st[Len(s) + i] = call  BY <1>1, <1>2, <1>4
  <2> QED  BY <2>1 DEF Has
<1> QED  BY <1>3, <1>4 DEF Has, st

\* A list of one call per label has them all.
LEMMA HasEach ==
    ASSUME NEW op \in Ops, NEW k \in 0 .. Qemu, NEW l \in 1 .. k
    PROVE  Has(Each(op, k), <<op, l>>)
<1>1. l \in DOMAIN Each(op, k) /\ Each(op, k)[l] = <<op, l>>
  BY EachCalls DEF Each
<1> QED  BY <1>1 DEF Has

\* The calls in a list reach the labels up to m, their records up to n.
Reach(calls, m, n) ==
    /\ calls \in Calls
    /\ \A l \in 1 .. m : Has(calls, <<"kill", l>>)
    /\ \A l \in 1 .. n : Has(calls, <<"remove_pid_file", l>>)

\* The error paths of launch_plan: what was started before the label k is undone,
\* and where k itself has been started, its process is killed.
LEMMA ErrorPaths ==
    ASSUME NEW k \in Labels
    PROVE  /\ Reach(cleanup_pid_files(k - 1) \o cleanup_children(k - 1), k - 1, k - 1)
           /\ Reach(undo(k), k - 1, k - 1)
           /\ Reach(cleanup_child(k) \o undo(k), k, k - 1)
<1> DEFINE records == cleanup_pid_files(k - 1)
           kills == cleanup_children(k - 1)
           socks == cleanup_sockets(k - 1)
<1>1. k \in Nat /\ k > 0 /\ k - 1 \in 0 .. Qemu
  BY SupervisorAssumption DEF Labels, Qemu
<1>2. records \in Calls /\ kills \in Calls /\ socks \in Calls
  BY <1>1, EachCalls DEF cleanup_pid_files, cleanup_children, cleanup_sockets, Ops
<1>3. \A l \in 1 .. (k - 1) :
         Has(records, <<"remove_pid_file", l>>) /\ Has(kills, <<"kill", l>>)
  BY <1>1, HasEach, Zenon DEF cleanup_pid_files, cleanup_children, Ops
<1>4. undo(k) = (records \o kills) \o socks  BY DEF undo
<1> HIDE DEF records, kills, socks
<1>5. Reach(records \o kills, k - 1, k - 1)
  BY <1>2, <1>3, HasConcatenated, Concatenated, Zenon DEF Reach
<1>6. Reach(undo(k), k - 1, k - 1)
  BY <1>2, <1>4, <1>5, HasConcatenated, Concatenated, Zenon DEF Reach
<1>7. /\ cleanup_child(k) \in Calls /\ Has(cleanup_child(k), <<"kill", k>>)
  <2>1. /\ cleanup_child(k) \in Calls /\ 1 \in DOMAIN cleanup_child(k)
        /\ cleanup_child(k)[1] = <<"kill", k>>
    BY DEF cleanup_child, Calls, Ops
  <2> QED  BY <2>1 DEF Has
<1>8. Reach(cleanup_child(k) \o undo(k), k, k - 1)
  <2>1. \A l \in 1 .. k : l = k \/ l \in 1 .. (k - 1)  BY <1>1
  <2> QED  BY <1>6, <1>7, <2>1, HasConcatenated, Concatenated, Zenon DEF Reach
<1> QED  BY <1>5, <1>6, <1>8 DEF records, kills

\* RunningVm::cleanup reaches all labels.
LEMMA CleanupReach == Reach(cleanup, Qemu, Qemu)
<1> DEFINE one == cleanup_child(Qemu)
           kills == cleanup_children(Shares)
           records == cleanup_pid_files(Qemu)
           socks == cleanup_sockets(Shares)
<1>1. Shares \in 0 .. Qemu /\ Qemu \in 0 .. Qemu /\ Qemu \in Labels
  BY SupervisorAssumption DEF Labels, Qemu
<1>2. one \in Calls /\ records \in Calls /\ kills \in Calls /\ socks \in Calls
  <2>1. one \in Calls  BY <1>1 DEF cleanup_child, Calls, Ops
  <2> QED  BY <1>1, <2>1, EachCalls
           DEF cleanup_pid_files, cleanup_children, cleanup_sockets, Ops
<1>3. Has(one, <<"kill", Qemu>>)
  <2>1. 1 \in DOMAIN one /\ one[1] = <<"kill", Qemu>>  BY DEF cleanup_child
  <2> QED  BY <2>1 DEF Has
<1>4. /\ \A l \in 1 .. Shares : Has(kills, <<"kill", l>>)
      /\ \A l \in 1 .. Qemu : Has(records, <<"remove_pid_file", l>>)
  BY <1>1, HasEach DEF cleanup_pid_files, cleanup_children, Ops
<1>5. cleanup = ((one \o kills) \o records) \o socks  BY DEF cleanup
<1>6. \A l \in 1 .. Qemu : l = Qemu \/ l \in 1 .. Shares
  BY SupervisorAssumption DEF Qemu
<1> HIDE DEF one, kills, records, socks
<1>7. one \o kills \in Calls /\ \A l \in 1 .. Qemu : Has(one \o kills, <<"kill", l>>)
  BY <1>2, <1>3, <1>4, <1>6, HasConcatenated, Concatenated, Zenon
<1>8. Reach((one \o kills) \o records, Qemu, Qemu)
  BY <1>2, <1>4, <1>7, HasConcatenated, Concatenated DEF Reach
<1> QED  BY <1>2, <1>5, <1>8, HasConcatenated, Concatenated, Zenon DEF Reach

-----------------------------------------------------------------------------

\* Nothing runs before the first launch.
LEMMA InitIInv == Init => IInv
BY SupervisorAssumption
DEF Init, IInv, TypeOK, Recorded, Sweeps, Reached, UndoOK, Alive, Written, Labels, Qemu,
    Calls

\* The types are kept; the lists of calls are those of the code.
LEMMA NextTypeOK == TypeOK /\ [Next]_vars => TypeOK'
<1> SUFFICES ASSUME TypeOK, [Next]_vars PROVE TypeOK'
    OBVIOUS
<1>1. CASE Prepare  BY <1>1, Zenon DEF Prepare, TypeOK, Goto, run_dir, stop_vars
<1>2. CASE SocketExists
  BY <1>2, ErrorPaths, Zenon DEF SocketExists, Fail, Reach, TypeOK, Goto, run_dir,
     stop_vars
<1>3. CASE Spawn  BY <1>3 DEF Spawn, TypeOK, Goto, stop_vars
<1>4. CASE SpawnFails
  BY <1>4, ErrorPaths, Zenon DEF SpawnFails, Fail, Reach, TypeOK, Goto, run_dir, stop_vars
<1>5. CASE SocketReady  BY <1>5 DEF SocketReady, TypeOK, Goto, run_dir, stop_vars
<1>6. CASE SocketNotReady  BY <1>6, ErrorPaths DEF SocketNotReady, Fail, Reach, TypeOK,
    run_dir, stop_vars
<1>7. CASE CreatePidFile  BY <1>7 DEF CreatePidFile, TypeOK, Goto, stop_vars
<1>8. CASE WritePidFile
  BY <1>8, SupervisorAssumption DEF WritePidFile, Labels, Qemu, TypeOK, stop_vars
<1>9. CASE WritePidFileFails  BY <1>9, ErrorPaths DEF WritePidFileFails, Fail, Reach,
    TypeOK, run_dir, stop_vars
<1>10. CASE Drop  BY <1>10, CleanupReach DEF Drop, Reach, TypeOK, run_dir, stop_vars
<1>11. CASE CleanupStep  BY <1>11 DEF CleanupStep, Calls, TypeOK, stop_vars
<1>12. CASE CleanupEnds  BY <1>12 DEF CleanupEnds, TypeOK, Goto, run_dir, stop_vars
<1>13. CASE StopBegins  BY <1>13 DEF StopBegins, pid_files_in_run_dir, TypeOK, run_dir
<1>14. ASSUME NEW l \in Labels, StopPid(l) PROVE TypeOK'  BY <1>14 DEF StopPid, TypeOK,
    run_dir
<1>15. CASE StopEnds  BY <1>15 DEF StopEnds, TypeOK
<1>16. ASSUME NEW l \in Labels, ChildExits(l) PROVE TypeOK'  BY <1>16 DEF ChildExits,
    TypeOK, stop_vars
<1>17. ASSUME NEW l \in 1 .. Shares, BindSocket(l) PROVE TypeOK'
  <2>1. l \in Labels  BY SupervisorAssumption DEF Labels, Qemu
  <2> QED  BY <1>17, <2>1 DEF BindSocket, TypeOK, stop_vars
<1>18. CASE Crash  BY <1>18 DEF Crash, TypeOK, run_dir, stop_vars
<1>19. CASE Relaunch
  BY <1>19, SupervisorAssumption DEF Relaunch, Labels, Qemu, Calls, TypeOK
<1>20. CASE UNCHANGED vars  BY <1>20 DEF vars, TypeOK
<1> QED  BY <1>1, <1>2, <1>3, <1>4, <1>5, <1>6, <1>7, <1>8, <1>9, <1>10, <1>11,
            <1>12, <1>13, <1>14, <1>15, <1>16, <1>17, <1>18, <1>19, <1>20
         DEF Next, SupervisorStep, StopStep

\* Processes stay on record; a sweep kills what it removes the record of.
LEMMA NextRecorded == IInv /\ [Next]_vars => Recorded'
<1> SUFFICES ASSUME IInv, [Next]_vars PROVE Recorded'
    OBVIOUS
<1> USE DEF IInv
<1>1. CASE Prepare  BY <1>1, Zenon DEF Prepare, Alive, Recorded, Goto, run_dir, stop_vars
<1>2. CASE SocketExists  BY <1>2, Zenon DEF SocketExists, Alive, Recorded, Goto, Fail,
    run_dir, stop_vars
<1>3. CASE Spawn  BY <1>3 DEF Spawn, Alive, Recorded, Goto, stop_vars
<1>4. CASE SpawnFails
  BY <1>4, Zenon DEF SpawnFails, Alive, Recorded, Goto, Fail, run_dir, stop_vars
<1>5. CASE SocketReady  BY <1>5 DEF SocketReady, Alive, Recorded, Goto, run_dir, stop_vars
<1>6. CASE SocketNotReady  BY <1>6 DEF SocketNotReady, Recorded, Fail, stop_vars
<1>7. CASE CreatePidFile  BY <1>7 DEF CreatePidFile, Alive, TypeOK, Recorded, Goto,
    stop_vars
<1>8. CASE WritePidFile
  BY <1>8, SupervisorAssumption DEF WritePidFile, Alive, TypeOK, Recorded, stop_vars
<1>9. CASE WritePidFileFails  BY <1>9 DEF WritePidFileFails, Recorded, Fail, stop_vars
<1>10. CASE Drop  BY <1>10, CleanupOrder DEF Drop, Alive, KillsFirst, Recorded, run_dir,
    stop_vars
<1>11. CASE CleanupStep
  <2>1. CASE pc = "undo"  BY <1>11, <2>1 DEF CleanupStep, Recorded, stop_vars
  <2>2. CASE pc = "cleanup"
    <3>1. ASSUME ~stop_ran
          PROVE  /\ KillsFirst(todo)' /\ \A l \in Alive' : pidfile'[l] = "pid"
      BY <1>11, <2>2, <3>1, CleanupCall DEF CleanupStep, Recorded
    <3> QED  BY <1>11, <2>2, <3>1 DEF CleanupStep, Recorded, stop_vars
  <2> QED  BY <1>11, <2>1, <2>2 DEF CleanupStep
<1>12. CASE CleanupEnds  BY <1>12 DEF CleanupEnds, Recorded, Goto, stop_vars
<1>13. CASE StopBegins  BY <1>13, Zenon DEF StopBegins, Alive, KillsFirst, Recorded,
    run_dir
<1>14. ASSUME NEW l \in Labels, StopPid(l) PROVE Recorded'
  <2> SUFFICES ASSUME ~stop_ran PROVE Recorded'
      BY <1>14 DEF StopPid, Recorded
  <2>1. stopper = "sweep" /\ ~up /\ pidfile[l] # "none"
    BY <1>14 DEF StopPid, IsNext, Sweeps, pid_files_in_run_dir, Recorded
  <2>2. /\ Alive' \subseteq Alive
        /\ \A m \in Alive' : pidfile[m] = "pid" => pidfile'[m] = "pid"
    BY <1>14, <2>1 DEF StopPid, Alive, TypeOK
  <2>3. UNCHANGED <<stopper, up, pc, cur, todo>>  BY <1>14, <2>1 DEF StopPid
  <2> QED  BY <2>1, <2>2, <2>3 DEF KillsFirst, Recorded
<1>15. CASE StopEnds
  <2> SUFFICES ASSUME ~stop_ran PROVE Recorded'
      BY <1>15 DEF StopEnds, Recorded
  <2>1. stopper = "sweep" /\ ~up /\ stopper' = "swept"  BY <1>15 DEF StopEnds, Sweeps,
      Recorded
  <2>2. \A l \in Labels : pidfile[l] = "none" /\ pidfile'[l] = "none"
    BY <1>15, <2>1 DEF StopEnds, Sweeps, pid_files_in_run_dir
  <2>3. UNCHANGED <<proc, up, pc, cur, todo>>  BY <1>15 DEF StopEnds
  <2> QED  BY <2>1, <2>2, <2>3 DEF KillsFirst, Alive, Recorded
<1>16. ASSUME NEW l \in Labels, ChildExits(l) PROVE Recorded'
  BY <1>16 DEF ChildExits, Alive, KillsFirst, Recorded, stop_vars
<1>17. ASSUME NEW l \in 1 .. Shares, BindSocket(l) PROVE Recorded'
  <2>1. l \in Labels  BY SupervisorAssumption DEF Labels, Qemu
  <2>2. Alive' = Alive  BY <1>17, <2>1 DEF BindSocket, Alive, TypeOK
  <2> QED  BY <1>17, <2>2, Zenon DEF BindSocket, KillsFirst, Recorded, stop_vars
<1>18. CASE Crash
  BY <1>18, Zenon DEF Crash, Alive, KillsFirst, Recorded, run_dir, stop_vars
<1>19. CASE Relaunch
  BY <1>19, SupervisorAssumption DEF Relaunch, Alive, Recorded
<1>20. CASE UNCHANGED vars  BY <1>20, Zenon DEF vars, Alive, KillsFirst, Recorded
<1> QED  BY <1>1, <1>2, <1>3, <1>4, <1>5, <1>6, <1>7, <1>8, <1>9, <1>10, <1>11,
            <1>12, <1>13, <1>14, <1>15, <1>16, <1>17, <1>18, <1>19, <1>20, Zenon
         DEF Next, SupervisorStep, StopStep

\* Once the supervisor is dead, its run directory changes only by the sweep.
LEMMA NextSweeps == IInv /\ [Next]_vars => Sweeps'
<1> SUFFICES ASSUME IInv, [Next]_vars PROVE Sweeps'
    OBVIOUS
<1> USE DEF IInv
<1>1. CASE SupervisorStep \/ Drop
  <2>1. up /\ UNCHANGED <<stopper, up>>
    BY <1>1 DEF SupervisorStep, Drop, Prepare, SocketExists, Spawn, SpawnFails,
                SocketReady, SocketNotReady, CreatePidFile, WritePidFile,
                WritePidFileFails, CleanupStep, CleanupEnds, Goto, Fail, stop_vars
  <2> QED  BY <2>1 DEF Sweeps
<1>2. CASE StopBegins  BY <1>2 DEF StopBegins, Sweeps, run_dir, pid_files_in_run_dir
<1>3. ASSUME NEW l \in Labels, StopPid(l) PROVE Sweeps'  BY <1>3 DEF StopPid, TypeOK,
    Sweeps, pid_files_in_run_dir
<1>4. CASE StopEnds  BY <1>4 DEF StopEnds, Sweeps
<1>5. ASSUME NEW l \in Labels, ChildExits(l) PROVE Sweeps'  BY <1>5 DEF ChildExits,
    Sweeps, stop_vars, Launched, pid_files_in_run_dir
<1>6. ASSUME NEW l \in 1 .. Shares, BindSocket(l) PROVE Sweeps'
  <2>1. l \in Alive
    BY <1>6, SupervisorAssumption DEF BindSocket, Alive, Labels, Qemu
  <2>2. ~(stopper = "swept" /\ Launched /\ ~stop_ran)
    BY <2>1 DEF Recorded, Alive, Sweeps, Launched
  <2> QED  BY <1>6, <2>2 DEF BindSocket, Sweeps, stop_vars, Launched, pid_files_in_run_dir
<1>7. CASE Crash  BY <1>7 DEF Crash, Sweeps, stop_vars
<1>8. CASE Relaunch  BY <1>8 DEF Relaunch, Sweeps
<1>9. CASE UNCHANGED vars  BY <1>9 DEF vars, Sweeps, Launched, pid_files_in_run_dir
<1> QED  BY <1>1, <1>2, <1>3, <1>4, <1>5, <1>6, <1>7, <1>8, <1>9 DEF Next, StopStep

\* One call of a cleanup brings its end nearer.
LEMMA CallUndoes ==
    ASSUME TypeOK, Undoes(todo), CleanupStep
    PROVE  Undoes(todo)'
<1>1. /\ Len(todo) \in Nat /\ Len(todo) > 0
      /\ DOMAIN todo = 1 .. Len(todo) /\ Head(todo) = todo[1] /\ todo[1] \in Ops \X Labels
  BY DEF TypeOK, Calls, CleanupStep
<1>2. /\ DOMAIN todo' = 1 .. (Len(todo) - 1)
      /\ \A i \in 1 .. (Len(todo) - 1) : todo'[i] = todo[i + 1]
  BY <1>1 DEF CleanupStep
<1>3. ASSUME NEW call, Has(todo, call), todo[1] # call PROVE Has(todo', call)
  <2>1. PICK i \in 1 .. Len(todo) : todo[i] = call  BY <1>1, <1>3 DEF Has
  <2> DEFINE j == i - 1
  <2>2. j \in 1 .. (Len(todo) - 1) /\ j + 1 = i  BY <1>1, <1>3, <2>1
  <2> HIDE DEF j
  <2>3. j \in DOMAIN todo' /\ todo'[j] = call  BY <1>2, <2>1, <2>2
  <2> QED  BY <2>3 DEF Has
<1>4. ASSUME NEW l \in Alive' PROVE Has(todo', <<"kill", l>>)
  <2>1. l \in Alive /\ todo[1] # <<"kill", l>>
    BY <1>1, <1>4 DEF CleanupStep, Alive, TypeOK
  <2> QED  BY <1>3, <2>1 DEF Undoes
<1>5. ASSUME NEW l \in Written' PROVE Has(todo', <<"remove_pid_file", l>>)
  <2>1. l \in Written /\ todo[1] # <<"remove_pid_file", l>>
    BY <1>1, <1>5 DEF CleanupStep, Written, TypeOK
  <2> QED  BY <1>3, <2>1 DEF Undoes
<1> QED  BY <1>4, <1>5 DEF Undoes

\* A list that reaches what lives and what is recorded undoes it.
LEMMA ReachUndoes ==
    ASSUME NEW calls, NEW m, NEW n, Reach(calls, m, n),
           Alive \subseteq 1 .. m, Written \subseteq 1 .. n
    PROVE  Undoes(calls)
BY DEF Reach, Undoes

\* launch_plan that gives up has a list of calls that undoes what it did.
LEMMA FailReached ==
    ASSUME NEW calls, Fail(calls), Undoes(calls), UNCHANGED <<proc, pidfile>>
    PROVE  Reached'
<1>1. Alive' = Alive /\ Written' = Written  BY DEF Alive, Written
<1>2. ASSUME calls = <<>> PROVE Alive = {} /\ Written = {}
  BY <1>2 DEF Undoes, Has
<1>3. Undoes(todo)'  BY <1>1 DEF Undoes, Fail
<1> QED  BY <1>1, <1>2, <1>3 DEF Reached, Fail

\* A launch runs what it has started so far, and its cleanup ends all of it.
LEMMA NextReached == IInv /\ [Next]_vars => Reached'
<1> SUFFICES ASSUME IInv, [Next]_vars PROVE Reached'
    OBVIOUS
<1> USE DEF IInv
<1>1. CASE Prepare  BY <1>1 DEF Prepare, Alive, Written, Reached, Goto, run_dir
<1>2. CASE SocketExists
  <2>1. CASE cur \in socket
    BY <1>2, <2>1, ErrorPaths, ReachUndoes, FailReached DEF SocketExists, Reached,
       TypeOK, run_dir
  <2>2. CASE cur \notin socket
    BY <1>2, <2>2 DEF SocketExists, Reached, Alive, Written, Goto, run_dir
  <2> QED  BY <2>1, <2>2
<1>3. CASE Spawn
  BY <1>3, SupervisorAssumption DEF Spawn, Reached, Alive, Written, Labels, TypeOK, Goto
<1>4. CASE SpawnFails
  <2>1. CASE cur = Qemu
    BY <1>4, <2>1, ErrorPaths, ReachUndoes, FailReached DEF SpawnFails, Reached, TypeOK,
       run_dir
  <2>2. CASE cur # Qemu  BY <1>4, <2>2 DEF SpawnFails, Reached, Goto
  <2> QED  BY <2>1, <2>2
<1>5. CASE SocketReady  BY <1>5 DEF SocketReady, Reached, Alive, Written, Goto, run_dir
<1>6. CASE SocketNotReady
  BY <1>6, ErrorPaths, ReachUndoes, FailReached DEF SocketNotReady, Reached, TypeOK,
     run_dir
<1>7. CASE CreatePidFile  BY <1>7 DEF CreatePidFile, Reached, Alive, Written, Goto
<1>8. CASE WritePidFile
  BY <1>8, SupervisorAssumption DEF WritePidFile, Reached, Alive, Written, Labels, Qemu,
     TypeOK
<1>9. CASE WritePidFileFails
  BY <1>9, ErrorPaths, ReachUndoes, FailReached DEF WritePidFileFails, Reached, TypeOK,
     run_dir
<1>10. CASE Drop
  <2>1. Undoes(cleanup)
    BY CleanupReach, ReachUndoes DEF Alive, Written, Labels
  <2>2. Undoes(todo)'  BY <1>10, <2>1 DEF Drop, Undoes, Alive, Written, run_dir
  <2> QED  BY <1>10, <2>2 DEF Drop, Reached
<1>11. CASE CleanupStep
  BY <1>11, CallUndoes DEF CleanupStep, Reached
<1>12. CASE CleanupEnds
  BY <1>12 DEF CleanupEnds, Reached, Undoes, Has, Alive, Written, run_dir
<1>13. CASE StopBegins
  BY <1>13 DEF StopBegins, Reached, Alive, Written, Undoes, run_dir
<1>14. ASSUME NEW l \in Labels, StopPid(l) PROVE Reached'
  <2>1. Alive' \subseteq Alive /\ Written' \subseteq Written
    BY <1>14 DEF StopPid, Alive, Written, TypeOK, run_dir
  <2> QED  BY <1>14, <2>1 DEF StopPid, Reached, Undoes
<1>15. CASE StopEnds
  <2>1. Alive' \subseteq Alive /\ Written' \subseteq Written
    BY <1>15 DEF StopEnds, Alive, Written
  <2> QED  BY <1>15, <2>1 DEF StopEnds, Reached, Undoes
<1>16. ASSUME NEW l \in Labels, ChildExits(l) PROVE Reached'
  <2>1. Alive' \subseteq Alive /\ Written' \subseteq Written
    BY <1>16 DEF ChildExits, Alive, Written
  <2> QED  BY <1>16, <2>1 DEF ChildExits, Reached, Undoes
<1>17. ASSUME NEW l \in 1 .. Shares, BindSocket(l) PROVE Reached'
  <2>1. Alive' = Alive /\ Written' = Written
    BY <1>17, SupervisorAssumption DEF BindSocket, Alive, Written
  <2> QED  BY <1>17, <2>1 DEF BindSocket, Reached, Undoes
<1>18. CASE Crash  BY <1>18 DEF Crash, Reached
<1>19. CASE Relaunch
  BY <1>19 DEF Relaunch, Reached, Sweeps, Alive, Written
<1>20. CASE UNCHANGED vars
  <2>1. Alive' = Alive /\ Written' = Written  BY <1>20 DEF vars, Alive, Written
  <2> QED  BY <1>20, <2>1 DEF vars, Reached, Undoes
<1> QED  BY <1>1, <1>2, <1>3, <1>4, <1>5, <1>6, <1>7, <1>8, <1>9, <1>10, <1>11,
            <1>12, <1>13, <1>14, <1>15, <1>16, <1>17, <1>18, <1>19, <1>20
         DEF Next, SupervisorStep, StopStep

\* A step that a dead supervisor leaves, or that kills it, leaves its list of
\* calls and starts no process.
LEMMA DeadSupervisor ==
    ASSUME IInv, [Next]_vars, ~up'
    PROVE  /\ pc' = pc /\ todo' = todo /\ Alive' \subseteq Alive
           /\ up => pc \notin {"failed", "stopped"}
<1>1. ASSUME up PROVE Crash \/ UNCHANGED vars \/ up'
  BY <1>1, Zenon DEF Next, SupervisorStep, StopStep, Prepare, SocketExists, Spawn,
     SpawnFails, SocketReady, SocketNotReady, CreatePidFile, WritePidFile,
     WritePidFileFails, Drop, CleanupStep, CleanupEnds, StopBegins, StopPid, StopEnds,
     ChildExits, BindSocket, Relaunch, Goto, Fail
<1>2. CASE Crash  BY <1>2 DEF Crash, Alive, run_dir
<1>3. CASE UNCHANGED vars  BY <1>3 DEF vars, Alive
<1>4. CASE ~up
  <2>1. \/ StopBegins \/ StopStep
        \/ \E l \in Labels : ChildExits(l)
        \/ \E l \in 1 .. Shares : BindSocket(l)
        \/ UNCHANGED vars
    BY <1>4, Zenon DEF Next, SupervisorStep, Prepare, SocketExists, Spawn, SpawnFails,
       SocketReady, SocketNotReady, CreatePidFile, WritePidFile, WritePidFileFails, Drop,
       CleanupStep, CleanupEnds, Crash, Relaunch
  <2>2. CASE StopBegins  BY <1>4, <2>2 DEF StopBegins, Alive, run_dir
  <2>3. ASSUME NEW l \in Labels, StopPid(l)
        PROVE  pc' = pc /\ todo' = todo /\ Alive' \subseteq Alive
    BY <2>3 DEF StopPid, Alive, IInv, TypeOK, run_dir
  <2>4. CASE StopEnds  BY <1>4, <2>4 DEF StopEnds, Alive
  <2>5. ASSUME NEW l \in Labels, ChildExits(l)
        PROVE  pc' = pc /\ todo' = todo /\ Alive' \subseteq Alive
    BY <2>5 DEF ChildExits, Alive, IInv, TypeOK
  <2>6. ASSUME NEW l \in 1 .. Shares, BindSocket(l)
        PROVE  pc' = pc /\ todo' = todo /\ Alive' \subseteq Alive
    BY <2>6, SupervisorAssumption DEF BindSocket, Alive, Labels, Qemu, IInv, TypeOK
  <2> QED  BY <1>3, <1>4, <2>1, <2>2, <2>3, <2>4, <2>5, <2>6, Zenon DEF StopStep
<1> QED  BY <1>1, <1>2, <1>3, <1>4, Zenon

\* So what a failed launch has yet to kill stays in its list.
LEMMA NextUndoOK == IInv /\ [Next]_vars => UndoOK'
<1> SUFFICES ASSUME IInv, [Next]_vars PROVE UndoOK'
    OBVIOUS
<1>1. CASE up'
  <2>1. Reached'  BY NextReached
  <2> QED  BY <1>1, <2>1, Zenon DEF Reached, Undoes, UndoOK
<1>2. CASE ~up'
  BY <1>2, DeadSupervisor DEF IInv, UndoOK, Reached, Undoes
<1> QED  BY <1>1, <1>2

\* The invariant holds of every reachable state.
LEMMA AlwaysIInv == Spec => []IInv
<1>1. IInv /\ [Next]_vars => IInv'
  BY NextTypeOK, NextRecorded, NextSweeps, NextReached, NextUndoOK DEF IInv
<1> QED  BY <1>1, InitIInv, PTL DEF Spec

-----------------------------------------------------------------------------

\* Whatever fails, whatever exits and whenever the supervisor dies, what it
\* started is on record, in every step of launch_plan and of RunningVm::cleanup,
\* after its death and while the directory is swept, for any number of shares and
\* any number of uses of the directory.  Two processes may not be: the one
\* launch_plan is starting, and one that a failed launch was about to kill when
\* it died, for the error paths unlink the pid files first.  Nothing is said of a
\* VM that `fend stop` has met.
THEOREM SupervisorRecords == Spec => []LivingAreRecorded
<1>1. ASSUME IInv, ~stop_ran, NEW l \in Alive
      PROVE  \/ pidfile[l] = "pid"
             \/ l = cur /\ ~Launched
             \/ pc = "undo" /\ Has(todo, <<"kill", l>>)
  <2>1. CASE pc = "undo"  BY <1>1, <2>1 DEF IInv, UndoOK
  <2>2. CASE pc \in {"failed", "stopped"}  BY <1>1, <2>2 DEF IInv, UndoOK, Reached
  <2>3. CASE pc \in {"wait_for_socket", "create_pid_file", "write_pid_file"}
    BY <1>1, <2>3 DEF IInv, Recorded, Launched
  <2> QED  BY <1>1, <2>1, <2>2, <2>3 DEF IInv, Recorded
<1>2. IInv => LivingAreRecorded  BY <1>1, Zenon DEF LivingAreRecorded, Has
<1> QED  BY <1>2, AlwaysIInv, PTL

\* sweep_orphan_run_dirs after the death of a supervisor with a launched VM, be
\* it in the middle of RunningVm::cleanup, kills all of the VM and leaves no pid
\* file and no socket in the directory.
THEOREM SupervisorSwept == Spec => []SweepLeavesNothing
<1>1. IInv => SweepLeavesNothing
  BY DEF IInv, Recorded, Sweeps, SweepLeavesNothing, Launched, Alive
<1> QED  BY <1>1, AlwaysIInv, PTL

\* Every error path of launch_plan but the spawn of a virtiofsd, and
\* RunningVm::cleanup, end with no process running and no pid on record, also
\* with a `fend stop` at work in the same directory.
THEOREM SupervisorLeavesNothing == Spec => []NothingLeftRunning
<1>1. IInv => NothingLeftRunning
  BY DEF IInv, Reached, NothingLeftRunning, Written
<1> QED  BY <1>1, AlwaysIInv, PTL

-----------------------------------------------------------------------------
(* Bootstrap, for any options, any number of releases and any number of    *)
(* faults.                                                                 *)
(*                                                                         *)
(* The argument: what is in the directories was compared with SHA256SUMS   *)
(* or is being compared, and the files that are only made when they are    *)
(* missing are made, and lost, in one order: SHA256SUMS, kernel, initrd,   *)
(* rootfs.                                                                 *)

\* The steps for one download, and the steps after all of them.
Loop == {"is_file", "curl", "rename", "verify"}
Later == {"fendd", "claude", "claude_curl", "build_rootfs", "docker", "mkfs",
          "write_metadata"}

File == [rel : Int, whole : BOOLEAN]

\* The types of the variables that matter here.
BootTypes ==
    /\ files \in [Files -> File]
    /\ tmp \in [Downloads -> File]
    /\ boot_pc \in {"idle", "ok", "err", "tools"} \union Loop \union Later
    /\ at \in Downloads
    /\ opt \in [rebuild : BOOLEAN, force : BOOLEAN, skip : BOOLEAN]
    /\ release \in Nat \ {0}

\* The running bootstrap has file f behind it, is comparing it, has begun to
\* replace what was there.
Passed(f) == boot_pc \in Later \/ (boot_pc \in Loop /\ f = "kernel" /\ at = "initrd")
UnderCheck(f) == boot_pc = "verify" /\ at = f
Forcing == opt.force /\ boot_pc \in Loop \union Later

Settled == "unchecked" \notin left /\ "force" \notin left

\* A download is under way because the file is missing, or by force.
DownloadOK ==
    /\ boot_pc \in {"curl", "rename"} => tmp[at].rel # 0
    /\ boot_pc \in {"curl", "rename"} /\ ~opt.force => ~is_file(at)

\* SHA256SUMS comes before the files it speaks of.
SumsFirst ==
    /\ \A f \in Artifacts : is_file(f) => is_file("sums")
    /\ boot_pc \in Loop /\ at # "sums" => is_file("sums")
    /\ ~UnderCheck("sums")

\* What the bootstrap has behind it is there, and was compared if by force.
PassedOK ==
    \A f \in Artifacts : Passed(f) => is_file(f) /\ (opt.force => Matches(f))

WholeOK ==
    "unchecked" \notin left =>
        \A f \in Artifacts : is_file(f) /\ ~UnderCheck(f) => files[f].whole

RelOK ==
    Settled /\ ~Forcing =>
        \A f \in Artifacts : is_file(f) /\ ~UnderCheck(f)
                                => files[f].rel = files["sums"].rel

\* The root file system is made after the kernel, and goes before it.
RootfsOK ==
    /\ Settled /\ ~Forcing /\ is_file("rootfs") =>
         /\ is_file("kernel") /\ ~UnderCheck("kernel")
         /\ files["rootfs"].rel \in detect_kernel_version
    /\ "rootfs" \notin left /\ is_file("rootfs") /\ boot_pc # "mkfs" => files["rootfs"].whole
    /\ boot_pc = "write_metadata" => is_file("rootfs")
    /\ boot_pc = "mkfs" => files["rootfs"].rel \in detect_kernel_version
    /\ opt.force /\ boot_pc = "write_metadata" =>
         files["rootfs"].rel \in detect_kernel_version /\ files["rootfs"].whole

OkComplete == boot_pc = "ok" => ~runtime_missing

BootInv ==
    /\ BootTypes /\ DownloadOK /\ SumsFirst /\ PassedOK /\ WholeOK /\ RelOK
    /\ RootfsOK /\ OkComplete

-----------------------------------------------------------------------------

\* What a file can become.
LEMMA FileContents ==
    /\ NoFile \in File /\ ~NoFile.whole /\ NoFile.rel = 0
    /\ \A r \in Int : /\ Whole(r) \in File /\ Whole(r).whole /\ Whole(r).rel = r
                     /\ Broken(r) \in File /\ Broken(r).rel = r
                     /\ Whole(r) # NoFile
BY DEF NoFile, Whole, Broken, File

\* Nothing is there at first.
LEMMA InitBootInv == BootInit => BootInv
BY DEF BootInit, BootInv, BootTypes, File, Files, Downloads, NoFile, Later, DownloadOK,
   SumsFirst, PassedOK, WholeOK, RelOK, RootfsOK, detect_kernel_version, OkComplete,
   Passed, UnderCheck, is_file

\* The invariant does not speak of which release can be downloaded.
LEMMA BootFrame ==
    ASSUME BootInv, UNCHANGED <<files, tmp, boot_pc, at, opt, left>>,
           release' \in Nat \ {0}
    PROVE  BootInv'
<1> USE DEF BootInv
<1>1. /\ files' = files /\ tmp' = tmp /\ boot_pc' = boot_pc /\ at' = at
      /\ opt' = opt /\ left' = left
  OBVIOUS
<1>2. /\ \A f : is_file(f)' <=> is_file(f)
      /\ \A f : Passed(f)' <=> Passed(f)
      /\ \A f : UnderCheck(f)' <=> UnderCheck(f)
      /\ \A f : Matches(f)' <=> Matches(f)
      /\ Forcing' <=> Forcing
      /\ Settled' <=> Settled
  BY <1>1, Zenon DEF is_file, Passed, UnderCheck, Matches, Forcing, Settled
<1>3. BootTypes'  BY <1>1, Zenon DEF BootTypes
<1>4. DownloadOK' /\ SumsFirst'  BY <1>1, <1>2, Zenon DEF DownloadOK, SumsFirst
<1>5. PassedOK' /\ WholeOK'  BY <1>1, <1>2, Zenon DEF PassedOK, WholeOK
<1>6. RelOK' /\ RootfsOK'  BY <1>1, <1>2, Zenon DEF RelOK, RootfsOK, detect_kernel_version
<1>7. OkComplete'  BY <1>1, <1>2, Zenon DEF OkComplete, runtime_missing
<1> QED  BY <1>3, <1>4, <1>5, <1>6, <1>7, Zenon

\* Every step of a bootstrap, and every way it can end, keeps the invariant.
LEMMA NextBootInv ==
    ASSUME BootInv, [BootNext]_boot_vars
    PROVE  BootInv'
<1> USE BootstrapAssumption DEF BootInv
<1>1. CASE Begin
  <2>1. BootTypes' /\ DownloadOK' /\ SumsFirst'
    BY <1>1 DEF Begin, BootTypes, Loop, DownloadOK, SumsFirst, UnderCheck, is_file
  <2>2. PassedOK' /\ WholeOK'
    BY <1>1 DEF Begin, Loop, Later, PassedOK, WholeOK, Passed, UnderCheck, is_file,
       NoFault
  <2>3. RelOK'
    BY <1>1 DEF Begin, Loop, Later, RelOK, UnderCheck, Forcing, Settled, is_file, NoFault
  <2>4. RootfsOK' /\ OkComplete'
    BY <1>1 DEF Begin, Loop, Later, RootfsOK, OkComplete, UnderCheck, Forcing, Settled,
       is_file, NoFault, runtime_missing, detect_kernel_version
  <2> QED  BY <2>1, <2>2, <2>3, <2>4, Zenon
<1>2. CASE CheckTools
  <2>1. BootTypes' /\ DownloadOK' /\ SumsFirst'
    BY <1>2 DEF CheckTools, BootTypes, Downloads, Loop, DownloadOK, SumsFirst,
       UnderCheck, is_file, Proceed
  <2>2. PassedOK' /\ WholeOK'
    BY <1>2 DEF CheckTools, Later, PassedOK, WholeOK, Passed, UnderCheck, is_file,
       Proceed, NoFault
  <2>3. RelOK'
    BY <1>2 DEF CheckTools, Loop, Later, RelOK, UnderCheck, Forcing, Settled, is_file,
       Proceed, NoFault
  <2>4. RootfsOK' /\ OkComplete'
    BY <1>2 DEF CheckTools, Loop, RootfsOK, OkComplete, UnderCheck, Forcing, Settled,
       is_file, Proceed, NoFault, detect_kernel_version
  <2> QED  BY <2>1, <2>2, <2>3, <2>4, Zenon
<1>3. CASE SkipDownload
  <2>1. BootTypes' /\ DownloadOK' /\ SumsFirst'  BY <1>3, Zenon DEF SkipDownload,
      BootTypes, Downloads, Artifacts, Later, DownloadOK, SumsFirst, UnderCheck,
      is_file, Proceed, Advance
  <2>2. PassedOK'
    BY <1>3 DEF SkipDownload, BootTypes, Downloads, Artifacts, Loop, Later, PassedOK,
       Passed, is_file, Proceed, Advance
  <2>5. WholeOK'  BY <1>3 DEF SkipDownload, WholeOK, UnderCheck, is_file, Proceed, NoFault,
      Advance
  <2>3. RelOK'  BY <1>3, Zenon DEF SkipDownload, RelOK, UnderCheck, Forcing, Settled,
      is_file, NoFault
  <2>4. RootfsOK' /\ OkComplete'
    BY <1>3 DEF SkipDownload, RootfsOK, detect_kernel_version, OkComplete, UnderCheck,
       Forcing, Settled, is_file, Proceed, NoFault, Advance
  <2> QED  BY <2>1, <2>2, <2>3, <2>4, <2>5, Zenon
<1>4. CASE BeginDownload
  BY <1>4 DEF BeginDownload, BootTypes, File, Broken, Loop, Later, DownloadOK,
     SumsFirst, PassedOK, WholeOK, RelOK, RootfsOK, detect_kernel_version, OkComplete,
     Passed, UnderCheck, Forcing, Settled, is_file, Proceed, NoFault, Matches
<1>5. CASE Curl
  <2>1. tmp' \in [Downloads -> File]
    <3> HIDE DEF File, Whole
    <3> QED  BY <1>5, FileContents DEF Curl, File, BootTypes
  <2>2. BootTypes'  BY <1>5, <2>1 DEF Curl, BootTypes, Loop, Proceed
  <2>3. DownloadOK' /\ SumsFirst' /\ PassedOK'  BY <1>5 DEF Curl, BootTypes, Whole,
      Later, DownloadOK, SumsFirst, PassedOK, Passed, UnderCheck, is_file, Proceed,
      Matches
  <2>4. WholeOK' /\ RelOK' /\ RootfsOK' /\ OkComplete'
    BY <1>5 DEF Curl, Loop, WholeOK, RelOK, RootfsOK, detect_kernel_version, OkComplete,
       UnderCheck, Forcing, Settled, is_file, Proceed, NoFault
  <2> QED  BY <2>2, <2>3, <2>4, Zenon
<1>6. CASE Rename
  <2>1. BootTypes' /\ DownloadOK' /\ SumsFirst'  BY <1>6 DEF Rename, BootTypes, File,
      Files, Downloads, Artifacts, NoFile, Loop, DownloadOK, SumsFirst, UnderCheck,
      is_file, Proceed, Advance
  <2>2. PassedOK'  BY <1>6 DEF Rename, BootTypes, Later, PassedOK, Passed, is_file,
      Proceed, Matches, Advance
  <2>3. WholeOK'  BY <1>6, Zenon DEF Rename, BootTypes, Files, Downloads, Artifacts,
      WholeOK, UnderCheck, is_file, Proceed, NoFault
  <2>4. RelOK'  BY <1>6 DEF Rename, Loop, DownloadOK, SumsFirst, RelOK, UnderCheck,
      Forcing, Settled, is_file, Proceed, NoFault, Advance
  <2>5. RootfsOK' /\ OkComplete'
    BY <1>6, Zenon DEF Rename, BootTypes, Files, Downloads, Artifacts, Loop, DownloadOK,
       RootfsOK, detect_kernel_version, OkComplete, UnderCheck, Forcing, Settled, is_file,
       Proceed, NoFault, Advance
  <2> QED  BY <2>1, <2>2, <2>3, <2>4, <2>5, Zenon
<1>7. CASE verify_ubuntu_checksum
  <2>1. CASE Matches(at)
    <3>1. BootTypes' /\ DownloadOK' /\ SumsFirst'
      BY <1>7, <2>1 DEF verify_ubuntu_checksum, BootTypes, Downloads, Artifacts, Loop,
         Later, DownloadOK, SumsFirst, UnderCheck, is_file, Proceed, Advance
    <3>2. PassedOK' /\ WholeOK'  BY <1>7, <2>1 DEF verify_ubuntu_checksum, BootTypes,
        Downloads, Artifacts, NoFile, Later, PassedOK, WholeOK, Passed, UnderCheck,
        is_file, Proceed, Matches, Advance
    <3>3. RelOK'
      BY <1>7, <2>1 DEF verify_ubuntu_checksum, Matches, PassedOK, Passed, RelOK,
         UnderCheck, Forcing, Settled, Loop, Later, BootTypes, Downloads, Artifacts,
         is_file, Proceed, Advance
    <3>4. RootfsOK' /\ OkComplete'
      BY <1>7, <2>1 DEF verify_ubuntu_checksum, Loop, Later, RootfsOK,
         detect_kernel_version, OkComplete, UnderCheck, Forcing, Settled, is_file,
         Proceed, Advance
    <3> QED  BY <3>1, <3>2, <3>3, <3>4, Zenon
  <2>2. CASE ~Matches(at)
    <3>1. /\ boot_pc = "verify" /\ boot_pc' = "err" /\ at \in Artifacts
          /\ files' = [files EXCEPT ![at] = NoFile]
          /\ left' = left \union Leaves("is_file")
          /\ UNCHANGED <<tmp, at, opt, release>>
      BY <1>7, <2>2 DEF verify_ubuntu_checksum, BootTypes, Downloads, SumsFirst,
         UnderCheck, Proceed
    <3>2. files' \in [Files -> File]
      <4> HIDE DEF File, NoFile
      <4> QED  BY <3>1, FileContents DEF BootTypes, Files
    <3>3. BootTypes'  BY <3>1, <3>2 DEF BootTypes
    <3>4. DownloadOK' /\ SumsFirst'  BY <3>1 DEF BootTypes, Later, DownloadOK,
        SumsFirst, UnderCheck, is_file
    <3>5. PassedOK' /\ OkComplete'  BY <3>1 DEF Loop, Later, PassedOK, OkComplete, Passed
    <3>6. WholeOK'  BY <3>1, Zenon DEF BootTypes, Files, Downloads, WholeOK, UnderCheck,
        is_file
    <3>7. RelOK'  BY <3>1, Zenon DEF BootTypes, Files, Downloads, Artifacts, NoFile, Loop,
        Later, RelOK, UnderCheck, Forcing, Settled, is_file, Leaves
    <3>8. RootfsOK'  BY <3>1, Zenon DEF BootTypes, Files, Downloads, Artifacts,
        RootfsOK, detect_kernel_version, UnderCheck, Forcing, Settled, is_file, Leaves
    <3> QED  BY <3>3, <3>4, <3>5, <3>6, <3>7, <3>8, Zenon
  <2> QED  BY <2>1, <2>2, Zenon
<1>8. CASE NoEntry
  BY <1>8 DEF NoEntry, BootTypes, Later, DownloadOK, SumsFirst, PassedOK,
     WholeOK, RelOK, RootfsOK, detect_kernel_version, OkComplete, Passed, UnderCheck,
     Settled, is_file, Proceed, Matches, Leaves
<1>9. CASE resolve_fendd_binary
  <2>1. BootTypes' /\ DownloadOK' /\ SumsFirst'
    BY <1>9 DEF resolve_fendd_binary, BootTypes, Loop, Later, DownloadOK, SumsFirst,
       UnderCheck, is_file, Proceed
  <2>2. PassedOK' /\ WholeOK'
    BY <1>9 DEF resolve_fendd_binary, Later, PassedOK, WholeOK, Passed, UnderCheck,
       is_file, Proceed, NoFault, Matches
  <2>3. RelOK'
    BY <1>9 DEF resolve_fendd_binary, Later, RelOK, UnderCheck, Forcing, Settled,
       is_file, Proceed, NoFault
  <2>4. RootfsOK' /\ OkComplete'
    BY <1>9 DEF resolve_fendd_binary, Later, RootfsOK, OkComplete, UnderCheck, Forcing,
       Settled, is_file, Proceed, NoFault, detect_kernel_version
  <2> QED  BY <2>1, <2>2, <2>3, <2>4, Zenon
<1>10. CASE maybe_download_claude
  <2>1. files' \in [Files -> File]
    <3>1. \/ files' = files
          \/ files' = [files EXCEPT !["claude"] = Broken(release)]
      BY <1>10 DEF maybe_download_claude
    <3>2. Broken(release) \in File  BY FileContents DEF BootTypes
    <3> HIDE DEF File, Broken
    <3> QED  BY <3>1, <3>2 DEF BootTypes
  <2>2. BootTypes'  BY <1>10, <2>1 DEF maybe_download_claude, BootTypes, Later, Proceed
  <2>3. DownloadOK' /\ SumsFirst' /\ PassedOK'  BY <1>10 DEF maybe_download_claude,
      BootTypes, Files, Downloads, Later, DownloadOK, SumsFirst, PassedOK, Passed,
      UnderCheck, is_file, Proceed, Matches
  <2>4. WholeOK' /\ RelOK' /\ OkComplete'  BY <1>10 DEF maybe_download_claude,
      BootTypes, Files, Downloads, Later, PassedOK, WholeOK, RelOK, OkComplete, Passed,
      UnderCheck, Forcing, Settled, Proceed, NoFault
  <2>5. RootfsOK'
    <3>1. files'["rootfs"] = files["rootfs"] /\ files'["kernel"] = files["kernel"]
      BY <1>10 DEF maybe_download_claude, BootTypes, Files, Downloads, Artifacts
    <3>2. /\ boot_pc \in Later \ {"mkfs", "write_metadata"}
          /\ boot_pc' \in Later \ {"mkfs", "write_metadata"}
          /\ opt' = opt /\ left' = left
      BY <1>10 DEF maybe_download_claude, Later, Proceed, NoFault
    <3> QED  BY <3>1, <3>2 DEF RootfsOK, Later, UnderCheck, Forcing, Settled, is_file,
        detect_kernel_version
  <2> QED  BY <2>2, <2>3, <2>4, <2>5, Zenon
<1>11. CASE DownloadClaude
  <2>1. BootTypes' /\ DownloadOK' /\ SumsFirst'
    BY <1>11 DEF DownloadClaude, BootTypes, File, Files, Artifacts, Whole, Loop, Later,
       DownloadOK, SumsFirst, UnderCheck, is_file, Proceed
  <2>2. PassedOK' /\ WholeOK'
    BY <1>11 DEF DownloadClaude, BootTypes, Artifacts, Loop, PassedOK, WholeOK, Passed,
       UnderCheck, is_file, Proceed, NoFault, Matches
  <2>3. RelOK'
    BY <1>11 DEF DownloadClaude, Artifacts, Later, PassedOK, RelOK, Passed, UnderCheck,
       Forcing, Settled, Proceed, NoFault
  <2>4. RootfsOK' /\ OkComplete'
    BY <1>11 DEF DownloadClaude, Later, RootfsOK, OkComplete, UnderCheck, Forcing,
       Settled, is_file, Proceed, NoFault, detect_kernel_version
  <2> QED  BY <2>1, <2>2, <2>3, <2>4, Zenon
<1>12. CASE DownloadClaudeFails
  <2>1. BootTypes' /\ DownloadOK' /\ SumsFirst'
    BY <1>12 DEF DownloadClaudeFails, BootTypes, File, Files, Artifacts, NoFile, Loop,
       Later, DownloadOK, SumsFirst, UnderCheck, is_file, Proceed
  <2>2. PassedOK' /\ WholeOK'
    BY <1>12 DEF DownloadClaudeFails, BootTypes, Artifacts, Loop, PassedOK, WholeOK,
       Passed, UnderCheck, is_file, Proceed, Matches
  <2>3. RelOK'
    BY <1>12 DEF DownloadClaudeFails, Later, RelOK, UnderCheck, Forcing, Settled,
       is_file, Proceed
  <2>4. RootfsOK' /\ OkComplete'
    BY <1>12 DEF DownloadClaudeFails, Later, RootfsOK, OkComplete, UnderCheck, Forcing,
       Settled, is_file, Proceed, detect_kernel_version
  <2> QED  BY <2>1, <2>2, <2>3, <2>4, Zenon
<1>13. CASE build_rootfs
  <2>1. files' \in [Files -> File]
    <3> HIDE DEF File, NoFile
    <3> QED  BY <1>13, FileContents DEF build_rootfs, BootTypes
  <2>2. BootTypes'  BY <1>13, <2>1 DEF build_rootfs, BootTypes, Later, Proceed
  <2>3. DownloadOK' /\ SumsFirst' /\ PassedOK'  BY <1>13 DEF build_rootfs, BootTypes,
      Files, Downloads, Artifacts, Later, DownloadOK, SumsFirst, PassedOK, Passed,
      UnderCheck, is_file, Proceed, Matches
  <2>4. WholeOK' /\ RelOK' /\ OkComplete'  BY <1>13 DEF build_rootfs, BootTypes, Files,
      Downloads, Artifacts, Later, PassedOK, WholeOK, RelOK, OkComplete, Passed,
      UnderCheck, Forcing, Settled, Proceed, NoFault
  <2>5. RootfsOK'
    BY <1>13, Zenon DEF build_rootfs, BootTypes, Files, RootfsOK, detect_kernel_version,
       UnderCheck, Forcing, Settled, is_file, Proceed, NoFault
  <2> QED  BY <2>2, <2>3, <2>4, <2>5, Zenon
<1>14. CASE Docker
  <2>1. BootTypes' /\ DownloadOK' /\ SumsFirst'
    BY <1>14 DEF Docker, BootTypes, File, Files, Artifacts, Broken, Loop, Later,
       DownloadOK, SumsFirst, UnderCheck, is_file, Proceed, detect_kernel_version
  <2>2. PassedOK' /\ WholeOK'
    BY <1>14 DEF Docker, BootTypes, Artifacts, Loop, PassedOK, WholeOK, Passed,
       UnderCheck, is_file, Proceed, NoFault, Matches
  <2>3. RelOK'
    BY <1>14 DEF Docker, Artifacts, Later, PassedOK, RelOK, Passed, UnderCheck, Forcing,
       Settled, Proceed, NoFault
  <2>4. RootfsOK' /\ OkComplete'
    BY <1>14 DEF Docker, BootTypes, Files, Artifacts, Broken, Loop, PassedOK, RootfsOK,
       OkComplete, Passed, UnderCheck, is_file, Proceed, detect_kernel_version
  <2> QED  BY <2>1, <2>2, <2>3, <2>4, Zenon
<1>15. CASE Mkfs
  <2>1. /\ files'["rootfs"].whole /\ files'["rootfs"] # NoFile
        /\ files'["rootfs"].rel = files["rootfs"].rel
        /\ \A f \in Files \ {"rootfs"} : files'[f] = files[f]
    BY <1>15 DEF Mkfs, BootTypes, Files, NoFile, Whole
  <2>2. RootfsOK'
    BY <1>15, <2>1, Zenon DEF Mkfs, BootTypes, Files, Downloads, Artifacts, Loop,
       PassedOK, RootfsOK, detect_kernel_version, Passed, UnderCheck, is_file, Proceed
  <2>3. BootTypes' /\ DownloadOK' /\ SumsFirst' /\ PassedOK'  BY <1>15 DEF Mkfs,
      BootTypes, File, Files, Artifacts, Whole, Later, DownloadOK, SumsFirst, PassedOK,
      Passed, UnderCheck, is_file, Proceed, Matches
  <2>4. WholeOK' /\ RelOK' /\ OkComplete'  BY <1>15 DEF Mkfs, Artifacts, Later,
      PassedOK, WholeOK, RelOK, OkComplete, Passed, UnderCheck, Forcing, Settled,
      Proceed
  <2> QED  BY <2>2, <2>3, <2>4, Zenon
<1>16. CASE write_metadata
  <2>1. BootTypes' /\ DownloadOK' /\ SumsFirst'
    BY <1>16 DEF write_metadata, BootTypes, Loop, DownloadOK, SumsFirst, UnderCheck,
       is_file, Proceed
  <2>2. PassedOK' /\ WholeOK'
    BY <1>16 DEF write_metadata, Later, PassedOK, WholeOK, Passed, UnderCheck, is_file,
       Proceed, Matches
  <2>3. RelOK'
    BY <1>16 DEF write_metadata, Later, PassedOK, RelOK, Passed, UnderCheck, Forcing,
       Settled, Matches
  <2>4. RootfsOK' /\ OkComplete'
    BY <1>16 DEF write_metadata, BootTypes, Artifacts, Loop, PassedOK, RootfsOK,
       OkComplete, Passed, UnderCheck, Forcing, Settled, is_file, Proceed,
       runtime_missing, detect_kernel_version
  <2> QED  BY <2>1, <2>2, <2>3, <2>4, Zenon
<1>17. CASE StepFails
  BY <1>17 DEF StepFails, BootTypes, Loop, Later, DownloadOK, SumsFirst,
     PassedOK, WholeOK, RelOK, RootfsOK, detect_kernel_version, OkComplete, Passed,
     UnderCheck, Forcing, Settled, is_file, Proceed, Leaves
<1>18. CASE BootstrapDies
  BY <1>18 DEF BootstrapDies, BootTypes, Loop, Later, DownloadOK, SumsFirst,
     PassedOK, WholeOK, RelOK, RootfsOK, detect_kernel_version, OkComplete, Passed,
     UnderCheck, Forcing, Settled, is_file, Proceed, Leaves
<1>19. CASE Publish
  <2>1. release' \in Nat \ {0} /\ UNCHANGED <<files, tmp, boot_pc, at, opt, left>>
    BY <1>19 DEF Publish, BootTypes, NoFault
  <2> QED  BY <2>1, BootFrame, Zenon
<1>20. CASE UNCHANGED boot_vars
  <2>1. release' \in Nat \ {0} /\ UNCHANGED <<files, tmp, boot_pc, at, opt, left>>
    BY <1>20 DEF boot_vars, BootTypes
  <2> QED  BY <2>1, BootFrame, Zenon
<1> QED  BY <1>1, <1>2, <1>3, <1>4, <1>5, <1>6, <1>7, <1>8, <1>9, <1>10, <1>11,
            <1>12, <1>13, <1>14, <1>15, <1>16, <1>17, <1>18, <1>19, <1>20, Zenon
         DEF BootNext, Step

\* The invariant holds throughout.
LEMMA SpecBootInv == BootSpec => []BootInv
<1>1. BootInv /\ [BootNext]_boot_vars => BootInv'  BY NextBootInv
<1> QED  BY <1>1, InitBootInv, PTL DEF BootSpec

\* Whatever failed, was damaged or died before, ensure_linux_runtime returns Ok
\* only with kernel and initrd that are whole, for any number of faults; the one
\* exception is a file whose bootstrap ended between rename and checksum.
THEOREM BootstrapVerified == BootSpec => []OkIsVerified
<1>1. BootInv => OkIsVerified
  BY DEF BootInv, OkComplete, WholeOK, OkIsVerified, runtime_missing, UnderCheck
<1> QED  BY <1>1, SpecBootInv, PTL

\* Kernel and initrd are then of one release, whatever Ubuntu published in
\* between, although every file is made only when it is missing, and the root
\* file system has the modules of that release or none at all.  Not claimed of
\* what a bootstrap by force or a mke2fs that did not end has left behind.
THEOREM BootstrapConsistent == BootSpec => []OkIsConsistent
<1>1. ASSUME BootInv, boot_pc = "ok", left \intersect {"unchecked", "force"} = {}
      PROVE  /\ files["kernel"].rel = files["initrd"].rel
             /\ files["rootfs"].rel \in {files["kernel"].rel, NoModules}
             /\ "rootfs" \notin left => files["rootfs"].whole
  <2>1. Settled /\ ~Forcing  BY <1>1 DEF Settled, Forcing, Loop, Later
  <2> QED  BY <1>1, <2>1 DEF BootInv, OkComplete, RelOK, RootfsOK, runtime_missing,
      UnderCheck, Artifacts, detect_kernel_version
<1>2. BootInv => OkIsConsistent  BY <1>1 DEF OkIsConsistent
<1> QED  BY <1>2, SpecBootInv, PTL

-----------------------------------------------------------------------------
(* Daemon: the serving daemon is unique, sweeps spare living daemons and   *)
(* the VMs of dead ones are found, for any number of daemons and CLIs and  *)
(* however their starts overlap, up to the one race the code has: two      *)
(* daemons between the check of the pid file and its writing.              *)

\* Past the check of the pid file.
Past == (Starting \ {"check"}) \union {"serving"} \union Exiting

\* Past writing the pid file.
Owning == {"unlink", "bind", "serving"} \union Exiting

\* VMs of daemons that died.
Orphans == {d \in vms : daemon_pc[d] \in {"zombie", "crashed"}}

Types ==
    /\ daemon_pid \in Daemons \union {NoDaemon}
    /\ sock \in Daemons \union {NoDaemon}
    /\ daemon_pc \in [Daemons -> Dead \union Starting \union Exiting
                                 \union {"serving", "zombie"}]
    /\ vms \subseteq Daemons
    /\ client \in [Clients -> {"connect", "poll", "connected", "disposable"}]
    /\ raced \in BOOLEAN

\* One daemon is past the check.
OnePast == \A d, e \in Daemons :
    daemon_pc[d] \in Past /\ daemon_pc[e] \in Past => d = e

\* The pid file, and the socket, of the daemon that is past writing them; the
\* pid file never names one that was not started.
OwnsPidfile == \A d \in Daemons : /\ daemon_pc[d] \in Owning => daemon_pid = d
                                  /\ daemon_pc[d] = "off" => daemon_pid # d
OwnsSocket == \A d \in Daemons : /\ daemon_pc[d] = "bind" => sock = NoDaemon
                                 /\ daemon_pc[d] = "serving" => sock = d

\* A daemon that starts has no VMs, and sweeps for a dead one.
NoVmsYet == \A d \in Daemons : daemon_pc[d] \in Starting \union {"off"} => d \notin vms
SweepsForDead == \A d \in Daemons :
    daemon_pc[d] = "sweep" => daemon_pid # NoDaemon /\ Gone(daemon_pid)

\* When VMs of dead daemons are there, so is the stale pid file; past the
\* sweep there are none.
OrphansKnown ==
    /\ Orphans # {} => daemon_pid # NoDaemon /\ Gone(daemon_pid)
    /\ \A d \in Daemons : daemon_pc[d] \in {"truncate_pidfile", "write_pidfile"} => Orphans = {}

\* All of this up to the race.
Guarded ==
    /\ OnePast /\ OwnsPidfile /\ OwnsSocket /\ NoVmsYet
    /\ SweepsForDead /\ OrphansKnown

DaemonInv == Types /\ (~raced => Guarded)

\* The invariant holds before any daemon is started.
LEMMA InitDaemonInv == DaemonInit => DaemonInv
<1> SUFFICES ASSUME DaemonInit PROVE DaemonInv
    OBVIOUS
<1>1. Types  BY Zenon DEF DaemonInit, Types, Dead
<1>2. \A d \in Daemons : daemon_pc[d] = "off" /\ daemon_pid # d
  BY DaemonAssumption DEF DaemonInit
<1>3. OnePast /\ OwnsPidfile /\ OwnsSocket /\ NoVmsYet
  BY <1>2 DEF DaemonInit, OnePast, OwnsPidfile, OwnsSocket, NoVmsYet, Past, Owning,
     Starting, Exiting
<1>4. SweepsForDead /\ OrphansKnown
  BY <1>2 DEF DaemonInit, SweepsForDead, OrphansKnown, Orphans
<1> QED  BY <1>1, <1>3, <1>4 DEF DaemonInv, Guarded

\* What a daemon does, or what happens to it.
DaemonStep(d) ==
    \/ StartStep(d) \/ ExitStep(d) \/ PoolStep(d) \/ Shutdown(d) \/ DaemonDies(d)
    \/ Reaped(d)

\* Every step of a daemon (run, run_listener), and its death, keeps the types, and
\* a race stays one.
LEMMA DaemonStepTypes ==
    ASSUME Types, NEW d \in Daemons, DaemonStep(d)
    PROVE  Types' /\ (raced => raced')
<1>1. CASE CheckPidfile(d)
  BY <1>1 DEF CheckPidfile, PastCheck, Types, Move, Dead, Starting
<1>2. CASE sweep_orphan_run_dirs(d)
  BY <1>2 DEF sweep_orphan_run_dirs, Types, Move, Starting
<1>3. CASE truncate_pidfile(d)  BY <1>3 DEF truncate_pidfile, Types, Move, Starting
<1>4. CASE write_pidfile(d)  BY <1>4 DEF write_pidfile, Types, Move, Starting
<1>5. CASE RemoveSocket(d)  BY <1>5 DEF RemoveSocket, Types, Move, Starting
<1>6. CASE Bind(d)  BY <1>6 DEF Bind, Types, Move, Exiting
<1>7. CASE StopAll(d)  BY <1>7 DEF StopAll, Types, Move, Exiting
<1>8. CASE RemoveSocketOnExit(d)  BY <1>8 DEF RemoveSocketOnExit, Types, Move, Exiting
<1>9. CASE RemovePidfile(d)  BY <1>9 DEF RemovePidfile, Types, Move, Dead
<1>10. CASE PoolStep(d)  BY <1>10 DEF PoolStep, Types
<1>11. CASE Shutdown(d)  BY <1>11 DEF Shutdown, Types, Move, Exiting
<1>12. CASE DaemonDies(d)  BY <1>12 DEF DaemonDies, Types, Move
<1>13. CASE Reaped(d)  BY <1>13 DEF Reaped, Types, Move, Dead
<1> QED  BY <1>1, <1>2, <1>3, <1>4, <1>5, <1>6, <1>7, <1>8, <1>9, <1>10, <1>11, <1>12,
            <1>13, Zenon DEF DaemonStep, StartStep, ExitStep

\* It preserves the rest, unless it races.
LEMMA DaemonStepKeeps ==
    ASSUME Types, Guarded, NEW d \in Daemons, DaemonStep(d), ~raced'
    PROVE Guarded'
<1> USE DaemonAssumption DEF Guarded
<1>1. CASE CheckPidfile(d)
  <2> USE <1>1 DEF CheckPidfile, PastCheck
  <2>1. OwnsPidfile' /\ OwnsSocket' /\ NoVmsYet'
    BY DEF Types, OwnsPidfile, OwnsSocket, NoVmsYet, Move, Dead, Starting, Exiting, Owning
  <2>2. OnePast'
    <3>1. ASSUME NEW e \in Daemons \ {d}, daemon_pc[e] \in Past PROVE daemon_pc'[d] = "exited"
      <4>1. CASE daemon_pc[e] \in Window
        BY <3>1, <4>1 DEF Types, Move, Window, Dead
      <4>2. CASE daemon_pc[e] \in Owning
        BY <3>1, <4>2 DEF Types, OwnsPidfile, process_alive, Move, Owning, Dead, Exiting
      <4> QED  BY <3>1, <4>1, <4>2 DEF Past, Owning, Window, Starting
    <3> QED  BY <3>1 DEF Types, OnePast, Move, Past, Starting, Exiting
  <2>3. SweepsForDead'
    BY DEF Types, SweepsForDead, Gone, process_alive, Move, Dead
  <2>4. OrphansKnown'
    BY DEF Types, NoVmsYet, OrphansKnown, Orphans, Gone, Move, Dead, Starting
  <2> QED  BY <2>1, <2>2, <2>3, <2>4
<1>2. CASE sweep_orphan_run_dirs(d)
  <2> USE <1>2 DEF sweep_orphan_run_dirs
  <2>1. OnePast' /\ OwnsPidfile'
       /\ OwnsSocket' /\ NoVmsYet' /\ SweepsForDead'
    BY DEF Types, OnePast, OwnsPidfile, OwnsSocket, NoVmsYet, SweepsForDead,
       Move, Starting, Exiting, Past, Owning
  <2>2. OrphansKnown'
    BY DEF OrphansKnown, Orphans
  <2> QED  BY <2>1, <2>2
<1>3. CASE truncate_pidfile(d)
  <2> USE <1>3 DEF truncate_pidfile
  <2>1. OnePast' /\ OwnsSocket' /\ NoVmsYet'
       /\ SweepsForDead'
    BY DEF Types, OnePast, OwnsSocket, NoVmsYet, SweepsForDead, Move,
       Starting, Past
  <2>2. OwnsPidfile'
    BY DEF Types, OnePast, OwnsPidfile, Move, Dead, Exiting, Past, Owning
  <2>3. OrphansKnown'
    BY DEF OrphansKnown, Orphans, Move
  <2> QED  BY <2>1, <2>2, <2>3
<1>4. CASE write_pidfile(d)
  <2> USE <1>4 DEF write_pidfile
  <2>1. OnePast' /\ OwnsSocket' /\ NoVmsYet'
       /\ SweepsForDead'
    BY DEF Types, OnePast, OwnsSocket, NoVmsYet, SweepsForDead, Move,
       Starting, Past
  <2>2. OwnsPidfile'
    BY DEF Types, OnePast, OwnsPidfile, Move, Dead, Past, Owning
  <2>3. OrphansKnown'
    BY DEF OrphansKnown, Orphans, Move
  <2> QED  BY <2>1, <2>2, <2>3
<1>5. CASE RemoveSocket(d)
  <2> USE <1>5 DEF RemoveSocket
  <2>1. OnePast' /\ OwnsPidfile'
       /\ NoVmsYet' /\ SweepsForDead'
    BY DEF Types, OnePast, OwnsPidfile, NoVmsYet, SweepsForDead, Move,
       Starting, Past, Owning
  <2>2. OwnsSocket'
    BY DEF OwnsPidfile, OwnsSocket, Move, Owning
  <2>3. OrphansKnown'
    BY DEF OrphansKnown, Orphans, Gone, Move, Dead
  <2> QED  BY <2>1, <2>2, <2>3
<1>6. CASE Bind(d)
  <2> USE <1>6 DEF Bind
  <2>1. OnePast' /\ OwnsPidfile'
       /\ NoVmsYet' /\ SweepsForDead'
    BY DEF Types, OnePast, OwnsPidfile, NoVmsYet, SweepsForDead, Move, Dead,
       Exiting, Past, Owning
  <2>2. OwnsSocket'
    BY DEF Types, OnePast, OwnsSocket, Move, Dead, Past
  <2>3. OrphansKnown'
    BY DEF OrphansKnown, Orphans, Gone, Move, Dead
  <2> QED  BY <2>1, <2>2, <2>3
<1>7. CASE StopAll(d)
  <2> USE <1>7 DEF StopAll
  <2>1. OnePast' /\ OwnsPidfile'
       /\ OwnsSocket' /\ NoVmsYet' /\ SweepsForDead'
    BY DEF Types, OnePast, OwnsPidfile, OwnsSocket, NoVmsYet, SweepsForDead,
       Move, Starting, Exiting, Past, Owning
  <2>2. OrphansKnown'
    BY DEF OrphansKnown, Orphans, Gone, Move, Dead
  <2> QED  BY <2>1, <2>2
<1>8. CASE RemoveSocketOnExit(d)
  <2> USE <1>8 DEF RemoveSocketOnExit
  <2>1. OnePast' /\ OwnsPidfile'
       /\ NoVmsYet' /\ SweepsForDead'
    BY DEF Types, OnePast, OwnsPidfile, NoVmsYet, SweepsForDead, Move,
       Starting, Exiting, Past, Owning
  <2>2. OwnsSocket'
    BY DEF OnePast, OwnsSocket, Move, Exiting, Past
  <2>3. OrphansKnown'
    BY DEF OrphansKnown, Orphans, Gone, Move, Dead
  <2> QED  BY <2>1, <2>2, <2>3
<1>9. CASE RemovePidfile(d)
  <2> USE <1>9 DEF RemovePidfile
  <2>1. OnePast' /\ OwnsSocket' /\ NoVmsYet'
    BY DEF Types, OnePast, OwnsSocket, NoVmsYet, Move, Dead, Starting, Past
  <2>2. OwnsPidfile'
    BY DEF Types, OwnsPidfile, Move, Exiting, Owning
  <2>3. SweepsForDead'
    BY DEF Types, OnePast, SweepsForDead, Move, Dead, Past
  <2>4. OrphansKnown'
    BY DEF OwnsPidfile, OrphansKnown, Orphans, Gone, Move, Dead, Exiting, Owning
  <2> QED  BY <2>1, <2>2, <2>3, <2>4
<1>10. CASE PoolStep(d)
  <2> USE <1>10 DEF PoolStep
  <2>1. OnePast' /\ OwnsPidfile'
       /\ OwnsSocket' /\ SweepsForDead'
    BY DEF Types, OnePast, OwnsPidfile, OwnsSocket, SweepsForDead, Gone
  <2>2. NoVmsYet'
    BY DEF NoVmsYet, Starting, Exiting
  <2>3. OrphansKnown'
    BY DEF OrphansKnown, Orphans, Gone, Exiting
  <2> QED  BY <2>1, <2>2, <2>3
<1>11. CASE Shutdown(d)
  <2> USE <1>11 DEF Shutdown
  <2>1. OnePast' /\ OwnsPidfile'
       /\ NoVmsYet' /\ SweepsForDead'
    BY DEF Types, OnePast, OwnsPidfile, NoVmsYet, SweepsForDead, Move,
       Starting, Exiting, Past, Owning
  <2>2. OwnsSocket'
    BY DEF OwnsSocket, Move
  <2>3. OrphansKnown'
    BY DEF OrphansKnown, Orphans, Gone, Move, Dead
  <2> QED  BY <2>1, <2>2, <2>3
<1>12. CASE DaemonDies(d)
  <2> USE <1>12 DEF DaemonDies
  <2>1. OwnsPidfile' /\ OwnsSocket' /\ NoVmsYet'
    BY DEF Types, OwnsPidfile, OwnsSocket, NoVmsYet, Move, Starting, Exiting,
       Owning
  <2>2. OnePast'
    BY DEF OnePast, Move, Starting, Exiting, Past
  <2>3. SweepsForDead'
    BY DEF SweepsForDead, Gone, Move
  <2>4. OrphansKnown'
    BY DEF Types, OnePast, OwnsPidfile, NoVmsYet, OrphansKnown, Orphans, Gone, Move,
       Dead, Past, Owning
  <2> QED  BY <2>1, <2>2, <2>3, <2>4
<1>13. CASE Reaped(d)
  <2> USE <1>13 DEF Reaped
  <2>1. OnePast' /\ OwnsPidfile'
       /\ OwnsSocket' /\ NoVmsYet'
    BY DEF Types, OnePast, OwnsPidfile, OwnsSocket, NoVmsYet, Move, Dead,
       Starting, Exiting, Past, Owning
  <2>2. SweepsForDead'
    BY DEF SweepsForDead, Gone, Move, Dead
  <2>3. OrphansKnown'
    BY DEF OrphansKnown, Orphans, Gone, Move, Dead
  <2> QED  BY <2>1, <2>2, <2>3
<1> QED  BY <1>1, <1>2, <1>3, <1>4, <1>5, <1>6, <1>7, <1>8, <1>9, <1>10, <1>11, <1>12,
            <1>13, Zenon DEF DaemonStep, StartStep, ExitStep

\* So does every step of a CLI (connect_or_spawn): it leaves the daemons alone, or
\* starts one, whatever others are doing.
LEMMA ClientStepKeeps ==
    ASSUME Types, NEW c \in Clients,
           \/ Connect(c) \/ PollSucceeds(c) \/ Fallback(c) \/ NextCommand(c)
           \/ \E d \in Daemons : AutoSpawn(c, d)
    PROVE Types' /\ raced' = raced /\ (Guarded => Guarded')
<1>1. CASE Connect(c) \/ PollSucceeds(c) \/ Fallback(c) \/ NextCommand(c)
  <2>1. UNCHANGED <<daemon_pid, sock, daemon_pc, vms, raced>>
    BY <1>1 DEF Connect, PollSucceeds, Fallback, NextCommand
  <2>2. Types'
    BY <1>1 DEF Connect, PollSucceeds, Fallback, NextCommand, Types
  <2> QED  BY <2>1, <2>2 DEF Guarded, OnePast, OwnsPidfile, OwnsSocket, NoVmsYet,
      SweepsForDead, OrphansKnown, Orphans, Gone
<1>2. ASSUME NEW d \in Daemons, AutoSpawn(c, d)
      PROVE Types' /\ raced' = raced /\ (Guarded => Guarded')
  <2>1. Types' /\ raced' = raced  BY <1>2 DEF AutoSpawn, Move, Types, Starting
  <2>2. ASSUME Guarded PROVE Guarded'
    <3> USE <1>2, <2>2 DEF Guarded, AutoSpawn, Move
    <3>1. OnePast' /\ OwnsPidfile' /\ OwnsSocket' /\ NoVmsYet'
      BY DEF Types, OnePast, OwnsPidfile, OwnsSocket, NoVmsYet, Starting, Exiting, Past,
         Owning
    <3>2. daemon_pid # d  BY DEF OwnsPidfile
    <3>3. SweepsForDead'
      BY <3>2 DEF Types, SweepsForDead, Gone
    <3>4. OrphansKnown'
      <4>1. Orphans' = Orphans  BY DEF Types, Orphans
      <4> QED  BY <3>2, <4>1 DEF Types, OrphansKnown, Gone
    <3> QED  BY <3>1, <3>3, <3>4
  <2> QED  BY <2>1, <2>2
<1> QED  BY <1>1, <1>2

\* Every step preserves it, stuttering included.
LEMMA NextKeeps == ASSUME DaemonInv, [DaemonNext]_daemon_vars PROVE DaemonInv'
<1> USE DEF DaemonInv
<1>1. CASE UNCHANGED daemon_vars
  BY <1>1 DEF daemon_vars, Guarded, Types, OnePast, OwnsPidfile, OwnsSocket, NoVmsYet,
     SweepsForDead, OrphansKnown, Orphans, Gone
<1>2. ASSUME NEW d \in Daemons, DaemonStep(d) PROVE DaemonInv'
  BY <1>2, DaemonStepTypes, DaemonStepKeeps
<1>3. ASSUME NEW c \in Clients,
             \/ Connect(c) \/ PollSucceeds(c) \/ Fallback(c) \/ NextCommand(c)
             \/ \E d \in Daemons : AutoSpawn(c, d)
      PROVE DaemonInv'
  BY <1>3, ClientStepKeeps
<1> QED  BY <1>1, <1>2, <1>3 DEF DaemonNext, DaemonStep

\* What the invariant says of the properties of Daemon.tla.
LEMMA DaemonInvSuffices ==
    DaemonInv => /\ DaemonTypeOK /\ ServingIsUnique
                 /\ SweepSparesLiveVms /\ CrashedVmsSwept
<1> SUFFICES ASSUME DaemonInv
             PROVE  /\ DaemonTypeOK /\ ServingIsUnique
                    /\ SweepSparesLiveVms /\ CrashedVmsSwept
  OBVIOUS
<1> USE DEF DaemonInv, Guarded
<1>1. DaemonTypeOK  BY DEF Types, DaemonTypeOK
<1>2. ServingIsUnique
  BY DEF OwnsPidfile, OwnsSocket, ServingIsUnique, Owning
<1>3. SweepSparesLiveVms
  BY DEF Types, OnePast, NoVmsYet, SweepSparesLiveVms, Gone, Starting, Past
<1>4. CrashedVmsSwept
  BY DEF OrphansKnown, Orphans, CrashedVmsSwept
<1> QED  BY <1>1, <1>2, <1>3, <1>4

\* The invariant holds throughout.
LEMMA DaemonInvariant == DaemonSpec => []DaemonInv
<1>1. DaemonInv /\ [DaemonNext]_daemon_vars => DaemonInv'  BY NextKeeps
<1> QED  BY <1>1, InitDaemonInv, PTL DEF DaemonSpec

\* The daemons' state is well typed: the pid file and the socket only name
\* daemons that run writes into them.
THEOREM DaemonTypeCorrect == DaemonSpec => []DaemonTypeOK
BY DaemonInvariant, DaemonInvSuffices, PTL

\* For any number of daemons and CLIs, however their starts overlap and wherever
\* daemons die: a serving daemon is the only one and has the pid file and the
\* socket (run, run_listener), until two daemons have been between the check of
\* the pid file and its writing at once (daemon.rs:48-56), which nothing in the
\* code prevents.
THEOREM DaemonServingUnique == DaemonSpec => []ServingIsUnique
BY DaemonInvariant, DaemonInvSuffices, PTL

\* Up to that race, sweep_orphan_run_dirs only ever kills VMs of daemons that are
\* gone.
THEOREM DaemonSweepSpares == DaemonSpec => []SweepSparesLiveVms
BY DaemonInvariant, DaemonInvSuffices, PTL

\* Up to that race, VMs of a daemon that died are never without the stale pid file
\* that makes the next daemon sweep them (run).
THEOREM DaemonCrashedSwept == DaemonSpec => []CrashedVmsSwept
BY DaemonInvariant, DaemonInvSuffices, PTL

=============================================================================
