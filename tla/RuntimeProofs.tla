---------------------------- MODULE RuntimeProofs ----------------------------
(***************************************************************************)
(* Installing runtimes without a lock is safe for any number of fend       *)
(* processes, versions and releases, wherever they fail or die: a runtime  *)
(* directory appears complete and stays, and a command that was rewritten  *)
(* finds its program in one, of a version that its project asks for.       *)
(***************************************************************************)
EXTENDS Runtime, WellFoundedInduction, TLAPS

\* The provers for the steps that name none, and the seconds they have.
USE SMTT(30), ZenonT(60)

\* Labels of a process whose command has a runtime, before it is over.
Busy == {"installed", "resolve", "fetch", "ensure", "create_temp_dir", "curl",
         "tar", "finalize", "rename", "remove_temp_dir", "rewrite"}

\* The process has chosen a version.
Chosen == Busy \ {"installed", "resolve", "fetch"}

Types ==
    /\ dirs \in [Tools \X Versions -> {"none", "complete"}]
    /\ pc \in [Procs -> Busy \union {"off", "ok", "err", "dead"}]
    /\ job \in [Procs -> {NoJob} \union UNION {Jobs[p] : p \in Procs}]
    /\ installed \in [Procs -> SUBSET Versions]
    /\ version \in [Procs -> Versions \union {Nightly}]
    /\ temp \in [Procs -> {"none", "empty", "archive", "partial", "extracted"}]

\* A busy process has a job that needs a runtime, and a version once it has
\* chosen one.
JobOK ==
    \A p \in Procs :
        /\ pc[p] \in Busy => job[p] \in Jobs[p] /\ Tool(p) \in Tools
        /\ pc[p] \in Chosen => version[p] \in Versions

\* What a process found is still there when it chooses from it, and the runtime
\* it goes on with is there.
FoundOK ==
    \A p \in Procs : pc[p] = "resolve" =>
        \A v \in installed[p] : dirs[<<Tool(p), v>>] = "complete"
ReadyOK ==
    \A p \in Procs : /\ pc[p] \in {"remove_temp_dir", "rewrite", "ok"}
                     /\ Tool(p) \in Tools
                     => version[p] \in Versions /\ dirs[Dir(p)] = "complete"
ScriptOK ==
    \A p \in Procs : pc[p] = "ok" /\ Tool(p) \in Tools =>
        NeededScripts(job[p].command) \subseteq Ships[version[p]]

\* What is renamed was extracted to the end.
TempOK ==
    \A p \in Procs : pc[p] \in {"finalize", "rename"} => temp[p] = "extracted"

IInv == Types /\ JobOK /\ FoundOK /\ ReadyOK /\ ScriptOK /\ TempOK

-----------------------------------------------------------------------------

\* What the three decisions are.
LEMMA Decisions ==
    /\ \A v : Use(v).do = "rewrite" /\ Use(v).version = v
    /\ \A v : Ensure(v).do = "ensure" /\ Ensure(v).version = v
    /\ \A r, lts : Fetch(r, lts).do = "fetch" /\ Fetch(r, lts).version = Nightly
BY DEF Use, Ensure, Fetch

\* ensure_node_runtime and ensure_bun_runtime use a version that was found, or
\* make sure of one that exists, or look for one.
LEMMA EnsureRuntimeResult ==
    ASSUME NEW p \in Procs, NEW j \in Jobs[p], NEW tool \in Tools,
           NEW found \in SUBSET Versions, NEW d \in ensure_runtime(tool, j, found)
    PROVE \/ d.do = "rewrite" /\ d.version \in found
          \/ d.do = "ensure" /\ d.version \in Versions
          \/ d.do = "fetch" /\ d.version = Nightly
<1> USE Decisions DEF Satisfying, select_latest_installed_runtime, Latest
<1>1. j.host # <<>> => j.host[1] \in Versions
  BY RuntimeAssumption
<1>2. CASE Pinned(tool, j) # <<>>
  <2>1. d \in ensure_requirement(Pinned(tool, j)[1], found)
    BY <1>2 DEF ensure_runtime
  <2>2. CASE Satisfying(found, Pinned(tool, j)[1]) # {}
    BY <2>1, <2>2 DEF ensure_requirement
  <2>3. CASE Satisfying(found, Pinned(tool, j)[1]) = {}
    <3>1. d \in resolve_concrete_version(Pinned(tool, j)[1])
      BY <2>1, <2>3 DEF ensure_requirement
    <3>2. is_full(Pinned(tool, j)[1]) =>
            \A clause \in Pinned(tool, j)[1] : clause[1].text \in Versions
      BY <1>2, RuntimeAssumption
    <3>3. CASE is_full(Pinned(tool, j)[1])
      BY <3>1, <3>2, <3>3 DEF resolve_concrete_version
    <3>4. CASE ~is_full(Pinned(tool, j)[1])
      <4>1. d = Fetch(normalize_version(Pinned(tool, j)[1]), FALSE)
        BY <3>1, <3>4, Zenon DEF resolve_concrete_version
      <4> QED  BY <4>1, Zenon
    <3> QED  BY <3>3, <3>4
  <2> QED  BY <2>2, <2>3
<1>3. CASE Pinned(tool, j) = <<>> /\ tool = "node" /\ j.engine # <<>>
  <2>1. d \in EnsureEngine(j.engine[1], j.host, found)
    BY <1>3 DEF ensure_runtime
  <2>2. \/ j.host # <<>> /\ d = Ensure(j.host[1])
        \/ \E v \in found : d = Use(v)
        \/ d = Fetch(j.engine[1], TRUE)
    BY <2>1, Zenon DEF EnsureEngine
  <2>3. CASE d = Fetch(j.engine[1], TRUE)  BY <2>3, Zenon
  <2>4. CASE \E v \in found : d = Use(v)  BY <2>4
  <2>5. CASE j.host # <<>> /\ d = Ensure(j.host[1])  BY <1>1, <2>5
  <2> QED  BY <2>2, <2>3, <2>4, <2>5, Zenon
<1>4. CASE Pinned(tool, j) = <<>> /\ ~(tool = "node" /\ j.engine # <<>>)
  <2>1. d \in EnsureDefault(tool, j.host, found)
    BY <1>4 DEF ensure_runtime
  <2> QED  BY <1>1, <2>1 DEF EnsureDefault
<1> QED  BY <1>2, <1>3, <1>4

\* select_latest_node_version and select_latest_bun_version return a release.
LEMMA SelectLatestResult ==
    ASSUME NEW tool \in Tools, NEW requirement, NEW prefer_lts,
           NEW v \in select_latest(tool, requirement, prefer_lts)
    PROVE v \in Versions
BY RuntimeAssumption DEF select_latest, Latest, fetch_releases

\* The invariant holds before any process has started.
LEMMA InitIInv == Init => IInv
BY DEF Init, IInv, Types, JobOK, FoundOK, ReadyOK, ScriptOK, TempOK, Busy, Chosen

\* What a process does to the processes other than itself: nothing, but that it
\* may add a runtime.
Others(p) ==
    /\ \A q \in Procs \ {p} : /\ pc'[q] = pc[q] /\ job'[q] = job[q]
                              /\ version'[q] = version[q]
                              /\ installed'[q] = installed[q]
                              /\ temp'[q] = temp[q]
    /\ \A d \in Tools \X Versions : dirs[d] = "complete" => dirs'[d] = "complete"

\* The invariant of the process that takes a step; with Others it is enough.
Mine(p) ==
    /\ pc[p] \in Busy => job[p] \in Jobs[p] /\ Tool(p) \in Tools
    /\ pc[p] \in Chosen => version[p] \in Versions
    /\ pc[p] = "resolve" => \A v \in installed[p] : dirs[<<Tool(p), v>>] = "complete"
    /\ pc[p] \in {"remove_temp_dir", "rewrite", "ok"} /\ Tool(p) \in Tools
         => version[p] \in Versions /\ dirs[Dir(p)] = "complete"
    /\ pc[p] = "ok" /\ Tool(p) \in Tools
         => NeededScripts(job[p].command) \subseteq Ships[version[p]]
    /\ pc[p] \in {"finalize", "rename"} => temp[p] = "extracted"

\* The processes of prepare_guest_command only meet in the tools directory.
LEMMA MineSuffices ==
    ASSUME IInv, Types', NEW p \in Procs, Others(p), Mine(p)'
    PROVE IInv'
<1>1. ASSUME NEW q \in Procs, q # p PROVE Mine(q)'
  <2>1. /\ pc'[q] = pc[q] /\ job'[q] = job[q] /\ version'[q] = version[q]
        /\ installed'[q] = installed[q] /\ temp'[q] = temp[q]
    BY <1>1 DEF Others
  <2>2. Tool(q)' = Tool(q) /\ Dir(q)' = Dir(q)
    BY <2>1 DEF Tool, Dir
  <2>3. Mine(q)
    BY DEF IInv, JobOK, FoundOK, ReadyOK, ScriptOK, TempOK, Mine
  <2>4. pc[q] = "resolve" =>
          \A v \in installed[q] : dirs'[<<Tool(q), v>>] = "complete"
    <3>1. installed[q] \subseteq Versions  BY DEF IInv, Types
    <3>2. pc[q] = "resolve" => Tool(q) \in Tools  BY <2>3 DEF Mine, Busy
    <3> QED  BY <2>3, <3>1, <3>2 DEF Mine, Others
  <2>5. pc[q] \in {"remove_temp_dir", "rewrite", "ok"} /\ Tool(q) \in Tools
          => version[q] \in Versions /\ dirs'[Dir(q)] = "complete"
    BY <2>3 DEF Mine, Others, Dir
  <2> QED  BY <2>1, <2>2, <2>3, <2>4, <2>5 DEF Mine
<1>2. \A q \in Procs : Mine(q)'  BY <1>1
<1> QED  BY <1>2 DEF IInv, JobOK, FoundOK, ReadyOK, ScriptOK, TempOK, Mine

\* Every step of a process, failures and its death included, preserves the
\* invariant.
LEMMA StepKeeps == ASSUME IInv, NEW p \in Procs, Step(p) PROVE IInv'
<1> USE DEF IInv, Goto, Busy, Chosen
<1>0. Types /\ Mine(p)
  BY DEF JobOK, FoundOK, ReadyOK, ScriptOK, TempOK, Mine
<1>1. CASE Start(p)
  <2>1. Types'  BY <1>1 DEF Start, Types
  <2>2. Others(p)  BY <1>0, <1>1 DEF Start, Others, Types
  <2>3. Mine(p)'
    <3>1. PICK j \in Jobs[p] : job' = [job EXCEPT ![p] = j] /\
              pc' = [pc EXCEPT ![p] =
                       CASE guest_tool_for_command(j.command) \in Tools -> "installed"
                         [] j.command = "claude" /\ ~HasClaude -> "err"
                         [] OTHER -> "ok"]
      BY <1>1, Zenon DEF Start
    <3>2. job'[p] = j /\ Tool(p)' = guest_tool_for_command(j.command)
      BY <1>0, <3>1 DEF Types, Tool
    <3>3. CASE guest_tool_for_command(j.command) \in Tools
      <4>1. j.command # "claude"
        BY <3>3 DEF guest_tool_for_command, Tools
      <4>2. pc'[p] = "installed"  BY <1>0, <3>1, <3>3, <4>1 DEF Types
      <4> QED  BY <3>2, <3>3, <4>2 DEF Mine
    <3>4. CASE guest_tool_for_command(j.command) \notin Tools
      <4>1. pc'[p] \in {"err", "ok"}  BY <1>0, <3>1, <3>4 DEF Types
      <4> QED  BY <3>2, <3>4, <4>1 DEF Mine
    <3> QED  BY <3>3, <3>4
  <2> QED  BY <2>1, <2>2, <2>3, MineSuffices
<1>2. CASE installed_runtimes(p)
  <2>1. Types'  BY <1>0, <1>2 DEF installed_runtimes, Types
  <2>2. Others(p)  BY <1>0, <1>2 DEF installed_runtimes, Others, Types
  <2>3. Mine(p)'
    <3>1. Tool(p)' = Tool(p) /\ Tool(p) \in Tools
      BY <1>0, <1>2 DEF installed_runtimes, Tool, Mine
    <3>2. \A v \in installed'[p] : dirs'[<<Tool(p), v>>] = "complete"
      BY <1>0, <1>2, <3>1 DEF installed_runtimes, Types
    <3> QED  BY <1>0, <1>2, <3>1, <3>2 DEF installed_runtimes, Mine, Types
  <2> QED  BY <2>1, <2>2, <2>3, MineSuffices
<1>3. CASE Resolve(p)
  <2>1. PICK d \in ensure_runtime(Tool(p), job[p], installed[p]) :
              /\ version' = [version EXCEPT ![p] = d.version]
              /\ pc' = [pc EXCEPT ![p] = d.do]
    BY <1>3, Zenon DEF Resolve
  <2>2. Tool(p)' = Tool(p) /\ Tool(p) \in Tools /\ job[p] \in Jobs[p]
    BY <1>0, <1>3 DEF Resolve, Tool, Mine
  <2>3. installed[p] \in SUBSET Versions  BY <1>0 DEF Types
  <2>4. \/ d.do = "rewrite" /\ d.version \in installed[p]
        \/ d.do = "ensure" /\ d.version \in Versions
        \/ d.do = "fetch" /\ d.version = Nightly
    BY <2>2, <2>3, EnsureRuntimeResult
  <2>5. Types'  BY <1>0, <1>3, <2>1, <2>3, <2>4 DEF Resolve, Types
  <2>6. Others(p)  BY <1>0, <1>3, <2>1 DEF Resolve, Others, Types
  <2>7. pc'[p] = d.do /\ version'[p] = d.version  BY <1>0, <2>1 DEF Types
  <2>8. d.version \in installed[p] => dirs[<<Tool(p), d.version>>] = "complete"
    BY <1>0, <1>3 DEF Resolve, Mine
  <2>9. Mine(p)'
    BY <1>3, <2>2, <2>3, <2>4, <2>7, <2>8 DEF Resolve, Mine, Dir
  <2> QED  BY <2>5, <2>6, <2>9, MineSuffices
<1>4. CASE resolve_latest_version(p)
  <2>1. PICK v \in select_latest(Tool(p), request[p][1], request[p][2]) :
              version' = [version EXCEPT ![p] = v]
    BY <1>4, Zenon DEF resolve_latest_version
  <2>2. Tool(p)' = Tool(p) /\ Tool(p) \in Tools /\ job[p] \in Jobs[p]
    BY <1>0, <1>4 DEF resolve_latest_version, Tool, Mine
  <2>3. v \in Versions  BY <2>2, SelectLatestResult
  <2>4. Types'  BY <1>0, <1>4, <2>1, <2>3 DEF resolve_latest_version, Types
  <2>5. Others(p)
    BY <1>0, <1>4, <2>1 DEF resolve_latest_version, Others, Types
  <2>6. Mine(p)'
    BY <1>0, <1>4, <2>1, <2>2, <2>3 DEF resolve_latest_version, Mine, Types
  <2> QED  BY <2>4, <2>5, <2>6, MineSuffices
<1>5. CASE FetchFails(p) \/ InstallFails(p) \/ Crash(p)
  <2> USE DEF FetchFails, InstallFails, Crash
  <2>1. Types'  BY <1>0, <1>5 DEF Types
  <2>2. Others(p)  BY <1>0, <1>5 DEF Others, Types
  <2>3. Mine(p)'  BY <1>0, <1>5 DEF Mine, Types
  <2> QED  BY <2>1, <2>2, <2>3, MineSuffices
<1>6. CASE create_temp_dir(p) \/ Download(p) \/ BeginExtract(p) \/ Extract(p)
  <2> USE DEF create_temp_dir, Download, BeginExtract, Extract
  <2>1. Types'  BY <1>0, <1>6 DEF Types
  <2>2. Others(p)  BY <1>0, <1>6 DEF Others, Types
  <2>3. Mine(p)'  BY <1>0, <1>6 DEF Mine, Types, Tool
  <2> QED  BY <2>1, <2>2, <2>3, MineSuffices
<1>7. CASE ensure_version(p) \/ finalize_runtime_install(p)
  <2> USE DEF ensure_version, finalize_runtime_install
  <2>1. Types'  BY <1>0, <1>7 DEF Types
  <2>2. Others(p)  BY <1>0, <1>7 DEF Others, Types
  <2>3. Dir(p) \in Tools \X Versions  BY <1>0, <1>7 DEF Mine, Dir
  <2>4. Mine(p)'  BY <1>0, <1>7, <2>3 DEF Mine, Types, Tool, Dir
  <2> QED  BY <2>1, <2>2, <2>4, MineSuffices
<1>8. CASE Rename(p)
  <2>1. Dir(p) \in Tools \X Versions  BY <1>0, <1>8 DEF Rename, Mine, Dir
  <2>2. Types'  BY <1>0, <1>8, <2>1 DEF Rename, Types, Mine
  <2>3. Others(p)  BY <1>0, <1>8 DEF Rename, Others, Types
  <2>4. Mine(p)'  BY <1>0, <1>8, <2>1 DEF Rename, Mine, Types, Tool, Dir
  <2> QED  BY <2>2, <2>3, <2>4, MineSuffices
<1>9. CASE RemoveTempDir(p)
  <2>1. Types'  BY <1>0, <1>9 DEF RemoveTempDir, Types
  <2>2. Others(p)  BY <1>0, <1>9 DEF RemoveTempDir, Others, Types
  <2>3. Mine(p)'  BY <1>0, <1>9 DEF RemoveTempDir, Mine, Types, Tool, Dir
  <2> QED  BY <2>1, <2>2, <2>3, MineSuffices
<1>10. CASE Rewrite(p)
  <2>1. Types'  BY <1>0, <1>10 DEF Rewrite, Types
  <2>2. Others(p)  BY <1>0, <1>10 DEF Rewrite, Others, Types
  <2>3. Mine(p)'  BY <1>0, <1>10 DEF Rewrite, Mine, Types, Tool, Dir
  <2> QED  BY <2>1, <2>2, <2>3, MineSuffices
<1> QED  BY <1>1, <1>2, <1>3, <1>4, <1>5, <1>6, <1>7, <1>8, <1>9, <1>10 DEF Step

LEMMA StutterKeeps == IInv /\ UNCHANGED vars => IInv'
BY DEF vars, IInv, Types, JobOK, FoundOK, ReadyOK, ScriptOK, TempOK, Tool, Dir

\* The invariant holds throughout.
LEMMA RuntimeInvariant == Spec => []IInv
<1>2. IInv /\ [Next]_vars => IInv'
  BY StutterKeeps, StepKeeps DEF Next
<1> QED  BY <1>2, InitIInv, PTL DEF Spec

\* Whatever fails or dies, the state of the installer is well typed, and a
\* process that goes on has chosen an existing version.
THEOREM RuntimeTypeCorrect == Spec => []TypeOK
<1>1. IInv => TypeOK
  BY DEF IInv, Types, JobOK, ReadyOK, TypeOK, Labels, Busy, Chosen
<1> QED  BY <1>1, RuntimeInvariant, PTL

\* For any number of processes: a command that was rewritten runs a program and
\* a script of a runtime that is completely installed, although processes share
\* the tools directory without a lock (finalize_runtime_install).
THEOREM RuntimeReadyInstalled == Spec => []ReadyIsInstalled
<1>1. IInv => ReadyIsInstalled
  BY DEF IInv, ReadyOK, ScriptOK, ReadyIsInstalled
<1> QED  BY <1>1, RuntimeInvariant, PTL

\* For any number of processes: runtime directories appear complete and are
\* never changed again.
THEOREM RuntimesNeverChange == Spec => RuntimesAppearComplete
<1>1. ASSUME IInv, NEW p \in Procs, Step(p), NEW d \in DOMAIN dirs,
             dirs'[d] # dirs[d]
      PROVE dirs[d] = "none" /\ dirs'[d] = "complete"
  <2>1. Rename(p)
    BY <1>1 DEF Step, Start, installed_runtimes, Resolve, FetchFails,
       resolve_latest_version, ensure_version, InstallFails, create_temp_dir, Download,
       BeginExtract, Extract, finalize_runtime_install, RemoveTempDir, Rewrite, Crash
  <2> QED  BY <1>1, <2>1 DEF Rename, IInv, Types, TempOK
<1>2. ASSUME IInv, [Next]_vars
      PROVE [\A d \in DOMAIN dirs : dirs'[d] # dirs[d] =>
                 dirs[d] = "none" /\ dirs'[d] = "complete"]_vars
  BY <1>1, <1>2 DEF Next
<1> QED  BY <1>2, RuntimeInvariant, PTL DEF Spec, RuntimesAppearComplete

-----------------------------------------------------------------------------
(* Induction.                                                              *)

\* A set of natural numbers has a least one.
LEMMA LeastNat ==
    ASSUME NEW T, T \subseteq Nat, T # {}
    PROVE  \E x \in T : \A y \in T : x <= y
<1> DEFINE R == OpToRel(<, Nat)
<1>1. IsWellFoundedOn(R, Nat)  BY NatLessThanWellFounded, Zenon
<1>2. \A x, y \in Nat : x < y => <<x, y>> \in R  BY DEF OpToRel
<1> HIDE DEF R
<1>3. PICK x \in T : \A y \in T : ~(<<y, x>> \in R)  BY <1>1, WFMin, Zenon
<1>4. ASSUME NEW y \in T PROVE x <= y
  <2>1. x \in Nat /\ y \in Nat /\ ~(<<y, x>> \in R)  BY <1>3, Zenon
  <2>2. ~(y < x)  BY <1>2, <2>1, Zenon
  <2> QED  BY <2>1, <2>2
<1> QED  BY <1>4

\* Induction on a number, with the set of numbers for which the claim holds.
LEMMA Induction ==
    ASSUME NEW S, 0 \in S, \A n \in Nat : n \in S => n + 1 \in S
    PROVE  Nat \subseteq S
<1> SUFFICES ASSUME Nat \ S # {} PROVE FALSE
    OBVIOUS
<1>1. PICK x \in Nat \ S : \A y \in Nat \ S : x <= y  BY LeastNat, Zenon
<1>2. x - 1 \in Nat /\ (x - 1) + 1 = x  BY x # 0
<1>3. x - 1 \in S  BY <1>1, <1>2
<1> QED  BY <1>2, <1>3

-----------------------------------------------------------------------------
(* Requirements.                                                           *)

Tokens == [op : Operators, joined : BOOLEAN, text : {Star, Lone, Bad} \union PartialSemVer]

\* tokens is what the first N words of a clause become.
Joins(tokens, clause, N) ==
    tokens = [n \in 0 .. N |-> IF n = 0 THEN <<>> ELSE Join(tokens[n - 1], clause[n])]

\* The loop of comparator_tokens defines a function.
LEMMA JoinedJoins ==
    ASSUME NEW clause, Len(clause) \in Nat
    PROVE  Joins(Joined(clause), clause, Len(clause))
<1> DEFINE S == {N \in Nat : \E g : Joins(g, clause, N)}
<1>1. 0 \in S
  <2>1. Joins([n \in 0 .. 0 |-> <<>>], clause, 0)  BY DEF Joins
  <2> QED  BY <2>1
<1>2. ASSUME NEW N \in Nat, N \in S PROVE N + 1 \in S
  <2>1. PICK g : Joins(g, clause, N)  BY <1>2
  <2> DEFINE M == N + 1
             h == [n \in 0 .. M |-> IF n = M THEN Join(g[N], clause[M]) ELSE g[n]]
  <2>2. ASSUME NEW n \in 0 .. M
        PROVE  h[n] = IF n = 0 THEN <<>> ELSE Join(h[n - 1], clause[n])
    <3>1. CASE n = M  BY <3>1
    <3>2. CASE n # M
      <4>1. n \in 0 .. N  BY <3>2
      <4>2. g[n] = IF n = 0 THEN <<>> ELSE Join(g[n - 1], clause[n])
        BY <2>1, <4>1 DEF Joins
      <4>3. n # 0 => h[n - 1] = g[n - 1]  BY <4>1
      <4> QED  BY <3>2, <4>1, <4>2, <4>3
    <3> QED  BY <3>1, <3>2
  <2>3. Joins(h, clause, M)  BY <2>2 DEF Joins
  <2> QED  BY <2>3
<1> HIDE DEF S
<1>3. Nat \subseteq S  BY <1>1, <1>2, Induction
<1>4. PICK g : Joins(g, clause, Len(clause))  BY <1>3 DEF S
<1> QED  BY <1>4 DEF Joins, Joined

\* An operator and a word make a token.
LEMMA TogetherToken ==
    ASSUME NEW op \in Operators, NEW word \in Words
    PROVE  Together(op, word) \in Tokens
<1>1. word.text \in {Star, Lone, Bad} \union PartialSemVer  BY Zenon DEF Words
<1>2. (IF op = ">" THEN ">=" ELSE "<=") \in Operators  BY Zenon DEF Operators
<1>3. ASSUME NEW o \in Operators, NEW t \in {Star, Lone, Bad} \union PartialSemVer
      PROVE  [op |-> o, joined |-> TRUE, text |-> t] \in Tokens
  BY DEF Tokens
<1>4. (IF word.op = "" THEN word.text ELSE Bad) \in {Star, Lone, Bad} \union PartialSemVer
  BY <1>1, Zenon
<1> QED  BY <1>1, <1>2, <1>3, <1>4, Zenon DEF Together

\* One more word makes one more token, or the last one complete.
LEMMA JoinTokens ==
    ASSUME NEW tokens \in Seq(Tokens), NEW word \in Words
    PROVE  Join(tokens, word) \in Seq(Tokens)
<1> DEFINE last == tokens[Len(tokens)]
           whole == Together(last.op, word)
           next == [op |-> word.op, joined |-> FALSE, text |-> word.text]
<1>1. next \in Tokens
  <2>1. /\ word.op \in Operators
        /\ word.text \in {Star, Lone, Bad} \union PartialSemVer
    BY DEF Words
  <2> QED  BY <2>1 DEF Tokens
<1>2. Append(tokens, next) \in Seq(Tokens)  BY <1>1
<1>3. ASSUME tokens # <<>> PROVE [tokens EXCEPT ![Len(tokens)] = whole] \in Seq(Tokens)
  <2>1. last \in Tokens  BY <1>3
  <2> HIDE DEF last
  <2>2. last.op \in Operators  BY <2>1 DEF Tokens
  <2>3. whole \in Tokens  BY <2>2, TogetherToken
  <2> HIDE DEF whole
  <2>4. Len(tokens) \in Nat /\ tokens \in [1 .. Len(tokens) -> Tokens]  OBVIOUS
  <2>5. [tokens EXCEPT ![Len(tokens)] = whole] \in [1 .. Len(tokens) -> Tokens]
    BY <2>3, <2>4, Zenon
  <2> QED  BY <2>4, <2>5
<1> QED  BY <1>2, <1>3, Zenon DEF Join

\* comparator_tokens makes tokens of words.
LEMMA TokensAre ==
    ASSUME NEW clause \in Seq(Words)
    PROVE  comparator_tokens(clause) \in Seq(Tokens)
<1> DEFINE T == Joined(clause)
           S == {n \in Nat : n <= Len(clause) => T[n] \in Seq(Tokens)}
<1>1. T = [n \in 0 .. Len(clause) |-> IF n = 0 THEN <<>> ELSE Join(T[n - 1], clause[n])]
  BY JoinedJoins DEF Joins
<1> HIDE DEF T
<1>2. 0 \in S  BY <1>1
<1>3. ASSUME NEW n \in Nat, n \in S PROVE n + 1 \in S
  <2> SUFFICES ASSUME n + 1 <= Len(clause) PROVE T[n + 1] \in Seq(Tokens)
      OBVIOUS
  <2>1. n \in 0 .. Len(clause) /\ T[n] \in Seq(Tokens)  BY <1>3
  <2>2. T[n + 1] = Join(T[n], clause[n + 1])  BY <1>1, <2>1
  <2>3. clause[n + 1] \in Words  OBVIOUS
  <2> QED  BY <2>1, <2>2, <2>3, JoinTokens
<1> HIDE DEF S
<1>4. Nat \subseteq S  BY <1>2, <1>3, Induction
<1> QED  BY <1>4 DEF S, T, comparator_tokens

\* A requirement that is one word is one token.
LEMMA OneToken ==
    ASSUME NEW word
    PROVE  comparator_tokens(<<word>>) =
               <<[op |-> word.op, joined |-> FALSE, text |-> word.text]>>
<1> DEFINE clause == <<word>>
           T == Joined(clause)
<1>0. Len(clause) = 1 /\ clause[1] = word  OBVIOUS
<1>1. T = [n \in 0 .. 1 |-> IF n = 0 THEN <<>> ELSE Join(T[n - 1], clause[n])]
  BY <1>0, JoinedJoins DEF Joins
<1>2. comparator_tokens(clause) = T[1]  BY <1>0 DEF comparator_tokens
<1> HIDE DEF T, clause
<1>3. T[1] = Join(<<>>, word)  BY <1>0, <1>1
<1>4. Join(<<>>, word) = <<[op |-> word.op, joined |-> FALSE, text |-> word.text]>>
  BY DEF Join
<1> QED  BY <1>2, <1>3, <1>4, Zenon DEF clause

\* The order of versions, in numbers.
LEMMA VersionOrder ==
    ASSUME NEW a \in Nat, NEW b \in Nat, NEW c \in Nat, NEW x \in Nat, NEW y \in Nat, NEW z \in Nat
    PROVE  /\ Lt(<<a, b, c>>, <<x, y, z>>)
                <=> a < x \/ (a = x /\ b < y) \/ (a = x /\ b = y /\ c < z)
           /\ Le(<<a, b, c>>, <<x, y, z>>)
                <=> a < x \/ (a = x /\ b < y) \/ (a = x /\ b = y /\ c <= z)
<1>1. Lt(<<a, b, c>>, <<x, y, z>>) <=> a < x \/ (a = x /\ b < y) \/ (a = x /\ b = y /\ c < z)
  BY DEF Lt
<1>2. (<<a, b, c>> = <<x, y, z>>) <=> (a = x /\ b = y /\ c = z)  OBVIOUS
<1> QED  BY <1>1, <1>2 DEF Le

\* The comparators of a version with three fields.
LEMMA BoundsMean ==
    ASSUME NEW token, token.op \in Operators,
           NEW a \in Nat, NEW b \in Nat \union {X}, NEW c \in Nat \union {X}, token.text = <<a, b, c>>,
           NEW x \in Nat, NEW y \in Nat, NEW z \in Nat, comparator_accepts(token, <<x, y, z>>)
    PROVE  Deviates(token) \/ Admits(token, <<x, y, z>>)
<1> DEFINE m == IF b = X THEN 0 ELSE b
           n == IF c = X THEN 0 ELSE c
           base == <<a, b, c>>
           v == <<x, y, z>>
<1> SUFFICES Deviates(token) \/ Admits(token, v)
    OBVIOUS
<1>1. X \notin Nat  BY DEF X
<1>2. /\ m \in Nat /\ n \in Nat
      /\ b = X => m = 0
      /\ c = X => n = 0
      /\ b # X => m = b
      /\ c # X => n = c
  OBVIOUS
<1>3. lower_bound(base) = <<a, m, n>>  BY <1>1 DEF lower_bound
<1> HIDE DEF m, n
<1>4. Len(base) = 3 /\ base # Star /\ base # Lone  BY DEF Star, Lone
<1>5. Le(<<a, m, n>>, v) <=> a < x \/ (a = x /\ m < y) \/ (a = x /\ m = y /\ n <= z)
  BY <1>2, VersionOrder
<1>6. Lt(<<a, m, n>>, v) <=> a < x \/ (a = x /\ m < y) \/ (a = x /\ m = y /\ n < z)
  BY <1>2, VersionOrder
<1>7. Le(v, <<a, m, n>>) <=> x < a \/ (x = a /\ y < m) \/ (x = a /\ y = m /\ z <= n)
  BY <1>2, VersionOrder
<1>8. base[1] = a /\ base[2] = b /\ base[3] = c /\ v[1] = x /\ v[2] = y /\ v[3] = z
  OBVIOUS
<1> HIDE DEF base, v
<1> DEFINE low == lower_bound(base)
<1>9. comparator_accepts(token, v) /\ token.text = base  BY DEF v, base
<1>a. low = <<a, m, n>>  BY <1>3
<1> HIDE DEF low
<1>10. CASE token.op = "^"
  <2>1. Le(low, v) /\ Lt(v, CaretBound(base))
    BY <1>4, <1>9, <1>10 DEF comparator_accepts, low
  <2>2. ASSUME SameLeftmost(base, v) PROVE Admits(token, v)
    BY <1>4, <1>9, <1>10, <2>1, <2>2 DEF Admits, low
  <2>3. CASE a > 0
    <3>1. Lt(v, <<a + 1, 0, 0>>)  BY <1>8, <2>1, <2>3 DEF CaretBound
    <3>2. x < a + 1  BY <1>8, <3>1 DEF Lt
    <3>3. x = a  BY <1>5, <1>a, <2>1, <3>2
    <3>4. 1 \in 1 .. 3 /\ base[1] = v[1] /\ base[1] # 0  BY <1>8, <2>3, <3>3
    <3>5. SameLeftmost(base, v)  BY <3>4 DEF SameLeftmost
    <3> QED  BY <2>2, <3>5
  <2>4. CASE a = 0 /\ b # X /\ b # 0
    <3>0. b \in Nat  BY <2>4
    <3>1. Lt(v, <<0, b + 1, 0>>)  BY <1>8, <2>1, <2>4 DEF CaretBound
    <3>2. x = 0 /\ y < b + 1  BY <1>8, <3>0, <3>1 DEF Lt
    <3>3. y = b  BY <1>2, <1>5, <1>a, <2>1, <2>4, <3>0, <3>2
    <3>4. base[1] = v[1] /\ base[2] = v[2] /\ base[1] = 0 /\ base[2] # 0
      BY <1>8, <2>4, <3>2, <3>3
    <3>5. (1 .. 2 = {1, 2}) /\ (1 .. 2 - 1 = {1}) /\ 2 \in 1 .. 3  OBVIOUS
    <3>6. SameLeftmost(base, v)  BY <3>4, <3>5, Zenon DEF SameLeftmost
    <3> QED  BY <2>2, <3>6
  <2>5. CASE a = 0 /\ b \in {0, X}
    BY <1>4, <1>8, <1>9, <1>10, <2>5 DEF Deviates
  <2> QED  BY <2>3, <2>4, <2>5
<1>11. CASE token.op = "~"
  <2>1. Le(low, v) /\ Lt(v, TildeBound(base))
    BY <1>4, <1>9, <1>11 DEF comparator_accepts, low
  <2>2. ASSUME x = a, b \in {y, X} PROVE Admits(token, v)
    BY <1>4, <1>8, <1>9, <1>11, <2>1, <2>2 DEF Admits, low
  <2>3. CASE b = X
    <3>1. Lt(v, <<a + 1, 0, 0>>)  BY <1>8, <2>1, <2>3 DEF TildeBound
    <3>2. x < a + 1  BY <1>8, <3>1 DEF Lt
    <3>3. x = a  BY <1>5, <1>a, <2>1, <3>2
    <3> QED  BY <2>2, <2>3, <3>3
  <2>4. CASE b # X
    <3>0. b \in Nat  BY <2>4
    <3>1. Lt(v, <<a, b + 1, 0>>)  BY <1>8, <2>1, <2>4 DEF TildeBound
    <3>2. x < a \/ (x = a /\ y < b + 1)  BY <1>8, <3>0, <3>1 DEF Lt
    <3>3. x = a /\ y = b  BY <1>2, <1>5, <1>a, <2>1, <2>4, <3>0, <3>2
    <3> QED  BY <2>2, <3>3
  <2> QED  BY <2>3, <2>4
<1>12. CASE token.op \in {">=", "<"}
  BY <1>4, <1>9, <1>12, Zenon DEF comparator_accepts, Admits, low
<1>13. CASE token.op \in {">", "<=", "="} /\ X \in {b, c}
  BY <1>4, <1>8, <1>9, <1>13, Zenon DEF Deviates
<1>14. CASE token.op \in {">", "<=", "="} /\ X \notin {b, c}
  <2>1. b \in Nat /\ c \in Nat /\ m = b /\ n = c  BY <1>2, <1>14
  <2>2. NextAfter(base) = <<a, b, c + 1>>  BY <1>8, <1>14 DEF NextAfter
  <2>3. Le(<<a, b, c + 1>>, v) <=> a < x \/ (a = x /\ b < y) \/ (a = x /\ b = y /\ c + 1 <= z)
    <3>1. Lt(<<a, b, c + 1>>, v) <=> a < x \/ (a = x /\ b < y) \/ (a = x /\ b = y /\ c + 1 < z)
      BY <1>8, <2>1 DEF Lt
    <3>2. (<<a, b, c + 1>> = v) <=> (a = x /\ b = y /\ c + 1 = z)  BY DEF v
    <3> QED  BY <2>1, <3>1, <3>2 DEF Le
  <2>4. Lt(v, <<a, b, c + 1>>) <=> x < a \/ (x = a /\ y < b) \/ (x = a /\ y = b /\ z < c + 1)
    BY <1>8, <2>1 DEF Lt
  <2>5. CASE token.op = ">"
    <3>1. Lt(low, v)  BY <1>4, <1>9, <2>5 DEF comparator_accepts, low
    <3>2. Le(NextAfter(base), v)  BY <1>6, <1>a, <2>1, <2>2, <2>3, <3>1
    <3> QED  BY <1>4, <1>9, <2>5, <3>2 DEF Admits
  <2>6. CASE token.op = "<="
    <3>1. Le(v, low)  BY <1>4, <1>9, <2>6 DEF comparator_accepts, low
    <3>2. Lt(v, NextAfter(base))  BY <1>7, <1>a, <2>1, <2>2, <2>4, <3>1
    <3> QED  BY <1>4, <1>9, <2>6, <3>2 DEF Admits
  <2>7. CASE token.op = "="
    <3>1. v = low  BY <1>4, <1>9, <2>7 DEF comparator_accepts, low
    <3>2. x = a /\ y = b /\ z = c  BY <1>a, <2>1, <3>1 DEF v
    <3>3. Lt(v, NextAfter(base))  BY <2>1, <2>2, <2>4, <3>2
    <3>4. Le(low, v)  BY <3>1 DEF Le
    <3> QED  BY <1>4, <1>9, <2>7, <3>3, <3>4 DEF Admits, low
  <2> QED  BY <1>14, <2>5, <2>6, <2>7
<1>15. CASE token.op = ""
  <2>1. \A i \in 1 .. 3 : base[i] \in {v[i], X}
    BY <1>4, <1>9, <1>15, Zenon DEF comparator_accepts
  <2>2. a \in {x, X} /\ b \in {y, X} /\ c \in {z, X}  BY <1>8, <2>1
  <2>3. a = x  BY <1>1, <2>2
  <2>4. Le(low, v)  BY <1>2, <1>5, <1>a, <2>2, <2>3
  <2>5. Lt(v, NextAfter(base))
    <3>1. CASE b = X
      <4>1. NextAfter(base) = <<a + 1, 0, 0>>  BY <1>8, <3>1 DEF NextAfter
      <4> QED  BY <1>8, <2>3, <4>1 DEF Lt
    <3>2. CASE b # X /\ c = X
      <4>1. NextAfter(base) = <<a, b + 1, 0>>  BY <1>8, <3>2 DEF NextAfter
      <4>2. b \in Nat /\ b = y  BY <2>2, <3>2
      <4> QED  BY <1>8, <2>3, <4>1, <4>2 DEF Lt
    <3>3. CASE b # X /\ c # X
      <4>1. NextAfter(base) = <<a, b, c + 1>>  BY <1>8, <3>3 DEF NextAfter
      <4>2. b \in Nat /\ b = y /\ c \in Nat /\ c = z  BY <2>2, <3>3
      <4> QED  BY <1>8, <2>3, <4>1, <4>2 DEF Lt
    <3> QED  BY <3>1, <3>2, <3>3
  <2> QED  BY <1>4, <1>9, <1>15, <2>4, <2>5, Zenon DEF Admits, low
<1> QED  BY <1>10, <1>11, <1>12, <1>13, <1>14, <1>15, Zenon DEF Operators

\* comparator_accepts means what npm means, except where it deviates.
LEMMA AcceptsMeans ==
    ASSUME NEW token \in Tokens, NEW v \in Nat \X Nat \X Nat, comparator_accepts(token, v)
    PROVE  Deviates(token) \/ Admits(token, v)
<1>1. PICK base : base = token.text  OBVIOUS
<1>2. base \in {Star, Lone, Bad} \union PartialSemVer /\ token.op \in Operators
  BY <1>1 DEF Tokens
<1>3. CASE token.op = "" /\ base \in {Star, Lone}
  BY <1>1, <1>3, Zenon DEF Deviates, Admits
<1>4. CASE ~(token.op = "" /\ base \in {Star, Lone})
  <2>1. Len(base) = 3  BY <1>1, <1>4, Zenon DEF comparator_accepts
  <2>2. base # Star /\ base # Lone /\ base # Bad
    <3>1. Len(Star) = 1 /\ Len(Lone) = 0 /\ Len(Bad) = 2  BY DEF Star, Lone, Bad
    <3>2. 1 # 3 /\ 0 # 3 /\ 2 # 3  OBVIOUS
    <3> QED  BY <2>1, <3>1, <3>2, Zenon
  <2>3. base \in PartialSemVer  BY <1>2, <2>2
  <2>4. /\ base = <<base[1], base[2], base[3]>> /\ base[1] \in Nat
        /\ base[2] \in Nat \union {X} /\ base[3] \in Nat \union {X}
    BY <2>3 DEF PartialSemVer
  <2>5. v = <<v[1], v[2], v[3]>> /\ v[1] \in Nat /\ v[2] \in Nat /\ v[3] \in Nat
    OBVIOUS
  <2>6. token.text = <<base[1], base[2], base[3]>>  BY <1>1, <2>4
  <2>7. comparator_accepts(token, <<v[1], v[2], v[3]>>)  BY <2>5
  <2>8. Deviates(token) \/ Admits(token, <<v[1], v[2], v[3]>>)
    BY <1>2, <2>4, <2>5, <2>6, <2>7, BoundsMean
  <2> QED  BY <2>5, <2>8
<1> QED  BY <1>3, <1>4, Zenon

\* A version that satisfies a requirement satisfies it in npm's reading, but for
\* the comparators that deviate.
LEMMA SatisfiesMeans ==
    ASSUME NEW requirement \in Requirements, NEW v \in Nat \X Nat \X Nat,
           version_satisfies(v, requirement)
    PROVE  \E clause \in requirement :
               LET tokens == comparator_tokens(clause) IN
               \A i \in DOMAIN tokens : Deviates(tokens[i]) \/ Admits(tokens[i], v)
<1>1. PICK clause \in requirement :
          \A i \in DOMAIN comparator_tokens(clause) :
              comparator_accepts(comparator_tokens(clause)[i], v)
  BY DEF version_satisfies
<1>2. comparator_tokens(clause) \in Seq(Tokens)  BY TokensAre DEF Requirements
<1>3. \A i \in DOMAIN comparator_tokens(clause) : comparator_tokens(clause)[i] \in Tokens
  BY <1>2
<1>4. \A i \in DOMAIN comparator_tokens(clause) :
          \/ Deviates(comparator_tokens(clause)[i])
          \/ Admits(comparator_tokens(clause)[i], v)
  BY <1>1, <1>3, AcceptsMeans
<1> QED  BY <1>4

\* A full version satisfies the requirement that it is.
LEMMA FullSatisfies ==
    ASSUME NEW requirement, is_full(requirement), NEW clause \in requirement
    PROVE  parse(clause[1].text) /\ version_satisfies(clause[1].text, requirement)
<1>1. PICK base : requirement = {<<[op |-> "", text |-> base]>>} /\ Len(base) = 3
  BY Zenon DEF is_full
<1> DEFINE word == [op |-> "", text |-> base]
           token == [op |-> "", joined |-> FALSE, text |-> base]
<1>2. clause = <<word>> /\ clause[1].text = base
  <2>1. clause = <<word>>  BY <1>1, Zenon
  <2> QED  BY <2>1, Zenon
<1>3. comparator_tokens(clause) = <<token>>
  <2>1. word.op = "" /\ word.text = base  OBVIOUS
  <2> HIDE DEF word
  <2> QED  BY <1>2, <2>1, OneToken, Zenon
<1>4. comparator_accepts(token, base)
  BY <1>1, Zenon DEF comparator_accepts
<1> HIDE DEF token
<1>5. <<token>> # <<>> /\ \A i \in DOMAIN <<token>> : <<token>>[i] = token  OBVIOUS
<1>6. version_satisfies(base, requirement)
  BY <1>3, <1>4, <1>5 DEF version_satisfies
<1> QED  BY <1>1, <1>2, <1>6, Zenon DEF parse

\* What satisfies the one requirement satisfies the other.
Covers(narrow, wide) ==
    \A v : version_satisfies(v, narrow) => version_satisfies(v, wide)

\* normalize_version does not widen a requirement.
LEMMA NormalizedCovers ==
    ASSUME NEW requirement PROVE Covers(normalize_version(requirement), requirement)
<1>1. comparator_tokens(<<>>) = <<>>
  <2>1. Joins(Joined(<<>>), <<>>, 0)  BY JoinedJoins
  <2> QED  BY <2>1 DEF Joins, comparator_tokens
<1>2. ASSUME NEW v PROVE ~version_satisfies(v, {<<>>})
  BY <1>1, Zenon DEF version_satisfies
<1> QED  BY <1>2, Zenon DEF Covers, normalize_version

\* What a decision owes to a requirement.
Owes(d, requirement) ==
    \/ /\ d.do \in {"rewrite", "ensure"}
       /\ parse(d.version) /\ version_satisfies(d.version, requirement)
    \/ d.do = "fetch" /\ Covers(d.request[1], requirement)

\* ensure_node_runtime and ensure_bun_runtime choose what satisfies the
\* requirement of the project, or go and look for it.
LEMMA EnsureRuntimeMeets ==
    ASSUME NEW tool, NEW j, NEW found, \A v \in found : parse(v),
           NEW d \in ensure_runtime(tool, j, found)
    PROVE  /\ Pinned(tool, j) # <<>> => Owes(d, Pinned(tool, j)[1])
           /\ Pinned(tool, j) = <<>> /\ tool = "node" /\ j.engine # <<>>
                => Owes(d, j.engine[1])
<1>0. /\ \A v : Use(v).do = "rewrite" /\ Use(v).version = v
      /\ \A v : Ensure(v).do = "ensure" /\ Ensure(v).version = v
      /\ \A r, lts : Fetch(r, lts).do = "fetch" /\ Fetch(r, lts).request[1] = r
  BY DEF Use, Ensure, Fetch
<1>1. ASSUME NEW requirement, NEW v \in select_latest_installed_runtime(found, requirement)
      PROVE  Owes(Use(v), requirement)
  <2>1. v \in found /\ version_satisfies(v, requirement)
    BY <1>1 DEF select_latest_installed_runtime, Latest, Satisfying
  <2> QED  BY <1>0, <2>1 DEF Owes
<1>2. ASSUME NEW requirement, NEW narrow, NEW lts, Covers(narrow, requirement)
      PROVE  Owes(Fetch(narrow, lts), requirement)
  BY <1>0, <1>2 DEF Owes
<1>3. CASE Pinned(tool, j) # <<>>
  <2> DEFINE r == Pinned(tool, j)[1]
  <2>1. d \in ensure_requirement(r, found)  BY <1>3 DEF ensure_runtime
  <2> HIDE DEF r
  <2>2. ASSUME Satisfying(found, r) # {} PROVE Owes(d, r)
    BY <1>1, <2>1, <2>2 DEF ensure_requirement
  <2>3. ASSUME Satisfying(found, r) = {}, is_full(r) PROVE Owes(d, r)
    <3>1. PICK clause \in r : d = Ensure(clause[1].text)
      BY <2>1, <2>3 DEF ensure_requirement, resolve_concrete_version
    <3> QED  BY <1>0, <2>3, <3>1, FullSatisfies DEF Owes
  <2>4. ASSUME Satisfying(found, r) = {}, ~is_full(r) PROVE Owes(d, r)
    <3>1. d = Fetch(normalize_version(r), FALSE)
      BY <2>1, <2>4, Zenon DEF ensure_requirement, resolve_concrete_version
    <3> QED  BY <1>2, <3>1, NormalizedCovers, Zenon
  <2>5. Owes(d, r)  BY <2>2, <2>3, <2>4
  <2> QED  BY <1>3, <2>5 DEF r
<1>4. CASE Pinned(tool, j) = <<>> /\ tool = "node" /\ j.engine # <<>>
  <2> DEFINE r == j.engine[1]
  <2>1. d \in EnsureEngine(r, j.host, found)  BY <1>4 DEF ensure_runtime
  <2> HIDE DEF r
  <2>2. ASSUME j.host # <<>> /\ parse(j.host[1]) /\ version_satisfies(j.host[1], r)
        PROVE  Owes(d, r)
    <3>1. d = Ensure(j.host[1])  BY <2>1, <2>2 DEF EnsureEngine
    <3> QED  BY <1>0, <2>2, <3>1 DEF Owes
  <2>3. ASSUME ~(j.host # <<>> /\ parse(j.host[1]) /\ version_satisfies(j.host[1], r)),
               Satisfying(found, r) # {}
        PROVE  Owes(d, r)
    BY <1>1, <2>1, <2>3 DEF EnsureEngine
  <2>4. ASSUME ~(j.host # <<>> /\ parse(j.host[1]) /\ version_satisfies(j.host[1], r)),
               Satisfying(found, r) = {}
        PROVE  Owes(d, r)
    <3>1. d = Fetch(r, TRUE)  BY <2>1, <2>4, Zenon DEF EnsureEngine
    <3>2. Covers(r, r)  BY Zenon DEF Covers
    <3> QED  BY <1>2, <3>1, <3>2, Zenon
  <2>5. Owes(d, r)  BY <2>2, <2>3, <2>4
  <2> QED  BY <1>4, <2>5 DEF r
<1> QED  BY <1>3, <1>4

\* What is looked for is what the project asks for, and what was chosen
\* satisfies it.
MetOK(p) ==
    /\ \A v \in installed[p] : parse(v)
    /\ pc[p] = "fetch" /\ Requested(p) # <<>> => Covers(request[p][1], Requested(p)[1])
    /\ pc[p] \in Chosen \union {"ok"} /\ Tool(p) \in Tools /\ Requested(p) # <<>> =>
           parse(version[p]) /\ version_satisfies(version[p], Requested(p)[1])

MetInv ==
    /\ IInv
    /\ request = [p \in Procs |-> request[p]]
    /\ \A p \in Procs : MetOK(p)

\* select_latest_node_version and select_latest_bun_version return a release
\* that satisfies the requirement.
LEMMA SelectLatestMeets ==
    ASSUME NEW tool, NEW requirement, NEW prefer_lts,
           NEW v \in select_latest(tool, requirement, prefer_lts)
    PROVE  parse(v) /\ version_satisfies(v, requirement)
BY DEF select_latest, Latest, fetch_releases

\* A process that is not p keeps what it has.
LEMMA MetKept ==
    ASSUME NEW p \in Procs, MetOK(p),
           pc'[p] = pc[p] \/ (pc'[p] \in Chosen \union {"ok"} /\ pc[p] \in Chosen)
               \/ pc'[p] \notin Chosen \union {"ok", "fetch"},
           job'[p] = job[p], installed'[p] = installed[p],
           version'[p] = version[p], request'[p] = request[p]
    PROVE  MetOK(p)'
<1>1. Tool(p)' = Tool(p) /\ Requested(p)' = Requested(p)  BY DEF Tool, Requested
<1> QED  BY <1>1 DEF MetOK, Chosen, Busy

\* Every step keeps the requirement.
LEMMA StepMeets == ASSUME MetInv, NEW p \in Procs, Step(p) PROVE MetInv'
<1>0. IInv /\ Types /\ Mine(p) /\ MetOK(p) /\ request = [q \in Procs |-> request[q]]
  BY DEF MetInv, IInv, JobOK, FoundOK, ReadyOK, ScriptOK, TempOK, Mine
<1>1. IInv'  BY <1>0, StepKeeps
<1> SUFFICES request' = [q \in Procs |-> request'[q]] /\ \A q \in Procs : MetOK(q)'
    BY <1>1 DEF MetInv
<1>2. request' = [q \in Procs |-> request'[q]]
  BY <1>0 DEF Step, Start, installed_runtimes, Resolve, FetchFails,
     resolve_latest_version, ensure_version, InstallFails, create_temp_dir, Download,
     BeginExtract, Extract, finalize_runtime_install, Rename, RemoveTempDir, Rewrite,
     Crash
<1>3. ASSUME NEW q \in Procs, q # p PROVE MetOK(q)'
  <2>1. pc'[q] = pc[q] /\ job'[q] = job[q] /\ installed'[q] = installed[q]
        /\ version'[q] = version[q] /\ request'[q] = request[q]
    BY <1>0, <1>3 DEF Step, Start, installed_runtimes, Resolve, FetchFails,
         resolve_latest_version, ensure_version, InstallFails, create_temp_dir, Types, Goto,
         Download, BeginExtract, Extract, finalize_runtime_install, Rename, RemoveTempDir,
         Rewrite, Crash
  <2>2. MetOK(q)  BY DEF MetInv
  <2> QED  BY <2>1, <2>2, MetKept
<1>4. MetOK(p)'
  <2> USE DEF Goto
  <2>1. CASE Start(p)
    <3>1. PICK j \in Jobs[p] : job' = [job EXCEPT ![p] = j] /\
              pc' = [pc EXCEPT ![p] =
                       CASE guest_tool_for_command(j.command) \in Tools -> "installed"
                         [] j.command = "claude" /\ ~HasClaude -> "err"
                         [] OTHER -> "ok"]
      BY <2>1, Zenon DEF Start
    <3>2. job'[p] = j /\ Tool(p)' = guest_tool_for_command(j.command)
      BY <1>0, <3>1 DEF Types, Tool
    <3>3. installed'[p] = installed[p]  BY <2>1 DEF Start
    <3>4. CASE guest_tool_for_command(j.command) \in Tools
      <4>1. j.command # "claude"
        BY <3>4 DEF guest_tool_for_command, Tools
      <4>2. pc'[p] = "installed"  BY <1>0, <3>1, <3>4, <4>1 DEF Types
      <4> QED  BY <1>0, <3>3, <4>2 DEF MetOK, Chosen, Busy
    <3>5. CASE guest_tool_for_command(j.command) \notin Tools
      <4>1. pc'[p] \in {"err", "ok"}  BY <1>0, <3>1, <3>5 DEF Types
      <4> QED  BY <1>0, <3>2, <3>3, <3>5, <4>1 DEF MetOK
    <3> QED  BY <3>4, <3>5
  <2>2. CASE installed_runtimes(p)
    <3>1. pc'[p] = "resolve" /\ \A v \in installed'[p] : parse(v)
      BY <1>0, <2>2 DEF installed_runtimes, Types
    <3> QED  BY <3>1 DEF MetOK, Chosen, Busy
  <2>3. CASE Resolve(p)
    <3>1. PICK d \in ensure_runtime(Tool(p), job[p], installed[p]) :
              /\ version' = [version EXCEPT ![p] = d.version]
              /\ request' = [request EXCEPT ![p] = d.request]
              /\ pc' = [pc EXCEPT ![p] = d.do]
      BY <2>3, Zenon DEF Resolve
    <3>2. pc'[p] = d.do /\ version'[p] = d.version /\ request'[p] = d.request
      BY <1>0, <3>1 DEF Types
    <3>3. installed'[p] = installed[p] /\ Tool(p)' = Tool(p) /\ Requested(p)' = Requested(p)
      BY <2>3 DEF Resolve, Tool, Requested
    <3>4. /\ Pinned(Tool(p), job[p]) # <<>> => Owes(d, Pinned(Tool(p), job[p])[1])
          /\ Pinned(Tool(p), job[p]) = <<>> /\ Tool(p) = "node" /\ job[p].engine # <<>>
                => Owes(d, job[p].engine[1])
      BY <1>0, EnsureRuntimeMeets DEF MetOK
    <3>5. Requested(p) # <<>> => Owes(d, Requested(p)[1])
      BY <3>4, Zenon DEF Requested
    <3> QED  BY <1>0, <3>2, <3>3, <3>5 DEF MetOK, Owes, Chosen, Busy
  <2>4. CASE resolve_latest_version(p)
    <3>1. PICK v \in select_latest(Tool(p), request[p][1], request[p][2]) :
              version' = [version EXCEPT ![p] = v]
      BY <2>4, Zenon DEF resolve_latest_version
    <3>2. version'[p] = v /\ pc'[p] = "ensure" /\ installed'[p] = installed[p]
      BY <1>0, <2>4, <3>1 DEF resolve_latest_version, Types
    <3>3. Tool(p)' = Tool(p) /\ Requested(p)' = Requested(p)
      BY <2>4 DEF resolve_latest_version, Tool, Requested
    <3>4. parse(v) /\ version_satisfies(v, request[p][1])  BY <3>1, SelectLatestMeets
    <3>5. Requested(p) # <<>> => version_satisfies(v, Requested(p)[1])
      BY <1>0, <2>4, <3>4 DEF resolve_latest_version, MetOK, Covers
    <3> QED  BY <1>0, <3>2, <3>3, <3>4, <3>5 DEF MetOK
  <2>5. CASE FetchFails(p) \/ InstallFails(p) \/ Crash(p)
    BY <1>0, <2>5, MetKept DEF FetchFails, InstallFails, Crash, Types, Chosen, Busy
  <2>6. CASE create_temp_dir(p) \/ Download(p) \/ BeginExtract(p) \/ Extract(p)
    BY <1>0, <2>6, MetKept DEF create_temp_dir, Download, BeginExtract, Extract, Types,
       Chosen, Busy
  <2>7. CASE ensure_version(p) \/ finalize_runtime_install(p)
    BY <1>0, <2>7, MetKept DEF ensure_version, finalize_runtime_install, Types, Chosen, Busy
  <2>8. CASE Rename(p) \/ RemoveTempDir(p) \/ Rewrite(p)
    BY <1>0, <2>8, MetKept DEF Rename, RemoveTempDir, Rewrite, Types, Chosen, Busy
  <2> QED  BY <2>1, <2>2, <2>3, <2>4, <2>5, <2>6, <2>7, <2>8 DEF Step
<1> QED  BY <1>2, <1>3, <1>4

\* The requirement is met throughout.
LEMMA RuntimeMeets == Spec => []MetInv
<1>1. Init => MetInv
  <2>1. Init => \A p \in Procs : MetOK(p)  BY DEF Init, MetOK, Chosen, Busy
  <2> QED  BY <2>1, InitIInv DEF MetInv, Init
<1>2. MetInv /\ UNCHANGED vars => MetInv'
  <2> SUFFICES ASSUME MetInv, UNCHANGED vars PROVE MetInv'
      OBVIOUS
  <2>1. \A p \in Procs : MetOK(p)'
    BY MetKept DEF MetInv, vars
  <2> QED  BY <2>1, StutterKeeps DEF MetInv, vars
<1>3. MetInv /\ [Next]_vars => MetInv'
  BY <1>2, StepMeets DEF Next
<1> QED  BY <1>1, <1>3, PTL DEF Spec

\* For any number of processes, releases and installed versions: a command is
\* only run with a version that satisfies what its project asks for, in the
\* reading of version_satisfies and, but for the comparators that deviate, in
\* npm's.
THEOREM RuntimeRequirementMet == Spec => []RequirementMet
<1>1. ASSUME MetInv, NEW p \in Procs, pc[p] = "ok", Tool(p) \in Tools, Requested(p) # <<>>
      PROVE  /\ version_satisfies(version[p], Requested(p)[1])
             /\ \E clause \in Requested(p)[1] :
                  LET tokens == comparator_tokens(clause) IN
                  \A i \in DOMAIN tokens :
                      Deviates(tokens[i]) \/ Admits(tokens[i], version[p])
  <2>1. parse(version[p]) /\ version_satisfies(version[p], Requested(p)[1])
    BY <1>1 DEF MetInv, MetOK
  <2>2. version[p] \in Versions  BY <1>1 DEF MetInv, IInv, ReadyOK
  <2>3. version[p] \in Nat \X Nat \X Nat
    <3>1. version[p] \in {Nightly} \union (Nat \X Nat \X Nat)  BY <2>2, RuntimeAssumption
    <3>2. Len(Nightly) = 0  BY DEF Nightly
    <3>3. version[p] # Nightly
      <4>1. 0 # 3  OBVIOUS
      <4> QED  BY <2>1, <3>2, <4>1, Zenon DEF parse
    <3> QED  BY <3>1, <3>3, Zenon
  <2>4. \E q \in Procs : job[p] \in Jobs[q]
    <3>1. job[p] # NoJob
      BY <1>1 DEF Tool, Tools, NoJob, guest_tool_for_command
    <3> QED  BY <1>1, <3>1 DEF MetInv, IInv, Types
  <2>5. Requested(p)[1] \in Requirements
    <3>1. Requested(p) \in {job[p].engine} \union {Pinned(t, job[p]) : t \in Tools}
      BY <1>1 DEF Requested
    <3> QED  BY <1>1, <2>4, <3>1, RuntimeAssumption
  <2> QED  BY <2>1, <2>3, <2>5, SatisfiesMeans
<1>2. MetInv => RequirementMet  BY <1>1, Zenon DEF RequirementMet
<1> QED  BY <1>2, RuntimeMeets, PTL

=============================================================================
