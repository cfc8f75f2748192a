------------------------------ MODULE Runtime -------------------------------
(***************************************************************************)
(* prepare_guest_command (linux/src/runtime.rs): each `fend` process picks *)
(* the Node.js or Bun version for its command, installs it into the tools  *)
(* directory unless it is there, and rewrites the command to run in it.    *)
(* Processes share the tools directory and take no lock; any of them may   *)
(* fail or die between two steps.                                          *)
(*                                                                         *)
(* A runtime directory is named after tool and version; the temporary      *)
(* directory of a process is its own (its name holds the pid).             *)
(***************************************************************************)
EXTENDS SemVer

CONSTANTS
    Procs,      \* fend processes
    Versions,   \* versions that runtime directories may have
    Jobs,       \* what each process may be run for: its command, what its
                \* project says (toml, files, engine) and the version of the
                \* tool on its host (<<>> or <<version>>)
    Releases,   \* per tool, a set of [version, lts, stable]
    Ships,      \* the scripts each Node.js version comes with
    HasClaude   \* whether claude is in the tools directory

Tools == {"node", "bun"}
Scripts == {"npm", "npx", "corepack"}

VARIABLES
    dirs,       \* the runtime directories: "none", "partial" or "complete"
    pc,         \* where each process is in prepare_guest_command
    job,        \* what it is run for
    installed,  \* versions it found in the tools directory
    version,    \* the version it has chosen
    request,    \* the requirement it looks up releases for, and prefer_lts
    temp        \* its temporary directory

vars == <<dirs, pc, job, installed, version, request, temp>>

-----------------------------------------------------------------------------
(* Which version.                                                          *)

\* guest_tool_for_command
guest_tool_for_command(c) ==
    CASE c \in {"node", "npm", "npx", "pnpm", "pnpx", "yarn"} -> "node"
      [] c \in {"bun", "bunx"} -> "bun"
      [] c = "claude" -> "claude"
      [] OTHER -> "none"

\* load_runtime_pins: the lines of .fend.toml that are a section header (key
\* "[]") or a pair; the value of a pair is what is left of it without comment
\* and quotes.
load_runtime_pins(lines) ==
    LET Line(acc, line) ==
            IF line.key = "[]" THEN [acc EXCEPT !.section = line.name]
            ELSE IF /\ acc.section = "runtime"
                    /\ line.value # <<>>
                    /\ line.key \in Tools
            THEN [acc EXCEPT !.pins[line.key] = line.value]
            ELSE acc
        read[n \in 0 .. Len(lines)] ==
            IF n = 0 THEN [section |-> "", pins |-> [t \in Tools |-> <<>>]]
            ELSE Line(read[n - 1], lines[n])
    IN read[Len(lines)].pins

\* What the project asks for by .fend.toml or a version file.
Pinned(tool, j) ==
    LET pin == load_runtime_pins(j.toml)[tool] IN
    IF pin # <<>> \/ tool # "node" THEN pin
    ELSE IF j.files[1] # <<>> THEN j.files[1] ELSE j.files[2]

ASSUME RuntimeAssumption ==
    /\ Versions \subseteq {Nightly} \union (Nat \X Nat \X Nat)
    /\ Ships \in [Versions -> SUBSET Scripts]
    /\ \A p \in Procs : \A j \in Jobs[p] :
         /\ j.host = <<>> \/ \E v \in Versions : j.host = <<v>>
         /\ \A t \in Tools : Pinned(t, j) # <<>> /\ is_full(Pinned(t, j)[1]) =>
              \A clause \in Pinned(t, j)[1] : clause[1].text \in Versions
         /\ \A asked \in {j.engine} \union {Pinned(t, j) : t \in Tools} :
              asked # <<>> => asked[1] \in Requirements
    /\ \A t \in Tools : \A r \in Releases[t] : r.version \in Versions
    /\ HasClaude \in BOOLEAN

\* What a process does about the version: use one it found, make sure that one
\* is installed, or look for the latest release.  The operators below return
\* the set of what it may do; it has one element.
Use(v) == [do |-> "rewrite", version |-> v, request |-> <<>>]
Ensure(v) == [do |-> "ensure", version |-> v, request |-> <<>>]
Fetch(requirement, prefer_lts) ==
    [do |-> "fetch", version |-> Nightly, request |-> <<requirement, prefer_lts>>]

Satisfying(versions, requirement) ==
    {v \in versions : version_satisfies(v, requirement)}

\* select_latest_installed_runtime
select_latest_installed_runtime(found, requirement) ==
    Latest(Satisfying(found, requirement))

\* resolve_concrete_node_version and resolve_concrete_bun_version: a full
\* version is taken as it is.
resolve_concrete_version(requirement) ==
    IF is_full(requirement)
    THEN {Ensure(clause[1].text) : clause \in requirement}
    ELSE {Fetch(normalize_version(requirement), FALSE)}

\* ensure_node_requirement and ensure_bun_requirement.
ensure_requirement(requirement, found) ==
    IF Satisfying(found, requirement) # {}
    THEN {Use(v) : v \in select_latest_installed_runtime(found, requirement)}
    ELSE resolve_concrete_version(requirement)

\* The requirement >=0.
AnyVersion == {<<[op |-> ">=", text |-> <<0, X, X>>]>>}

\* The end of ensure_node_runtime and of ensure_bun_runtime, for a project
\* that asks for nothing.
EnsureDefault(tool, h, found) ==
    IF h # <<>> THEN {Ensure(h[1])}
    ELSE IF found # {} THEN {Use(v) : v \in Latest(found)}
    ELSE {Fetch(AnyVersion, tool = "node")}

\* ensure_node_runtime, for a project with engines.node.
EnsureEngine(requirement, h, found) ==
    IF h # <<>> /\ parse(h[1]) /\ version_satisfies(h[1], requirement)
    THEN {Ensure(h[1])}
    ELSE IF Satisfying(found, requirement) # {}
    THEN {Use(v) : v \in select_latest_installed_runtime(found, requirement)}
    ELSE {Fetch(requirement, TRUE)}

\* ensure_node_runtime and ensure_bun_runtime.
ensure_runtime(tool, j, found) ==
    IF Pinned(tool, j) # <<>> THEN ensure_requirement(Pinned(tool, j)[1], found)
    ELSE IF tool = "node" /\ j.engine # <<>>
    THEN EnsureEngine(j.engine[1], j.host, found)
    ELSE EnsureDefault(tool, j.host, found)

\* fetch_node_releases and fetch_bun_releases: what is no release is left out.
fetch_releases(tool) ==
    {r \in Releases[tool] : parse(r.version) /\ (tool = "bun" => r.stable)}

\* select_latest_node_version and select_latest_bun_version.
select_latest(tool, requirement, prefer_lts) ==
    LET matches == {r \in fetch_releases(tool) :
                        version_satisfies(r.version, requirement)}
        preferred == {r \in matches : prefer_lts /\ r.lts}
        candidates == IF preferred = {} THEN matches ELSE preferred
    IN Latest({r.version : r \in candidates})

-----------------------------------------------------------------------------

NoJob == [command |-> "none", toml |-> <<>>, files |-> <<<<>>, <<>>>>,
          engine |-> <<>>, host |-> <<>>]

Init ==
    /\ dirs = [d \in Tools \X Versions |-> "none"]
    /\ pc = [p \in Procs |-> "off"]
    /\ job = [p \in Procs |-> NoJob]
    /\ installed = [p \in Procs |-> {}]
    /\ version = [p \in Procs |-> Nightly]
    /\ request = [p \in Procs |-> <<>>]
    /\ temp = [p \in Procs |-> "none"]

Goto(p, label) == pc' = [pc EXCEPT ![p] = label]

Tool(p) == guest_tool_for_command(job[p].command)
Dir(p) == <<Tool(p), version[p]>>

\* prepare_guest_command: other commands are left alone, claude must be there
\* (guest_tool_exists).
Start(p) ==
    /\ pc[p] = "off"
    /\ \E j \in Jobs[p] :
         /\ job' = [job EXCEPT ![p] = j]
         /\ Goto(p, CASE guest_tool_for_command(j.command) \in Tools -> "installed"
                      [] j.command = "claude" /\ ~HasClaude -> "err"
                      [] OTHER -> "ok")
    /\ UNCHANGED <<dirs, installed, version, request, temp>>

\* installed_runtimes: the names of the directories, not what is in them.
installed_runtimes(p) ==
    /\ pc[p] = "installed"
    /\ installed' = [installed EXCEPT ![p] =
            {v \in Versions : parse(v) /\ dirs[<<Tool(p), v>>] # "none"}]
    /\ Goto(p, "resolve")
    /\ UNCHANGED <<dirs, job, version, request, temp>>

\* The pins, the version files, package.json and the host's tool are looked at.
Resolve(p) ==
    /\ pc[p] = "resolve"
    /\ \E d \in ensure_runtime(Tool(p), job[p], installed[p]) :
         /\ version' = [version EXCEPT ![p] = d.version]
         /\ request' = [request EXCEPT ![p] = d.request]
         /\ Goto(p, d.do)
    /\ UNCHANGED <<dirs, job, installed, temp>>

\* resolve_latest_*_version: curl fails, nothing matches, or the latest match.
FetchFails(p) ==
    /\ pc[p] = "fetch"
    /\ Goto(p, "err")
    /\ UNCHANGED <<dirs, job, installed, version, request, temp>>

resolve_latest_version(p) ==
    /\ pc[p] = "fetch"
    /\ \E v \in select_latest(Tool(p), request[p][1], request[p][2]) :
         version' = [version EXCEPT ![p] = v]
    /\ Goto(p, "ensure")
    /\ UNCHANGED <<dirs, job, installed, request, temp>>

-----------------------------------------------------------------------------
(* Installing it.                                                          *)

\* ensure_node_version and ensure_bun_version: the program is there.
ensure_version(p) ==
    /\ pc[p] = "ensure"
    /\ Goto(p, IF dirs[Dir(p)] = "complete" THEN "rewrite" ELSE "create_temp_dir")
    /\ UNCHANGED <<dirs, job, installed, version, request, temp>>

\* The tools directory or the temporary one cannot be made, curl, tar, unzip, the
\* link to bunx or the rename fails: `?` returns and leaves the temporary
\* directory as it is.
InstallFails(p) ==
    /\ pc[p] \in {"create_temp_dir", "curl", "tar", "rename"}
    /\ Goto(p, "err")
    /\ UNCHANGED <<dirs, job, installed, version, request, temp>>

create_temp_dir(p) ==
    /\ pc[p] = "create_temp_dir"
    /\ temp' = [temp EXCEPT ![p] = "empty"]
    /\ Goto(p, "curl")
    /\ UNCHANGED <<dirs, job, installed, version, request>>

\* download_node and download_bun: curl ...
Download(p) ==
    /\ pc[p] = "curl"
    /\ temp' = [temp EXCEPT ![p] = "archive"]
    /\ Goto(p, "tar")
    /\ UNCHANGED <<dirs, job, installed, version, request>>

\* ... and tar or unzip, which write one file after the other ...
BeginExtract(p) ==
    /\ pc[p] = "tar" /\ temp[p] = "archive"
    /\ temp' = [temp EXCEPT ![p] = "partial"]
    /\ UNCHANGED <<dirs, pc, job, installed, version, request>>

\* Mutant of Extract: the exit status is not looked at.
ExtractUnchecked(p) ==
    /\ pc[p] = "tar" /\ temp[p] = "partial"
    /\ temp' \in {temp, [temp EXCEPT ![p] = "extracted"]}
    /\ Goto(p, "finalize")
    /\ UNCHANGED <<dirs, job, installed, version, request>>

\* ... and succeed when all of them are there.
Extract(p) ==
    /\ pc[p] = "tar" /\ temp[p] = "partial"
    /\ temp' = [temp EXCEPT ![p] = "extracted"]
    /\ Goto(p, "finalize")
    /\ UNCHANGED <<dirs, job, installed, version, request>>

\* finalize_runtime_install: `if destination.exists()` ...
finalize_runtime_install(p) ==
    /\ pc[p] = "finalize"
    /\ Goto(p, IF dirs[Dir(p)] = "none" THEN "rename" ELSE "remove_temp_dir")
    /\ UNCHANGED <<dirs, job, installed, version, request, temp>>

\* ... rename, which moves what was extracted and fails when another process was
\* faster: the error is returned and the temporary directory stays ...
Rename(p) ==
    /\ pc[p] = "rename"
    /\ IF dirs[Dir(p)] = "none"
       THEN /\ dirs' = [dirs EXCEPT ![Dir(p)] =
                          IF temp[p] = "extracted" THEN "complete" ELSE "partial"]
            /\ temp' = [temp EXCEPT ![p] = "archive"]
            /\ Goto(p, "remove_temp_dir")
       ELSE /\ Goto(p, "err")
            /\ UNCHANGED <<dirs, temp>>
    /\ UNCHANGED <<job, installed, version, request>>

\* ... and remove_dir_all(temp_dir).
RemoveTempDir(p) ==
    /\ pc[p] = "remove_temp_dir"
    /\ temp' = [temp EXCEPT ![p] = "none"]
    /\ Goto(p, "rewrite")
    /\ UNCHANGED <<dirs, job, installed, version, request>>

\* The script of the runtime that prepare_node_command runs the command by.
NeededScripts(c) ==
    CASE c \in {"npm", "npx"} -> {c}
      [] c \in {"pnpm", "pnpx", "yarn"} -> {"corepack"}
      [] OTHER -> {}

\* Mutant of Rewrite: the script is not looked for.
RewriteUnchecked(p) ==
    /\ pc[p] = "rewrite"
    /\ Goto(p, "ok")
    /\ UNCHANGED <<dirs, job, installed, version, request, temp>>

\* prepare_node_command and prepare_bun_command: the command becomes a program
\* and script of the runtime; ensure_host_runtime_script looks for the script.
Rewrite(p) ==
    /\ pc[p] = "rewrite"
    /\ Goto(p, IF /\ NeededScripts(job[p].command) \subseteq Ships[version[p]]
                  /\ NeededScripts(job[p].command) # {} => dirs[Dir(p)] = "complete"
               THEN "ok" ELSE "err")
    /\ UNCHANGED <<dirs, job, installed, version, request, temp>>

Crash(p) ==
    /\ pc[p] \notin {"off", "ok", "err", "dead"}
    /\ Goto(p, "dead")
    /\ UNCHANGED <<dirs, job, installed, version, request, temp>>

Step(p) ==
    \/ Start(p) \/ installed_runtimes(p) \/ Resolve(p)
    \/ FetchFails(p) \/ resolve_latest_version(p)
    \/ ensure_version(p) \/ InstallFails(p) \/ create_temp_dir(p)
    \/ Download(p) \/ BeginExtract(p) \/ Extract(p) \/ finalize_runtime_install(p)
    \/ Rename(p) \/ RemoveTempDir(p) \/ Rewrite(p) \/ Crash(p)

Next == \E p \in Procs : Step(p)

Spec == Init /\ [][Next]_vars

-----------------------------------------------------------------------------

Labels == {"off", "installed", "resolve", "fetch", "ensure", "create_temp_dir",
           "curl", "tar", "finalize", "rename", "remove_temp_dir", "rewrite",
           "ok", "err", "dead"}

\* What installed_runtimes found and what was chosen are versions, and every
\* process is at a step of prepare_guest_command.
TypeOK ==
    /\ dirs \in [Tools \X Versions -> {"none", "complete"}]
    /\ pc \in [Procs -> Labels]
    /\ installed \in [Procs -> SUBSET Versions]
    /\ \A p \in Procs : pc[p] \notin {"off", "installed", "resolve", "fetch", "err",
                                      "dead"} /\ Tool(p) \in Tools
                            => version[p] \in Versions
    /\ temp \in [Procs -> {"none", "empty", "archive", "partial", "extracted"}]

\* A runtime directory is complete from the moment it appears and then stays as
\* it is, however many processes install, fail or die meanwhile:
\* installed_runtimes trusts its name, finalize_runtime_install its existence,
\* and a guest may be running what is in it.
RuntimesAppearComplete ==
    [][\A d \in DOMAIN dirs : dirs'[d] # dirs[d] =>
           dirs[d] = "none" /\ dirs'[d] = "complete"]_vars

\* A command that was rewritten has its program, and the script that runs it,
\* in an installed runtime (prepare_node_command, prepare_bun_command).
ReadyIsInstalled ==
    \A p \in Procs : pc[p] = "ok" /\ Tool(p) \in Tools =>
        /\ dirs[Dir(p)] = "complete"
        /\ NeededScripts(job[p].command) \subseteq Ships[version[p]]

\* What the project asks for, by pin, version file or package.json.
Requested(p) ==
    IF Pinned(Tool(p), job[p]) # <<>> THEN Pinned(Tool(p), job[p])
    ELSE IF Tool(p) = "node" THEN job[p].engine ELSE <<>>

\* Whatever is installed, released or on the host, a command only gets a version
\* that satisfies what the project asks for (version_satisfies), also in npm's
\* reading of it but for the comparators that deviate (comparator_accepts).
RequirementMet ==
    \A p \in Procs :
        pc[p] = "ok" /\ Tool(p) \in Tools /\ Requested(p) # <<>> =>
            /\ version_satisfies(version[p], Requested(p)[1])
            /\ \E clause \in Requested(p)[1] :
                 LET tokens == comparator_tokens(clause) IN
                 \A i \in DOMAIN tokens :
                     Deviates(tokens[i]) \/ Admits(tokens[i], version[p])

=============================================================================
