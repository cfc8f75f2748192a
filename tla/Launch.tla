------------------------------- MODULE Launch -------------------------------
(***************************************************************************)
(* One invocation of fend on Linux, from its words to its exit code        *)
(* (linux/src/app.rs): the command line and the environment (module Cli)   *)
(* lead to a configuration; the runtime artifacts are prepared, the host   *)
(* is checked (module Doctor), and fend run has its command executed in a  *)
(* VM of the daemon or in a VM of its own.                                 *)
(*                                                                         *)
(* The parts that have modules of their own succeed or fail here as those  *)
(* show they can: ensure_linux_runtime (Bootstrap), prepare_guest_command  *)
(* (Runtime), ensure_vm (Daemon, VmPool), launch_plan (Supervisor),        *)
(* run_attached (Session).  What the invocation prints is left out.        *)
(***************************************************************************)
EXTENDS Doctor

CONSTANTS
    Argvs,        \* command lines
    Environs,     \* environments: FEND_... variables by option, no_daemon
    Hosts,        \* hosts, as Doctor describes them
    DaemonEnvs,   \* PATH and FEND_VIRTIOFSD a daemon may have been started with
    GuestCodes,   \* exit codes of the command; a signal gives a negative one
    Rewrites      \* the words that replace npm, bunx, ... as first word

ASSUME LaunchAssumption ==
    /\ GuestCodes \subseteq Int
    /\ Argvs \subseteq Seq(STRING)
    /\ \A e \in Environs : \A o \in EnvOptions :
          e.options[o] \in Seq(STRING) /\ Len(e.options[o]) <= 1
    /\ \A h \in Hosts : {"files", "path"} \subseteq DOMAIN h /\ h.path \in Seq(Seq(STRING))

VARIABLES
    pc,          \* the step of run that is next, "exit" at the end
    argv,        \* the command line
    environ,     \* its environment, once it is read
    host,        \* the host, once it is looked at
    cmd,         \* the result of parse_args
    config,      \* the launch configuration
    prepared,    \* PreparedGuestCommand: words and environment
    vm,          \* <<>>, or the VM in use: who booted it, its plan
    sent,        \* the commands sent to guests, as sent
    code,        \* exit codes that guests reported
    exit         \* the exit code, <<>> until then

inputs == <<argv, environ, host>>
vars == <<pc, inputs, cmd, config, prepared, vm, sent, code, exit>>

Init ==
    /\ pc = "parse"
    /\ argv \in Argvs
    /\ environ = <<>> /\ host = <<>> /\ cmd = <<>> /\ config = <<>>
    /\ prepared = <<>> /\ vm = <<>> /\ sent = <<>> /\ code = <<>> /\ exit = <<>>

\* The invocation ends with code c; a RunningVm is dropped, and cleaned up.
Exit(c) ==
    /\ pc' = "exit"
    /\ exit' = <<c>>
    /\ vm' = IF vm # <<>> /\ vm[1].by = "direct" THEN <<>> ELSE vm

Goto(step) == pc' = step /\ UNCHANGED <<exit, vm>>

Options_ == cmd.parsed.options
NoDaemon == environ.no_daemon

-----------------------------------------------------------------------------
(* The command line and the environment.                                   *)

\* The environment and the host are what they are when a subcommand starts.
Parse ==
    /\ pc = "parse"
    /\ cmd' = parse_args(argv)
    /\ CASE cmd'.kind = "error" -> Exit(2) /\ UNCHANGED <<environ, host>>
         [] cmd'.kind \in {"help", "version"} ->
                Exit(0) /\ UNCHANGED <<environ, host>>
         [] OTHER -> /\ environ' \in Environs
                     /\ host' \in Hosts
                     /\ Goto(IF cmd'.kind \in {"stop", "status"}
                             THEN cmd'.kind ELSE "defaults")
    /\ UNCHANGED <<argv, config, prepared, sent, code>>

\* The configuration of run, launch and plan; the others read parts of it.
Config(auto) ==
    LET defaults == plan_defaults_from_env(environ.options)
    IN CASE cmd.kind = "run" -> build_run_launch_config(Options_, defaults, auto)
         [] cmd.kind = "launch" ->
                build_supervised_launch_config(Options_, defaults)
         [] OTHER -> build_launch_config(Options_, defaults)

\* ensure_bootstrap_for_launch is called if an artifact is missing, fend run
\* always calls ensure_linux_runtime.
AfterDefaults(c) ==
    CASE cmd.kind = "launch" -> IF runtime_missing(host, BootstrapDir(c))
                                THEN "bootstrap" ELSE "probe"
      [] cmd.kind \in {"run", "setup"} -> "bootstrap"
      [] cmd.kind = "plan" -> "probe"
      [] OTHER -> cmd.kind

ReadDefaults ==
    /\ pc = "defaults"
    /\ \/ /\ ~DefaultsValid(environ.options)
          /\ Exit(2)
          /\ UNCHANGED config
       \/ /\ DefaultsValid(environ.options)
          /\ \E auto \in AutoCids : config' = Config(auto)
          /\ Goto(AfterDefaults(config'))
    /\ UNCHANGED <<inputs, cmd, prepared, sent, code>>

-----------------------------------------------------------------------------
(* Preparations.                                                           *)

\* ensure_linux_runtime leaves the artifacts in the runtime directory.
Bootstrap ==
    /\ pc = "bootstrap"
    /\ host' = [host EXCEPT
                    !.files = @ \union Artifacts(BootstrapDir(config))]
    /\ CASE cmd.kind = "setup" -> Exit(0)
         [] cmd.kind = "run" -> Goto("prepare")
         [] OTHER -> Goto("probe")
    /\ UNCHANGED <<argv, environ, cmd, config, prepared, sent, code>>

\* prepare_guest_command: the runtime's own path for the first word, and its
\* directory for the guest's PATH.
Prepare ==
    /\ pc = "prepare"
    /\ LET words == cmd.parsed.command
           known == Head(words) \in DOMAIN Rewrites
       IN prepared' =
            IF known
            THEN [command |-> Rewrites[Head(words)] \o Tail(words),
                  env |-> <<<<"FEND_TOOL_PATH_PREPEND", "runtime">>>>]
            ELSE [command |-> words, env |-> <<>>]
    /\ Goto("probe")
    /\ UNCHANGED <<inputs, cmd, config, sent, code>>

PreparationFails ==
    /\ pc \in {"bootstrap", "prepare"}
    /\ Exit(2)
    /\ UNCHANGED <<inputs, cmd, config, prepared, sent, code>>

NetworkExplicit ==
    \/ Options_[IF cmd.kind = "run" THEN "--vm-network" ELSE "--network"] # None
    \/ env_value(environ.options, "--network") # None

\* Mutant of apply_network_fallback: an explicit choice is replaced too.
apply_network_fallback_always(c) ==
    IF c["--network"] = "passt" /\ ~command_exists(host, "passt")
    THEN [c EXCEPT !["--network"] = "user"] ELSE c

\* Mutant of apply_network_fallback: there is none.
apply_network_fallback_never(c) == c

apply_network_fallback(c) ==
    IF /\ ~NetworkExplicit
       /\ c["--network"] = "passt"
       /\ ~command_exists(host, "passt")
    THEN [c EXCEPT !["--network"] = "user"] ELSE c

\* The fallback and the preflight; fend plan only prints its plan.
Probe ==
    /\ pc = "probe"
    /\ config' = apply_network_fallback(config)
    /\ IF cmd.kind = "plan" THEN Exit(IF validate(config') THEN 0 ELSE 2)
       ELSE IF evaluate_launch(host, config["--runtime-dir"], config'["--network"]) # {}
       THEN Exit(1)
       ELSE Goto(IF cmd.kind = "launch" \/ NoDaemon THEN "direct" ELSE "daemon")
    /\ UNCHANGED <<inputs, cmd, prepared, sent, code>>

RunDoctor ==
    /\ pc = "doctor"
    /\ Exit(IF evaluate(host, config["--runtime-dir"]) = {} THEN 0 ELSE 1)
    /\ UNCHANGED <<inputs, cmd, config, prepared, sent, code>>

-----------------------------------------------------------------------------
(* The VM.                                                                 *)

\* VmPool::boot: the plan of a VM the daemon boots.  The daemon has its own PATH
\* and FEND_VIRTIOFSD, in which virtiofsd is searched, and the run directory and
\* the cid are the pool's.
PoolPlan(e) ==
    [build_launch_plan([host EXCEPT !.path = e.path, !.override = e.override], config)
        EXCEPT !.run_dir = "pool", !.cid = 100]

\* VmPool::ensure: a VM of the project that is there is used if it has this
\* network, whatever else its plan was.
WarmPlan == [netdev |-> {config["--network"]} \ {"off"}]

\* ensure_vm: the daemon has a VM for the project already or boots one.
DaemonVm ==
    /\ pc = "daemon"
    /\ \/ /\ validate([config EXCEPT !["--cid"] = "100"])
          /\ \E e \in DaemonEnvs : vm' = <<[by |-> "pool", plan |-> PoolPlan(e)]>>
       \/ vm' = <<[by |-> "warm", plan |-> WarmPlan]>>
    /\ pc' = "attach"
    /\ UNCHANGED <<inputs, cmd, config, prepared, sent, code, exit>>

\* The daemon answers with an error (a VM that cannot boot or has another
\* network, for two): fatal.
\* No answer at all leads to a VM of our own.
DaemonFails ==
    /\ pc = "daemon"
    /\ Exit(2) \/ Goto("direct")
    /\ UNCHANGED <<inputs, cmd, config, prepared, sent, code>>

\* build_launch_plan, launch_plan.
DirectVm ==
    /\ pc = "direct"
    /\ validate(config)
    /\ vm' = <<[by |-> "direct", plan |-> build_launch_plan(host, config)]>>
    /\ pc' = IF cmd.kind = "launch" THEN "wait" ELSE "attach"
    /\ UNCHANGED <<inputs, cmd, config, prepared, sent, code, exit>>

\* An invalid plan or a launch that fails.
DirectFails ==
    /\ pc = "direct"
    /\ Exit(2)
    /\ UNCHANGED <<inputs, cmd, config, prepared, sent, code>>

\* wait_for_qemu.
QemuExits ==
    /\ pc = "wait"
    /\ \E c \in {0, 1} : Exit(c)
    /\ UNCHANGED <<inputs, cmd, config, prepared, sent, code>>

-----------------------------------------------------------------------------
(* The command in the guest.                                               *)

\* The environment of prepare_guest_command comes last.
Message ==
    IF cmd.kind = "run"
    THEN [command |-> prepared.command,
          env |-> EnvMap(PolicyPairs(cmd.parsed) \o prepared.env)]
    ELSE [command |-> IF cmd.parsed.command = <<>>
                      THEN <<"/bin/echo", "fend-linux-ok">>
                      ELSE cmd.parsed.command,
          env |-> EnvMap(cmd.parsed.env)]

\* run_attached, or run_smoke: fendd is reached and has the command.
SendCommand ==
    /\ pc \in {"attach", "smoke"}
    /\ sent' = Append(sent, Message)
    /\ Goto("execute")
    /\ UNCHANGED <<inputs, cmd, config, prepared, code>>

\* Mutant of exit_code_from_i32: the low byte.
exit_code_low_byte(c) == c % 256

exit_code_from_i32(c) == IF c = 0 THEN 0 ELSE IF c < 1 THEN 1
                         ELSE IF c > 255 THEN 255 ELSE c

CommandEnds ==
    /\ pc = "execute"
    /\ \E c \in GuestCodes :
         /\ code' = Append(code, c)
         /\ Exit(IF cmd.kind = "run" THEN exit_code_from_i32(c)
                 ELSE IF c = 0 THEN 0 ELSE 1)
    /\ UNCHANGED <<inputs, cmd, config, prepared, sent>>

\* Mutant of SessionFails: an error of run_attached is recoverable.
SessionFailsRecoverable ==
    /\ pc \in {"attach", "smoke", "execute"}
    /\ IF vm # <<>> /\ vm[1].by # "direct" THEN Goto("direct") ELSE Exit(2)
    /\ UNCHANGED <<inputs, cmd, config, prepared, sent, code>>

\* fendd is not reached in time, or the connection fails: fatal, also after
\* the daemon provided the VM.
SessionFails ==
    /\ pc \in {"attach", "smoke", "execute"}
    /\ Exit(2)
    /\ UNCHANGED <<inputs, cmd, config, prepared, sent, code>>

-----------------------------------------------------------------------------
(* stop and status.                                                        *)

\* run_stop_command: the daemon, if its socket is there; run_stop_legacy for a
\* run directory.  Either may fail; only run_stop_legacy reads the defaults.
Stop ==
    /\ pc = "stop"
    /\ LET legacy == Options_["--run-dir"] # None \/ NoDaemon
       IN Exit(2) \/ (Exit(0) /\ (legacy => DefaultsValid(environ.options)))
    /\ UNCHANGED <<inputs, cmd, config, prepared, sent, code>>

Status ==
    /\ pc = "status"
    /\ \E c \in {0, 2} : Exit(c)
    /\ UNCHANGED <<inputs, cmd, config, prepared, sent, code>>

Done == pc = "exit" /\ UNCHANGED vars

Next ==
    \/ Parse \/ ReadDefaults \/ Bootstrap \/ Prepare \/ PreparationFails
    \/ Probe \/ RunDoctor \/ DaemonVm \/ DaemonFails \/ DirectVm \/ DirectFails
    \/ QemuExits \/ SendCommand \/ CommandEnds \/ SessionFails
    \/ Stop \/ Status \/ Done

Spec == Init /\ [][Next]_vars

-----------------------------------------------------------------------------

\* The first word of the command is the first one that is neither an option
\* nor the value of one, or follows "--"; from there on every word reaches the
\* guest as it was typed, options of the command's own included.  Only the
\* first word may have been replaced by the path of a runtime.
CommandIsVerbatim ==
    \A i \in DOMAIN sent : cmd.kind = "run" =>
        LET words == Arguments(argv)
            IsOption(k) == words[k] \in Dashed
            IsValue(k) == k > 1 /\ words[k - 1] \in ValueOptions["run"]
        IN \E k \in DOMAIN words :
             /\ \/ words[k] \notin Dashed
                \/ k > 1 /\ words[k - 1] = "--"
             /\ \A j \in 1..(k - 1) : IsOption(j) \/ IsValue(j)
             /\ sent[i].command =
                   (IF words[k] \in DOMAIN Rewrites
                    THEN Rewrites[words[k]] ELSE <<words[k]>>)
                   \o SubSeq(words, k + 1, Len(words))

\* A command that was given --network off is never sent without the policy,
\* whatever --env says and whichever runtime it uses.
PolicyReachesGuest ==
    \A i \in DOMAIN sent :
        cmd.kind = "run" /\ Options_["--network"] = Some("off") =>
            /\ "FEND_NETWORK_MODE" \in DOMAIN sent[i].env
            /\ sent[i].env["FEND_NETWORK_MODE"] = "off"

\* The VM that is used, booted for this invocation or warm, has the network that
\* was asked for, by option or, without one, by FEND_QEMU_NETWORK: the fallback to
\* user networking only ever replaces the built-in default, and the pool refuses
\* a VM with another network.
ExplicitNetworkKept ==
    vm # <<>> =>
        LET option == Options_[IF cmd.kind = "run" THEN "--vm-network"
                               ELSE "--network"]
            asked == or_else(option, env_value(environ.options, "--network"))
        IN asked # None => vm[1].plan.netdev = {asked[1]} \ {"off"}

\* What fend boots itself has what it needs on the host: the preflight and the
\* plan speak of the same files, programs and devices.  Of a VM the daemon boots
\* this holds for the artifacts and devices only: the daemon searches virtiofsd,
\* QEMU and passt in an environment the preflight does not see.
LaunchedIsEquipped ==
    vm # <<>> /\ vm[1].by # "warm" =>
        LET plan == vm[1].plan IN
        /\ plan.kernel \subseteq host.files
        /\ host.kvm = "usable" /\ host.vsock = "usable"
        /\ vm[1].by = "direct" =>
              /\ plan.virtiofsd \in host.files
              /\ \A p \in {"qemu-system-x86_64"} \union (plan.netdev \ {"user"}) :
                    command_exists(host, p)
              /\ ends_with(plan.virtiofsd, UsrLibVirtiofsd) =>
                    /\ command_exists(host, "unshare")
                    /\ host.subids = {"subuid", "subgid"}

\* A host that fend doctor approves of is not turned away by the preflight of
\* fend run and fend launch, unless passt was asked for and is missing.
DoctorPredictsLaunch ==
    [][/\ pc = "probe" /\ cmd.kind # "plan" /\ pc' = "exit"
       /\ evaluate(host, config["--runtime-dir"]) = {}
       => /\ NetworkExplicit /\ config["--network"] = "passt"
          /\ ~command_exists(host, "passt")]_vars

\* A command is sent to one guest at most: nothing that fails after that point
\* makes fend run it again in another VM.
SentAtMostOnce == Len(sent) <= 1

\* fend run succeeds only if its command was executed and returned 0.
SuccessIsEarned ==
    pc = "exit" /\ exit = <<0>> /\ cmd.kind = "run" =>
        Len(sent) = 1 /\ code = <<0>>

=============================================================================
