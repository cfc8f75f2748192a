-------------------------------- MODULE Cli ---------------------------------
(***************************************************************************)
(* The command line of fend on Linux (linux/src/cli.rs): what parse_args   *)
(* makes of the words of a command line, and the launch configuration      *)
(* that follows from the options and the environment variables.            *)
(*                                                                         *)
(* Options are known by their words: options["--cpus"] is the field cpus   *)
(* of the options, environ["--cpus"] the value of FEND_QEMU_CPUS and       *)
(* config["--cpus"] the field cpus of the configuration.  A value is the   *)
(* word it was read from.                                                  *)
(***************************************************************************)
EXTENDS Integers, Sequences

CONSTANTS
    Dashed,     \* the words that start with '-'
    Number,     \* the integer each numeric word stands for
    EnvItem     \* <<key, value>> of each word KEY=VALUE with a KEY

ASSUME CliAssumption ==
    /\ \A w \in DOMAIN Number : Number[w] \in Int
    /\ \A w \in DOMAIN EnvItem : EnvItem[w] \in STRING \X STRING

None == <<>>
Some(w) == <<w>>
or_else(a, b) == IF a # None THEN a ELSE b

-----------------------------------------------------------------------------
(* Options.                                                                *)

Subcommands == {"doctor", "setup", "plan", "launch", "run", "stop", "status",
                "smoke"}

VmOptions == {"--runtime-dir", "--workspace", "--cache-dir", "--tools-dir",
              "--run-dir", "--cid", "--cpus", "--memory-mib", "--network"}

PlanOptions == VmOptions \union {"--epoch", "--guest-workspace"}

\* The options of a subcommand that take the next word as their value.
ValueOptions ==
    [doctor |-> {"--runtime-dir"},
     setup  |-> {"--runtime-dir", "--work-dir"},
     plan   |-> PlanOptions,
     launch |-> PlanOptions,
     run    |-> VmOptions \union {"--vm-network", "--timeout", "--cwd", "--env"},
     stop   |-> {"--run-dir", "--timeout", "--project"},
     status |-> {},
     smoke  |-> {"--cid", "--port", "--timeout", "--cwd", "--env"}]

Flags(sub) ==
    CASE sub = "setup" -> {"--rebuild-rootfs", "--force-downloads",
                           "--skip-claude"}
      [] sub = "stop" -> {"--all"}
      [] OTHER -> {}

TakesCommand == {"run", "smoke"}

Options == (UNION {ValueOptions[s] : s \in Subcommands}) \ {"--env"}

ASSUME DashedAssumption == Options \union {"--env", "--"} \subseteq Dashed

\* The integer type of an option: cpus is a u16, --epoch an i64, the others
\* are unsigned and wider than the numbers used here.
FitsType(o, n) ==
    /\ n >= 0 \/ o = "--epoch"
    /\ n < 65536 \/ o # "--cpus"

NetworkModes == {"passt", "user", "off"}

\* value_number, network_mode_from_str, command_network_mode_from_str and the
\* KEY=VALUE of --env.
ValidValue(sub, o, w) ==
    CASE o \in {"--cid", "--cpus", "--memory-mib", "--timeout", "--epoch",
                "--port"} -> w \in DOMAIN Number /\ FitsType(o, Number[w])
      [] o = "--env" -> w \in DOMAIN EnvItem
      [] o = "--network" /\ sub = "run" -> w \in {"on", "off"}
      [] o = "--vm-network" \/ (o = "--network" /\ sub # "run") -> w \in NetworkModes
      [] OTHER -> TRUE

-----------------------------------------------------------------------------
(* parse_args.                                                             *)

Parsing ==
    [at |-> "options", option |-> "", options |-> [o \in Options |-> None],
     flags |-> {}, env |-> <<>>, command |-> <<>>]

\* The value of the pending option.  A later one replaces an earlier one,
\* --env adds a pair.
TakeValue(sub, p, w) ==
    IF ~ValidValue(sub, p.option, w) THEN [p EXCEPT !.at = "error"]
    ELSE IF p.option = "--env"
    THEN [p EXCEPT !.at = "options", !.env = Append(@, EnvItem[w])]
    ELSE [p EXCEPT !.at = "options", !.options[p.option] = Some(w)]

\* A word where an option may stand.
TakeWord(sub, p, w) ==
    IF w \in {"-h", "--help"} THEN [p EXCEPT !.at = "help"]
    ELSE IF w \in ValueOptions[sub] THEN [p EXCEPT !.at = "value", !.option = w]
    ELSE IF w \in Flags(sub) THEN [p EXCEPT !.flags = @ \union {w}]
    ELSE IF w = "--" /\ sub \in TakesCommand THEN [p EXCEPT !.at = "command"]
    ELSE IF w \in Dashed THEN [p EXCEPT !.at = "error"]
    ELSE IF sub \in TakesCommand THEN [p EXCEPT !.at = "command", !.command = <<w>>]
    ELSE IF sub \in {"plan", "launch"} /\ p.options["--workspace"] = None
    THEN [p EXCEPT !.options["--workspace"] = Some(w)]
    ELSE [p EXCEPT !.at = "error"]

\* Mutant of ParseWord: options may follow the command.
ParseWordAnywhere(sub, p, w) ==
    CASE p.at = "value" -> TakeValue(sub, p, w)
      [] p.at = "options" \/ (p.at = "command" /\ w \in Dashed) ->
            TakeWord(sub, p, w)
      [] p.at = "command" -> [p EXCEPT !.command = Append(@, w)]
      [] OTHER -> p

\* One word of parse_doctor, parse_setup, parse_plan_options, parse_run,
\* parse_stop, parse_status or parse_smoke.  An error or a request for help
\* ends the parsing; a command takes all remaining words.
ParseWord(sub, p, w) ==
    CASE p.at = "value" -> TakeValue(sub, p, w)
      [] p.at = "options" -> TakeWord(sub, p, w)
      [] p.at = "command" -> [p EXCEPT !.command = Append(@, w)]
      [] OTHER -> p

Outcome(sub, p) ==
    IF p.at = "help" THEN "help"
    ELSE IF p.at \in {"error", "value"} \/ (sub = "run" /\ p.command = <<>>) THEN "error"
    ELSE sub

\* The words after the subcommand; without one they are those of run.
Subcommand(argv) == IF Head(argv) \in Subcommands THEN Head(argv) ELSE "run"
Arguments(argv) == IF Head(argv) \in Subcommands THEN Tail(argv) ELSE argv

\* What the first n words lead to, for every n.
parse(sub, words) ==
    LET after[n \in 0..Len(words)] ==
            IF n = 0 THEN Parsing ELSE ParseWord(sub, after[n - 1], words[n])
    IN after

\* What is asked for: "help", "version", "error" or a subcommand with options.
parse_args(argv) ==
    IF argv = <<>> \/ (argv # <<>> /\ Head(argv) \in {"-h", "--help", "help"})
    THEN [kind |-> "help", parsed |-> Parsing]
    ELSE IF Head(argv) \in {"-V", "--version", "version"}
    THEN [kind |-> "version", parsed |-> Parsing]
    ELSE LET sub == Subcommand(argv)
             words == Arguments(argv)
             parsed == parse(sub, words)[Len(words)]
         IN [kind |-> Outcome(sub, parsed), parsed |-> parsed]

-----------------------------------------------------------------------------
(* The environment and the configuration.                                  *)

\* FEND_RUNTIME_DIR, FEND_CACHE_DIR, FEND_TOOLS_DIR, FEND_RUN_DIR,
\* FEND_QEMU_CID, FEND_QEMU_CPUS, FEND_QEMU_MEMORY_MB, FEND_QEMU_NETWORK.
EnvOptions == VmOptions \ {"--workspace"}

\* env_path, env_number, env_network: an empty value counts as none.
env_value(environ, o) == IF environ[o] = Some("") THEN None ELSE environ[o]

\* plan_defaults_from_env fails on a value that cannot be read, whether or
\* not an option replaces it.
DefaultsValid(environ) ==
    \A o \in EnvOptions : \A i \in DOMAIN env_value(environ, o) :
        ValidValue("plan", o, environ[o][i])

plan_defaults_from_env(environ) ==
    [o \in PlanOptions |->
        IF o \in EnvOptions THEN env_value(environ, o) ELSE None]

\* The last resort; "cwd" and "now" are the current directory and time.
BuiltIn(o) ==
    CASE o = "--workspace" -> "cwd"
      [] o = "--cid" -> "42"
      [] o = "--cpus" -> "2"
      [] o = "--memory-mib" -> "2048"
      [] o = "--network" -> "passt"
      [] o = "--epoch" -> "now"
      [] o = "--guest-workspace" -> "/workspace"
      [] o = "--run-dir" -> "/tmp/fend-linux"
      [] o = "--runtime-dir" -> "~/.fend/runtime"
      [] o = "--cache-dir" -> "~/.fend/cache"
      [] OTHER -> "~/.fend/tools"

build_launch_config(options, defaults) ==
    [o \in PlanOptions |->
        or_else(options[o], or_else(defaults[o], Some(BuiltIn(o))))[1]]

\* A launched VM gets a run directory of its own unless one was named.
build_supervised_launch_config(options, defaults) ==
    LET named == or_else(options["--run-dir"], defaults["--run-dir"])
    IN [build_launch_config(options, defaults) EXCEPT
            !["--run-dir"] = or_else(named, Some("own"))[1]]

\* autogenerated_guest_cid: 10000 + seed % 50000 for a seed of time and pid.
AutoCids == {"10000", "59999"}

\* The --vm-network of run is the --network of a plan.
RunPlanOptions(options) ==
    [o \in PlanOptions |->
        CASE o = "--network" -> options["--vm-network"]
          [] o \in {"--epoch", "--guest-workspace"} -> None
          [] OTHER -> options[o]]

build_run_launch_config(options, defaults, auto) ==
    LET named == or_else(options["--cid"], defaults["--cid"])
    IN [build_supervised_launch_config(RunPlanOptions(options), defaults) EXCEPT
            !["--cid"] = or_else(named, Some(auto))[1]]

\* The runtime directory fend setup prepares when fend run or fend launch
\* calls it: resolve_setup_runtime_dir with the directory of the artifacts.
BootstrapDir(config) == config["--runtime-dir"]

\* The pairs of --env, in which a later one replaces an earlier one.
EnvMap(pairs) ==
    [k \in {pairs[i][1] : i \in DOMAIN pairs} |->
        LET last == CHOOSE i \in DOMAIN pairs :
                        /\ pairs[i][1] = k
                        /\ \A j \in DOMAIN pairs : pairs[j][1] = k => j <= i
        IN pairs[last][2]]

\* Mutant of PolicyPairs: what --env says comes last.
PolicyPairsFirst(parsed) ==
    (IF parsed.options["--network"] = Some("off")
     THEN <<<<"FEND_NETWORK_MODE", "off">>>> ELSE <<>>) \o parsed.env

\* build_run_smoke_config: --network off after the pairs of --env.
PolicyPairs(parsed) ==
    parsed.env \o (IF parsed.options["--network"] = Some("off")
                   THEN <<<<"FEND_NETWORK_MODE", "off">>>> ELSE <<>>)

=============================================================================
