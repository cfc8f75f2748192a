---------------------------- MODULE LaunchProofs ----------------------------
(***************************************************************************)
(* Theorems about Launch for any command line, environment and host.       *)
(***************************************************************************)
EXTENDS Launch, WellFoundedInduction, TLAPS

\* The provers for the steps that name none, and the seconds they have.
USE SMTT(30), ZenonT(60)

\* The steps that only one subcommand takes, and the exit code before the end.
StepOK ==
    /\ pc # "parse" => cmd.kind \in Subcommands \union {"help", "version", "error"}
    /\ pc \notin {"parse", "exit"} => cmd.kind \in Subcommands
    /\ pc \in {"stop", "status", "doctor", "smoke"} => cmd.kind = pc
    /\ pc = "wait" => cmd.kind = "launch"
    /\ pc # "exit" => exit = <<>>

\* A command is sent once, and its code is the only one.
SentOK ==
    /\ pc \notin {"execute", "exit"} => sent = <<>> /\ code = <<>>
    /\ pc = "execute" => Len(sent) = 1 /\ code = <<>>
    /\ pc = "exit" => Len(sent) \in {0, 1}

IInv == StepOK /\ SentOK /\ SuccessIsEarned

\* parse_args knows no other subcommands.
LEMMA KnownKinds ==
    ASSUME NEW a
    PROVE  parse_args(a).kind \in Subcommands \union {"help", "version", "error"}
<1> DEFINE parsed(sub) == parse(sub, Arguments(a))[Len(Arguments(a))]
<1>1. Subcommand(a) \in Subcommands  BY DEF Subcommand, Subcommands
<1>2. ASSUME NEW sub \in Subcommands, NEW p
      PROVE  Outcome(sub, p) \in Subcommands \union {"help", "error"}
  BY DEF Outcome
<1>3. Outcome(Subcommand(a), parsed(Subcommand(a))) \in Subcommands \union {"help", "error"}
  BY <1>1, <1>2
<1> HIDE DEF parsed
<1> QED  BY <1>3 DEF parse_args, parsed

\* Nothing has happened yet.
LEMMA InitIInv == Init => IInv
BY DEF Init, IInv, StepOK, SentOK, SuccessIsEarned

\* Every step of the invocation keeps the invariant.
LEMMA NextIInv == IInv /\ [Next]_vars => IInv'
<1> SUFFICES ASSUME IInv, [Next]_vars PROVE IInv'
    OBVIOUS
<1> USE DEF IInv, StepOK, SentOK, SuccessIsEarned, Exit, Goto, inputs
<1>1. CASE Parse
  <2>1. cmd'.kind \in Subcommands \union {"help", "version", "error"}
    BY <1>1, KnownKinds DEF Parse
  <2> QED  BY <1>1, <2>1 DEF Parse, Subcommands
<1>2. CASE ReadDefaults  BY <1>2 DEF ReadDefaults, AfterDefaults, Subcommands
<1>3. CASE Bootstrap  BY <1>3 DEF Bootstrap
<1>4. CASE Prepare  BY <1>4 DEF Prepare
<1>5. CASE PreparationFails  BY <1>5 DEF PreparationFails
<1>6. CASE Probe  BY <1>6 DEF Probe
<1>7. CASE RunDoctor  BY <1>7 DEF RunDoctor
<1>8. CASE DaemonVm \/ DaemonFails  BY <1>8 DEF DaemonVm, DaemonFails
<1>9. CASE DirectVm \/ DirectFails  BY <1>9 DEF DirectVm, DirectFails
<1>10. CASE QemuExits  BY <1>10 DEF QemuExits
<1>11. CASE SendCommand  BY <1>11 DEF SendCommand
<1>12. CASE CommandEnds
  BY <1>12, LaunchAssumption DEF CommandEnds, exit_code_from_i32
<1>13. CASE SessionFails  BY <1>13 DEF SessionFails
<1>14. CASE Stop \/ Status  BY <1>14 DEF Stop, Status
<1>15. CASE Done \/ UNCHANGED vars  BY <1>15 DEF Done, vars
<1> QED  BY <1>1, <1>2, <1>3, <1>4, <1>5, <1>6, <1>7, <1>8, <1>9, <1>10, <1>11,
            <1>12, <1>13, <1>14, <1>15, Zenon DEF Next

\* The invariant holds throughout.
LEMMA SpecIInv == Spec => []IInv
BY InitIInv, NextIInv, PTL DEF Spec

\* Whatever fails, fend sends its command to one guest at most: an error after
\* the daemon provided the VM does not lead to a VM of its own.
THEOREM LaunchSendsOnce == Spec => []SentAtMostOnce
<1>1. ASSUME IInv PROVE SentAtMostOnce
  <2>1. sent = <<>> \/ Len(sent) = 1 \/ Len(sent) = 0  BY <1>1 DEF IInv, SentOK
  <2> QED  BY <2>1 DEF SentAtMostOnce
<1> QED  BY <1>1, SpecIInv, PTL

\* fend run exits with 0 only after its command did, for every command line,
\* environment and host and whichever way it took.
THEOREM LaunchSuccessEarned == Spec => []SuccessIsEarned
<1>1. IInv => SuccessIsEarned  BY DEF IInv
<1> QED  BY <1>1, SpecIInv, PTL

-----------------------------------------------------------------------------
(* The network.                                                            *)

\* The network that was asked for, by option or by FEND_QEMU_NETWORK.
Asked ==
    or_else(Options_[IF cmd.kind = "run" THEN "--vm-network" ELSE "--network"],
            env_value(environ.options, "--network"))

\* The configuration has the network that was asked for until there is a VM.
NetworkOK ==
    /\ pc = "parse" => vm = <<>>
    /\ pc \in {"bootstrap", "prepare", "probe", "daemon", "direct"} =>
         /\ "--network" \in DOMAIN config
         /\ cmd.kind \in {"run", "launch"} /\ Asked # None
              => config["--network"] = Asked[1]
    /\ pc \in {"daemon", "direct"} => cmd.kind \in {"run", "launch"}
    /\ pc = "probe" => cmd.kind \in {"run", "launch", "plan"}
    /\ pc = "bootstrap" => cmd.kind \in {"run", "launch", "setup"}
    /\ pc = "prepare" => cmd.kind = "run"

NetInv == IInv /\ NetworkOK /\ ExplicitNetworkKept

\* Options come before the environment, the environment before the default.
LEMMA ConfigNetwork ==
    ASSUME NEW auto
    PROVE  /\ "--network" \in DOMAIN Config(auto)
           /\ cmd.kind \in {"run", "launch"} /\ Asked # None
                => Config(auto)["--network"] = Asked[1]
           /\ cmd.kind \in {"run", "launch"} /\ Asked = None
                => Config(auto)["--network"] = "passt"
<1> DEFINE defaults == plan_defaults_from_env(environ.options)
<1>1. "--network" \in PlanOptions /\ "--run-dir" \in PlanOptions
      /\ "--cid" \in PlanOptions /\ "--network" \in EnvOptions
  BY DEF PlanOptions, VmOptions, EnvOptions
<1>2. defaults["--network"] = env_value(environ.options, "--network")
  BY <1>1 DEF plan_defaults_from_env
<1> HIDE DEF defaults
<1>3. ASSUME NEW options
      PROVE  LET c == build_launch_config(options, defaults)
                 s == build_supervised_launch_config(options, defaults)
             IN /\ "--network" \in DOMAIN c /\ "--network" \in DOMAIN s
                /\ s["--network"] = c["--network"]
                /\ c["--network"] =
                     or_else(options["--network"],
                             or_else(defaults["--network"], Some("passt")))[1]
  BY <1>1 DEF build_launch_config, build_supervised_launch_config, BuiltIn
<1>4. CASE cmd.kind = "run"
  <2>1. RunPlanOptions(Options_)["--network"] = Options_["--vm-network"]
    BY <1>1 DEF RunPlanOptions
  <2>2. LET s == build_supervised_launch_config(RunPlanOptions(Options_), defaults)
            r == build_run_launch_config(Options_, defaults, auto)
        IN "--network" \in DOMAIN r /\ r["--network"] = s["--network"]
    BY <1>3 DEF build_run_launch_config
  <2>3. Config(auto) = build_run_launch_config(Options_, defaults, auto)
    BY <1>4 DEF Config, defaults
  <2> QED  BY <1>2, <1>3, <1>4, <2>1, <2>2, <2>3, Zenon DEF Asked, or_else, None, Some
<1>5. CASE cmd.kind = "launch"
  <2>1. Config(auto) = build_supervised_launch_config(Options_, defaults)
    BY <1>5 DEF Config, defaults
  <2> QED  BY <1>2, <1>3, <1>5, <2>1, Zenon DEF Asked, or_else, None, Some
<1>6. CASE cmd.kind \notin {"run", "launch"}
  <2>1. Config(auto) = build_launch_config(Options_, defaults)
    BY <1>6 DEF Config, defaults
  <2> QED  BY <1>3, <1>6, <2>1
<1> QED  BY <1>4, <1>5, <1>6

\* The fallback leaves an explicit choice alone.
LEMMA FallbackNetwork ==
    ASSUME "--network" \in DOMAIN config
    PROVE  LET c == apply_network_fallback(config)
           IN /\ "--network" \in DOMAIN c
              /\ Asked # None => c["--network"] = config["--network"]
              /\ c["--network"] = "passt" =>
                    /\ config["--network"] = "passt"
                    /\ NetworkExplicit \/ command_exists(host, "passt")
BY DEF apply_network_fallback, NetworkExplicit, Asked, or_else, None

\* The daemon boots the artifacts and the network it is asked for.
LEMMA PoolPlanIs ==
    ASSUME NEW e
    PROVE  /\ PoolPlan(e).kernel = Artifacts(config["--runtime-dir"])
           /\ PoolPlan(e).netdev = {config["--network"]} \ {"off"}
BY DEF PoolPlan, build_launch_plan

\* Every step keeps what the network invariant says.
LEMMA NextNetInv == NetInv /\ [Next]_vars => NetInv'
<1> SUFFICES ASSUME NetInv, [Next]_vars PROVE NetInv'
    OBVIOUS
<1>1. IInv'  BY NextIInv DEF NetInv
<1>2. NetworkOK' /\ ExplicitNetworkKept'
  <2> USE DEF NetInv, NetworkOK, ExplicitNetworkKept, Asked, Options_, Exit, Goto, inputs
  <2>1. CASE Parse  BY <2>1 DEF Parse
  <2>2. CASE ReadDefaults
    BY <2>2, ConfigNetwork DEF ReadDefaults, AfterDefaults, IInv, StepOK, Subcommands
  <2>3. CASE Bootstrap  BY <2>3 DEF Bootstrap
  <2>4. CASE Prepare  BY <2>4 DEF Prepare
  <2>5. CASE PreparationFails  BY <2>5 DEF PreparationFails
  <2>6. CASE Probe  BY <2>6, FallbackNetwork DEF Probe
  <2>7. CASE RunDoctor  BY <2>7 DEF RunDoctor
  <2>8. CASE DaemonVm
    <3>1. vm'[1].plan.netdev = {config["--network"]} \ {"off"}
      BY <2>8, PoolPlanIs DEF DaemonVm, WarmPlan
    <3> QED  BY <2>8, <3>1 DEF DaemonVm
  <2>9. CASE DirectVm  BY <2>9 DEF DirectVm, build_launch_plan
  <2>10. CASE DaemonFails \/ DirectFails  BY <2>10 DEF DaemonFails, DirectFails
  <2>11. CASE QemuExits \/ SendCommand  BY <2>11 DEF QemuExits, SendCommand
  <2>12. CASE CommandEnds \/ SessionFails  BY <2>12 DEF CommandEnds, SessionFails
  <2>13. CASE Stop \/ Status  BY <2>13 DEF Stop, Status
  <2>14. CASE Done \/ UNCHANGED vars  BY <2>14 DEF Done, vars
  <2> QED  BY <2>1, <2>2, <2>3, <2>4, <2>5, <2>6, <2>7, <2>8, <2>9, <2>10, <2>11,
              <2>12, <2>13, <2>14, Zenon DEF Next
<1> QED  BY <1>1, <1>2 DEF NetInv

\* The invariant of the network holds throughout.
LEMMA SpecNetInv == Spec => []NetInv
<1>1. Init => NetInv
  BY InitIInv DEF Init, NetInv, NetworkOK, ExplicitNetworkKept
<1> QED  BY <1>1, NextNetInv, PTL DEF Spec

\* The VM an invocation uses has the network that was asked for, by option or by
\* environment, on every host: the fallback to user networking replaces the
\* default only, and the pool refuses a VM with another network.
THEOREM LaunchNetworkKept == Spec => []ExplicitNetworkKept
<1>1. NetInv => ExplicitNetworkKept  BY DEF NetInv
<1> QED  BY <1>1, SpecNetInv, PTL

-----------------------------------------------------------------------------
(* The doctor and the preflight.                                           *)

\* A host without issues for doctor has none for a launch, but for passt.
LEMMA DoctorCovers ==
    ASSUME NEW h, NEW dir, NEW network,
           evaluate(h, dir) = {}, evaluate_launch(h, dir, network) # {}
    PROVE  network = "passt" /\ ~command_exists(h, "passt")
BY ZenonT(120)
   DEF evaluate, evaluate_launch, evaluate_with_options, probe, None, Some

\* For every host and configuration, the preflight of fend run and fend launch
\* turns away a host that fend doctor approves of only when passt was asked for
\* and is missing.
THEOREM LaunchDoctorPredicts == Spec => DoctorPredictsLaunch
<1>1. ASSUME NetInv, [Next]_vars, pc = "probe", cmd.kind # "plan", pc' = "exit",
             evaluate(host, config["--runtime-dir"]) = {}
      PROVE  /\ NetworkExplicit /\ config["--network"] = "passt"
             /\ ~command_exists(host, "passt")
  <2>1. Probe
    BY <1>1 DEF Next, Parse, ReadDefaults, Bootstrap, Prepare, PreparationFails,
       RunDoctor, DaemonVm, DaemonFails, DirectVm, DirectFails, QemuExits,
       SendCommand, CommandEnds, SessionFails, Stop, Status, Done, vars
  <2>2. config' = apply_network_fallback(config)  BY <2>1 DEF Probe
  <2>3. evaluate_launch(host, config["--runtime-dir"], config'["--network"]) # {}
    BY <1>1, <2>1 DEF Probe, Goto
  <2>4. config'["--network"] = "passt" /\ ~command_exists(host, "passt")
    BY <1>1, <2>3, DoctorCovers
  <2>5. "--network" \in DOMAIN config  BY <1>1 DEF NetInv, NetworkOK
  <2> QED  BY <2>2, <2>4, <2>5, FallbackNetwork
<1>2. NetInv /\ [Next]_vars
         => [/\ pc = "probe" /\ cmd.kind # "plan" /\ pc' = "exit"
             /\ evaluate(host, config["--runtime-dir"]) = {}
             => /\ NetworkExplicit /\ config["--network"] = "passt"
                /\ ~command_exists(host, "passt")]_vars
  BY <1>1
<1> QED  BY <1>2, SpecNetInv, PTL DEF Spec, DoctorPredictsLaunch

-----------------------------------------------------------------------------
(* Induction.                                                              *)

\* A set of natural numbers has a least one.
LEMMA LeastNat ==
    ASSUME NEW T, T \subseteq Nat, T # {}
    PROVE  \E x \in T : \A y \in T : x <= y
<1> DEFINE R == OpToRel(<, Nat)
<1>1. IsWellFoundedOn(R, Nat)  BY NatLessThanWellFounded, Zenon
<1>2. \A x, y \in Nat : x < y => <<x, y>> \in R  BY DEF OpToRel
<1> HIDE DEF R
<1>3. PICK x \in T : \A y \in T : ~(<<y, x>> \in R)  BY <1>1, WFMin, Zenon
<1>4. ASSUME NEW y \in T PROVE x <= y
  <2>1. x \in Nat /\ y \in Nat /\ ~(<<y, x>> \in R)  BY <1>3, Zenon
  <2>2. ~(y < x)  BY <1>2, <2>1, Zenon
  <2> QED  BY <2>1, <2>2
<1> QED  BY <1>4

\* Induction on a number, with the set of numbers for which the claim holds.
LEMMA Induction ==
    ASSUME NEW S, 0 \in S, \A n \in Nat : n \in S => n + 1 \in S
    PROVE  Nat \subseteq S
<1> SUFFICES ASSUME Nat \ S # {} PROVE FALSE
    OBVIOUS
<1>1. PICK x \in Nat \ S : \A y \in Nat \ S : x <= y  BY LeastNat, Zenon
<1>2. x - 1 \in Nat /\ (x - 1) + 1 = x  BY x # 0
<1>3. x - 1 \in S  BY <1>1, <1>2
<1> QED  BY <1>2, <1>3

-----------------------------------------------------------------------------
(* The words of fend run.                                                  *)

\* after is what the first N words lead to.
Leads(after, sub, words, N) ==
    after = [n \in 0..N |-> IF n = 0 THEN Parsing ELSE ParseWord(sub, after[n - 1], words[n])]

\* The recursive definition of parse defines a function.
LEMMA ParseLeads ==
    ASSUME NEW sub, NEW words, Len(words) \in Nat
    PROVE  Leads(parse(sub, words), sub, words, Len(words))
<1> DEFINE S == {N \in Nat : \E g : Leads(g, sub, words, N)}
<1>1. 0 \in S
  <2>1. Leads([n \in 0..0 |-> Parsing], sub, words, 0)  BY DEF Leads
  <2> QED  BY <2>1
<1>2. ASSUME NEW N \in Nat, N \in S PROVE N + 1 \in S
  <2>1. PICK g : Leads(g, sub, words, N)  BY <1>2
  <2> DEFINE M == N + 1
             h == [n \in 0..M |-> IF n = M THEN ParseWord(sub, g[N], words[M]) ELSE g[n]]
  <2>2. ASSUME NEW n \in 0..M
        PROVE  h[n] = IF n = 0 THEN Parsing ELSE ParseWord(sub, h[n - 1], words[n])
    <3>1. CASE n = M  BY <3>1
    <3>2. CASE n # M
      <4>1. n \in 0..N  BY <3>2
      <4>2. g[n] = IF n = 0 THEN Parsing ELSE ParseWord(sub, g[n - 1], words[n])
        BY <2>1, <4>1 DEF Leads
      <4>3. n # 0 => h[n - 1] = g[n - 1]  BY <4>1
      <4> QED  BY <3>2, <4>1, <4>2, <4>3
    <3> QED  BY <3>1, <3>2
  <2>3. Leads(h, sub, words, M)  BY <2>2 DEF Leads
  <2> QED  BY <2>3
<1> HIDE DEF S
<1>3. Nat \subseteq S  BY <1>1, <1>2, Induction
<1>4. PICK g : Leads(g, sub, words, Len(words))  BY <1>3 DEF S
<1> QED  BY <1>4 DEF Leads, parse

\* What the parser of fend run holds.
ParsedSet ==
    [at : {"options", "value", "command", "error", "help"}, option : STRING \union {""},
     options : [Options -> Seq(STRING)], flags : SUBSET STRING,
     env : Seq(STRING \X STRING), command : Seq(STRING)]

\* The first k words are options and their values.
Before(words, k) ==
    \A j \in 1..k : words[j] \in Dashed \/ (j > 1 /\ words[j - 1] \in ValueOptions["run"])

\* The command may start with word k.
Starts(words, k) ==
    /\ words[k] \notin Dashed \/ (k > 1 /\ words[k - 1] = "--")
    /\ Before(words, k - 1)

\* Where the parser is after n words.
RunParse(words, n, p) ==
    /\ p \in ParsedSet
    /\ p.at \in {"options", "value"} => Before(words, n) /\ p.command = <<>>
    /\ p.at = "value" => n > 0 /\ words[n] = p.option /\ p.option \in ValueOptions["run"]
    /\ p.at = "command" =>
         \/ p.command = <<>> /\ n > 0 /\ words[n] = "--" /\ Before(words, n)
         \/ \E k \in 1..n : Starts(words, k) /\ p.command = SubSeq(words, k, n)

LEMMA RunOptions ==
    /\ ValueOptions["run"] \subseteq Dashed /\ "--" \in Dashed
    /\ ValueOptions["run"] \ {"--env"} \subseteq Options
    /\ Flags("run") = {} /\ "run" \in TakesCommand
<1>1. "run" \in Subcommands  BY DEF Subcommands
<1>2. ValueOptions["run"] \ {"--env"} \subseteq Options  BY <1>1 DEF Options
<1> QED  BY <1>1, <1>2, DashedAssumption DEF Options, Flags, TakesCommand

\* A sequence that grows at its end.
LEMMA SubSeqGrows ==
    ASSUME NEW words \in Seq(STRING), NEW n \in 1..Len(words), NEW k \in 1..(n - 1)
    PROVE  Append(SubSeq(words, k, n - 1), words[n]) = SubSeq(words, k, n)
OBVIOUS

LEMMA SubSeqOne ==
    ASSUME NEW words \in Seq(STRING), NEW n \in 1..Len(words)
    PROVE  <<words[n]>> = SubSeq(words, n, n)
OBVIOUS

LEMMA BeforeGrows ==
    ASSUME NEW words, NEW n \in Nat \ {0}, Before(words, n - 1),
           words[n] \in Dashed \/ (n > 1 /\ words[n - 1] \in ValueOptions["run"])
    PROVE  Before(words, n)
BY DEF Before

\* A word where an option may stand.
LEMMA TakeWordRuns ==
    ASSUME NEW words \in Seq(STRING), NEW n \in 1..Len(words), NEW p,
           RunParse(words, n - 1, p), p.at = "options"
    PROVE  RunParse(words, n, TakeWord("run", p, words[n]))
<1> DEFINE w == words[n]
           q == TakeWord("run", p, w)
<1> SUFFICES RunParse(words, n, q)
    OBVIOUS
<1>1. w \in STRING /\ p \in ParsedSet /\ Before(words, n - 1) /\ p.command = <<>>
  BY DEF RunParse
<1>2. CASE w \in {"-h", "--help"}
  <2>1. q = [p EXCEPT !.at = "help"]  BY <1>2 DEF TakeWord
  <2>2. q \in ParsedSet /\ q.at = "help"  BY <1>1, <2>1, Zenon DEF ParsedSet
  <2> HIDE DEF q
  <2> QED  BY <2>2 DEF RunParse
<1>3. CASE w \notin {"-h", "--help"} /\ w \in ValueOptions["run"]
  <2>1. q = [p EXCEPT !.at = "value", !.option = w]  BY <1>3 DEF TakeWord
  <2>2. Before(words, n)  BY <1>1, <1>3, RunOptions, BeforeGrows
  <2>3. q \in ParsedSet /\ q.at = "value" /\ q.option = w /\ q.command = <<>>
    BY <1>1, <2>1, Zenon DEF ParsedSet
  <2> HIDE DEF q
  <2> QED  BY <1>3, <2>2, <2>3 DEF RunParse
<1>4. CASE w \notin {"-h", "--help"} /\ w \notin ValueOptions["run"] /\ w = "--"
  <2>1. q = [p EXCEPT !.at = "command"]  BY <1>4, RunOptions DEF TakeWord
  <2>2. Before(words, n)  BY <1>1, <1>4, RunOptions, BeforeGrows
  <2>3. q \in ParsedSet /\ q.at = "command" /\ q.command = <<>>
    BY <1>1, <2>1, Zenon DEF ParsedSet
  <2> HIDE DEF q
  <2> QED  BY <1>4, <2>2, <2>3 DEF RunParse
<1>5. CASE w \notin {"-h", "--help", "--"} /\ w \notin ValueOptions["run"] /\ w \in Dashed
  <2>1. q = [p EXCEPT !.at = "error"]  BY <1>5, RunOptions DEF TakeWord
  <2>2. q \in ParsedSet /\ q.at = "error"  BY <1>1, <2>1, Zenon DEF ParsedSet
  <2> HIDE DEF q
  <2> QED  BY <2>2 DEF RunParse
<1>6. CASE w \notin {"-h", "--help", "--"} /\ w \notin ValueOptions["run"] /\ w \notin Dashed
  <2>1. q = [p EXCEPT !.at = "command", !.command = <<w>>]  BY <1>6, RunOptions DEF TakeWord
  <2>2. q \in ParsedSet /\ q.at = "command" /\ q.command = <<w>>
    <3>1. <<w>> \in Seq(STRING)  BY <1>1
    <3> HIDE DEF w
    <3> QED  BY <1>1, <2>1, <3>1, Zenon DEF ParsedSet
  <2>3. n \in 1..n /\ Starts(words, n) /\ q.command = SubSeq(words, n, n)
    <3>1. Starts(words, n)  BY <1>1, <1>6 DEF Starts
    <3> HIDE DEF q
    <3> QED  BY <2>2, <3>1, SubSeqOne
  <2> HIDE DEF q
  <2> QED  BY <2>2, <2>3 DEF RunParse
<1> QED  BY <1>2, <1>3, <1>4, <1>5, <1>6

\* The value of an option.
LEMMA TakeValueRuns ==
    ASSUME NEW words \in Seq(STRING), NEW n \in 1..Len(words), NEW p,
           RunParse(words, n - 1, p), p.at = "value"
    PROVE  RunParse(words, n, TakeValue("run", p, words[n]))
<1> DEFINE w == words[n]
           q == TakeValue("run", p, w)
<1> SUFFICES RunParse(words, n, q)
    OBVIOUS
<1>1. /\ w \in STRING /\ p \in ParsedSet /\ Before(words, n - 1) /\ p.command = <<>>
      /\ n - 1 > 0 /\ words[n - 1] = p.option /\ p.option \in ValueOptions["run"]
  BY DEF RunParse
<1>2. Before(words, n)  BY <1>1, BeforeGrows
<1>3. CASE ~ValidValue("run", p.option, w)
  <2>1. q = [p EXCEPT !.at = "error"]  BY <1>3 DEF TakeValue
  <2>2. q \in ParsedSet /\ q.at = "error"  BY <1>1, <2>1, Zenon DEF ParsedSet
  <2> HIDE DEF q
  <2> QED  BY <2>2 DEF RunParse
<1>4. CASE ValidValue("run", p.option, w) /\ p.option = "--env"
  <2>1. q = [p EXCEPT !.at = "options", !.env = Append(@, EnvItem[w])]
    BY <1>4 DEF TakeValue
  <2>2. w \in DOMAIN EnvItem  BY <1>4 DEF ValidValue
  <2>3. Append(p.env, EnvItem[w]) \in Seq(STRING \X STRING)
    <3>1. EnvItem[w] \in STRING \X STRING /\ p.env \in Seq(STRING \X STRING)
      BY <1>1, <2>2, CliAssumption, Zenon DEF ParsedSet
    <3> QED  BY <3>1
  <2>4. q \in ParsedSet /\ q.at = "options" /\ q.command = <<>>
    BY <1>1, <2>1, <2>3, Zenon DEF ParsedSet
  <2> HIDE DEF q
  <2> QED  BY <1>2, <2>4 DEF RunParse
<1>5. CASE ValidValue("run", p.option, w) /\ p.option # "--env"
  <2>1. q = [p EXCEPT !.at = "options", !.options[p.option] = Some(w)]
    BY <1>5 DEF TakeValue
  <2>2. Some(w) \in Seq(STRING) /\ p.option \in Options  BY <1>1, <1>5, RunOptions DEF Some
  <2>3. q \in ParsedSet /\ q.at = "options" /\ q.command = <<>>
    <3> DEFINE o == [p.options EXCEPT ![p.option] = Some(w)]
    <3>1. q = [p EXCEPT !.at = "options", !.options = o]  BY <2>1, Zenon
    <3>2. o \in [Options -> Seq(STRING)]  BY <1>1, <2>2, Zenon DEF ParsedSet
    <3> HIDE DEF o, q, w
    <3> QED  BY <1>1, <3>1, <3>2, Zenon DEF ParsedSet
  <2> HIDE DEF q
  <2> QED  BY <1>2, <2>3 DEF RunParse
<1> QED  BY <1>3, <1>4, <1>5

\* One more word of the command.
LEMMA TakeCommandRuns ==
    ASSUME NEW words \in Seq(STRING), NEW n \in 1..Len(words), NEW p,
           RunParse(words, n - 1, p), p.at = "command"
    PROVE  RunParse(words, n, [p EXCEPT !.command = Append(@, words[n])])
<1> DEFINE w == words[n]
           q == [p EXCEPT !.command = Append(@, w)]
<1> SUFFICES RunParse(words, n, q)
    OBVIOUS
<1>1. w \in STRING /\ p \in ParsedSet  BY DEF RunParse
<1>2. Append(p.command, w) \in Seq(STRING)
  <2>1. p.command \in Seq(STRING)  BY <1>1, Zenon DEF ParsedSet
  <2> QED  BY <1>1, <2>1
<1>3. q \in ParsedSet /\ q.at = "command" /\ q.command = Append(p.command, w)
  <2> HIDE DEF w
  <2> QED  BY <1>1, <1>2, Zenon DEF ParsedSet
<1> HIDE DEF q
<1>4. CASE p.command = <<>> /\ n - 1 > 0 /\ words[n - 1] = "--" /\ Before(words, n - 1)
  <2>1. Starts(words, n) /\ n \in 1..n  BY <1>4 DEF Starts
  <2>2. q.command = SubSeq(words, n, n)
    <3>1. Append(<<>>, w) = <<w>>  OBVIOUS
    <3> QED  BY <1>3, <1>4, <3>1, SubSeqOne
  <2> QED  BY <1>3, <2>1, <2>2 DEF RunParse
<1>5. ASSUME NEW k \in 1..(n - 1), Starts(words, k), p.command = SubSeq(words, k, n - 1)
      PROVE  RunParse(words, n, q)
  <2>1. q.command = SubSeq(words, k, n)  BY <1>3, <1>5, SubSeqGrows
  <2>2. k \in 1..n  OBVIOUS
  <2> QED  BY <1>3, <1>5, <2>1, <2>2 DEF RunParse
<1> QED  BY <1>4, <1>5 DEF RunParse

\* One word of parse_run.
LEMMA ParseWordRuns ==
    ASSUME NEW words \in Seq(STRING), NEW n \in 1..Len(words), NEW p,
           RunParse(words, n - 1, p)
    PROVE  RunParse(words, n, ParseWord("run", p, words[n]))
<1>1. p \in ParsedSet  BY DEF RunParse
<1>2. CASE p.at = "options"  BY <1>2, TakeWordRuns DEF ParseWord
<1>3. CASE p.at = "value"  BY <1>3, TakeValueRuns DEF ParseWord
<1>4. CASE p.at = "command"  BY <1>4, TakeCommandRuns, Zenon DEF ParseWord
<1>5. CASE p.at \in {"error", "help"}  BY <1>1, <1>5 DEF ParseWord, RunParse
<1> QED  BY <1>1, <1>2, <1>3, <1>4, <1>5, Zenon DEF ParsedSet

\* All the words of parse_run.
LEMMA RunParses ==
    ASSUME NEW words \in Seq(STRING)
    PROVE  RunParse(words, Len(words), parse("run", words)[Len(words)])
<1> DEFINE after == parse("run", words)
           S == {n \in Nat : n <= Len(words) => RunParse(words, n, after[n])}
<1>1. Len(words) \in Nat /\ Leads(after, "run", words, Len(words))  BY ParseLeads
<1> HIDE DEF after
<1>2. 0 \in S
  <2>1. after[0] = Parsing  BY <1>1 DEF Leads
  <2>2. Parsing \in ParsedSet  BY DEF Parsing, ParsedSet, None
  <2>3. Before(words, 0)  BY DEF Before
  <2>4. Parsing.at = "options" /\ Parsing.command = <<>>  BY DEF Parsing
  <2> QED  BY <2>1, <2>2, <2>3, <2>4 DEF RunParse
<1>3. ASSUME NEW n \in Nat, n \in S PROVE n + 1 \in S
  <2> DEFINE m == n + 1
  <2>1. m \in Nat /\ m - 1 = n /\ m > 0  OBVIOUS
  <2> SUFFICES ASSUME m <= Len(words) PROVE RunParse(words, m, after[m])
      BY <2>1
  <2> HIDE DEF m
  <2>2. m \in 1..Len(words) /\ RunParse(words, m - 1, after[m - 1])  BY <1>1, <1>3, <2>1
  <2>3. after[m] = ParseWord("run", after[m - 1], words[m])  BY <2>2 , <1>1 DEF Leads
  <2> QED  BY <2>2, <2>3, ParseWordRuns
<1> HIDE DEF S
<1>4. Len(words) \in S  BY <1>1, <1>2, <1>3, Induction
<1> QED  BY <1>1, <1>4 DEF S, after

\* parse_args for a subcommand: all its words are parsed.
LEMMA ParsedBy ==
    ASSUME NEW a \in Seq(STRING), NEW sub \in Subcommands, parse_args(a).kind = sub
    PROVE  /\ Arguments(a) \in Seq(STRING)
           /\ parse_args(a).parsed = parse(sub, Arguments(a))[Len(Arguments(a))]
           /\ Outcome(sub, parse_args(a).parsed) = sub
<1>1. sub \notin {"help", "version", "error"}  BY DEF Subcommands
<1>2. a # <<>> /\ Head(a) \notin {"-h", "--help", "help", "-V", "--version", "version"}
  BY <1>1 DEF parse_args
<1>3. Arguments(a) \in Seq(STRING)
  <2>1. Tail(a) \in Seq(STRING)  BY <1>2
  <2> QED  BY <2>1, Zenon DEF Arguments
<1> DEFINE words == Arguments(a)
           s == Subcommand(a)
           parsed == parse(s, words)[Len(words)]
<1>4. parse_args(a) = [kind |-> Outcome(s, parsed), parsed |-> parsed]
  BY <1>2, Zenon DEF parse_args
<1> HIDE DEF parsed, words, s
<1>5. Outcome(s, parsed) = sub /\ parse_args(a).parsed = parsed  BY <1>4
<1>6. s = sub  BY <1>1, <1>5 DEF Outcome
<1> QED  BY <1>3, <1>5, <1>6 DEF parsed, words

\* The command of fend run is the rest of the words from where it starts.
LEMMA CommandParsed ==
    ASSUME NEW a \in Seq(STRING), parse_args(a).kind = "run"
    PROVE  LET words == Arguments(a)
               p == parse_args(a).parsed
           IN /\ words \in Seq(STRING) /\ p \in ParsedSet
              /\ \E k \in 1..Len(words) :
                    Starts(words, k) /\ p.command = SubSeq(words, k, Len(words))
<1> DEFINE words == Arguments(a)
           p == parse_args(a).parsed
<1>1. /\ words \in Seq(STRING) /\ p = parse("run", words)[Len(words)]
      /\ Outcome("run", p) = "run"
  BY ParsedBy DEF Subcommands
<1> HIDE DEF words, p
<1>2. RunParse(words, Len(words), p)  BY <1>1, RunParses
<1>3. p.at \notin {"help", "error", "value"} /\ p.command # <<>>  BY <1>1 DEF Outcome
<1>4. p.at = "command" /\ p \in ParsedSet  BY <1>2, <1>3, Zenon DEF RunParse, ParsedSet
<1>5. \E k \in 1..Len(words) : Starts(words, k) /\ p.command = SubSeq(words, k, Len(words))
  BY <1>2, <1>3, <1>4 DEF RunParse
<1> QED  BY <1>1, <1>4, <1>5 DEF words, p

\* The first word of the rest, and the others.
LEMMA RestOfWords ==
    ASSUME NEW words \in Seq(STRING), NEW k \in 1..Len(words)
    PROVE  LET rest == SubSeq(words, k, Len(words))
               others == SubSeq(words, k + 1, Len(words))
           IN Head(rest) = words[k] /\ Tail(rest) = others /\ rest = <<words[k]>> \o others
<1> DEFINE n == Len(words)
           rest == SubSeq(words, k, n)
           others == SubSeq(words, k + 1, n)
<1>1. n \in Nat /\ k \in 1..n  OBVIOUS
<1>2. rest \in Seq(STRING) /\ Len(rest) = n - k + 1 /\ \A i \in 1..(n - k + 1) : rest[i] = words[k + i - 1]
  OBVIOUS
<1>3. others \in Seq(STRING) /\ Len(others) = n - k /\ \A i \in 1..(n - k) : others[i] = words[k + i]
  OBVIOUS
<1>4. Head(rest) = words[k]  BY <1>1, <1>2
<1>5. Tail(rest) = others  BY <1>1, <1>2, <1>3
<1>6. rest = <<words[k]>> \o others  BY <1>1, <1>2, <1>3
<1> QED  BY <1>4, <1>5, <1>6

-----------------------------------------------------------------------------
(* The options of any subcommand.                                          *)

\* Every option holds nothing or a value that parse_args accepted for it.
Accepted(sub, p) ==
    /\ p \in ParsedSet
    /\ p.at = "value" => p.option \in ValueOptions[sub]
    /\ \A o \in Options : \/ p.options[o] = None
                          \/ \E w : p.options[o] = Some(w) /\ ValidValue(sub, o, w)

LEMMA SubOptions ==
    ASSUME NEW sub \in Subcommands
    PROVE  ValueOptions[sub] \ {"--env"} \subseteq Options
BY DEF Options

\* A parser that moves on but keeps its options and its command.
LEMMA AcceptedMoves ==
    ASSUME NEW sub, NEW p, Accepted(sub, p), NEW q \in ParsedSet, q.options = p.options,
           q.at = "value" => q.option \in ValueOptions[sub]
    PROVE  Accepted(sub, q)
BY DEF Accepted

\* A parser that sets an option.
LEMMA AcceptedSets ==
    ASSUME NEW sub, NEW p, Accepted(sub, p), NEW q \in ParsedSet, q.at = "options",
           NEW o \in Options, NEW w, ValidValue(sub, o, w),
           q.options = [p.options EXCEPT ![o] = Some(w)]
    PROVE  Accepted(sub, q)
<1>1. p.options \in [Options -> Seq(STRING)]  BY Zenon DEF Accepted, ParsedSet
<1>2. ASSUME NEW x \in Options
      PROVE  q.options[x] = None \/ \E v : q.options[x] = Some(v) /\ ValidValue(sub, x, v)
  <2>1. CASE x = o  BY <1>1, <2>1
  <2>2. CASE x # o
    <3>1. q.options[x] = p.options[x]  BY <1>1, <2>2
    <3> QED  BY <3>1 DEF Accepted
  <2> QED  BY <2>1, <2>2
<1> QED  BY <1>2 DEF Accepted

\* One word, of any subcommand.
LEMMA ParseWordAccepted ==
    ASSUME NEW sub \in Subcommands, NEW p, Accepted(sub, p), NEW w \in STRING
    PROVE  Accepted(sub, ParseWord(sub, p, w))
<1>1. p \in ParsedSet  BY DEF Accepted
<1>one. <<w>> \in Seq(STRING)
  <2>1. \A S : \A x \in S : <<x>> \in Seq(S)  BY ONLY TRUE
  <2> QED  BY <2>1, Zenon
<1>2. /\ [p EXCEPT !.at = "help"] \in ParsedSet /\ [p EXCEPT !.at = "error"] \in ParsedSet
      /\ [p EXCEPT !.at = "command"] \in ParsedSet
  BY <1>1, Zenon DEF ParsedSet
<1>3. /\ [p EXCEPT !.at = "help"].options = p.options
      /\ [p EXCEPT !.at = "error"].options = p.options
      /\ [p EXCEPT !.at = "command"].options = p.options
      /\ [p EXCEPT !.at = "help"].at = "help"
      /\ [p EXCEPT !.at = "error"].at = "error"
      /\ [p EXCEPT !.at = "command"].at = "command"
  BY <1>1, Zenon DEF ParsedSet
<1>4. /\ Accepted(sub, [p EXCEPT !.at = "help"]) /\ Accepted(sub, [p EXCEPT !.at = "error"])
      /\ Accepted(sub, [p EXCEPT !.at = "command"])
  BY <1>2, <1>3, AcceptedMoves, Zenon
<1>5. ASSUME NEW o \in Options, ValidValue(sub, o, w)
      PROVE  Accepted(sub, [p EXCEPT !.at = "options", !.options[o] = Some(w)])
  <2> DEFINE f == [p.options EXCEPT ![o] = Some(w)]
             q == [p EXCEPT !.at = "options", !.options[o] = Some(w)]
  <2>1. q = [p EXCEPT !.at = "options", !.options = f]  BY Zenon
  <2>2. p.options \in [Options -> Seq(STRING)] /\ Some(w) \in Seq(STRING)
    BY <1>1, <1>one, Zenon DEF ParsedSet, Some
  <2>3. f \in [Options -> Seq(STRING)]  BY <2>2
  <2> HIDE DEF f, q
  <2>4. q \in ParsedSet /\ q.at = "options" /\ q.options = f
    BY <1>1, <2>1, <2>3, Zenon DEF ParsedSet
  <2>5. Accepted(sub, q)  BY <1>5, <2>4, AcceptedSets DEF f
  <2> QED  BY <2>5 DEF q
<1>6. CASE p.at = "value"
  <2>1. p.option \in ValueOptions[sub]  BY <1>6 DEF Accepted
  <2>2. CASE ~ValidValue(sub, p.option, w)  BY <1>4, <1>6, <2>2 DEF ParseWord, TakeValue
  <2>3. CASE ValidValue(sub, p.option, w) /\ p.option = "--env"
    <3> DEFINE e == Append(p.env, EnvItem[w])
               q == [p EXCEPT !.at = "options", !.env = e]
    <3>1. e \in Seq(STRING \X STRING)
      <4>1. w \in DOMAIN EnvItem  BY <2>3 DEF ValidValue
      <4>2. EnvItem[w] \in STRING \X STRING /\ p.env \in Seq(STRING \X STRING)
        BY <1>1, <4>1, CliAssumption, Zenon DEF ParsedSet
      <4> QED  BY <4>2
    <3> HIDE DEF e
    <3>2. q \in ParsedSet /\ q.at = "options" /\ q.options = p.options
      BY <1>1, <3>1, Zenon DEF ParsedSet
    <3> HIDE DEF q
    <3>3. Accepted(sub, q)  BY <3>2, AcceptedMoves
    <3> QED  BY <1>6, <2>3, <3>3 DEF ParseWord, TakeValue, q, e
  <2>4. CASE ValidValue(sub, p.option, w) /\ p.option # "--env"
    <3>1. p.option \in Options  BY <2>1, <2>4, SubOptions
    <3> QED  BY <1>5, <1>6, <2>4, <3>1, Zenon DEF ParseWord, TakeValue
  <2> QED  BY <2>2, <2>3, <2>4
<1>7. CASE p.at = "options"
  <2>1. ParseWord(sub, p, w) = TakeWord(sub, p, w)  BY <1>7 DEF ParseWord
  <2>2. CASE w \in ValueOptions[sub]
    <3> DEFINE q == [p EXCEPT !.at = "value", !.option = w]
    <3>1. q \in ParsedSet /\ q.option = w /\ q.options = p.options
      BY <1>1, Zenon DEF ParsedSet
    <3> HIDE DEF q
    <3>2. Accepted(sub, q)  BY <2>2, <3>1, AcceptedMoves
    <3> QED  BY <1>4, <2>1, <2>2, <3>2 DEF TakeWord, q
  <2>3. CASE w \in Flags(sub)
    <3> DEFINE q == [p EXCEPT !.flags = @ \union {w}]
    <3>1. q \in ParsedSet /\ q.at = "options" /\ q.options = p.options
      BY <1>1, <1>7, Zenon DEF ParsedSet
    <3> HIDE DEF q
    <3>2. Accepted(sub, q)  BY <3>1, AcceptedMoves
    <3> QED  BY <1>4, <2>1, <2>2, <2>3, <3>2 DEF TakeWord, q
  <2>4. CASE w \notin ValueOptions[sub] /\ w \notin Flags(sub)
    <3> DEFINE q == [p EXCEPT !.at = "command", !.command = <<w>>]
               r == [p EXCEPT !.options["--workspace"] = Some(w)]
    <3>2. q \in ParsedSet /\ q.at = "command" /\ q.options = p.options
      BY <1>1, <1>one, Zenon DEF ParsedSet
    <3> HIDE DEF q
    <3>3. Accepted(sub, q)  BY <3>2, AcceptedMoves
    <3>4. Accepted(sub, r)
      <4>1. r = [p EXCEPT !.at = "options", !.options["--workspace"] = Some(w)]
        BY <1>1, <1>7, Zenon DEF ParsedSet
      <4>2. "--workspace" \in Options
        BY DEF Options, Subcommands, ValueOptions, PlanOptions, VmOptions
      <4>3. ValidValue(sub, "--workspace", w)  BY DEF ValidValue
      <4> QED  BY <1>5, <4>1, <4>2, <4>3, Zenon
    <3> HIDE DEF r
    <3> QED  BY <1>4, <2>1, <2>4, <3>3, <3>4 DEF TakeWord, q, r
  <2> QED  BY <2>2, <2>3, <2>4, Zenon
<1>8. CASE p.at = "command"
  <2> DEFINE c == Append(p.command, w)
             q == [p EXCEPT !.command = c]
  <2>1. c \in Seq(STRING)
    <3>1. p.command \in Seq(STRING)  BY <1>1, Zenon DEF ParsedSet
    <3> QED  BY <3>1
  <2> HIDE DEF c
  <2>2. q \in ParsedSet /\ q.at = "command" /\ q.options = p.options
    BY <1>1, <1>8, <2>1, Zenon DEF ParsedSet
  <2> HIDE DEF q
  <2>3. Accepted(sub, q)  BY <2>2, AcceptedMoves
  <2> QED  BY <1>8, <2>3 DEF ParseWord, q, c
<1>9. CASE p.at \notin {"value", "options", "command"}  BY <1>9 DEF ParseWord
<1> QED  BY <1>6, <1>7, <1>8, <1>9

\* All the words, of any subcommand.
LEMMA ParsesAccepted ==
    ASSUME NEW sub \in Subcommands, NEW words \in Seq(STRING)
    PROVE  Accepted(sub, parse(sub, words)[Len(words)])
<1> DEFINE after == parse(sub, words)
           S == {n \in Nat : n <= Len(words) => Accepted(sub, after[n])}
<1>1. Len(words) \in Nat /\ Leads(after, sub, words, Len(words))  BY ParseLeads
<1> HIDE DEF after
<1>2. 0 \in S
  <2>1. after[0] = Parsing  BY <1>1 DEF Leads
  <2>2. Parsing \in ParsedSet  BY DEF Parsing, ParsedSet, None
  <2>3. Parsing.at = "options" /\ \A o \in Options : Parsing.options[o] = None
    BY DEF Parsing
  <2> QED  BY <2>1, <2>2, <2>3 DEF Accepted
<1>3. ASSUME NEW n \in Nat, n \in S PROVE n + 1 \in S
  <2> DEFINE m == n + 1
  <2>1. m \in Nat /\ m - 1 = n /\ m > 0  OBVIOUS
  <2> SUFFICES ASSUME m <= Len(words) PROVE Accepted(sub, after[m])
      BY <2>1
  <2> HIDE DEF m
  <2>2. m \in 1..Len(words) /\ words[m] \in STRING /\ Accepted(sub, after[m - 1])
    BY <1>1, <1>3, <2>1
  <2>3. after[m] = ParseWord(sub, after[m - 1], words[m])  BY <1>1, <2>2 DEF Leads
  <2> QED  BY <2>2, <2>3, ParseWordAccepted, Zenon
<1> HIDE DEF S
<1>4. Len(words) \in S  BY <1>1, <1>2, <1>3, Induction
<1> QED  BY <1>1, <1>4 DEF S, after

-----------------------------------------------------------------------------
(* The host.                                                               *)

\* What is found among candidates is a file.
LEMMA FirstFileIs ==
    ASSUME NEW h, NEW candidates, DOMAIN candidates \subseteq Nat
    PROVE  \/ FirstFile(h, candidates) = None
           \/ \E f \in h.files : FirstFile(h, candidates) = Some(f)
<1> DEFINE found == {i \in DOMAIN candidates : candidates[i] \in h.files}
<1>1. CASE found = {}  BY <1>1 DEF FirstFile
<1>2. CASE found # {}
  <2>1. \E x \in found : \A y \in found : x <= y  BY <1>2, LeastNat, Zenon
  <2>2. Min(found) \in found  BY <2>1 DEF Min
  <2> QED  BY <1>2, <2>2, Zenon DEF FirstFile
<1> QED  BY <1>1, <1>2

\* The virtiofsd that is found is a file.
LEMMA VirtiofsdIsFile ==
    ASSUME NEW h, h.path \in Seq(Seq(STRING))
    PROVE  \/ resolve_virtiofsd(h) = None
           \/ \E f \in h.files : resolve_virtiofsd(h) = Some(f)
<1> DEFINE Found(r) == r = None \/ \E f \in h.files : r = Some(f)
<1>1. ASSUME NEW program PROVE Found(locate_in_path(h, program))
  <2> DEFINE c == [i \in DOMAIN h.path |-> Append(h.path[i], program)]
  <2>1. DOMAIN c \subseteq Nat  OBVIOUS
  <2> HIDE DEF c
  <2>2. Found(FirstFile(h, c))  BY <2>1, FirstFileIs
  <2> QED  BY <2>2 DEF locate_in_path, c
<1>2. ASSUME NEW candidate PROVE Found(FirstFile(h, <<candidate>>))
  <2> DEFINE c == <<candidate>>
  <2>1. DOMAIN c \subseteq Nat  OBVIOUS
  <2> HIDE DEF c
  <2>2. Found(FirstFile(h, c))  BY <2>1, FirstFileIs
  <2> QED  BY <2>2 DEF c
<1>3. Found(FirstFile(h, KnownVirtiofsd))
  <2>1. DOMAIN KnownVirtiofsd \subseteq Nat  BY DEF KnownVirtiofsd
  <2> QED  BY <2>1, FirstFileIs
<1>4. ASSUME NEW a, NEW b, Found(a), Found(b) PROVE Found(or_else(a, b))
  BY <1>4 DEF or_else
<1>5. ASSUME NEW candidate PROVE Found(resolve_candidate(h, candidate))
  <2>1. Found(or_else(locate_in_path(h, candidate[1]), FirstFile(h, <<candidate>>)))
    BY <1>1, <1>2, <1>4
  <2> HIDE DEF Found
  <2> QED  BY <1>2, <2>1 DEF resolve_candidate
<1>6. Found(or_else(locate_in_path(h, "virtiofsd"), FirstFile(h, KnownVirtiofsd)))
  BY <1>1, <1>3, <1>4
<1> HIDE DEF Found
<1>7. Found(resolve_virtiofsd(h))  BY <1>5, <1>6 DEF resolve_virtiofsd
<1> QED  BY <1>7 DEF Found

\* What the preflight of a launch establishes.
LEMMA PreflightIs ==
    ASSUME NEW h, NEW dir, NEW network, evaluate_launch(h, dir, network) = {}
    PROVE  LET virtiofsd == resolve_virtiofsd(h) IN
           /\ Artifacts(dir) \subseteq h.files
           /\ command_exists(h, "qemu-system-x86_64")
           /\ virtiofsd # None
           /\ requires_unshare(virtiofsd) =>
                /\ command_exists(h, "unshare")
                /\ h.subids = {"subuid", "subgid"}
           /\ network = "passt" => command_exists(h, "passt")
           /\ h.kvm = "usable" /\ h.vsock = "usable"
<1> DEFINE p == probe(h, dir, FALSE)
           rootless == requires_unshare(p.virtiofsd)
<1>1. /\ p.qemu /\ p.virtiofsd # None
      /\ rootless => p.unshare
      /\ rootless => p.subids = {"subuid", "subgid"}
      /\ Some(network) = Some("passt") => p.passt
      /\ p.kvm = "usable" /\ p.vsock = "usable" /\ p.artifacts
  <2> HIDE DEF p
  <2> QED  BY ZenonT(60) DEF evaluate_launch, evaluate_with_options, p
<1>2. /\ p.qemu => command_exists(h, "qemu-system-x86_64")
      /\ p.virtiofsd = resolve_virtiofsd(h)
      /\ p.passt => command_exists(h, "passt")
      /\ p.kvm = h.kvm /\ p.vsock = h.vsock
      /\ p.artifacts => Artifacts(dir) \subseteq h.files
      /\ rootless /\ p.unshare => command_exists(h, "unshare")
      /\ rootless => p.subids = h.subids
  BY Zenon DEF probe
<1> HIDE DEF p, rootless
<1>3. requires_unshare(resolve_virtiofsd(h)) => rootless  BY <1>2, Zenon DEF rootless
<1>4. rootless => command_exists(h, "unshare") /\ h.subids = {"subuid", "subgid"}
  BY <1>1, <1>2, Zenon
<1>5. network = "passt" => command_exists(h, "passt")  BY <1>1, <1>2, Zenon
<1> QED  BY <1>1, <1>2, <1>3, <1>4, <1>5, Zenon

-----------------------------------------------------------------------------
(* What an invocation holds, from its words to its command in the guest.   *)

\* A host whose PATH can be searched.
Searchable(h) == {"files", "path"} \subseteq DOMAIN h /\ h.path \in Seq(Seq(STRING))

InputOK ==
    /\ argv \in Argvs
    /\ pc # "parse" => cmd = parse_args(argv)
    /\ pc \notin {"parse", "exit"} => Searchable(host) /\ environ \in Environs

\* The configuration and the preflight that a VM is booted after.
ConfigOK ==
    /\ pc \in {"bootstrap", "prepare", "probe", "daemon", "direct"} =>
         /\ {"--network", "--runtime-dir"} \subseteq DOMAIN config
         /\ cmd.kind \in {"run", "launch"} => config["--network"] \in NetworkModes
    /\ pc \in {"daemon", "direct"} =>
         evaluate_launch(host, config["--runtime-dir"], config["--network"]) = {}
    /\ pc \in {"parse", "defaults", "bootstrap", "prepare", "probe", "daemon", "direct"} =>
         vm = <<>>

\* What prepare_guest_command makes of the command.
PreparedIs ==
    IF Head(cmd.parsed.command) \in DOMAIN Rewrites
    THEN [command |-> Rewrites[Head(cmd.parsed.command)] \o Tail(cmd.parsed.command),
          env |-> <<<<"FEND_TOOL_PATH_PREPEND", "runtime">>>>]
    ELSE [command |-> cmd.parsed.command, env |-> <<>>]

\* The command that is sent is the one that was prepared.
MessageOK ==
    /\ cmd.kind = "run"
       /\ (pc \in {"probe", "daemon", "direct", "attach", "execute"} \/ sent # <<>>)
          => prepared = PreparedIs
    /\ sent = <<>> \/ sent = <<Message>>

RunInv == NetInv /\ InputOK /\ ConfigOK /\ MessageOK /\ LaunchedIsEquipped

\* The network of a configuration is one of the modes.
LEMMA ConfigIsValid ==
    ASSUME NEW auto, argv \in Argvs, cmd = parse_args(argv), environ \in Environs,
           DefaultsValid(environ.options)
    PROVE  /\ {"--network", "--runtime-dir"} \subseteq DOMAIN Config(auto)
           /\ cmd.kind \in {"run", "launch"} => Config(auto)["--network"] \in NetworkModes
<1>1. "--runtime-dir" \in DOMAIN Config(auto)
  <2>1. "--runtime-dir" \in PlanOptions  BY DEF PlanOptions, VmOptions
  <2> QED  BY <2>1 DEF Config, build_run_launch_config, build_supervised_launch_config,
              build_launch_config
<1>2. ASSUME cmd.kind \in {"run", "launch"}
      PROVE  Config(auto)["--network"] \in NetworkModes
  <2> DEFINE sub == cmd.kind
             o == IF sub = "run" THEN "--vm-network" ELSE "--network"
             e == env_value(environ.options, "--network")
  <2>1. sub \in Subcommands /\ argv \in Seq(STRING)
    BY <1>2, LaunchAssumption DEF Subcommands
  <2>2. Accepted(sub, cmd.parsed)
    <3>1. /\ Arguments(argv) \in Seq(STRING)
          /\ cmd.parsed = parse(sub, Arguments(argv))[Len(Arguments(argv))]
      BY <2>1, ParsedBy
    <3> QED  BY <2>1, <3>1, ParsesAccepted
  <2>3. o \in Options
    BY <1>2 DEF Options, Subcommands, ValueOptions, PlanOptions, VmOptions
  <2>4. ASSUME NEW w, ValidValue(sub, o, w) PROVE w \in NetworkModes
    BY <1>2, <2>4 DEF ValidValue
  <2>5. Options_[o] # None => Options_[o][1] \in NetworkModes
    <3>1. Options_[o] = None \/ \E w : Options_[o] = Some(w) /\ ValidValue(sub, o, w)
      BY <2>2, <2>3 DEF Accepted, Options_
    <3>2. \A w : Some(w)[1] = w  BY DEF Some
    <3> HIDE DEF o, sub
    <3> QED  BY <2>4, <3>1, <3>2
  <2>6. e # None => e[1] \in NetworkModes
    <3>1. "--network" \in EnvOptions  BY DEF EnvOptions, VmOptions
    <3>2. environ.options["--network"] \in Seq(STRING)  BY <3>1, LaunchAssumption
    <3>3. e = None \/ e = environ.options["--network"]  BY Zenon DEF env_value
    <3>4. e # None => 1 \in DOMAIN e  BY <3>2, <3>3 DEF None
    <3>5. e # None => ValidValue("plan", "--network", environ.options["--network"][1])
      BY <3>1, <3>4 DEF DefaultsValid
    <3>6. \A w : ValidValue("plan", "--network", w) => w \in NetworkModes  BY DEF ValidValue
    <3> HIDE DEF e
    <3> QED  BY <3>3, <3>5, <3>6
  <2>7. Asked = or_else(Options_[o], e)  BY DEF Asked
  <2>8. Asked # None => Asked[1] \in NetworkModes
    <3> HIDE DEF o, e
    <3> QED  BY <2>5, <2>6, <2>7 DEF or_else
  <2>9. "passt" \in NetworkModes  BY DEF NetworkModes
  <2> QED  BY <1>2, <2>8, <2>9, ConfigNetwork
<1> QED  BY <1>1, <1>2, ConfigNetwork

\* The words, the environment and the host are what they were.
LEMMA NextInputOK == RunInv /\ [Next]_vars => InputOK'
<1> SUFFICES ASSUME RunInv, [Next]_vars PROVE InputOK'
    OBVIOUS
<1> USE DEF RunInv, InputOK, Exit, Goto, inputs
<1>1. CASE Parse
  <2>1. \A h \in Hosts : Searchable(h)  BY LaunchAssumption DEF Searchable
  <2> QED  BY <1>1, <2>1 DEF Parse
<1>2. CASE ReadDefaults  BY <1>2 DEF ReadDefaults
<1>3. CASE Bootstrap
  <2>1. Searchable(host)  BY <1>3 DEF Bootstrap
  <2>2. Searchable(host')
    <3> DEFINE f == host.files \union Artifacts(BootstrapDir(config))
    <3>1. host' = [host EXCEPT !.files = f]  BY <1>3 DEF Bootstrap
    <3> HIDE DEF f
    <3> QED  BY <2>1, <3>1 DEF Searchable
  <2> QED  BY <1>3, <2>2 DEF Bootstrap
<1>4. CASE Prepare  BY <1>4 DEF Prepare
<1>5. CASE PreparationFails  BY <1>5 DEF PreparationFails
<1>6. CASE Probe  BY <1>6 DEF Probe
<1>7. CASE RunDoctor  BY <1>7 DEF RunDoctor
<1>8. CASE DaemonVm  BY <1>8 DEF DaemonVm
<1>9. CASE DaemonFails  BY <1>9 DEF DaemonFails
<1>10. CASE DirectVm  BY <1>10 DEF DirectVm
<1>11. CASE DirectFails  BY <1>11 DEF DirectFails
<1>12. CASE QemuExits  BY <1>12 DEF QemuExits
<1>13. CASE SendCommand  BY <1>13 DEF SendCommand
<1>14. CASE CommandEnds  BY <1>14 DEF CommandEnds
<1>15. CASE SessionFails  BY <1>15 DEF SessionFails
<1>16. CASE Stop  BY <1>16 DEF Stop
<1>17. CASE Status  BY <1>17 DEF Status
<1>18. CASE Done \/ UNCHANGED vars  BY <1>18 DEF Done, vars
<1> QED  BY <1>1, <1>2, <1>3, <1>4, <1>5, <1>6, <1>7, <1>8, <1>9,
            <1>10, <1>11, <1>12, <1>13, <1>14, <1>15, <1>16, <1>17, <1>18, Zenon DEF Next

\* The preflight is passed by the configuration that is booted.
LEMMA NextConfigOK == RunInv /\ [Next]_vars => ConfigOK'
<1> SUFFICES ASSUME RunInv, [Next]_vars PROVE ConfigOK'
    OBVIOUS
<1> USE DEF RunInv, ConfigOK, Exit, Goto, inputs
<1>1. CASE Parse  BY <1>1 DEF Parse
<1>2. CASE ReadDefaults
  <2>1. CASE ~DefaultsValid(environ.options)  BY <1>2, <2>1 DEF ReadDefaults
  <2>2. CASE DefaultsValid(environ.options)
    <3>1. PICK auto \in AutoCids : config' = Config(auto)  BY <1>2, <2>2 DEF ReadDefaults
    <3>2. /\ {"--network", "--runtime-dir"} \subseteq DOMAIN config'
          /\ cmd.kind \in {"run", "launch"} => config'["--network"] \in NetworkModes
      BY <1>2, <2>2, <3>1, ConfigIsValid DEF InputOK, ReadDefaults
    <3>3. pc' \notin {"parse", "exit", "daemon", "direct"} /\ vm' = <<>>
      BY <1>2, <2>2 DEF ReadDefaults, AfterDefaults, NetInv, IInv, StepOK, Subcommands
    <3> QED  BY <1>2, <3>2, <3>3 DEF ReadDefaults
  <2> QED  BY <2>1, <2>2
<1>3. CASE Bootstrap  BY <1>3 DEF Bootstrap
<1>4. CASE Prepare  BY <1>4 DEF Prepare
<1>5. CASE PreparationFails  BY <1>5 DEF PreparationFails
<1>6. CASE Probe
  <2>1. {"--network", "--runtime-dir"} \subseteq DOMAIN config /\ vm = <<>>
    BY <1>6 DEF Probe
  <2>2. /\ config' = apply_network_fallback(config) /\ UNCHANGED <<host, cmd>>
    BY <1>6 DEF Probe
  <2>3. /\ {"--network", "--runtime-dir"} \subseteq DOMAIN config'
        /\ config'["--runtime-dir"] = config["--runtime-dir"]
        /\ config'["--network"] \in {config["--network"], "user"}
    BY <2>1, <2>2 DEF apply_network_fallback
  <2>4. pc' \in {"exit", "daemon", "direct"} /\ vm' = <<>>  BY <1>6, <2>1 DEF Probe
  <2>5. pc' # "exit" => evaluate_launch(host, config["--runtime-dir"], config'["--network"]) = {}
    BY <1>6 DEF Probe
  <2>6. cmd.kind \in {"run", "launch"} => config'["--network"] \in NetworkModes
    BY <1>6, <2>3 DEF Probe, NetworkModes
  <2> QED  BY <2>2, <2>3, <2>4, <2>5, <2>6
<1>7. CASE RunDoctor  BY <1>7 DEF RunDoctor
<1>8. CASE DaemonVm  BY <1>8 DEF DaemonVm
<1>9. CASE DaemonFails  BY <1>9 DEF DaemonFails
<1>10. CASE DirectVm  BY <1>10 DEF DirectVm
<1>11. CASE DirectFails  BY <1>11 DEF DirectFails
<1>12. CASE QemuExits  BY <1>12 DEF QemuExits
<1>13. CASE SendCommand  BY <1>13 DEF SendCommand
<1>14. CASE CommandEnds  BY <1>14 DEF CommandEnds
<1>15. CASE SessionFails  BY <1>15 DEF SessionFails
<1>16. CASE Stop  BY <1>16 DEF Stop
<1>17. CASE Status  BY <1>17 DEF Status
<1>18. CASE Done \/ UNCHANGED vars  BY <1>18 DEF Done, vars
<1> QED  BY <1>1, <1>2, <1>3, <1>4, <1>5, <1>6, <1>7, <1>8, <1>9,
            <1>10, <1>11, <1>12, <1>13, <1>14, <1>15, <1>16, <1>17, <1>18, Zenon DEF Next

\* One message, of the command that was prepared.
LEMMA NextMessageOK == RunInv /\ [Next]_vars => MessageOK'
<1> SUFFICES ASSUME RunInv, [Next]_vars PROVE MessageOK'
    OBVIOUS
<1>same. ASSUME UNCHANGED <<cmd, prepared, sent>>,
                pc' \in {"probe", "daemon", "direct", "attach", "execute"} =>
                    pc \in {"probe", "daemon", "direct", "attach", "execute"}
         PROVE  MessageOK'
  <2>1. PreparedIs' = PreparedIs /\ Message' = Message
    BY <1>same DEF PreparedIs, Message
  <2> QED  BY <1>same, <2>1 DEF RunInv, MessageOK
<1>first. ASSUME sent' = <<>>, cmd'.kind = "run" => prepared' = PreparedIs' PROVE MessageOK'
  BY <1>first DEF MessageOK
<1> USE DEF RunInv, Exit, Goto, inputs
<1>1. CASE Parse
  <2>1. sent' = <<>> /\ pc' \notin {"probe", "daemon", "direct", "attach", "execute"}
    BY <1>1 DEF Parse, NetInv, IInv, SentOK
  <2> QED  BY <2>1 DEF MessageOK
<1>2. CASE ReadDefaults
  <2>1. pc' \notin {"daemon", "direct", "attach", "execute"} /\ (pc' = "probe" => cmd.kind # "run")
    BY <1>2 DEF ReadDefaults, AfterDefaults, NetInv, IInv, StepOK, Subcommands
  <2>2. sent' = <<>> /\ cmd' = cmd  BY <1>2 DEF ReadDefaults, NetInv, IInv, SentOK
  <2> QED  BY <2>1, <2>2 DEF MessageOK
<1>3. CASE Bootstrap
  <2>1. pc' \notin {"daemon", "direct", "attach", "execute"} /\ (pc' = "probe" => cmd.kind # "run")
    BY <1>3 DEF Bootstrap
  <2>2. sent' = <<>> /\ cmd' = cmd  BY <1>3 DEF Bootstrap, NetInv, IInv, SentOK
  <2> QED  BY <2>1, <2>2 DEF MessageOK
<1>4. CASE Prepare
  <2>1. sent' = <<>> /\ cmd' = cmd  BY <1>4 DEF Prepare, NetInv, IInv, SentOK
  <2>2. prepared' = PreparedIs  BY <1>4 DEF Prepare, PreparedIs
  <2>3. PreparedIs' = PreparedIs  BY <2>1 DEF PreparedIs
  <2> QED  BY <1>first, <2>1, <2>2, <2>3
<1>5. CASE PreparationFails  BY <1>5, <1>same DEF PreparationFails
<1>6. CASE Probe  BY <1>6, <1>same DEF Probe
<1>7. CASE RunDoctor  BY <1>7, <1>same DEF RunDoctor
<1>8. CASE DaemonVm  BY <1>8, <1>same DEF DaemonVm
<1>9. CASE DaemonFails  BY <1>9, <1>same DEF DaemonFails
<1>10. CASE DirectVm  BY <1>10, <1>same DEF DirectVm
<1>11. CASE DirectFails  BY <1>11, <1>same DEF DirectFails
<1>12. CASE QemuExits  BY <1>12, <1>same DEF QemuExits
<1>13. CASE SendCommand
  <2>1. sent = <<>>  BY <1>13 DEF SendCommand, NetInv, IInv, SentOK
  <2>2. sent' = <<Message>> /\ UNCHANGED <<cmd, prepared>>  BY <1>13, <2>1 DEF SendCommand
  <2>3. cmd.kind = "run" => prepared = PreparedIs
    BY <1>13 DEF SendCommand, MessageOK, NetInv, IInv, StepOK
  <2>4. PreparedIs' = PreparedIs /\ Message' = Message  BY <2>2 DEF PreparedIs, Message
  <2> QED  BY <2>2, <2>3, <2>4 DEF MessageOK
<1>14. CASE CommandEnds  BY <1>14, <1>same DEF CommandEnds
<1>15. CASE SessionFails  BY <1>15, <1>same DEF SessionFails
<1>16. CASE Stop  BY <1>16, <1>same DEF Stop
<1>17. CASE Status  BY <1>17, <1>same DEF Status
<1>18. CASE Done \/ UNCHANGED vars  BY <1>18, <1>same DEF Done, vars
<1> QED
  BY <1>1, <1>2, <1>3, <1>4, <1>5, <1>6, <1>7, <1>8, <1>9, <1>10, <1>11, <1>12, <1>13,
     <1>14, <1>15, <1>16, <1>17, <1>18, Zenon DEF Next

\* A plan that follows the preflight has what it needs.
LEMMA PlanIsEquipped ==
    ASSUME NEW h, NEW c, h.path \in Seq(Seq(STRING)), c["--network"] \in NetworkModes,
           evaluate_launch(h, c["--runtime-dir"], c["--network"]) = {}
    PROVE  LET plan == build_launch_plan(h, c) IN
           /\ plan.kernel \subseteq h.files
           /\ plan.virtiofsd \in h.files
           /\ \A p \in {"qemu-system-x86_64"} \union (plan.netdev \ {"user"}) :
                 command_exists(h, p)
           /\ ends_with(plan.virtiofsd, UsrLibVirtiofsd) =>
                 /\ command_exists(h, "unshare")
                 /\ h.subids = {"subuid", "subgid"}
           /\ h.kvm = "usable" /\ h.vsock = "usable"
<1> DEFINE plan == build_launch_plan(h, c)
           virtiofsd == resolve_virtiofsd(h)
<1>1. /\ Artifacts(c["--runtime-dir"]) \subseteq h.files
      /\ command_exists(h, "qemu-system-x86_64")
      /\ virtiofsd # None
      /\ requires_unshare(virtiofsd) =>
           command_exists(h, "unshare") /\ h.subids = {"subuid", "subgid"}
      /\ c["--network"] = "passt" => command_exists(h, "passt")
      /\ h.kvm = "usable" /\ h.vsock = "usable"
  BY PreflightIs
<1>2. /\ plan.kernel = Artifacts(c["--runtime-dir"])
      /\ plan.virtiofsd = or_else(virtiofsd, Some(<<"virtiofsd">>))[1]
      /\ plan.netdev = {c["--network"]} \ {"off"}
  BY DEF build_launch_plan
<1>3. PICK f \in h.files : virtiofsd = Some(f)  BY <1>1, VirtiofsdIsFile, Zenon
<1> HIDE DEF plan, virtiofsd
<1>4. plan.virtiofsd = f
  <2>1. Some(f)[1] = f  BY DEF Some
  <2> QED  BY <1>1, <1>2, <1>3, <2>1, Zenon DEF or_else
<1>5. ends_with(f, UsrLibVirtiofsd) => requires_unshare(virtiofsd)
  <2>1. Some(f)[1] = f  BY DEF Some
  <2> QED  BY <1>1, <1>3, <2>1, Zenon DEF requires_unshare
<1>6. \A p \in {"qemu-system-x86_64"} \union (plan.netdev \ {"user"}) : command_exists(h, p)
  BY <1>1, <1>2 DEF NetworkModes
<1>7. /\ plan.kernel \subseteq h.files
      /\ plan.virtiofsd \in h.files
      /\ ends_with(plan.virtiofsd, UsrLibVirtiofsd) =>
            command_exists(h, "unshare") /\ h.subids = {"subuid", "subgid"}
  BY <1>1, <1>2, <1>4, <1>5, Zenon
<1> QED  BY <1>1, <1>6, <1>7, Zenon DEF plan

\* What is booted stays equipped: the host is not touched any more.
LEMMA NextEquipped == RunInv /\ [Next]_vars => LaunchedIsEquipped'
<1> SUFFICES ASSUME RunInv, [Next]_vars PROVE LaunchedIsEquipped'
    OBVIOUS
<1>same. ASSUME vm' \in {vm, <<>>}, host' = host PROVE LaunchedIsEquipped'
  BY <1>same DEF RunInv, LaunchedIsEquipped
<1>none. ASSUME vm' = <<>> PROVE LaunchedIsEquipped'
  BY <1>none DEF LaunchedIsEquipped
<1>checked. ASSUME pc \in {"daemon", "direct"}
            PROVE  /\ host.path \in Seq(Seq(STRING)) /\ config["--network"] \in NetworkModes
                   /\ evaluate_launch(host, config["--runtime-dir"], config["--network"]) = {}
  BY <1>checked DEF RunInv, InputOK, Searchable, ConfigOK, NetInv, NetworkOK
<1> USE DEF Exit, Goto, inputs
<1>1. CASE Parse  BY <1>1, <1>none DEF Parse, RunInv, ConfigOK
<1>2. CASE ReadDefaults  BY <1>2, <1>same DEF ReadDefaults
<1>3. CASE Bootstrap  BY <1>3, <1>none DEF Bootstrap, RunInv, ConfigOK
<1>4. CASE Prepare  BY <1>4, <1>same DEF Prepare
<1>5. CASE PreparationFails  BY <1>5, <1>same DEF PreparationFails
<1>6. CASE Probe  BY <1>6, <1>same DEF Probe
<1>7. CASE RunDoctor  BY <1>7, <1>same DEF RunDoctor
<1>8. CASE DaemonVm
  <2>1. ASSUME NEW e, vm' = <<[by |-> "pool", plan |-> PoolPlan(e)]>>
        PROVE  LaunchedIsEquipped'
    <3>1. vm'[1].by = "pool" /\ vm'[1].plan.kernel = Artifacts(config["--runtime-dir"])
      BY <2>1, PoolPlanIs
    <3>2. /\ Artifacts(config["--runtime-dir"]) \subseteq host.files
          /\ host.kvm = "usable" /\ host.vsock = "usable"
      BY <1>8, <1>checked, PreflightIs DEF DaemonVm
    <3> QED  BY <1>8, <3>1, <3>2 DEF DaemonVm, LaunchedIsEquipped
  <2>2. CASE vm' = <<[by |-> "warm", plan |-> WarmPlan]>>  BY <2>2 DEF LaunchedIsEquipped
  <2> QED  BY <1>8, <2>1, <2>2, Zenon DEF DaemonVm
<1>9. CASE DaemonFails  BY <1>9, <1>same DEF DaemonFails
<1>10. CASE DirectVm
  <2>1. vm'[1].plan = build_launch_plan(host, config) /\ host' = host
    BY <1>10 DEF DirectVm
  <2> QED
    BY <1>10, <1>checked, <2>1, PlanIsEquipped, Zenon DEF DirectVm, LaunchedIsEquipped
<1>11. CASE DirectFails  BY <1>11, <1>same DEF DirectFails
<1>12. CASE QemuExits  BY <1>12, <1>same DEF QemuExits
<1>13. CASE SendCommand  BY <1>13, <1>same DEF SendCommand
<1>14. CASE CommandEnds  BY <1>14, <1>same DEF CommandEnds
<1>15. CASE SessionFails  BY <1>15, <1>same DEF SessionFails
<1>16. CASE Stop  BY <1>16, <1>same DEF Stop
<1>17. CASE Status  BY <1>17, <1>same DEF Status
<1>18. CASE Done \/ UNCHANGED vars  BY <1>18, <1>same DEF Done, vars
<1> QED  BY <1>1, <1>2, <1>3, <1>4, <1>5, <1>6, <1>7, <1>8, <1>9,
            <1>10, <1>11, <1>12, <1>13, <1>14, <1>15, <1>16, <1>17, <1>18, Zenon DEF Next

\* The invariant holds throughout.
LEMMA SpecRunInv == Spec => []RunInv
<1>1. Init => RunInv
  <2>1. Init => NetInv  BY InitIInv DEF Init, NetInv, NetworkOK, ExplicitNetworkKept
  <2> QED  BY <2>1 DEF Init, RunInv, InputOK, ConfigOK, MessageOK, LaunchedIsEquipped
<1>2. RunInv /\ [Next]_vars => RunInv'
  BY NextNetInv, NextInputOK, NextConfigOK, NextMessageOK, NextEquipped DEF RunInv
<1> QED  BY <1>1, <1>2, PTL DEF Spec

\* Whatever the host looks like, a VM that fend boots itself finds its kernel, its
\* virtiofsd and the programs it runs: what the preflight looks at is what the
\* plan uses.  A VM the daemon boots finds its kernel and the devices.
THEOREM LaunchEquipped == Spec => []LaunchedIsEquipped
<1>1. RunInv => LaunchedIsEquipped  BY DEF RunInv
<1> QED  BY <1>1, SpecRunInv, PTL

\* For every command line: the guest is sent the words from where the command
\* starts to the end as they were typed, but for a first word that a runtime
\* replaces.
THEOREM LaunchVerbatim == Spec => []CommandIsVerbatim
<1>1. ASSUME RunInv, NEW i \in DOMAIN sent, cmd.kind = "run"
      PROVE  \E k \in DOMAIN Arguments(argv) :
               /\ Starts(Arguments(argv), k)
               /\ sent[i].command =
                    (IF Arguments(argv)[k] \in DOMAIN Rewrites
                     THEN Rewrites[Arguments(argv)[k]] ELSE <<Arguments(argv)[k]>>)
                    \o SubSeq(Arguments(argv), k + 1, Len(Arguments(argv)))
  <2>1. sent = <<Message>> /\ prepared = PreparedIs
    <3>1. sent # <<>>  OBVIOUS
    <3> QED  BY <1>1, <3>1 DEF RunInv, MessageOK
  <2>2. sent[i].command = prepared.command
    <3>1. Message.command = prepared.command  BY <1>1 DEF Message
    <3>2. i = 1  BY <2>1
    <3> QED  BY <2>1, <3>1, <3>2
  <2>3. argv \in Seq(STRING) /\ cmd = parse_args(argv)
    <3>1. pc # "parse"  BY <1>1, <2>1 DEF RunInv, NetInv, IInv, SentOK
    <3> QED  BY <1>1, <3>1, LaunchAssumption DEF RunInv, InputOK
  <2> DEFINE words == Arguments(argv)
             command == cmd.parsed.command
  <2>4. /\ words \in Seq(STRING)
        /\ \E k \in 1..Len(words) : Starts(words, k) /\ command = SubSeq(words, k, Len(words))
    BY <1>1, <2>3, CommandParsed
  <2> HIDE DEF words, command
  <2>5. PICK k \in 1..Len(words) : Starts(words, k) /\ command = SubSeq(words, k, Len(words))
    BY <2>4
  <2> DEFINE others == SubSeq(words, k + 1, Len(words))
  <2>6. Head(command) = words[k] /\ Tail(command) = others /\ command = <<words[k]>> \o others
    BY <2>4, <2>5, RestOfWords
  <2>7. prepared.command = IF Head(command) \in DOMAIN Rewrites
                           THEN Rewrites[Head(command)] \o Tail(command) ELSE command
    BY <2>1 DEF PreparedIs, command
  <2> HIDE DEF others
  <2>8. prepared.command = (IF words[k] \in DOMAIN Rewrites
                            THEN Rewrites[words[k]] ELSE <<words[k]>>) \o others
    BY <2>6, <2>7, Zenon
  <2>9. k \in DOMAIN words  BY <2>4
  <2> QED  BY <2>2, <2>5, <2>8, <2>9, Zenon DEF words, others
<1>2. RunInv => CommandIsVerbatim
  BY <1>1, Zenon DEF CommandIsVerbatim, Starts, Before
<1> QED  BY <1>2, SpecRunInv, PTL

\* A pair that is followed by at most one of another key is the last of its key.
LEMMA LastPair ==
    ASSUME NEW P, NEW pairs \in Seq(P), NEW n \in 1..Len(pairs), NEW key, NEW value,
           pairs[n][1] = key, pairs[n][2] = value,
           \A j \in 1..Len(pairs) : j > n => pairs[j][1] # key
    PROVE  key \in DOMAIN EnvMap(pairs) /\ EnvMap(pairs)[key] = value
<1> DEFINE Is(i) == /\ pairs[i][1] = key
                    /\ \A j \in DOMAIN pairs : pairs[j][1] = key => j <= i
           last == CHOOSE i \in DOMAIN pairs : Is(i)
<1>1. DOMAIN pairs = 1..Len(pairs) /\ Len(pairs) \in Nat  OBVIOUS
<1>2. Is(n)  BY <1>1
<1>3. \A i \in DOMAIN pairs : Is(i) => i = n  BY <1>1
<1>4. last = n
  <2> HIDE DEF Is
  <2> QED  BY <1>1, <1>2, <1>3
<1>5. key \in {pairs[i][1] : i \in DOMAIN pairs}  BY <1>1
<1>6. key \in DOMAIN EnvMap(pairs) /\ EnvMap(pairs)[key] = pairs[last][2]
  BY <1>5, Zenon DEF EnvMap
<1> HIDE DEF last
<1> QED  BY <1>4, <1>6

\* The policy is the last word on the network mode.
LEMMA PolicyIsLast ==
    ASSUME NEW env \in Seq(STRING \X STRING),
           NEW tool \in {<<>>, <<<<"FEND_TOOL_PATH_PREPEND", "runtime">>>>}
    PROVE  LET m == EnvMap((env \o <<<<"FEND_NETWORK_MODE", "off">>>>) \o tool)
           IN "FEND_NETWORK_MODE" \in DOMAIN m /\ m["FEND_NETWORK_MODE"] = "off"
<1> DEFINE off == <<"FEND_NETWORK_MODE", "off">>
           path == <<"FEND_TOOL_PATH_PREPEND", "runtime">>
           P == (STRING \X STRING) \union {off, path}
           n == Len(env) + 1
           pairs == (env \o <<off>>) \o tool
<1>1. off[1] = "FEND_NETWORK_MODE" /\ off[2] = "off" /\ path[1] = "FEND_TOOL_PATH_PREPEND"
  OBVIOUS
<1>2. off \in P /\ path \in P /\ env \in Seq(P)
  <2>1. STRING \X STRING \subseteq P  OBVIOUS
  <2> HIDE DEF P
  <2> QED
    <3>1. env \in Seq(P)  BY <2>1
    <3>2. off \in P /\ path \in P  BY DEF P
    <3> QED  BY <3>1, <3>2
<1>3. tool = <<>> \/ tool = <<path>>  OBVIOUS
<1> HIDE DEF P, off, path
<1> DEFINE front == env \o <<off>>
<1>4. /\ front \in Seq(P) /\ Len(front) = n /\ n \in Nat /\ n > 0 /\ front[n] = off
  BY <1>2
<1> HIDE DEF front, n
<1>5. /\ front \o tool \in Seq(P) /\ Len(front \o tool) \in {n, n + 1}
      /\ (front \o tool)[n] = off
      /\ Len(front \o tool) = n + 1 => (front \o tool)[n + 1] = path
  <2>1. CASE tool = <<>>  BY <1>4, <2>1
  <2>2. CASE tool = <<path>>  BY <1>2, <1>4, <2>2
  <2> QED  BY <1>3, <2>1, <2>2, Zenon
<1>6. pairs = front \o tool  BY DEF front
<1> HIDE DEF pairs
<1>7. \A j \in 1..Len(pairs) : j > n => pairs[j][1] # "FEND_NETWORK_MODE"
  <2>1. ASSUME NEW j \in 1..Len(pairs), j > n PROVE pairs[j][1] # "FEND_NETWORK_MODE"
    <3>1. j = n + 1 /\ Len(pairs) = n + 1  BY <1>4, <1>5, <1>6, <2>1
    <3>2. pairs[j] = path  BY <1>5, <1>6, <3>1
    <3> QED  BY <1>1, <3>2
  <2> QED  BY <2>1
<1>8. pairs \in Seq(P) /\ n \in 1..Len(pairs) /\ pairs[n][1] = "FEND_NETWORK_MODE"
      /\ pairs[n][2] = "off"
  <2>1. pairs \in Seq(P) /\ n \in 1..Len(pairs)  BY <1>4, <1>5, <1>6
  <2>2. pairs[n] = off  BY <1>5, <1>6, Zenon
  <2> QED  BY <1>1, <2>1, <2>2
<1>9. /\ "FEND_NETWORK_MODE" \in DOMAIN EnvMap(pairs)
      /\ EnvMap(pairs)["FEND_NETWORK_MODE"] = "off"
  BY <1>7, <1>8, LastPair
<1> QED  BY <1>9 DEF pairs, off

\* --network off reaches the guest with every command line, whatever --env sets
\* and whichever runtime adds to the environment.
THEOREM LaunchPolicy == Spec => []PolicyReachesGuest
<1>1. ASSUME RunInv, NEW i \in DOMAIN sent, cmd.kind = "run",
             Options_["--network"] = Some("off")
      PROVE  /\ "FEND_NETWORK_MODE" \in DOMAIN sent[i].env
             /\ sent[i].env["FEND_NETWORK_MODE"] = "off"
  <2>1. sent = <<Message>> /\ prepared = PreparedIs
    <3>1. sent # <<>>  OBVIOUS
    <3> QED  BY <1>1, <3>1 DEF RunInv, MessageOK
  <2>2. sent[i].env = EnvMap(PolicyPairs(cmd.parsed) \o prepared.env)
    <3>1. Message.env = EnvMap(PolicyPairs(cmd.parsed) \o prepared.env)  BY <1>1 DEF Message
    <3>2. i = 1  BY <2>1
    <3> QED  BY <2>1, <3>1, <3>2
  <2>3. argv \in Seq(STRING) /\ cmd = parse_args(argv)
    <3>1. pc # "parse"  BY <1>1, <2>1 DEF RunInv, NetInv, IInv, SentOK
    <3> QED  BY <1>1, <3>1, LaunchAssumption DEF RunInv, InputOK
  <2>4. cmd.parsed.env \in Seq(STRING \X STRING)
    <3>1. cmd.parsed \in ParsedSet  BY <1>1, <2>3, CommandParsed
    <3> QED  BY <3>1, Zenon DEF ParsedSet
  <2>5. prepared.env \in {<<>>, <<<<"FEND_TOOL_PATH_PREPEND", "runtime">>>>}
    BY <2>1 DEF PreparedIs
  <2>6. PolicyPairs(cmd.parsed) = cmd.parsed.env \o <<<<"FEND_NETWORK_MODE", "off">>>>
    BY <1>1 DEF PolicyPairs, Options_
  <2> DEFINE e == prepared.env
  <2> HIDE DEF e
  <2>7. LET m == EnvMap((cmd.parsed.env \o <<<<"FEND_NETWORK_MODE", "off">>>>) \o e)
        IN "FEND_NETWORK_MODE" \in DOMAIN m /\ m["FEND_NETWORK_MODE"] = "off"
    BY <2>4, <2>5, PolicyIsLast, Zenon DEF e
  <2> QED  BY <2>2, <2>6, <2>7, Zenon DEF e
<1>2. RunInv => PolicyReachesGuest  BY <1>1 DEF PolicyReachesGuest
<1> QED  BY <1>2, SpecRunInv, PTL

=============================================================================
