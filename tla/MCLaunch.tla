----------------------------- MODULE MCLaunch -------------------------------
(***************************************************************************)
(* Command lines of up to two options, good and bad, for every subcommand  *)
(* and for none, with and without a command that has options of its own.   *)
(***************************************************************************)
EXTENDS Launch, TLC

MCDashed == {"-h", "--help", "-V", "--", "-1", "-x", "--bogus", "--all",
             "--rebuild-rootfs"} \union Options \union {"--env"}

MCNumber == ("-1" :> -1) @@ ("0" :> 0) @@ ("2" :> 2) @@ ("3" :> 3)
            @@ ("42" :> 42) @@ ("100" :> 100) @@ ("2048" :> 2048)
            @@ ("10000" :> 10000) @@ ("59999" :> 59999) @@ ("65536" :> 65536)

MCEnvItem == ("FEND_NETWORK_MODE=on" :> <<"FEND_NETWORK_MODE", "on">>)
             @@ ("FEND_TOOL_PATH_PREPEND=x" :> <<"FEND_TOOL_PATH_PREPEND", "x">>)

\* Pieces of command lines.  Some leave an option without its value, so that
\* it takes the next word.
Pieces ==
    {<<>>, <<"--cpus", "0">>, <<"--cpus", "65536">>, <<"--cid", "2">>,
     <<"--cid", "3">>, <<"--network", "off">>, <<"--network", "passt">>,
     <<"--vm-network", "passt">>, <<"--vm-network", "off">>,
     <<"--runtime-dir", "/r">>, <<"--run-dir", "/d">>,
     <<"--env", "FEND_NETWORK_MODE=on">>, <<"--env", "npm">>,
     <<"--epoch", "-1">>, <<"--guest-workspace", "">>, <<"--timeout", "-1">>,
     <<"--cwd">>, <<"--help">>, <<"--bogus">>, <<"/w">>}

Flagged == {<<"--all">>, <<"--rebuild-rootfs">>,
            <<"--env", "FEND_TOOL_PATH_PREPEND=x">>}

Tails == {<<>>, <<"git", "--cpus", "0", "--">>, <<"npm", "--network", "off">>,
          <<"--", "-x">>}

Words == {<<s>> : s \in Subcommands} \union {<<>>, <<"help">>, <<"-V">>}

MCArgvs ==
    {s \o p \o q \o t : s \in Words, p \in Pieces, q \in Pieces, t \in Tails}
    \union {s \o f \o t : s \in Words, f \in Flagged, t \in Tails}

Unset == [o \in EnvOptions |-> None]

MCEnvirons ==
    {[options |-> Unset, no_daemon |-> b] : b \in BOOLEAN}
    \union {[options |-> [Unset EXCEPT !["--network"] = Some(w)],
             no_daemon |-> FALSE] : w \in {"passt", "user", "", "bad"}}
    \union {[options |-> [Unset EXCEPT !["--cpus"] = Some("3"),
                                       !["--cid"] = Some("0"),
                                       !["--runtime-dir"] = Some("/e"),
                                       !["--run-dir"] = Some("/f")],
             no_daemon |-> TRUE]}

Bin(program) == <<"usr", "bin", program>>

Programs == {Bin("qemu-system-x86_64"), Bin("virtiofsd"), Bin("passt")}

GoodHost ==
    [os |-> "linux", arch |-> "x86_64", cpu |-> "available",
     files |-> Programs \union Artifacts("~/.fend/runtime"),
     path |-> <<<<"usr", "bin">>, <<"opt">>>>, override |-> <<>>, subids |-> {},
     docker |-> FALSE, kvm |-> "usable", vsock |-> "usable"]

RootlessHost ==
    [GoodHost EXCEPT !.files = (@ \ {Bin("virtiofsd")}) \union
                               {UsrLibVirtiofsd, Bin("unshare")},
                     !.subids = {"subuid", "subgid"}]

MCHosts ==
    {GoodHost, RootlessHost,
     [GoodHost EXCEPT !.files = @ \ {Bin("passt")}],
     [GoodHost EXCEPT !.files = Programs],
     [GoodHost EXCEPT !.files = @ \ {Bin("qemu-system-x86_64")}],
     [GoodHost EXCEPT !.kvm = "denied"],
     [GoodHost EXCEPT !.override = <<"vfsd">>],
     [GoodHost EXCEPT !.files = @ \union {<<"opt", "usr", "lib", "virtiofsd">>},
                      !.override = <<"opt", "usr", "lib", "virtiofsd">>],
     [RootlessHost EXCEPT !.subids = {"subuid"}],
     [RootlessHost EXCEPT !.files = @ \ {Bin("unshare"), Bin("passt")}]}

\* A daemon started from the same shell, and one from another shell.
MCDaemonEnvs ==
    {[path |-> GoodHost.path, override |-> <<>>],
     [path |-> <<<<"opt">>>>, override |-> <<"vfsd">>]}

MCRewrites == [npm |-> <<"node", "npm-cli.js">>]
MCGuestCodes == {0, 1, -1, 256}

=============================================================================
