------------------------------- MODULE Doctor -------------------------------
(***************************************************************************)
(* What fend asks of a Linux host: the search for virtiofsd                *)
(* (linux/src/tools.rs), the probe of the host and the issues that         *)
(* fend doctor and the preflight of a launch report (linux/src/doctor.rs), *)
(* and the checks of a launch plan (linux/src/qemu.rs).                    *)
(*                                                                         *)
(* A host is a record of its files (paths are sequences of components),    *)
(* the directories of PATH, FEND_VIRTIOFSD and what else the probe reads.  *)
(* An issue is named for what is missing; the wording, which depends on    *)
(* the distribution and on the error code of a device, is left out.        *)
(***************************************************************************)
EXTENDS Cli, FiniteSetsExt

UsrLibVirtiofsd == <<"usr", "lib", "virtiofsd">>

\* KNOWN_VIRTIOFSD_PATHS, in the order they are tried.
KnownVirtiofsd == <<UsrLibVirtiofsd, <<"usr", "libexec", "virtiofsd">>,
                    <<"usr", "lib", "qemu", "virtiofsd">>>>

\* The first candidate that is a file.
FirstFile(host, candidates) ==
    LET found == {i \in DOMAIN candidates : candidates[i] \in host.files}
    IN IF found = {} THEN None ELSE Some(candidates[Min(found)])

locate_in_path(host, program) ==
    FirstFile(host, [i \in DOMAIN host.path |-> Append(host.path[i], program)])

command_exists(host, program) == locate_in_path(host, program) # None

\* FEND_VIRTIOFSD names a file, or a program of PATH when it is a bare name.
resolve_candidate(host, candidate) ==
    IF Len(candidate) > 1 THEN FirstFile(host, <<candidate>>)
    ELSE or_else(locate_in_path(host, candidate[1]),
                 FirstFile(host, <<candidate>>))

\* An override that leads nowhere is not replaced by another virtiofsd; an
\* empty one (<<>>) does not count.
resolve_virtiofsd(host) ==
    IF host.override # <<>> THEN resolve_candidate(host, host.override)
    ELSE or_else(locate_in_path(host, "virtiofsd"),
                 FirstFile(host, KnownVirtiofsd))

\* Path::ends_with, by components.
ends_with(path, tail) ==
    \E n \in 0..Len(path) : SubSeq(path, n + 1, Len(path)) = tail

\* Mutant of requires_unshare: only the known path itself counts.
requires_unshare_other(virtiofsd) ==
    virtiofsd # None /\ virtiofsd[1] = <<"usr", "libexec", "virtiofsd">>

\* default_virtiofsd_mode: the virtiofsd of /usr/lib runs under unshare.
requires_unshare(virtiofsd) ==
    virtiofsd # None /\ ends_with(virtiofsd[1], UsrLibVirtiofsd)

\* RuntimeArtifacts::from_runtime_dir.
Artifacts(dir) == {<<dir, "vmlinuz">>, <<dir, "initrd">>, <<dir, "rootfs.img">>}

\* current_probe and current_launch_probe: what is not checked counts as
\* present, docker as absent.
probe(host, dir, builder) ==
    LET virtiofsd == resolve_virtiofsd(host)
        rootless == requires_unshare(virtiofsd)
    IN [os |-> host.os, arch |-> host.arch, cpu |-> host.cpu,
        artifacts |-> Artifacts(dir) \subseteq host.files,
        qemu |-> command_exists(host, "qemu-system-x86_64"),
        virtiofsd |-> virtiofsd,
        unshare |-> ~rootless \/ command_exists(host, "unshare"),
        subids |-> IF rootless THEN host.subids ELSE {"subuid", "subgid"},
        passt |-> command_exists(host, "passt"),
        curl |-> ~builder \/ command_exists(host, "curl"),
        strings |-> ~builder \/ command_exists(host, "strings"),
        docker |-> builder /\ host.docker,
        kvm |-> host.kvm, vsock |-> host.vsock]

\* evaluate_with_options: network is the mode of a launch, None for doctor,
\* which also asks for what fend setup needs.
evaluate_with_options(p, network, builder) ==
    LET rootless == requires_unshare(p.virtiofsd)
        unless(holds, issue) == IF holds THEN {} ELSE {issue}
    IN UNION {unless(p.os = "linux", "os"),
              unless(p.arch = "x86_64", "arch"),
              unless(p.cpu # "missing", "cpu"),
              unless(p.qemu, "qemu"),
              unless(p.virtiofsd # None, "virtiofsd"),
              unless(rootless => p.unshare, "unshare"),
              unless(rootless => p.subids = {"subuid", "subgid"}, "subids"),
              unless(network = Some("passt") => p.passt, "passt"),
              unless(p.kvm = "usable", "kvm"),
              unless(p.vsock = "usable", "vsock"),
              unless(p.artifacts, "artifacts"),
              unless(p.artifacts \/ ~builder \/ p.curl, "curl"),
              unless(p.artifacts \/ ~builder \/ p.strings, "strings"),
              unless(p.artifacts \/ ~builder \/ p.docker, "docker")}

evaluate(host, dir) == evaluate_with_options(probe(host, dir, TRUE), None, TRUE)

evaluate_launch(host, dir, network) ==
    evaluate_with_options(probe(host, dir, FALSE), Some(network), FALSE)

\* bootstrap::runtime_missing.
runtime_missing(host, dir) == ~(Artifacts(dir) \subseteq host.files)

\* validate: cids up to 2 are reserved by vsock.
validate(config) ==
    /\ Number[config["--cpus"]] # 0
    /\ Number[config["--memory-mib"]] # 0
    /\ Number[config["--cid"]] > 2
    /\ config["--guest-workspace"] # ""

\* build_launch_plan: what QEMU and the virtiofsd of each share are given.
build_launch_plan(host, config) ==
    [kernel |-> Artifacts(config["--runtime-dir"]),
     shares |-> {<<"workspace", config["--workspace"]>>,
                 <<"cache", config["--cache-dir"]>>,
                 <<"tools", config["--tools-dir"]>>},
     virtiofsd |-> or_else(resolve_virtiofsd(host), Some(<<"virtiofsd">>))[1],
     run_dir |-> config["--run-dir"], cid |-> Number[config["--cid"]],
     cpus |-> Number[config["--cpus"]],
     memory |-> Number[config["--memory-mib"]],
     netdev |-> {config["--network"]} \ {"off"},
     cmdline |-> <<config["--epoch"], config["--guest-workspace"]>>]

=============================================================================
