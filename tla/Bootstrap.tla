----------------------------- MODULE Bootstrap ------------------------------
(***************************************************************************)
(* ensure_linux_runtime (linux/src/bootstrap.rs): kernel and initrd are    *)
(* downloaded and compared with Ubuntu's SHA256SUMS, and a root file       *)
(* system with the modules of that kernel is built.  Bootstraps run one    *)
(* after the other in the same directories; any of their steps may fail,   *)
(* the process may die anywhere, and Ubuntu may publish another release    *)
(* under the same URLs.                                                    *)
(*                                                                         *)
(* A file is known by the release it is from and by whether it is whole    *)
(* (complete and undamaged).  For rootfs the release is that of the kernel *)
(* it has the modules of, or NoModules.                                    *)
(***************************************************************************)
EXTENDS Integers

CONSTANTS
    Options,      \* what bootstraps are asked for: [rebuild, force, skip]
    MaxRelease,   \* releases Ubuntu publishes
    MaxFaults     \* failures, damaged downloads and deaths

ASSUME BootstrapAssumption ==
    /\ Options \subseteq [rebuild : BOOLEAN, force : BOOLEAN, skip : BOOLEAN]
    /\ MaxRelease \in Nat \ {0} /\ MaxFaults \in Nat

VARIABLES
    files,     \* SHA256SUMS, kernel, initrd, rootfs, claude
    tmp,       \* the .tmp files of downloads
    boot_pc,   \* where the bootstrap is
    at,        \* the file it is downloading
    opt,       \* its options
    release,   \* the release that can be downloaded
    faults,    \* faults so far
    left       \* what bootstraps that failed or died have left that later ones
               \* cannot tell from finished work

boot_vars == <<files, tmp, boot_pc, at, opt, release, faults, left>>

Artifacts == {"kernel", "initrd"}
Downloads == Artifacts \union {"sums"}
Files == Downloads \union {"rootfs", "claude"}

NoFile == [rel |-> 0, whole |-> FALSE]
Whole(r) == [rel |-> r, whole |-> TRUE]
Broken(r) == [rel |-> r, whole |-> FALSE]
NoModules == -1

is_file(f) == files[f] # NoFile

\* runtime_missing
runtime_missing == \E f \in Artifacts \union {"rootfs"} : ~is_file(f)

BootInit ==
    /\ files = [f \in Files |-> NoFile]
    /\ tmp = [f \in Downloads |-> NoFile]
    /\ boot_pc = "idle" /\ at = "sums"
    /\ opt = [rebuild |-> FALSE, force |-> FALSE, skip |-> FALSE]
    /\ release = 1
    /\ faults = 0
    /\ left = {}

Proceed(label) == boot_pc' = label /\ UNCHANGED <<opt, release>>

Fault == faults < MaxFaults /\ faults' = faults + 1
NoFault == UNCHANGED <<faults, left>>

-----------------------------------------------------------------------------

\* ensure_linux_runtime: nothing to do when all three files are there.
Begin ==
    /\ boot_pc \in {"idle", "ok", "err"}
    /\ opt' \in Options
    /\ boot_pc' = IF runtime_missing \/ opt'.rebuild \/ opt'.force
                  THEN "tools" ELSE "ok"
    /\ UNCHANGED <<files, tmp, at, release>> /\ NoFault

\* What a bootstrap that ends in step label leaves: a forced one has replaced
\* some files and not others.
Leaves(label) ==
    (IF opt.force /\ label # "tools" THEN {"force"} ELSE {})
    \union (CASE label = "verify" /\ at # "sums" -> {"unchecked"}
              [] label = "mkfs" -> {"rootfs"}
              [] label = "claude_curl" -> {"claude"}
              [] OTHER -> {})

\* The steps at which an error is returned: a missing host tool, a failed
\* command or file operation, no entry in SHA256SUMS or no way to compute a
\* checksum.  (A failed download of claude is ignored.)
MayFail == {"tools", "is_file", "curl", "rename", "verify", "fendd", "claude",
            "build_rootfs", "docker", "mkfs", "write_metadata"}

StepFails ==
    /\ boot_pc \in MayFail
    /\ boot_pc = "verify" => at # "sums"
    /\ Fault
    /\ left' = left \union Leaves(boot_pc)
    /\ Proceed("err")
    /\ UNCHANGED <<files, tmp, at>>

\* The process dies; the next command finds what is there.
BootstrapDies ==
    /\ boot_pc \notin {"idle", "ok", "err"}
    /\ Fault
    /\ left' = left \union Leaves(boot_pc)
    /\ Proceed("idle")
    /\ UNCHANGED <<files, tmp, at>>

\* ensure_host_command for curl, docker and strings, ensure_docker_daemon.
CheckTools ==
    /\ boot_pc = "tools"
    /\ at' = "sums"
    /\ Proceed("is_file")
    /\ UNCHANGED <<files, tmp>> /\ NoFault

\* The next file, or resolve_fendd_binary after the last one.
Advance ==
    /\ at' = IF at = "sums" THEN "kernel" ELSE "initrd"
    /\ Proceed(IF at = "initrd" THEN "fendd" ELSE "is_file")

\* ensure_ubuntu_sums and download_ubuntu_artifact: a file that is there is not
\* downloaded again, unless by force.
SkipDownload ==
    /\ boot_pc = "is_file"
    /\ is_file(at) /\ ~opt.force
    /\ Advance
    /\ UNCHANGED <<files, tmp>> /\ NoFault

\* Mutant of BeginDownload: a .tmp file is taken for a download in progress.
BeginDownloadOnce ==
    /\ boot_pc = "is_file"
    /\ ~is_file(at) \/ opt.force
    /\ IF tmp[at] = NoFile
       THEN Proceed("curl") /\ tmp' = [tmp EXCEPT ![at] = Broken(release)]
       ELSE Proceed("err") /\ UNCHANGED tmp
    /\ UNCHANGED <<files, at>> /\ NoFault

\* download_to_path: curl writes to the .tmp file, ...
BeginDownload ==
    /\ boot_pc = "is_file"
    /\ ~is_file(at) \/ opt.force
    /\ tmp' = [tmp EXCEPT ![at] = Broken(release)]
    /\ Proceed("curl")
    /\ UNCHANGED <<files, at>> /\ NoFault

\* ... what it got may be damaged, ...
Curl ==
    /\ boot_pc = "curl"
    /\ \/ /\ tmp' = [tmp EXCEPT ![at] = Whole(tmp[at].rel)]
          /\ NoFault
       \/ /\ Fault
          /\ UNCHANGED <<tmp, left>>
    /\ Proceed("rename")
    /\ UNCHANGED <<files, at>>

\* ... and it is renamed.
Rename ==
    /\ boot_pc = "rename"
    /\ files' = [files EXCEPT ![at] = tmp[at]]
    /\ tmp' = [tmp EXCEPT ![at] = NoFile]
    /\ IF at = "sums" THEN Advance ELSE Proceed("verify") /\ UNCHANGED at
    /\ NoFault

\* The file is the one SHA256SUMS speaks of.
Matches(f) == files[f].whole /\ files[f].rel = files["sums"].rel

\* Mutant of verify_ubuntu_checksum: a file that does not match is kept.
verify_keeps_mismatch ==
    /\ boot_pc = "verify" /\ files["sums"].whole
    /\ IF Matches(at) THEN Advance ELSE Proceed("err") /\ UNCHANGED at
    /\ UNCHANGED <<files, tmp>> /\ NoFault

\* Mutant of verify_ubuntu_checksum: only damage is noticed.
verify_any_release ==
    /\ boot_pc = "verify" /\ files["sums"].whole
    /\ IF files[at].whole
       THEN Advance /\ UNCHANGED <<files, left>>
       ELSE /\ files' = [files EXCEPT ![at] = NoFile]
            /\ left' = left \union Leaves("is_file")
            /\ Proceed("err") /\ UNCHANGED at
    /\ UNCHANGED <<tmp, faults>>

\* verify_ubuntu_checksum, after the rename: a file that does not match is
\* removed.
verify_ubuntu_checksum ==
    /\ boot_pc = "verify" /\ files["sums"].whole
    /\ IF Matches(at)
       THEN Advance /\ UNCHANGED <<files, left>>
       ELSE /\ files' = [files EXCEPT ![at] = NoFile]
            /\ left' = left \union Leaves("is_file")
            /\ Proceed("err") /\ UNCHANGED at
    /\ UNCHANGED <<tmp, faults>>

\* verify_ubuntu_checksum: a damaged SHA256SUMS has no entry for the file, which
\* is an error but does not remove the file.
NoEntry ==
    /\ boot_pc = "verify" /\ ~files["sums"].whole
    /\ left' = left \union Leaves("verify")
    /\ Proceed("err")
    /\ UNCHANGED <<files, tmp, at, faults>>

\* resolve_fendd_binary
resolve_fendd_binary ==
    /\ boot_pc = "fendd"
    /\ Proceed("claude")
    /\ UNCHANGED <<files, tmp, at>> /\ NoFault

\* maybe_download_claude: the version is looked up; there may be none.
maybe_download_claude ==
    /\ boot_pc = "claude"
    /\ \/ /\ Proceed("build_rootfs")
          /\ UNCHANGED files
       \/ /\ ~opt.skip /\ ~is_file("claude")
          /\ files' = [files EXCEPT !["claude"] = Broken(release)]
          /\ Proceed("claude_curl")
    /\ UNCHANGED <<tmp, at>> /\ NoFault

\* curl writes to the file itself; when it fails the file is removed.  (That
\* make_executable fails for it is left out.)
DownloadClaude ==
    /\ boot_pc = "claude_curl"
    /\ files' = [files EXCEPT !["claude"] = Whole(files["claude"].rel)]
    /\ Proceed("build_rootfs")
    /\ UNCHANGED <<tmp, at>> /\ NoFault

DownloadClaudeFails ==
    /\ boot_pc = "claude_curl"
    /\ Fault
    /\ files' = [files EXCEPT !["claude"] = NoFile]
    /\ Proceed("build_rootfs")
    /\ UNCHANGED <<tmp, at, left>>

\* build_rootfs: a root file system that is there is kept, unless by request;
\* otherwise it is removed first.
build_rootfs ==
    /\ boot_pc = "build_rootfs"
    /\ IF is_file("rootfs") /\ ~opt.rebuild /\ ~opt.force
       THEN Proceed("write_metadata") /\ UNCHANGED files
       ELSE /\ files' = [files EXCEPT !["rootfs"] = NoFile]
            /\ Proceed("docker")
    /\ UNCHANGED <<tmp, at>> /\ NoFault

\* detect_kernel_version finds the version in the kernel, or none; when it has
\* one, rootfs_dockerfile installs the modules of that version, and goes on with
\* a warning when there is no such package.
detect_kernel_version == {files["kernel"].rel, NoModules}

\* docker build, create, export, rm and build again; then mke2fs starts writing
\* to rootfs.img itself.
Docker ==
    /\ boot_pc = "docker"
    /\ \E modules \in detect_kernel_version :
           files' = [files EXCEPT !["rootfs"] = Broken(modules)]
    /\ Proceed("mkfs")
    /\ UNCHANGED <<tmp, at>> /\ NoFault

Mkfs ==
    /\ boot_pc = "mkfs"
    /\ files' = [files EXCEPT !["rootfs"] = Whole(files["rootfs"].rel)]
    /\ left' = left \ {"rootfs"}
    /\ Proceed("write_metadata")
    /\ UNCHANGED <<tmp, at, faults>>

\* write_metadata ends it; a forced bootstrap has replaced everything but
\* claude.
write_metadata ==
    /\ boot_pc = "write_metadata"
    /\ left' = IF opt.force THEN left \intersect {"claude"} ELSE left
    /\ Proceed("ok")
    /\ UNCHANGED <<files, tmp, at, faults>>

\* Ubuntu publishes another release.
Publish ==
    /\ release < MaxRelease
    /\ release' = release + 1
    /\ UNCHANGED <<files, tmp, boot_pc, at, opt>> /\ NoFault

Step ==
    \/ CheckTools \/ SkipDownload \/ BeginDownload \/ Curl \/ Rename
    \/ verify_ubuntu_checksum \/ NoEntry
    \/ resolve_fendd_binary \/ maybe_download_claude
    \/ DownloadClaude \/ DownloadClaudeFails
    \/ build_rootfs \/ Docker \/ Mkfs \/ write_metadata

BootNext == Begin \/ Step \/ StepFails \/ BootstrapDies \/ Publish

BootSpec == BootInit /\ [][BootNext]_boot_vars

\* A bootstrap goes on, and the user runs another command after it.
BootFairSpec == BootSpec /\ WF_boot_vars(Begin) /\ WF_boot_vars(Step)

-----------------------------------------------------------------------------

\* When ensure_linux_runtime returns Ok, kernel and initrd are whole, whatever
\* was damaged, failed or died before: only one that was never compared, because
\* a bootstrap ended between rename and verify_ubuntu_checksum, may not be.
OkIsVerified ==
    boot_pc = "ok" /\ "unchecked" \notin left =>
        \A f \in Artifacts : files[f].whole

\* Then kernel and initrd are of one release although each of them is only made
\* when it is missing, and the root file system is whole and has the modules of
\* that release or none, never those of another kernel.  That it has none is no
\* error in the code (bootstrap.rs:374-375, 404-430).  Exceptions: as above, a
\* forced bootstrap that did not end, a mke2fs that did not end.
OkIsConsistent ==
    boot_pc = "ok" /\ left \intersect {"unchecked", "force"} = {} =>
        /\ files["kernel"].rel = files["initrd"].rel
        /\ "rootfs" \notin left =>
              /\ files["rootfs"].whole
              /\ files["rootfs"].rel \in {files["kernel"].rel, NoModules}

\* Nothing that failed or died keeps later bootstraps from succeeding once the
\* faults are over, as long as the SHA256SUMS that is kept speaks of the release
\* that can be downloaded (ensure_ubuntu_sums never renews it but by force).
RetrySucceeds ==
    <>[](files["sums"] \in {NoFile, Whole(release)}) => []<>(boot_pc = "ok")

=============================================================================
