---------------------------- MODULE MCBootstrap -----------------------------
(***************************************************************************)
(* The bootstraps of `fend run`, of `fend setup`, of its --rebuild-rootfs  *)
(* and --force-downloads, with and without claude.                         *)
(***************************************************************************)
EXTENDS Bootstrap

MCOptions ==
    {o \in [rebuild : BOOLEAN, force : BOOLEAN, skip : BOOLEAN] :
        ~(o.rebuild /\ o.force)}

=============================================================================
