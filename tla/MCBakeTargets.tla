--------------------------- MODULE MCBakeTargets ---------------------------
(***************************************************************************)
(* Small instances of BakeTargets for TLC.                                 *)
(***************************************************************************)
EXTENDS BakeTargets

CONSTANTS trixie, bookworm, cnpg_main, cnpg_latest

OneImage == {trixie}
TwoImages == {trixie, bookworm}
OneRelease == {cnpg_main}
NoRelease == {}
=============================================================================
