------------------------ MODULE MCCatalogPublication ------------------------
(***************************************************************************)
(* Small instances of CatalogPublication for TLC.                          *)
(***************************************************************************)
EXTENDS CatalogPublication, TLC

CONSTANTS bookworm, trixie, cron, tap, v1, v2, s1, s2

(* Main maintains tap for trixie, and cron for bookworm, which it bumps; a  *)
(* branch removes cron.                                                    *)
Entries(c, e) ==
    CASE e = cron /\ c = bookworm -> <<v1, v2, NoVersion>>
      [] e = tap /\ c = trixie -> <<v1, v1, v1>>
      [] OTHER -> <<NoVersion, NoVersion, NoVersion>>
TwoExtensions ==
    [k \in 0..2 |-> [c \in Catalog |-> [e \in Ext |-> Entries(c, e)[k + 1]]]]

(* Main bumps the one extension there is; a branch does not have it. *)
OneExtension ==
    [k \in 0..2 |-> [c \in Catalog |-> [e \in Ext |-> <<v1, v2, NoVersion>>[k + 1]]]]

(* Upstream has both distributions, then drops the older one. *)
DropsBookworm == [u \in 0..1 |-> IF u = 0 THEN Catalog ELSE {trixie}]

Interchangeable == Permutations(Slot)
=============================================================================
