-------------------------- MODULE MCLibraryUpdates -------------------------
(***************************************************************************)
(* One extension whose lists are kept up to date on two distributions, one *)
(* without lists, and, apart from the branch of the updates, one branch of *)
(* Renovate.                                                               *)
(***************************************************************************)
EXTENDS LibraryUpdates, TLC

CONSTANTS h3, cron, trixie, bookworm, pg18, updates, renovate, s1, s2

SomeTree ==
    [d \in {h3, cron} |->
       [name |-> d, sqlName |-> d, image |-> d, create |-> TRUE, autoUpdate |-> d = h3,
        required |-> <<>>,
        versions |-> [c \in {<<trixie, pg18>>, <<bookworm, pg18>>} |-> <<>>]]]

OneBranch == [e \in {h3} |-> updates]

Interchangeable == Permutations(Slot)
=============================================================================
