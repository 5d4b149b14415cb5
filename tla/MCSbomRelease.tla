--------------------------- MODULE MCSbomRelease ---------------------------
(***************************************************************************)
(* Small instances of SbomRelease for TLC.                                 *)
(***************************************************************************)
EXTENDS SbomRelease

Push(generator) == [event |-> "push", ref |-> "main", generator |-> generator,
                    publish |-> FALSE, publish_latest |-> FALSE]
Dispatch(ref, test, force) ==
    [event |-> "workflow_dispatch", ref |-> ref, generator |-> FALSE,
     publish |-> test, publish_latest |-> force]

(* The events that end in a publication, one for each way to do so. *)
PublishingTriggers == {Push(TRUE), Dispatch("branch", TRUE, TRUE),
                       Dispatch("main", FALSE, TRUE)}

(* The same and a push of packaging alone, which takes over the checks of  *)
(* an earlier push.                                                        *)
AllWays == PublishingTriggers \cup {Push(FALSE)}

(* Pushes to main, of generator code and of packaging alone. *)
PushTriggers == {Push(TRUE), Push(FALSE)}

(* A push of generator code, and a test publication from a branch. *)
PushOrTest == {Push(TRUE), Dispatch("branch", TRUE, FALSE)}
=============================================================================
