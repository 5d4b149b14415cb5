------------------------- MODULE ProductionContract -------------------------
(***************************************************************************)
(* What the build pipeline promises to a user of an extension's production *)
(* repository: a tag is only ever given to an image that is fit (built     *)
(* from main, signed, and passed every check), and a tag with a timestamp  *)
(* names one image for ever.  The rolling tag may move.                    *)
(***************************************************************************)
CONSTANTS Image,    \* what is built: an entry of the build matrix
          Tag,      \* the tags an image can have
          Rolling,  \* the one that may move
          Artifact, \* the built images, by digest
          None      \* the value of a tag that does not exist

VARIABLES prodTag,  \* prodTag[i][t]: what tag t of image i names
          fit       \* the artifacts that may be published

vars == <<prodTag, fit>>

Init == /\ prodTag = [i \in Image |-> [t \in Tag |-> None]]
        /\ fit = {}

(* Artifacts become fit and stay so. *)
Approve == /\ \E D \in SUBSET Artifact : fit' = fit \cup D
           /\ UNCHANGED prodTag

(* A fit artifact is given a tag; a timestamped one was free, or its own.  *)
Publish == /\ \E i \in Image, t \in Tag, d \in fit :
                /\ t # Rolling => prodTag[i][t] \in {None, d}
                /\ prodTag' = [prodTag EXCEPT ![i][t] = d]
           /\ UNCHANGED fit

Next == Approve \/ Publish

Spec == Init /\ [][Next]_vars
=============================================================================
