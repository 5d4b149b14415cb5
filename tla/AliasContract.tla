--------------------------- MODULE AliasContract ---------------------------
(***************************************************************************)
(* What the release workflow of the SBOM generator promises to a consumer  *)
(* of its registry repository, whatever happens inside the workflow: the   *)
(* moving tags `latest' and `test' are only ever pointed at an image index *)
(* that was smoke-tested and signed, and `latest' only at one whose source *)
(* is a commit of main (sbom-generator/README.md, "Generator release and   *)
(* test builds").                                                          *)
(***************************************************************************)
CONSTANTS Alias,      \* the moving tags
          Image,      \* the image indexes, by digest
          NoImage,    \* the value of a tag that does not exist
          FromMain(_) \* whether the source of an image is a commit of main

VARIABLES alias,   \* alias[a]: the image that moving tag a points at
          vetted   \* the images that were smoke-tested and signed

vars == <<alias, vetted>>

Init == /\ alias = [a \in Alias |-> NoImage]
        /\ vetted = {}

(* An image becomes fit for promotion; it never loses that. *)
Vet == /\ \E d \in Image : vetted' = vetted \cup {d}
       /\ UNCHANGED alias

(* A vetted image is promoted.  `latest' takes nothing but main's images. *)
Promote == /\ \E a \in Alias, d \in vetted :
                /\ a = "latest" => FromMain(d)
                /\ alias' = [alias EXCEPT ![a] = d]
           /\ UNCHANGED vetted

Next == Vet \/ Promote

Spec == Init /\ [][Next]_vars
=============================================================================
