--------------------------- MODULE PackageVersion ---------------------------
(***************************************************************************)
(* The extension version that is taken out of the version of a Debian      *)
(* package, by two regular expressions: the one of docker-bake.hcl names   *)
(* the tags that a bake pushes, the one of image.go the tags that values   *)
(* and catalogs refer to.  A package version is a sequence of characters.  *)
(***************************************************************************)
EXTENDS Naturals, Sequences

CONSTANTS Digit, \* the decimal digits
          Other  \* the characters that are neither digits nor separators

Separator == {".", ":"}
VersionChar == Digit \cup Separator
Char == VersionChar \cup Other

ASSUME CharAssumption == /\ Digit \cap Separator = {}
                         /\ Other \cap VersionChar = {}

(* The first n characters of p are numbers with a separator between any    *)
(* two; only the first number may be an epoch, which a colon ends.         *)
IsVersion(p, n) ==
    /\ n \in 1..Len(p)
    /\ \A i \in 1..n : p[i] \in VersionChar
    /\ p[1] \in Digit /\ p[n] \in Digit
    /\ \A i \in 1..(n - 1) : p[i] \in Digit \/ p[i + 1] \in Digit
    /\ \A i, j \in 1..n : i < j /\ p[j] = ":" => p[i] \in Digit

(* The colon of an epoch cannot be part of a tag. *)
Dashed(w) == [i \in DOMAIN w |-> IF w[i] = ":" THEN "-" ELSE w[i]]

(* A fault: an expression that knows no epochs takes the epoch for the     *)
(* version.                                                                *)
ExtractNumbers(p) ==
    {SubSeq(p, 1, n) :
       n \in {m \in 1..Len(p) : /\ IsVersion(p, m)
                                /\ \A i \in 1..m : p[i] # ":"
                                /\ m = Len(p) \/ p[m + 1] \notin Digit \cup {"."}}}

(* image.go: a version that something else than its characters, or the     *)
(* end, follows.  No version at all is an error.                           *)
ExtractGo(p) ==
    {Dashed(SubSeq(p, 1, n)) :
       n \in {m \in 1..Len(p) : /\ IsVersion(p, m)
                                /\ m = Len(p) \/ p[m + 1] \notin VersionChar}}

(* docker-bake.hcl: the longest version at the start. *)
ExtractBake(p) ==
    {Dashed(SubSeq(p, 1, n)) :
       n \in {m \in 1..Len(p) : /\ IsVersion(p, m)
                                /\ \A k \in 1..Len(p) : IsVersion(p, k) => k <= m}}
=============================================================================
