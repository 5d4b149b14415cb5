-------------------------- MODULE SpdxComposition --------------------------
(***************************************************************************)
(* compose of sbom-generator/compose.py: the scanner's document describes  *)
(* the build stage, and compose keeps of it what was shipped.  It matches  *)
(* the payload's files to the builder's by content, ranks several matches  *)
(* by their paths, and keeps the packages that own what is matched.        *)
(*                                                                         *)
(* A path is the sequence of its parts.  A relationship is a triple; of    *)
(* the attributes of packages and files only those are kept that decide    *)
(* anything.  The identifier of a payload file is its name and content.    *)
(***************************************************************************)
EXTENDS Integers, FiniteSets, Sequences

CONSTANTS Package,  \* identifiers of packages in scanner documents
          FileId,   \* identifiers of files in scanner documents
          Path,     \* names of files
          Hash,     \* SHA256 checksums
          DocumentId \* the identifier of a document itself

(* What relationships of documents connect here; others are no different.  *)
RelationshipType == {"CONTAINS", "DEPENDENCY_OF", "DESCRIBES"}
PayloadFile == Path \X Hash
Element == Package \cup PayloadFile \cup {DocumentId}

(* What the scanner comes up with: packages, those of them whose files it  *)
(* analysed, files, and relationships between what it lists.               *)
BuilderDocument(b) ==
    /\ b.packages \subseteq Package /\ b.eligible \subseteq b.packages
    /\ \E F \in SUBSET FileId : b.files \in [F -> Path \X Hash]
    /\ b.relationships \subseteq
         LET Listed == b.packages \cup DOMAIN b.files \cup {DocumentId}
         IN  Listed \X RelationshipType \X Listed

ASSUME IdentifierAssumption ==
    /\ Package \cap (FileId \cup PayloadFile \cup {DocumentId}) = {}
    /\ FileId \cap (PayloadFile \cup {DocumentId}) = {}
    /\ DocumentId \notin PayloadFile
ASSUME PathAssumption == \A p \in Path : Len(p) \in Nat

(* A payload gives the names in it their content. *)
Payload(f) == \E N \in SUBSET Path : f \in [N -> Hash]
-----------------------------------------------------------------------------
(* compose(b, f), for a scanner document b and a payload f. *)

(* The packages that own a file; owners_by_source_file. *)
Owners(b, s) == {p \in b.eligible : <<p, "CONTAINS", s>> \in b.relationships}

Name(b, s) == b.files[s][1]

(* by_checksum *)
Candidates(b, h) == {s \in DOMAIN b.files : b.files[s][2] = h}

(* Owned candidates push out the others. *)
Preferred(b, h) ==
    LET owned == {s \in Candidates(b, h) : Owners(b, s) # {}}
    IN  IF owned # {} THEN owned ELSE Candidates(b, h)

(* path_score: the length of the common suffix, then an exact match. *)
SharedSuffix(p, q) ==
    Cardinality({k \in 1..Len(p) :
                   /\ k <= Len(q)
                   /\ \A i \in 0..(k - 1) : p[Len(p) - i] = q[Len(q) - i]})

(* A fault for the checks to find: an exact match counts for nothing. *)
BetterSuffix(n, p, q) == SharedSuffix(p, n) > SharedSuffix(q, n)

(* Path p fits name n better than path q does. *)
Better(n, p, q) == \/ SharedSuffix(p, n) > SharedSuffix(q, n)
                   \/ SharedSuffix(p, n) = SharedSuffix(q, n) /\ p = n /\ q # n

Selected(b, f, n) ==
    LET preferred == Preferred(b, f[n])
    IN  {s \in preferred : \A r \in preferred : ~Better(n, Name(b, r), Name(b, s))}

(* A fault: all files that fit equally well are taken. *)
AllSelected(b, f, n) == Selected(b, f, n)

(* The builder's files a payload file is matched to: none if files of      *)
(* different names fit equally well.                                       *)
Sources(b, f, n) ==
    LET selected == Selected(b, f, n)
    IN  IF \E r, s \in selected : Name(b, r) # Name(b, s) THEN {} ELSE selected

(* The matches of all payload files, m below. *)
Match(b, f) == [n \in DOMAIN f |-> Sources(b, f, n)]
Matched(m) == UNION {m[n] : n \in DOMAIN m}

(* source_to_final: the payload files a builder's file has become. *)
ToFinal(f, m, s) == {<<n, f[n]>> : n \in {k \in DOMAIN f : s \in m[k]}}

(* A fault: all packages that own something are kept. *)
RetainedOwners(b, m) == UNION {Owners(b, s) : s \in DOMAIN b.files}

(* retained_package_ids *)
Retained(b, m) == UNION {Owners(b, s) : s \in Matched(m)}

(* removed_ids *)
Removed(b, m) == (DOMAIN b.files \ Matched(m)) \cup (b.packages \ Retained(b, m))

(* What stands for an element of the scanner's document afterwards. *)
Renamed(f, m, x) == IF x \in Matched(m) THEN ToFinal(f, m, x) ELSE {x}

(* A fault: a relationship is dropped only with both of its ends. *)
CarriedHalf(b, f, m) ==
    LET removed == Removed(b, m)
    IN  UNION {Renamed(f, m, r[1]) \X {r[2]} \X Renamed(f, m, r[3]) :
                 r \in {q \in b.relationships : q[1] \notin removed \/ q[3] \notin removed}}

(* composed_relationships *)
Carried(b, f, m) ==
    LET removed == Removed(b, m)
    IN  UNION {Renamed(f, m, r[1]) \X {r[2]} \X Renamed(f, m, r[3]) :
                 r \in {q \in b.relationships : q[1] \notin removed /\ q[3] \notin removed}}

(* composed_files *)
ComposedFiles(f) == {<<n, f[n]>> : n \in DOMAIN f}

(* A fault: only packages are described. *)
DescribedPackages(b, f, m) == Retained(b, m)

(* described_elements *)
Described(b, f, m) ==
    IF Retained(b, m) # {} THEN Retained(b, m) ELSE ComposedFiles(f)

Composed(b, f) ==
    LET m == Match(b, f)
    IN  [packages |-> Retained(b, m), files |-> ComposedFiles(f),
         relationships |-> Carried(b, f, m) \cup
                           ({DocumentId} \X {"DESCRIBES"} \X Described(b, f, m))]
=============================================================================
