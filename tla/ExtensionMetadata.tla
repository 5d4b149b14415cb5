------------------------- MODULE ExtensionMetadata -------------------------
(***************************************************************************)
(* What the maintenance module reads from a source tree: the metadata of   *)
(* its extensions (parse.go, updatelibs.go), their build matrix and their  *)
(* versions (image.go).                                                    *)
(*                                                                         *)
(* A tree is a function from directories.  An operator that may fail gives *)
(* the set of its results, which is empty when it fails.                   *)
(***************************************************************************)
EXTENDS PackageVersion

CONSTANTS Distribution, Major,
          DefaultDistribution, DefaultPgMajor,
          Name,       \* of directories, extensions and images
          None,       \* no value: an empty name, a missing annotation
          Absent,     \* a directory that is not there
          NoMetadata, \* a directory without metadata.hcl
          Unparsable  \* a directory whose metadata.hcl does not decode

ASSUME DefaultAssumption ==
    DefaultDistribution \in Distribution /\ DefaultPgMajor \in Major

(* One image is built for each pair of a distribution and a major.         *)
Combo == Distribution \X Major
DefaultCombo == <<DefaultDistribution, DefaultPgMajor>>

(* An entry of required_extensions: a sibling directory, or an extension   *)
(* of the PostgreSQL base image, whose name may have been left out.        *)
Dependency == [kind : {"sibling"}, name : Name]
                \cup [kind : {"base-image"}, name : Name \cup {None}]

IsMetadata(m) ==
    /\ DOMAIN m = {"name", "sqlName", "image", "create", "autoUpdate", "required",
                   "versions"}
    /\ {m.name, m.sqlName, m.image} \subseteq Name
    /\ {m.create, m.autoUpdate} \subseteq BOOLEAN
    /\ m.required \in Seq(Dependency)
    /\ DOMAIN m.versions \subseteq Combo
    /\ \A c \in DOMAIN m.versions : m.versions[c] \in Seq(Char)

Unreadable == {Absent, NoMetadata, Unparsable}

(* Nothing but the keys of `versions' decides what is built. *)
BuildMatrix(m) == DOMAIN m.versions

(* parseExtensionMetadata succeeds. *)
Parses(tree, d) == tree[d] \notin Unreadable

(* Every directory with a metadata.hcl, readable or not. *)
ExtensionDirectories(tree) == {d \in DOMAIN tree : tree[d] \notin {Absent, NoMetadata}}

(* One metadata.hcl that does not decode fails the whole listing. *)
Extensions(tree) ==
    {D \in {ExtensionDirectories(tree)} : \A d \in D : Parses(tree, d)}

(* WithOSLibsFilter *)
OSLibsTargets(tree) ==
    {{d \in D : tree[d].autoUpdate} : D \in Extensions(tree)}

ExtractExtensionVersion(m, c) ==
    IF c \in BuildMatrix(m) THEN ExtractGo(m.versions[c]) ELSE {}

(* Create: the template, with a placeholder for each version.              *)
Template(name, C, o) ==
    [name |-> name, sqlName |-> name, image |-> name, create |-> TRUE,
     autoUpdate |-> FALSE, required |-> <<>>, versions |-> [c \in C |-> <<o>>]]
=============================================================================
