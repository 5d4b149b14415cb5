--------------------------- MODULE ExtensionImage ---------------------------
(***************************************************************************)
(* The images that metadata stands for: those the maintenance module       *)
(* refers to (image.go), and those a bake pushes (docker-bake.hcl).  They  *)
(* are in repositories of different owners.                                *)
(***************************************************************************)
EXTENDS ExtensionMetadata

CONSTANTS Registry,     \* hosts with an owner: ghcr.io/cnpg-extensions
          Upstream,     \* ghcr.io/cloudnative-pg
          BakeRegistry, \* where bakes of this repository push to
          Lower         \* the lower-case form of a name or of a registry

ASSUME RegistryAssumption ==
    /\ Upstream \in Registry /\ BakeRegistry \subseteq Registry
    /\ \A n \in Name : Lower[n] \in Name /\ Lower[Lower[n]] = Lower[n]
    /\ \A g \in Registry : Lower[g] \in Registry /\ Lower[Lower[g]] = Lower[g]

(* bake_targets.yml takes the registry from the owner of the repository,   *)
(* the Taskfile a local one: bakes never push to upstream's.               *)
ASSUME OwnerAssumption == \A g \in BakeRegistry : Lower[g] # Upstream

Environment == {"testing", "production"}

(* <registry>/<image>, or <registry>/<image>-testing. *)
Repository == [registry : Registry, image : Name, testing : BOOLEAN]

(* <repository>:<version>-<major>-<distribution> *)
Reference == [repository : Repository, version : Seq(Char \cup {"-"}),
              distribution : Distribution, major : Major]

Tagged(repository, version, c) ==
    [repository |-> repository, version |-> version,
     distribution |-> c[1], major |-> c[2]]

(* The repository is upstream's whoever runs the code, and the name of the *)
(* image is taken as it is.                                                *)
UpstreamRepository(m) ==
    [registry |-> Upstream, image |-> m.image, testing |-> FALSE]

GetExtensionImage(m, c) ==
    {Tagged(UpstreamRepository(m), v, c) : v \in ExtractExtensionVersion(m, c)}

GetDefaultExtensionImage(m) == GetExtensionImage(m, DefaultCombo)

(* fullname, in lower case, for registry g and environment e.              *)
BakeRepository(m, g, e) ==
    [registry |-> Lower[g], image |-> Lower[m.image], testing |-> e = "testing"]

(* The tags the bake of combination c pushes, the one without the time.    *)
BakeTags(m, c, g, e) ==
    IF c \in BuildMatrix(m)
    THEN {Tagged(BakeRepository(m, g, e), v, c) : v \in ExtractBake(m.versions[c])}
    ELSE {}
=============================================================================
