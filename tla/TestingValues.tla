--------------------------- MODULE TestingValues ---------------------------
(***************************************************************************)
(* End-to-end tests of extensions as the maintenance module runs them:     *)
(* GenerateTestingValues of dagger/maintenance (main.go, testingvalues.go) *)
(* writes the values.yaml of an extension, Test hands it to Chainsaw.      *)
(*                                                                         *)
(* A call works on the tree it was given.  The images it looks at are in a *)
(* registry where their tags move: each look is a step of its own.         *)
(***************************************************************************)
EXTENDS ExtensionImage

CONSTANTS Base,       \* the PostgreSQL images extensions are built on
          Sql,        \* versions of extensions in SQL
          Trees,      \* the trees to begin with
          Images,     \* the images there are: annotations by tag
          Packages,   \* the package versions that metadata is edited to
          Pushes,     \* what may be pushed: pairs of an image and its annotations
          Individual, \* the directories with tests of their own
          MaxEdit, MaxPush, MaxCall

Annotations == [base : Base \cup {None}, sql : Sql \cup {None},
                os : Distribution \cup {None}, major : Major \cup {None}]

(* The names of repositories are in lower case: no other can be referred   *)
(* to (name.ParseReference).                                               *)
IsRegistry(g) == /\ DOMAIN g \subseteq Reference
                 /\ \A r \in DOMAIN g : /\ g[r] \in Annotations
                                       /\ Lower[r.repository.image] = r.repository.image

ASSUME BoundAssumption == MaxEdit \in Nat /\ MaxPush \in Nat /\ MaxCall \in Nat
ASSUME NoneAssumption == None \notin Base \cup Sql \cup Distribution \cup Major \cup Name
ASSUME TreesAssumption ==
    \A t \in Trees : /\ t = [d \in Name |-> t[d]]
                     /\ \A d \in Name : t[d] \in Unreadable \/ IsMetadata(t[d])
ASSUME InputAssumption == /\ Packages \subseteq Seq(Char)
                          /\ Pushes \subseteq Reference \X Annotations
                          /\ \A p \in Pushes : Lower[p[1].repository.image] = p[1].repository.image
                          /\ IsRegistry(Images)

VARIABLES
    source,   \* the working tree
    edits,    \* how often metadata was edited
    registry, \* the annotations of the images, a function from pushed tags
    pushes,   \* how often a tag was pushed
    calls,    \* how often GenerateTestingValues was called
    call,     \* what GenerateTestingValues does next
    target,   \* its target
    tree,     \* the tree it was given
    image,    \* the image it looks at
    found,    \* the annotations it has found there
    todo,     \* the dependencies it has not come to
    infos,    \* testingExtensionInfo of the target and of dependencies
    seen,     \* history: the annotations the image has had during the call
    values,   \* values[d]: the values.yaml of directory d
    test,     \* where a call of Test stands
    due,      \* the extensions it is to test
    ready,    \* those of them with a values.yaml
    current,  \* the extension whose own tests are next
    ran       \* the tests that have passed

generation == <<calls, call, target, tree, image, found, todo, infos, seen>>
testing == <<test, due, ready, current, ran>>
world == <<source, edits, registry, pushes>>
vars == <<world, generation, values, testing>>

NoAnnotations == [base |-> None, sql |-> None, os |-> None, major |-> None]

Idle == /\ call = "none" /\ target = None /\ tree = [d \in Name |-> Absent]
        /\ image = None /\ found = NoAnnotations
        /\ todo = <<>> /\ infos = <<>> /\ seen = {}

Init == /\ source \in Trees /\ edits = 0
        /\ registry = Images /\ pushes = 0
        /\ Idle /\ calls = 0
        /\ values = [d \in Name |-> None]
        /\ test = "none" /\ due = {} /\ ready = {} /\ current = None /\ ran = {}

-----------------------------------------------------------------------------
(* The working tree and the registry. *)

(* create-extension: Create, into a directory that is not there.           *)
Scaffold(d) ==
    /\ source[d] = Absent /\ edits < MaxEdit
    /\ \E D \in SUBSET Distribution, V \in SUBSET Major, o \in Other :
         /\ D # {} /\ V # {}
         /\ source' = [source EXCEPT ![d] = Template(d, D \X V, o)]
    /\ edits' = edits + 1
    /\ UNCHANGED <<registry, pushes, generation, values, testing>>

(* A new package version, by a maintainer or by Renovate. *)
Edit(d) ==
    /\ Parses(source, d) /\ edits < MaxEdit
    /\ \E c \in BuildMatrix(source[d]), p \in Packages :
         source' = [source EXCEPT ![d].versions[c] = p]
    /\ edits' = edits + 1
    /\ UNCHANGED <<registry, pushes, generation, values, testing>>

(* Somebody pushes an image.  What moves under the tag a call looks at is  *)
(* noted.                                                                  *)
Push(p) ==
    /\ pushes < MaxPush
    /\ registry' = [r \in DOMAIN registry \cup {p[1]} |->
                      IF r = p[1] THEN p[2] ELSE registry[r]]
    /\ pushes' = pushes + 1
    /\ seen' = IF call # "none" /\ p[1] = image THEN seen \cup {p[2]} ELSE seen
    /\ UNCHANGED <<source, edits, calls, call, target, tree, image, found, todo, infos,
                   values, testing>>

-----------------------------------------------------------------------------
(* GenerateTestingValues *)

(* getImageAnnotations: of what is under the tag now. *)
AnnotationsOf(r) == {registry[q] : q \in DOMAIN registry \cap {r}}

(* The metadata of the target decodes.  The caller names an image of the   *)
(* extension, in a repository of any owner, or the default one is looked   *)
(* at.                                                                     *)
StartGenerate(d) ==
    /\ call = "none" /\ calls < MaxCall /\ Parses(source, d)
    /\ \E r \in {q \in DOMAIN registry : q.repository.image = Lower[source[d].image]}
                 \cup GetDefaultExtensionImage(source[d]) :
         image' = r /\ seen' = AnnotationsOf(r)
    /\ call' = "target" /\ calls' = calls + 1 /\ target' = d /\ tree' = source
    /\ found' = NoAnnotations /\ todo' = source[d].required /\ infos' = <<>>
    /\ UNCHANGED <<world, values, testing>>

Info(name, sqlName, reference, version, create) ==
    [name |-> name, sqlName |-> sqlName, reference |-> reference,
     version |-> version, create |-> create]

InfoRecord == [name : Name \cup {None}, sqlName : Name,
               reference : Reference \cup {None}, version : Sql \cup {None},
               create : BOOLEAN]

(* A fault: the version is looked up when it is needed. *)
ReadTargetTwice ==
    /\ call = "target"
    /\ \E a \in AnnotationsOf(image), b \in seen :
         /\ a.base # None /\ b.sql # None /\ a.os # None /\ a.major # None
         /\ found' = a
         /\ LET m == tree[target] IN
            infos' = <<Info(m.name, m.sqlName, image, b.sql, m.create)>>
    /\ call' = "dependencies"
    /\ UNCHANGED <<world, calls, target, tree, image, todo, seen, values, testing>>

(* One look gives the base image, the version in SQL, and the coordinates  *)
(* that the images of dependencies are resolved for.                       *)
ReadTarget ==
    /\ call = "target"
    /\ \E a \in AnnotationsOf(image) :
         /\ a.base # None
         /\ a.sql # None \/ ~ tree[target].create
         /\ a.os # None /\ a.major # None
         /\ found' = a
         /\ LET m == tree[target] IN
            infos' = <<Info(m.name, m.sqlName, image, a.sql, m.create)>>
    /\ call' = "dependencies"
    /\ UNCHANGED <<world, calls, target, tree, image, todo, seen, values, testing>>

(* generateTestingValuesExtensions: one dependency after the other.        *)
AddInfo(info) ==
    /\ infos' = Append(infos, info) /\ todo' = Tail(todo)
    /\ UNCHANGED <<world, calls, call, target, tree, image, found, seen, values, testing>>

(* An extension of the PostgreSQL base image is only to be created.        *)
BaseImageDependency ==
    /\ call = "dependencies" /\ todo # <<>> /\ Head(todo).kind = "base-image"
    /\ Head(todo).name # None
    /\ AddInfo(Info(None, Head(todo).name, None, None, TRUE))

(* What is not in the tree is left to the image catalog of the cluster.    *)
CatalogDependency ==
    /\ call = "dependencies" /\ todo # <<>> /\ Head(todo).kind = "sibling"
    /\ tree[Head(todo).name] = Absent
    /\ AddInfo(Info(Head(todo).name, Head(todo).name, None, None, TRUE))

(* A fault: the image of a dependency is its default one. *)
SiblingDefault ==
    /\ call = "dependencies" /\ todo # <<>> /\ Head(todo).kind = "sibling"
    /\ Parses(tree, Head(todo).name)
    /\ LET m == tree[Head(todo).name] IN
       \E r \in GetDefaultExtensionImage(m) :
         \E a \in AnnotationsOf(r) :
           /\ a.sql # None
           /\ AddInfo(Info(m.name, m.sqlName, r, a.sql, m.create))

(* A sibling's image is the one for the coordinates of the target's image. *)
SiblingDependency ==
    /\ call = "dependencies" /\ todo # <<>> /\ Head(todo).kind = "sibling"
    /\ Parses(tree, Head(todo).name)
    /\ LET m == tree[Head(todo).name] IN
       \E r \in GetExtensionImage(m, <<found.os, found.major>>) :
         \E a \in AnnotationsOf(r) :
           /\ a.sql # None
           /\ AddInfo(Info(m.name, m.sqlName, r, a.sql, m.create))

EndCall == /\ call' = "none" /\ target' = None /\ tree' = [d \in Name |-> Absent]
           /\ image' = None /\ found' = NoAnnotations
           /\ todo' = <<>> /\ infos' = <<>> /\ seen' = {}

(* The export of values.yaml.  What it was made from is kept with it as    *)
(* history.                                                                *)
WriteValues ==
    /\ call = "dependencies" /\ todo = <<>>
    /\ values' = [values EXCEPT ![target] =
                    [pgImage |-> found.base, version |-> infos[1].version,
                     infos |-> infos, tree |-> tree, image |-> image, seen |-> seen]]
    /\ EndCall
    /\ UNCHANGED <<world, calls, testing>>

(* A tag that is not there, an annotation or a name that is missing,       *)
(* metadata that does not decode, a registry that does not answer.         *)
FailGenerate == /\ call # "none"
                /\ EndCall
                /\ UNCHANGED <<world, calls, values, testing>>

(* e2e:test:full removes the values when it ends, however it ends.         *)
RemoveValues(d) == /\ values[d] # None
                   /\ values' = [values EXCEPT ![d] = None]
                   /\ UNCHANGED <<world, generation, testing>>

-----------------------------------------------------------------------------
(* Test *)

Shared(d) == <<d, "shared">>
Own(d) == <<d, "own">>

(* With a target, the tree is narrowed to it and has to have its metadata. *)
(* Calls share nothing, so one is considered, at any time.                 *)
StartTest(D) ==
    /\ test = "none"
    /\ test' = "running" /\ due' = D /\ ready' = {d \in D : values[d] # None}
    /\ current' = None /\ ran' = {}
    /\ UNCHANGED <<world, generation, values>>

StartTestOne == \E d \in ExtensionDirectories(source) : StartTest({d})
StartTestAll == StartTest(ExtensionDirectories(source))

(* The shared test passes for an extension that has its values.            *)
RunShared(d) ==
    /\ test = "running" /\ current = None
    /\ d \in ready /\ Shared(d) \notin ran
    /\ ran' = ran \cup {Shared(d)}
    /\ current' = IF d \in Individual THEN d ELSE None
    /\ UNCHANGED <<world, generation, values, test, due, ready>>

(* The extension's own tests pass. *)
RunOwn ==
    /\ test = "running" /\ current # None
    /\ ran' = ran \cup {Own(current)}
    /\ current' = None
    /\ UNCHANGED <<world, generation, values, test, due, ready>>

(* A fault: the loop is left at the first extension without own tests.     *)
LeaveLoop ==
    /\ test = "running" /\ current = None
    /\ \E d \in due : Shared(d) \in ran
    /\ test' = "passed"
    /\ UNCHANGED <<world, generation, values, due, ready, current, ran>>

EndTest ==
    /\ test = "running" /\ current = None
    /\ \A d \in due : Shared(d) \in ran
    /\ test' = "passed"
    /\ UNCHANGED <<world, generation, values, due, ready, current, ran>>

(* Values are missing, or Chainsaw reports a failure: nothing more is run. *)
FailTest == /\ test = "running"
            /\ test' = "failed"
            /\ UNCHANGED <<world, generation, values, due, ready, current, ran>>

-----------------------------------------------------------------------------
Next ==
    \/ \E d \in Name : Scaffold(d) \/ Edit(d) \/ StartGenerate(d)
                       \/ RemoveValues(d) \/ RunShared(d)
    \/ \E p \in Pushes : Push(p)
    \/ ReadTarget \/ BaseImageDependency \/ CatalogDependency \/ SiblingDependency
    \/ WriteValues \/ FailGenerate
    \/ StartTestOne \/ StartTestAll \/ RunOwn \/ EndTest \/ FailTest

Spec == Init /\ [][Next]_vars

-----------------------------------------------------------------------------
(* The lists of values.yaml, as indices of the infos they are made from.   *)

(* A fault: an extension that is not built here is not mounted either.     *)
MountedWithImage(v) == {i \in DOMAIN v.infos : v.infos[i].reference # None}

(* `extensions': what is mounted into the cluster. *)
Mounted(v) == {i \in DOMAIN v.infos : v.infos[i].name # None}

(* `database_config' and `database_assert_status': what is created, in the *)
(* order of the infos.                                                     *)
Created(v) == {i \in DOMAIN v.infos : v.infos[i].create}

Written == {d \in Name : values[d] # None}

(* ValuesOfOneMoment: however its tag moved during the call, the values of *)
(* an extension describe one image that was under the tag at one moment:   *)
(* the PostgreSQL image and the version in SQL are its annotations, and    *)
(* the images of siblings are the ones for its distribution and major      *)
(* (GenerateTestingValues, imageLocator).                                  *)
ValuesOfOneMoment ==
    \A d \in Written : LET v == values[d] IN
      \E a \in v.seen :
        /\ v.pgImage = a.base /\ v.version = a.sql
        /\ v.infos[1].reference = v.image
        /\ \A i \in 2..Len(v.infos) : v.infos[i].reference # None =>
             /\ v.infos[i].reference.distribution = a.os
             /\ v.infos[i].reference.major = a.major

(* CreatedIsThere: an extension that the database is to create is mounted, *)
(* or its metadata says that the base image has it; and everything the     *)
(* extension requires is created, unless the metadata of the required one  *)
(* says that there is nothing to create (generateDatabaseConfig against    *)
(* the list of extensions).                                                *)
CreatedIsThere ==
    \A d \in Written : LET v == values[d]
                           m == v.tree[d] IN
      /\ \A i \in Created(v) :
           \/ i \in Mounted(v)
           \/ [kind |-> "base-image", name |-> v.infos[i].sqlName] \in {m.required[k] : k \in DOMAIN m.required}
      /\ \A k \in DOMAIN m.required :
           LET r == m.required[k]
               sibling == r.kind = "sibling" /\ v.tree[r.name] # Absent IN
           \/ sibling /\ ~ v.tree[r.name].create
           \/ \E i \in Created(v) :
                v.infos[i].sqlName = IF sibling THEN v.tree[r.name].sqlName ELSE r.name

(* The image of dependency i - 1, and the directory it is required as.     *)
Siblings(v) == {i \in 2..Len(v.infos) : v.infos[i].reference # None}
Required(v, d, i) == v.tree[d].required[i - 1].name

(* SiblingTagsBaked: the image of a sibling is referred to by the tag that *)
(* the bake of that sibling pushes for that distribution and major, to     *)
(* whatever registry and in whatever environment: Go and HCL take the same *)
(* version out of a package version, each in its own way                   *)
(* (extractExtensionVersion, getExtensionVersion).  It says nothing of the *)
(* repository, which is another one: SiblingsAreUpstreams.                 *)
SiblingTagsBaked ==
    \A d \in Written : LET v == values[d] IN
      \A i \in Siblings(v) :
        LET r == v.infos[i].reference
            s == Required(v, d, i) IN
        /\ Parses(v.tree, s)
        /\ \A g \in BakeRegistry, e \in Environment :
             [r EXCEPT !.repository = BakeRepository(v.tree[s], g, e)]
               \in BakeTags(v.tree[s], <<r.distribution, r.major>>, g, e)

(* SiblingsAreUpstreams: the image of a sibling is nothing that a bake of  *)
(* this repository pushes, for any directory, combination, registry and    *)
(* environment.  It is in upstream's repository (getExtensionImage), while *)
(* catalogs look the same extension up in cnpg-extensions                  *)
(* (getExtensionImageWithTimestamp).                                       *)
SiblingsAreUpstreams ==
    \A d \in Written : LET v == values[d] IN
      \A i \in Siblings(v) :
        LET r == v.infos[i].reference IN
        /\ r.repository = UpstreamRepository(v.tree[Required(v, d, i)])
        /\ \A s \in Name, c \in Combo, g \in BakeRegistry, e \in Environment :
             Parses(v.tree, s) => r \notin BakeTags(v.tree[s], c, g, e)

(* GreenCovers: a call of Test that passes has run the shared test for     *)
(* each extension it was to test, with values, and the tests of their own  *)
(* of those that have some (Test: `continue', early returns).              *)
GreenCovers ==
    test = "passed" =>
      /\ due \subseteq ready
      /\ \A d \in due : Shared(d) \in ran /\ (d \in Individual => Own(d) \in ran)

-----------------------------------------------------------------------------
(* The inductive invariant behind the safety properties. *)

Readable(t) == /\ t = [d \in Name |-> t[d]]
               /\ \A d \in Name : t[d] \in Unreadable \/ IsMetadata(t[d])

TypeOK ==
    /\ Readable(source) /\ Readable(tree)
    /\ IsRegistry(registry)
    /\ {edits, pushes, calls} \subseteq Nat
    /\ call \in {"none", "target", "dependencies"}
    /\ found \in Annotations /\ seen \subseteq Annotations
    /\ infos \in Seq(InfoRecord)
    /\ DOMAIN values = Name
    /\ test \in {"none", "running", "passed", "failed"}
    /\ due \subseteq Name /\ ready \subseteq due /\ current \in Name \cup {None}

(* What the entry r of required_extensions becomes, in tree t and for an   *)
(* image with annotations a.                                               *)
InfoOf(t, a, r, info) ==
    \/ r.kind = "base-image" /\ r.name # None /\ info = Info(None, r.name, None, None, TRUE)
    \/ /\ r.kind = "sibling" /\ t[r.name] = Absent
       /\ info = Info(r.name, r.name, None, None, TRUE)
    \/ /\ r.kind = "sibling" /\ Parses(t, r.name)
       /\ \E q \in GetExtensionImage(t[r.name], <<a.os, a.major>>), s \in Sql :
            info = Info(t[r.name].name, t[r.name].sqlName, q, s, t[r.name].create)

(* The infos of extension d and of its first n dependencies. *)
InfosOf(t, a, d, r, n, is) ==
    /\ Parses(t, d)
    /\ n \in 0..Len(t[d].required)
    /\ is \in Seq(InfoRecord) /\ Len(is) = n + 1
    /\ is[1] = Info(t[d].name, t[d].sqlName, r, a.sql, t[d].create)
    /\ \A i \in 1..n : InfoOf(t, a, t[d].required[i], is[i + 1])

(* What a call knows: what is under its tag is noted; the infos are those  *)
(* of the dependencies it has come to.                                     *)
CallDone ==
    /\ call # "none" =>
         /\ target \in Name /\ Parses(tree, target)
         /\ image \in DOMAIN registry => registry[image] \in seen
    /\ call = "target" => todo = tree[target].required
    /\ call = "dependencies" =>
         LET r == tree[target].required
             n == Len(r) - Len(todo) IN
         /\ found \in seen
         /\ todo \in Seq(Dependency)
         /\ \A k \in 1..Len(todo) : todo[k] = r[n + k]
         /\ InfosOf(tree, found, target, image, n, infos)

(* Values that are written describe an image that was under the tag.       *)
ValuesDone ==
    \A d \in Written : LET v == values[d] IN
      /\ Readable(v.tree)
      /\ \E a \in v.seen :
           /\ v.pgImage = a.base /\ v.version = a.sql
           /\ InfosOf(v.tree, a, d, v.image, Len(v.tree[d].required), v.infos)

(* A test that has passed had its values, and was followed by the own      *)
(* tests of the extension, unless they are next.                           *)
TestsDone ==
    /\ \A d \in Name : Shared(d) \in ran =>
         /\ d \in ready
         /\ d \in Individual => Own(d) \in ran \/ current = d
    /\ test = "passed" => current = None /\ \A d \in due : Shared(d) \in ran

(* TestingInv: TypeOK and the facts above; every step preserves it.        *)
TestingInv == TypeOK /\ CallDone /\ ValuesDone /\ TestsDone
=============================================================================
