------------------------ MODULE TestingValuesProofs ------------------------
(***************************************************************************)
(* Theorems about TestingValues, for every set of names, distributions and *)
(* package versions, every tree and every registry.  The two ways to take  *)
(* a version out of a package version agree where the Go one succeeds; a   *)
(* call of GenerateTestingValues keeps TestingInv; the safety properties   *)
(* follow from it.                                                         *)
(***************************************************************************)
EXTENDS TestingValues, GreatestNumber, TLAPS

(* A version cannot go on after a character that is no version character.  *)
LEMMA VersionStops ==
    ASSUME NEW p \in Seq(Char), NEW n \in 1..Len(p), NEW k \in 1..Len(p),
           IsVersion(p, k), n = Len(p) \/ p[n + 1] \notin VersionChar
    PROVE  k <= n
<1> SUFFICES ASSUME k > n PROVE FALSE
  OBVIOUS
<1>1. n + 1 \in 1..k /\ n # Len(p)
  OBVIOUS
<1>2. QED BY <1>1 DEF IsVersion

(* There is at most one longest version. *)
LEMMA BakeUnique ==
    ASSUME NEW p \in Seq(Char), NEW v \in ExtractBake(p), NEW w \in ExtractBake(p)
    PROVE  v = w
<1>1. PICK n \in 1..Len(p) : /\ v = Dashed(SubSeq(p, 1, n))
                             /\ IsVersion(p, n)
                             /\ \A k \in 1..Len(p) : IsVersion(p, k) => k <= n
  BY DEF ExtractBake
<1>2. PICK m \in 1..Len(p) : /\ w = Dashed(SubSeq(p, 1, m))
                             /\ IsVersion(p, m)
                             /\ \A k \in 1..Len(p) : IsVersion(p, k) => k <= m
  BY DEF ExtractBake
<1>3. n = m
  BY <1>1, <1>2
<1>4. QED BY <1>1, <1>2, <1>3

LEMMA GoIsBake ==
    ASSUME NEW p \in Seq(Char) PROVE ExtractGo(p) \subseteq ExtractBake(p)
<1> SUFFICES ASSUME NEW n \in 1..Len(p), IsVersion(p, n),
                    n = Len(p) \/ p[n + 1] \notin VersionChar
             PROVE  Dashed(SubSeq(p, 1, n)) \in ExtractBake(p)
  BY DEF ExtractGo
<1>1. \A k \in 1..Len(p) : IsVersion(p, k) => k <= n
  BY VersionStops
<1>2. QED BY <1>1 DEF ExtractBake

(* Where the expression of image.go finds a version, the one of            *)
(* docker-bake.hcl finds exactly that (extractExtensionVersion: "Keep this *)
(* in sync with getExtensionVersion in docker-bake.hcl"): values and       *)
(* catalogs fail, or refer to the tag that the bake pushes.                *)
THEOREM VersionsAgree ==
    \A p \in Seq(Char) : ExtractGo(p) # {} => ExtractGo(p) = ExtractBake(p)
<1> SUFFICES ASSUME NEW p \in Seq(Char), NEW v \in ExtractGo(p)
             PROVE  ExtractBake(p) \subseteq ExtractGo(p)
  BY GoIsBake
<1>1. v \in ExtractBake(p)
  BY GoIsBake
<1>2. QED BY <1>1, BakeUnique

(* A version that a digit follows goes on with it. *)
LEMMA VersionGoesOn ==
    ASSUME NEW p \in Seq(Char), NEW n \in 1..Len(p), IsVersion(p, n),
           n # Len(p), p[n + 1] \in Digit
    PROVE  IsVersion(p, n + 1)
<1>1. n + 1 \in 1..Len(p) /\ p[n + 1] # ":"
  BY CharAssumption DEF Separator
<1>2. \A i \in 1..(n + 1) : i \in 1..n \/ i = n + 1
  OBVIOUS
<1>3. \A i \in 1..(n + 1) : p[i] \in VersionChar
  BY <1>2 DEF IsVersion, VersionChar
<1>4. \A i \in 1..n : p[i] \in Digit \/ p[i + 1] \in Digit
  <2>1. \A i \in 1..n : i \in 1..(n - 1) \/ i = n
    OBVIOUS
  <2>2. QED BY <2>1 DEF IsVersion
<1>5. \A i, j \in 1..(n + 1) : i < j /\ p[j] = ":" => p[i] \in Digit
  <2>1. \A i, j \in 1..(n + 1) : i < j /\ p[j] = ":" => i \in 1..n /\ j \in 1..n
    BY <1>1, <1>2
  <2>2. QED BY <2>1 DEF IsVersion
<1>6. QED BY <1>1, <1>3, <1>4, <1>5 DEF IsVersion

(* docker-bake.hcl finds a version, and only one, in whatever starts with  *)
(* a digit, and none in anything else; the version it finds is not enough  *)
(* for image.go only when one more separator follows.                      *)
THEOREM BakeFindsOne ==
    \A p \in Seq(Char) :
      /\ Len(p) = 0 \/ p[1] \notin Digit => ExtractBake(p) = {}
      /\ Len(p) > 0 /\ p[1] \in Digit =>
           \E n \in 1..Len(p) :
             /\ ExtractBake(p) = {Dashed(SubSeq(p, 1, n))}
             /\ ExtractGo(p) = {} => n < Len(p) /\ p[n + 1] \in Separator
<1> SUFFICES ASSUME NEW p \in Seq(Char)
             PROVE  /\ Len(p) = 0 \/ p[1] \notin Digit => ExtractBake(p) = {}
                    /\ Len(p) > 0 /\ p[1] \in Digit =>
                         \E n \in 1..Len(p) :
                           /\ ExtractBake(p) = {Dashed(SubSeq(p, 1, n))}
                           /\ ExtractGo(p) = {} => n < Len(p) /\ p[n + 1] \in Separator
  OBVIOUS
<1>1. Len(p) \in Nat
  OBVIOUS
<1>2. ASSUME Len(p) > 0, p[1] \in Digit
      PROVE  \E n \in 1..Len(p) :
               /\ ExtractBake(p) = {Dashed(SubSeq(p, 1, n))}
               /\ ExtractGo(p) = {} => n < Len(p) /\ p[n + 1] \in Separator
  <2> DEFINE M == {n \in 1..Len(p) : IsVersion(p, n)}
  <2>1. IsVersion(p, 1)
    BY <1>1, <1>2, CharAssumption DEF IsVersion, VersionChar, Separator
  <2>2. M \in SUBSET (0..Len(p)) /\ M # {}
    BY <1>1, <1>2, <2>1
  <2>3. PICK n \in M : \A k \in M : k <= n
    BY <1>1, <2>2, HasGreatest
  <2>4. Dashed(SubSeq(p, 1, n)) \in ExtractBake(p)
    BY <2>3 DEF ExtractBake
  <2>5. ExtractBake(p) = {Dashed(SubSeq(p, 1, n))}
    BY <2>4, BakeUnique
  <2>6. ASSUME ExtractGo(p) = {}
        PROVE  n < Len(p) /\ p[n + 1] \in Separator
    <3>1. n # Len(p) /\ p[n + 1] \in VersionChar
      BY <2>3, <2>6 DEF ExtractGo
    <3>2. p[n + 1] \notin Digit
      <4>1. n + 1 \in 1..Len(p) /\ ~ (n + 1 <= n)
        BY <3>1
      <4>2. ~ IsVersion(p, n + 1)
        BY <2>3, <4>1
      <4>3. QED BY <2>3, <3>1, <4>2, VersionGoesOn
    <3>3. QED BY <1>1, <3>1, <3>2 DEF VersionChar
  <2>7. QED BY <2>5, <2>6
<1>3. ASSUME Len(p) = 0 \/ p[1] \notin Digit
      PROVE  ExtractBake(p) = {}
  BY <1>3 DEF ExtractBake, IsVersion
<1>4. QED BY <1>2, <1>3

(* The version in a tag has the characters of the package version, and     *)
(* dashes.                                                                 *)
LEMMA VersionType ==
    ASSUME NEW p \in Seq(Char), NEW v \in ExtractGo(p)
    PROVE  v \in Seq(Char \cup {"-"})
<1>1. PICK n \in 1..Len(p) : v = Dashed(SubSeq(p, 1, n))
  BY DEF ExtractGo
<1>2. SubSeq(p, 1, n) \in Seq(Char) /\ Len(SubSeq(p, 1, n)) = n
  OBVIOUS
<1>3. v = [i \in 1..n |-> IF SubSeq(p, 1, n)[i] = ":" THEN "-" ELSE SubSeq(p, 1, n)[i]]
  BY <1>1, <1>2 DEF Dashed
<1>4. \A i \in 1..n : SubSeq(p, 1, n)[i] \in Char
  BY <1>2
<1>5. v \in [1..n -> Char \cup {"-"}]
  BY <1>3, <1>4
<1>6. QED BY <1>5

(* An image is in upstream's repository, under the tag that the bake of    *)
(* its combination pushes elsewhere.                                       *)
LEMMA ImageType ==
    ASSUME NEW m, IsMetadata(m), NEW c, NEW r \in GetExtensionImage(m, c)
    PROVE  /\ r \in Reference
           /\ c \in BuildMatrix(m)
           /\ c = <<r.distribution, r.major>>
           /\ r.repository = UpstreamRepository(m)
           /\ \A g \in BakeRegistry, e \in Environment :
                [r EXCEPT !.repository = BakeRepository(m, g, e)] \in BakeTags(m, c, g, e)
<1>1. c \in BuildMatrix(m)
  BY DEF GetExtensionImage, ExtractExtensionVersion
<1>2. PICK v \in ExtractGo(m.versions[c]) : r = Tagged(UpstreamRepository(m), v, c)
  BY <1>1 DEF GetExtensionImage, ExtractExtensionVersion
<1>3. m.versions[c] \in Seq(Char) /\ c \in Combo
  BY <1>1 DEF IsMetadata, BuildMatrix
<1>4. v \in Seq(Char \cup {"-"}) /\ v \in ExtractBake(m.versions[c])
  BY <1>2, <1>3, VersionType, GoIsBake
<1>5. c = <<c[1], c[2]>> /\ c[1] \in Distribution /\ c[2] \in Major
  BY <1>3 DEF Combo
<1>6. UpstreamRepository(m) \in Repository
  BY RegistryAssumption DEF UpstreamRepository, Repository, IsMetadata
<1>7. r \in Reference /\ c = <<r.distribution, r.major>> /\ r.repository = UpstreamRepository(m)
  BY <1>2, <1>4, <1>5, <1>6 DEF Tagged, Reference
<1>8. ASSUME NEW g \in BakeRegistry, NEW e \in Environment
      PROVE  [r EXCEPT !.repository = BakeRepository(m, g, e)] \in BakeTags(m, c, g, e)
  <2>1. [r EXCEPT !.repository = BakeRepository(m, g, e)] = Tagged(BakeRepository(m, g, e), v, c)
    BY <1>2 DEF Tagged
  <2>2. QED BY <1>1, <1>4, <2>1 DEF BakeTags
<1>9. QED BY <1>1, <1>7, <1>8

(* What a bake pushes is in a registry that bakes push to. *)
LEMMA BakeTagsOwned ==
    ASSUME NEW m, NEW c, NEW g \in BakeRegistry, NEW e, NEW r \in BakeTags(m, c, g, e)
    PROVE  r.repository.registry # Upstream
BY OwnerAssumption DEF BakeTags, Tagged, BakeRepository

-----------------------------------------------------------------------------
LEMMA InitTestingInv == Init => TestingInv
<1> SUFFICES ASSUME Init PROVE TestingInv
  OBVIOUS
<1>1. TypeOK
  BY TreesAssumption, InputAssumption, NoneAssumption
  DEF Init, Idle, TypeOK, Readable, Unreadable, NoAnnotations, Annotations
<1>2. CallDone /\ ValuesDone /\ TestsDone
  BY DEF Init, Idle, CallDone, ValuesDone, TestsDone, Written, Shared
<1>3. QED BY <1>1, <1>2 DEF TestingInv

(* An info that is typed as what a dependency becomes. *)
LEMMA InfoType ==
    ASSUME NEW t, Readable(t), NEW a,
           NEW r \in Dependency, NEW info, InfoOf(t, a, r, info)
    PROVE  info \in InfoRecord
<1>1. CASE r.kind = "base-image" /\ r.name # None
  <2>1. info = Info(None, r.name, None, None, TRUE)
    BY <1>1 DEF InfoOf
  <2>2. r.name \in Name
    BY <1>1 DEF Dependency
  <2>3. QED BY <2>1, <2>2 DEF Info, InfoRecord
<1>2. CASE r.kind = "sibling" /\ t[r.name] = Absent
  <2>1. info = Info(r.name, r.name, None, None, TRUE)
    BY <1>2 DEF InfoOf, Parses, Unreadable
  <2>2. r.name \in Name
    BY <1>2 DEF Dependency
  <2>3. QED BY <2>1, <2>2 DEF Info, InfoRecord
<1>3. CASE r.kind = "sibling" /\ Parses(t, r.name)
  <2>1. r.name \in Name /\ IsMetadata(t[r.name])
    BY <1>3 DEF Dependency, Readable, Parses
  <2>2. t[r.name] # Absent
    BY <1>3 DEF Parses, Unreadable
  <2>3. PICK q \in GetExtensionImage(t[r.name], <<a.os, a.major>>), s \in Sql :
          info = Info(t[r.name].name, t[r.name].sqlName, q, s, t[r.name].create)
    BY <1>3, <2>2 DEF InfoOf
  <2>4. q \in Reference
    BY <2>1, ImageType
  <2>5. QED BY <2>1, <2>3, <2>4 DEF Info, InfoRecord, IsMetadata
<1>4. QED BY <1>1, <1>2, <1>3 DEF InfoOf

(* Only the info of a sibling with metadata refers to an image. *)
LEMMA InfoReference ==
    ASSUME NEW t, Readable(t), NEW a, NEW r \in Dependency,
           NEW info, InfoOf(t, a, r, info), info.reference # None
    PROVE  /\ r.name \in Name /\ Parses(t, r.name) /\ IsMetadata(t[r.name])
           /\ info.reference \in GetExtensionImage(t[r.name], <<a.os, a.major>>)
<1>1. CASE r.kind = "base-image" /\ r.name # None /\ info = Info(None, r.name, None, None, TRUE)
  BY <1>1 DEF Info
<1>2. CASE info = Info(r.name, r.name, None, None, TRUE)
  BY <1>2 DEF Info
<1>3. CASE /\ r.kind = "sibling" /\ Parses(t, r.name)
           /\ \E q \in GetExtensionImage(t[r.name], <<a.os, a.major>>), s \in Sql :
                info = Info(t[r.name].name, t[r.name].sqlName, q, s, t[r.name].create)
  <2>1. r.name \in Name /\ IsMetadata(t[r.name])
    BY <1>3 DEF Dependency, Readable, Parses
  <2>2. PICK q \in GetExtensionImage(t[r.name], <<a.os, a.major>>), s \in Sql :
          info = Info(t[r.name].name, t[r.name].sqlName, q, s, t[r.name].create)
    BY <1>3
  <2>3. info.reference = q
    BY <2>2 DEF Info
  <2>4. QED BY <1>3, <2>1, <2>2, <2>3
<1>4. QED BY <1>1, <1>2, <1>3 DEF InfoOf

(* The info of a sibling has a name, and says what its metadata says.      *)
LEMMA SiblingInfo ==
    ASSUME NEW t, Readable(t), NEW a, NEW r \in Dependency, r.kind = "sibling",
           NEW info, InfoOf(t, a, r, info)
    PROVE  /\ info.name \in Name
           /\ t[r.name] = Absent => info.sqlName = r.name /\ info.create
           /\ t[r.name] # Absent => /\ info.sqlName = t[r.name].sqlName
                                   /\ info.create = t[r.name].create
<1>1. r.name \in Name
  BY DEF Dependency
<1>2. CASE t[r.name] = Absent
  <2>1. info = Info(r.name, r.name, None, None, TRUE)
    BY <1>2 DEF InfoOf, Parses, Unreadable
  <2>2. QED BY <1>1, <1>2, <2>1 DEF Info
<1>3. CASE t[r.name] # Absent
  <2>1. PICK q \in GetExtensionImage(t[r.name], <<a.os, a.major>>), s \in Sql :
          info = Info(t[r.name].name, t[r.name].sqlName, q, s, t[r.name].create)
    BY <1>3 DEF InfoOf
  <2>2. IsMetadata(t[r.name])
    BY <1>1, <1>3 DEF InfoOf, Readable, Parses
  <2>3. /\ info.name = t[r.name].name /\ info.sqlName = t[r.name].sqlName
        /\ info.create = t[r.name].create
    BY <2>1 DEF Info
  <2>4. QED BY <1>3, <2>2, <2>3 DEF IsMetadata
<1>4. QED BY <1>2, <1>3

(* One more info for one more dependency. *)
LEMMA InfosGrow ==
    ASSUME NEW t, Readable(t), NEW a,
           NEW d \in Name, NEW r, NEW n \in Nat, n < Len(t[d].required),
           NEW is, InfosOf(t, a, d, r, n, is),
           NEW info, InfoOf(t, a, t[d].required[n + 1], info)
    PROVE  InfosOf(t, a, d, r, n + 1, Append(is, info))
<1>1. t[d].required \in Seq(Dependency)
  BY DEF InfosOf, Readable, Parses, IsMetadata
<1>2. info \in InfoRecord
  BY <1>1, InfoType
<1>3. /\ Append(is, info) \in Seq(InfoRecord) /\ Len(Append(is, info)) = n + 2
      /\ \A i \in 1..(n + 1) : Append(is, info)[i] = is[i]
      /\ Append(is, info)[n + 2] = info
  BY <1>2 DEF InfosOf
<1>4. \A i \in 1..(n + 1) : InfoOf(t, a, t[d].required[i], Append(is, info)[i + 1])
  BY <1>3 DEF InfosOf
<1>5. QED BY <1>1, <1>3, <1>4 DEF InfosOf

-----------------------------------------------------------------------------
(* What a step does not touch stays established. *)
LEMMA CallKept ==
    CallDone /\ UNCHANGED <<generation, registry>> => CallDone'
BY DEF CallDone, generation

LEMMA ValuesKept == ValuesDone /\ values' = values => ValuesDone'
BY DEF ValuesDone, Written

LEMMA TestsKept == TestsDone /\ UNCHANGED testing => TestsDone'
BY DEF TestsDone, testing

(* A call that is over has left nothing behind. *)
LEMMA CallOver == EndCall => CallDone'
BY DEF EndCall, CallDone

LEMMA ScaffoldMetadata ==
    ASSUME NEW d \in Name, NEW C \in SUBSET Combo, NEW o \in Other
    PROVE  IsMetadata(Template(d, C, o))
<1>1. <<o>> \in Seq(Char) /\ <<>> \in Seq(Dependency)
  BY DEF Char
<1>2. QED BY <1>1 DEF IsMetadata, Template

(* The steps that change the tree or the registry. *)
LEMMA ScaffoldStep ==
    ASSUME TestingInv, NEW d \in Name, Scaffold(d) PROVE TestingInv'
<1>1. PICK C \in SUBSET Combo, o \in Other :
        source' = [source EXCEPT ![d] = Template(d, C, o)]
  <2>1. \A D \in SUBSET Distribution, V \in SUBSET Major : D \X V \in SUBSET Combo
    BY DEF Combo
  <2>2. QED BY <2>1 DEF Scaffold
<1>2. Readable(source)'
  BY <1>1, ScaffoldMetadata DEF TestingInv, TypeOK, Readable
<1>3. TypeOK'
  <2>1. edits' \in Nat /\ UNCHANGED <<registry, pushes, generation, values, testing>>
    BY DEF Scaffold, TestingInv, TypeOK
  <2>2. Readable(tree)' /\ IsRegistry(registry)'
    BY <2>1 DEF TestingInv, TypeOK, generation, Readable, IsRegistry
  <2>3. QED BY <1>2, <2>1, <2>2 DEF TestingInv, TypeOK, generation, testing
<1>4. QED BY <1>3, CallKept, ValuesKept, TestsKept DEF TestingInv, Scaffold

LEMMA EditStep ==
    ASSUME TestingInv, NEW d \in Name, Edit(d) PROVE TestingInv'
<1>1. PICK c \in BuildMatrix(source[d]), p \in Packages :
        source' = [source EXCEPT ![d].versions[c] = p]
  BY DEF Edit
<1>2. IsMetadata(source[d]) /\ p \in Seq(Char)
  BY InputAssumption DEF Edit, Parses, TestingInv, TypeOK, Readable
<1>3. IsMetadata(source'[d])
  <2>1. source'[d] = [source[d] EXCEPT !.versions = [@ EXCEPT ![c] = p]]
    BY <1>1 DEF TestingInv, TypeOK, Readable
  <2>2. QED BY <1>2, <2>1 DEF IsMetadata, BuildMatrix
<1>4. Readable(source)'
  BY <1>1, <1>3 DEF TestingInv, TypeOK, Readable
<1>5. TypeOK'
  <2>1. edits' \in Nat /\ UNCHANGED <<registry, pushes, generation, values, testing>>
    BY DEF Edit, TestingInv, TypeOK
  <2>2. Readable(tree)' /\ IsRegistry(registry)'
    BY <2>1 DEF TestingInv, TypeOK, generation, Readable, IsRegistry
  <2>3. QED BY <1>4, <2>1, <2>2 DEF TestingInv, TypeOK, generation, testing
<1>6. QED BY <1>5, CallKept, ValuesKept, TestsKept DEF TestingInv, Edit

LEMMA PushStep ==
    ASSUME TestingInv, NEW p \in Pushes, Push(p) PROVE TestingInv'
<1>1. /\ p[1] \in Reference /\ p[2] \in Annotations
      /\ Lower[p[1].repository.image] = p[1].repository.image
  BY InputAssumption
<1>2. TypeOK'
  <2>1. IsRegistry(registry)'
    BY <1>1 DEF Push, TestingInv, TypeOK, IsRegistry
  <2>2. seen' \subseteq Annotations
    BY <1>1 DEF Push, TestingInv, TypeOK
  <2>3. QED BY <2>1, <2>2 DEF Push, TestingInv, TypeOK, testing, Readable
<1>3. CallDone'
  <2>1. call # "none" /\ image \in DOMAIN registry' => registry'[image] \in seen'
    BY <1>1 DEF Push, TestingInv, CallDone
  <2>2. seen \subseteq seen'
    BY DEF Push
  <2>3. QED BY <2>1, <2>2 DEF Push, TestingInv, CallDone
<1>4. QED BY <1>2, <1>3, ValuesKept, TestsKept DEF TestingInv, Push

LEMMA RemoveStep ==
    ASSUME TestingInv, NEW d \in Name, RemoveValues(d) PROVE TestingInv'
<1>1. TypeOK'
  BY DEF RemoveValues, TestingInv, TypeOK, world, generation, testing, Readable, IsRegistry
<1>2. ValuesDone'
  BY DEF RemoveValues, TestingInv, TypeOK, ValuesDone, Written
<1>3. QED BY <1>1, <1>2, CallKept, TestsKept DEF TestingInv, RemoveValues, world

-----------------------------------------------------------------------------
(* The steps of a call of GenerateTestingValues. *)
LEMMA StartStep ==
    ASSUME TestingInv, NEW d \in Name, StartGenerate(d) PROVE TestingInv'
<1>1. PICK r : image' = r /\ seen' = AnnotationsOf(r)
  BY DEF StartGenerate
<1>2. seen' \subseteq Annotations /\ (r \in DOMAIN registry => registry[r] \in seen')
  BY <1>1 DEF TestingInv, TypeOK, IsRegistry, AnnotationsOf
<1>3. UNCHANGED <<world, values, testing>>
  BY DEF StartGenerate
<1>4. TypeOK'
  <2>1. Readable(source)' /\ Readable(tree)' /\ IsRegistry(registry)'
    BY <1>3 DEF StartGenerate, TestingInv, TypeOK, Readable, IsRegistry, world
  <2>2. found' \in Annotations /\ infos' \in Seq(InfoRecord)
    BY DEF StartGenerate, NoAnnotations, Annotations
  <2>3. call' = "target" /\ calls' = calls + 1
    BY DEF StartGenerate
  <2>4. QED BY <1>2, <1>3, <2>1, <2>2, <2>3 DEF TestingInv, TypeOK, world, testing
<1>5. CallDone'
  BY <1>1, <1>2, <1>3 DEF StartGenerate, CallDone, Parses, world
<1>6. QED BY <1>3, <1>4, <1>5, ValuesKept, TestsKept DEF TestingInv

(* The first info is that of the target. *)
LEMMA ReadStep ==
    ASSUME TestingInv, ReadTarget PROVE TestingInv'
<1>1. PICK a \in AnnotationsOf(image) :
        /\ found' = a
        /\ infos' = <<Info(tree[target].name, tree[target].sqlName, image, a.sql,
                          tree[target].create)>>
  BY DEF ReadTarget
<1>2. image \in DOMAIN registry /\ a = registry[image]
  BY <1>1 DEF AnnotationsOf
<1>3. image \in Reference /\ a \in Annotations /\ a \in seen
  BY <1>2 DEF ReadTarget, TestingInv, TypeOK, IsRegistry, CallDone
<1>4. /\ target \in Name /\ Parses(tree, target) /\ IsMetadata(tree[target])
      /\ todo = tree[target].required /\ tree[target].required \in Seq(Dependency)
  BY DEF ReadTarget, TestingInv, TypeOK, CallDone, Readable, Parses, IsMetadata
<1>5. /\ call' = "dependencies"
      /\ UNCHANGED <<world, calls, target, tree, image, todo, seen, values, testing>>
  BY DEF ReadTarget
<1>6. infos'[1] \in InfoRecord /\ infos' \in Seq(InfoRecord) /\ Len(infos') = 1
  <2>1. Info(tree[target].name, tree[target].sqlName, image, a.sql, tree[target].create)
          \in InfoRecord
    BY <1>3, <1>4 DEF Info, InfoRecord, Annotations, IsMetadata
  <2>2. QED BY <1>1, <2>1
<1>7. TypeOK'
  <2>1. Readable(source)' /\ Readable(tree)' /\ IsRegistry(registry)'
    BY <1>5 DEF TestingInv, TypeOK, Readable, IsRegistry, world
  <2>2. QED BY <1>1, <1>3, <1>5, <1>6, <2>1 DEF TestingInv, TypeOK, world, testing
<1>8. CallDone'
  <2>1. InfosOf(tree, a, target, image, 0, infos')
    BY <1>1, <1>4, <1>6 DEF InfosOf
  <2>2. Len(tree[target].required) - Len(todo) = 0
    BY <1>4
  <2>3. target' \in Name /\ Parses(tree', target')
        /\ (image' \in DOMAIN registry' => registry'[image'] \in seen')
    BY <1>2, <1>3, <1>4, <1>5 DEF world
  <2>4. \A k \in 1..Len(todo) : todo[k] = tree[target].required[0 + k]
    BY <1>4
  <2>5. QED BY <1>1, <1>3, <1>4, <1>5, <2>1, <2>2, <2>3, <2>4 DEF CallDone
<1>9. QED BY <1>5, <1>7, <1>8, ValuesKept, TestsKept DEF TestingInv

(* The next info is that of the next dependency. *)
LEMMA AddStep ==
    ASSUME TestingInv, call = "dependencies", todo # <<>>,
           NEW info, InfoOf(tree, found, Head(todo), info), AddInfo(info)
    PROVE  TestingInv'
<1> DEFINE r == tree[target].required
           n == Len(r) - Len(todo)
<1>1. /\ target \in Name /\ Parses(tree, target) /\ Readable(tree)
      /\ r \in Seq(Dependency) /\ todo \in Seq(Dependency)
      /\ found \in seen /\ InfosOf(tree, found, target, image, n, infos)
      /\ \A k \in 1..Len(todo) : todo[k] = r[n + k]
  BY DEF TestingInv, TypeOK, CallDone, Readable, Parses, IsMetadata
<1>2. n \in Nat /\ n < Len(r) /\ Head(todo) = r[n + 1]
  BY <1>1 DEF InfosOf
<1>3. InfosOf(tree, found, target, image, n + 1, Append(infos, info))
  BY <1>1, <1>2, InfosGrow
<1>4. /\ infos' = Append(infos, info) /\ todo' = Tail(todo)
      /\ UNCHANGED <<world, calls, call, target, tree, image, found, seen, values, testing>>
  BY DEF AddInfo
<1>5. TypeOK'
  <2>1. Readable(source)' /\ Readable(tree)' /\ IsRegistry(registry)'
    BY <1>4 DEF TestingInv, TypeOK, Readable, IsRegistry, world
  <2>2. infos' \in Seq(InfoRecord)
    BY <1>3, <1>4 DEF InfosOf
  <2>3. QED BY <1>4, <2>1, <2>2 DEF TestingInv, TypeOK, world, testing
<1>6. CallDone'
  <2>1. /\ todo' \in Seq(Dependency) /\ Len(r) - Len(todo') = n + 1
        /\ \A k \in 1..Len(todo') : todo'[k] = r[n + 1 + k]
    BY <1>1, <1>2, <1>4
  <2>2. image \in DOMAIN registry => registry[image] \in seen
    BY DEF TestingInv, CallDone
  <2>3. QED BY <1>1, <1>3, <1>4, <2>1, <2>2 DEF CallDone, world
<1>7. QED BY <1>4, <1>5, <1>6, ValuesKept, TestsKept DEF TestingInv

(* Each kind of dependency becomes the info that InfoOf says. *)
LEMMA DependencyStep ==
    ASSUME TestingInv,
           BaseImageDependency \/ CatalogDependency \/ SiblingDependency
    PROVE  TestingInv'
<1>1. CASE BaseImageDependency
  <2>1. InfoOf(tree, found, Head(todo), Info(None, Head(todo).name, None, None, TRUE))
    BY <1>1 DEF BaseImageDependency, InfoOf
  <2>2. QED BY <1>1, <2>1, AddStep DEF BaseImageDependency
<1>2. CASE CatalogDependency
  <2>1. InfoOf(tree, found, Head(todo),
               Info(Head(todo).name, Head(todo).name, None, None, TRUE))
    BY <1>2 DEF CatalogDependency, InfoOf
  <2>2. QED BY <1>2, <2>1, AddStep DEF CatalogDependency
<1>3. CASE SiblingDependency
  <2> DEFINE m == tree[Head(todo).name]
  <2>1. PICK r \in GetExtensionImage(m, <<found.os, found.major>>) :
          \E a \in AnnotationsOf(r) :
            a.sql # None /\ AddInfo(Info(m.name, m.sqlName, r, a.sql, m.create))
    BY <1>3 DEF SiblingDependency
  <2> PICK a \in AnnotationsOf(r) :
        a.sql # None /\ AddInfo(Info(m.name, m.sqlName, r, a.sql, m.create))
    BY <2>1
  <2>2. a.sql \in Sql
    BY <2>1 DEF AnnotationsOf, TestingInv, TypeOK, IsRegistry, Annotations
  <2>3. InfoOf(tree, found, Head(todo), Info(m.name, m.sqlName, r, a.sql, m.create))
    BY <1>3, <2>1, <2>2 DEF SiblingDependency, InfoOf
  <2>4. QED BY <1>3, <2>1, <2>3, AddStep DEF SiblingDependency
<1>4. QED BY <1>1, <1>2, <1>3

LEMMA WriteStep ==
    ASSUME TestingInv, WriteValues PROVE TestingInv'
<1> DEFINE v == [pgImage |-> found.base, version |-> infos[1].version,
                 infos |-> infos, tree |-> tree, image |-> image, seen |-> seen]
<1>1. /\ target \in Name /\ found \in seen /\ Readable(tree)
      /\ tree[target].required \in Seq(Dependency)
      /\ InfosOf(tree, found, target, image, Len(tree[target].required), infos)
  BY DEF WriteValues, TestingInv, TypeOK, CallDone, Readable, Parses, IsMetadata
<1>2. values' = [values EXCEPT ![target] = v] /\ EndCall
      /\ UNCHANGED <<world, calls, testing>>
  BY DEF WriteValues
<1>3. TypeOK'
  <2>1. Readable(source)' /\ Readable(tree)' /\ IsRegistry(registry)'
    BY <1>2 DEF TestingInv, TypeOK, Readable, IsRegistry, world, EndCall, Unreadable
  <2>2. found' \in Annotations /\ infos' \in Seq(InfoRecord) /\ seen' \subseteq Annotations
        /\ call' = "none"
    BY <1>2 DEF EndCall, NoAnnotations, Annotations
  <2>3. DOMAIN values' = Name
    BY <1>2 DEF TestingInv, TypeOK
  <2>4. QED BY <1>2, <2>1, <2>2, <2>3 DEF TestingInv, TypeOK, world, testing
<1>4. ValuesDone'
  <2> SUFFICES ASSUME NEW d \in Name, values'[d] # None
               PROVE  /\ Readable(values'[d].tree)
                      /\ \E a \in values'[d].seen :
                           /\ values'[d].pgImage = a.base /\ values'[d].version = a.sql
                           /\ InfosOf(values'[d].tree, a, d, values'[d].image,
                                      Len(values'[d].tree[d].required), values'[d].infos)
    BY DEF ValuesDone, Written
  <2>1. CASE d = target
    <3>1. values'[d] = v
      BY <1>2, <2>1 DEF TestingInv, TypeOK
    <3>2. v.version = found.sql
      BY <1>1 DEF InfosOf, Info
    <3>3. QED BY <1>1, <2>1, <3>1, <3>2
  <2>2. CASE d # target
    <3>1. values'[d] = values[d]
      BY <1>2, <2>2 DEF TestingInv, TypeOK
    <3>2. QED BY <3>1 DEF TestingInv, ValuesDone, Written
  <2>3. QED BY <2>1, <2>2
<1>5. QED BY <1>2, <1>3, <1>4, CallOver, TestsKept DEF TestingInv

LEMMA FailStep ==
    ASSUME TestingInv, FailGenerate PROVE TestingInv'
<1>1. EndCall /\ UNCHANGED <<world, calls, values, testing>>
  BY DEF FailGenerate
<1>2. Readable(source)' /\ Readable(tree)' /\ IsRegistry(registry)'
  BY <1>1 DEF TestingInv, TypeOK, Readable, IsRegistry, world, EndCall, Unreadable
<1>3. found' \in Annotations /\ infos' \in Seq(InfoRecord) /\ seen' \subseteq Annotations
      /\ call' = "none"
  BY <1>1 DEF EndCall, NoAnnotations, Annotations
<1>4. TypeOK'
  BY <1>1, <1>2, <1>3 DEF TestingInv, TypeOK, world, testing
<1>5. QED BY <1>1, <1>4, CallOver, ValuesKept, TestsKept DEF TestingInv

-----------------------------------------------------------------------------
(* The steps of a call of Test. *)
LEMMA TestType ==
    ASSUME TestingInv, UNCHANGED <<world, generation, values>>,
           test' \in {"none", "running", "passed", "failed"},
           due' \subseteq Name, ready' \subseteq due', current' \in Name \cup {None},
           TestsDone'
    PROVE  TestingInv'
<1>1. Readable(source)' /\ Readable(tree)' /\ IsRegistry(registry)'
  BY DEF TestingInv, TypeOK, Readable, IsRegistry, world, generation
<1>2. TypeOK'
  BY <1>1 DEF TestingInv, TypeOK, world, generation
<1>3. QED BY <1>2, CallKept, ValuesKept DEF TestingInv, world

LEMMA StartTestStep ==
    ASSUME TestingInv, StartTestOne \/ StartTestAll PROVE TestingInv'
<1>1. DOMAIN source = Name
  BY DEF TestingInv, TypeOK, Readable
<1>2. PICK D \in SUBSET Name : StartTest(D)
  BY <1>1 DEF StartTestOne, StartTestAll, ExtensionDirectories
<1>3. TestsDone'
  BY <1>2 DEF StartTest, TestsDone
<1>4. QED BY <1>2, <1>3, TestType DEF StartTest

LEMMA RunSharedStep ==
    ASSUME TestingInv, NEW d \in Name, RunShared(d) PROVE TestingInv'
<1>1. TestsDone'
  BY NoneAssumption DEF RunShared, TestingInv, TestsDone, Shared, Own
<1>2. QED BY <1>1, TestType DEF RunShared, TestingInv, TypeOK

LEMMA RunOwnStep ==
    ASSUME TestingInv, RunOwn PROVE TestingInv'
<1>1. TestsDone'
  BY DEF RunOwn, TestingInv, TestsDone, Shared, Own
<1>2. QED BY <1>1, TestType DEF RunOwn, TestingInv, TypeOK

LEMMA EndTestStep ==
    ASSUME TestingInv, EndTest \/ FailTest PROVE TestingInv'
<1>1. TestsDone'
  BY DEF EndTest, FailTest, TestingInv, TestsDone
<1>2. QED BY <1>1, TestType DEF EndTest, FailTest, TestingInv, TypeOK

LEMMA TestingInvStep == TestingInv /\ [Next]_vars => TestingInv'
<1> SUFFICES ASSUME TestingInv, [Next]_vars PROVE TestingInv'
  OBVIOUS
<1>1. ASSUME NEW d \in Name,
             Scaffold(d) \/ Edit(d) \/ StartGenerate(d) \/ RemoveValues(d) \/ RunShared(d)
      PROVE  TestingInv'
  BY <1>1, ScaffoldStep, EditStep, StartStep, RemoveStep, RunSharedStep
<1>2. ASSUME NEW p \in Pushes, Push(p) PROVE TestingInv'
  BY <1>2, PushStep
<1>3. CASE UNCHANGED vars
  <2>1. UNCHANGED <<world, generation, values, testing>>
    BY <1>3 DEF vars
  <2>2. TestsDone'
    BY <2>1, TestsKept DEF TestingInv
  <2>3. QED BY <2>1, <2>2, TestType DEF TestingInv, TypeOK, testing
<1>4. QED
  BY <1>1, <1>2, <1>3, ReadStep, DependencyStep, WriteStep, FailStep,
     StartTestStep, RunOwnStep, EndTestStep DEF Next

(* TestingInv holds in every state of a run (GenerateTestingValues, Test). *)
THEOREM TestingInvariant == Spec => []TestingInv
BY InitTestingInv, TestingInvStep, PTL DEF Spec

-----------------------------------------------------------------------------
(* The values of an extension and its dependencies. *)
LEMMA WrittenValues ==
    ASSUME TestingInv, NEW d \in Written
    PROVE  LET v == values[d] IN
           /\ Readable(v.tree) /\ IsMetadata(v.tree[d])
           /\ v.tree[d].required \in Seq(Dependency)
           /\ \E a \in v.seen :
                /\ v.pgImage = a.base /\ v.version = a.sql
                /\ InfosOf(v.tree, a, d, v.image, Len(v.tree[d].required), v.infos)
BY DEF TestingInv, ValuesDone, Written, InfosOf, Parses, Readable, IsMetadata

LEMMA MomentFollows == TestingInv => ValuesOfOneMoment
<1> SUFFICES ASSUME TestingInv, NEW d \in Written
             PROVE  LET v == values[d] IN
                    \E a \in v.seen :
                      /\ v.pgImage = a.base /\ v.version = a.sql
                      /\ v.infos[1].reference = v.image
                      /\ \A i \in 2..Len(v.infos) : v.infos[i].reference # None =>
                           /\ v.infos[i].reference.distribution = a.os
                           /\ v.infos[i].reference.major = a.major
  BY DEF ValuesOfOneMoment
<1> DEFINE v == values[d]
           r == v.tree[d].required
<1>1. Readable(v.tree) /\ r \in Seq(Dependency)
  BY WrittenValues
<1>2. PICK a \in v.seen : /\ v.pgImage = a.base /\ v.version = a.sql
                          /\ InfosOf(v.tree, a, d, v.image, Len(r), v.infos)
  BY WrittenValues
<1>3. v.infos[1].reference = v.image
  BY <1>2 DEF InfosOf, Info
<1>4. ASSUME NEW i \in 2..Len(v.infos), v.infos[i].reference # None
      PROVE  v.infos[i].reference.distribution = a.os /\ v.infos[i].reference.major = a.major
  <2>1. i - 1 \in 1..Len(r) /\ InfoOf(v.tree, a, r[i - 1], v.infos[i])
    <3>1. i - 1 \in 1..Len(r) /\ (i - 1) + 1 = i
      BY <1>1, <1>2 DEF InfosOf
    <3>2. InfoOf(v.tree, a, r[i - 1], v.infos[(i - 1) + 1])
      BY <1>2, <3>1 DEF InfosOf
    <3>3. QED BY <3>1, <3>2
  <2>2. r[i - 1] \in Dependency
    BY <1>1, <2>1
  <2>3. /\ IsMetadata(v.tree[r[i - 1].name])
        /\ v.infos[i].reference
             \in GetExtensionImage(v.tree[r[i - 1].name], <<a.os, a.major>>)
    BY <1>1, <1>4, <2>1, <2>2, InfoReference
  <2>4. \A m, c : IsMetadata(m) =>
           \A q \in GetExtensionImage(m, c) : c = <<q.distribution, q.major>>
    BY ImageType
  <2>5. QED BY <2>3, <2>4
<1>5. QED BY <1>2, <1>3, <1>4

(* For every tree and registry, the values of an extension describe one    *)
(* image that was under its tag (GenerateTestingValues, imageLocator).     *)
THEOREM ValuesAreOfOneMoment == Spec => []ValuesOfOneMoment
BY TestingInvariant, MomentFollows, PTL

(* A sibling among the infos is the one that is required, at its place. *)
LEMMA SiblingRequired ==
    ASSUME TestingInv, NEW d \in Written, NEW i \in Siblings(values[d])
    PROVE  LET v == values[d]
               r == v.infos[i].reference
               s == Required(v, d, i) IN
           /\ s \in Name /\ Parses(v.tree, s) /\ IsMetadata(v.tree[s])
           /\ \E c : r \in GetExtensionImage(v.tree[s], c)
<1> DEFINE v == values[d]
           q == v.tree[d].required
<1>1. Readable(v.tree) /\ q \in Seq(Dependency)
  BY WrittenValues
<1>2. PICK a \in v.seen : InfosOf(v.tree, a, d, v.image, Len(q), v.infos)
  BY WrittenValues
<1>3. i - 1 \in 1..Len(q) /\ (i - 1) + 1 = i
  BY <1>1, <1>2 DEF InfosOf, Siblings
<1>4. InfoOf(v.tree, a, q[i - 1], v.infos[(i - 1) + 1])
  BY <1>2, <1>3 DEF InfosOf
<1>5. InfoOf(v.tree, a, q[i - 1], v.infos[i]) /\ v.infos[i].reference # None
  BY <1>3, <1>4 DEF Siblings
<1>6. q[i - 1] \in Dependency /\ Required(v, d, i) = q[i - 1].name
  BY <1>1, <1>3 DEF Required
<1>7. QED BY <1>1, <1>5, <1>6, InfoReference

LEMMA BakedFollows == TestingInv => SiblingTagsBaked
<1> SUFFICES ASSUME TestingInv, NEW d \in Written, NEW i \in Siblings(values[d])
             PROVE  LET v == values[d]
                        r == v.infos[i].reference
                        s == Required(v, d, i) IN
                    /\ Parses(v.tree, s)
                    /\ \A g \in BakeRegistry, e \in Environment :
                         [r EXCEPT !.repository = BakeRepository(v.tree[s], g, e)]
                           \in BakeTags(v.tree[s], <<r.distribution, r.major>>, g, e)
  BY DEF SiblingTagsBaked
<1> DEFINE v == values[d]
           r == v.infos[i].reference
           s == Required(v, d, i)
           m == v.tree[s]
<1>1. Parses(v.tree, s) /\ IsMetadata(m)
  BY SiblingRequired
<1>2. PICK c : r \in GetExtensionImage(m, c)
  BY SiblingRequired
<1> HIDE DEF m, r
<1>3. /\ c = <<r.distribution, r.major>>
      /\ \A g \in BakeRegistry, e \in Environment :
           [r EXCEPT !.repository = BakeRepository(m, g, e)] \in BakeTags(m, c, g, e)
  BY <1>1, <1>2, ImageType
<1>4. QED BY <1>1, <1>3 DEF m, r

(* For every tree and package version, the image of a sibling is referred  *)
(* to by the tag that the bake of that sibling pushes for that combination *)
(* (extractExtensionVersion, getExtensionVersion), in another repository.  *)
THEOREM SiblingTagsAreBaked == Spec => []SiblingTagsBaked
BY TestingInvariant, BakedFollows, PTL

LEMMA UpstreamFollows == TestingInv => SiblingsAreUpstreams
<1> SUFFICES ASSUME TestingInv, NEW d \in Written, NEW i \in Siblings(values[d])
             PROVE  LET v == values[d]
                        r == v.infos[i].reference IN
                    /\ r.repository = UpstreamRepository(v.tree[Required(v, d, i)])
                    /\ \A s \in Name, c \in Combo, g \in BakeRegistry, e \in Environment :
                         Parses(v.tree, s) => r \notin BakeTags(v.tree[s], c, g, e)
  BY DEF SiblingsAreUpstreams
<1> DEFINE v == values[d]
           r == v.infos[i].reference
           m == v.tree[Required(v, d, i)]
<1>1. IsMetadata(m) /\ \E c : r \in GetExtensionImage(m, c)
  BY SiblingRequired
<1> HIDE DEF m, r
<1>2. r.repository = UpstreamRepository(m)
  BY <1>1, ImageType
<1>3. r.repository.registry = Upstream
  BY <1>2 DEF UpstreamRepository
<1>4. \A n, c, e : \A g \in BakeRegistry : r \notin BakeTags(n, c, g, e)
  BY <1>3, BakeTagsOwned
<1>5. QED BY <1>2, <1>4 DEF m, r

(* Whatever the tree, the values name no image of a sibling that a bake of *)
(* this repository pushes: it is upstream's (getExtensionImage).           *)
THEOREM SiblingsNameUpstream == Spec => []SiblingsAreUpstreams
BY TestingInvariant, UpstreamFollows, PTL

LEMMA CreatedFollows == TestingInv => CreatedIsThere
<1> SUFFICES ASSUME TestingInv, NEW d \in Written PROVE
      LET v == values[d]
          m == v.tree[d] IN
      /\ \A i \in Created(v) :
           \/ i \in Mounted(v)
           \/ [kind |-> "base-image", name |-> v.infos[i].sqlName]
                \in {m.required[k] : k \in DOMAIN m.required}
      /\ \A k \in DOMAIN m.required :
           LET r == m.required[k]
               sibling == r.kind = "sibling" /\ v.tree[r.name] # Absent IN
           \/ sibling /\ ~ v.tree[r.name].create
           \/ \E i \in Created(v) :
                v.infos[i].sqlName = IF sibling THEN v.tree[r.name].sqlName ELSE r.name
  BY DEF CreatedIsThere
<1> DEFINE v == values[d]
           m == v.tree[d]
           r == m.required
<1>1. Readable(v.tree) /\ r \in Seq(Dependency) /\ IsMetadata(m)
  BY WrittenValues
<1>2. PICK a \in v.seen : InfosOf(v.tree, a, d, v.image, Len(r), v.infos)
  BY WrittenValues
<1>3. /\ v.infos \in Seq(InfoRecord) /\ Len(v.infos) = Len(r) + 1
      /\ v.infos[1] = Info(m.name, m.sqlName, v.image, a.sql, m.create)
      /\ \A k \in 1..Len(r) : InfoOf(v.tree, a, r[k], v.infos[k + 1])
  BY <1>2 DEF InfosOf
<1>4. ASSUME NEW i \in Created(v)
      PROVE  \/ i \in Mounted(v)
             \/ [kind |-> "base-image", name |-> v.infos[i].sqlName] \in {r[k] : k \in DOMAIN r}
  <2>1. i \in 1..(Len(r) + 1) /\ i \in DOMAIN v.infos
    BY <1>1, <1>3 DEF Created
  <2>2. CASE i = 1
    <3>1. v.infos[1].name # None
      BY <1>1, <1>3, NoneAssumption DEF Info, IsMetadata
    <3>2. QED BY <2>1, <2>2, <3>1 DEF Mounted
  <2>3. CASE i # 1
    <3> DEFINE k == i - 1
    <3>1. k \in 1..Len(r) /\ k \in DOMAIN r /\ k + 1 = i /\ r[k] \in Dependency
      BY <1>1, <2>1, <2>3
    <3>2. InfoOf(v.tree, a, r[k], v.infos[i])
      <4>1. InfoOf(v.tree, a, r[k], v.infos[k + 1])
        BY <1>3, <3>1
      <4>2. QED BY <3>1, <4>1
    <3>3. CASE r[k].kind = "base-image"
      <4>1. v.infos[i].sqlName = r[k].name
        BY <3>2, <3>3 DEF InfoOf, Info
      <4>2. [kind |-> "base-image", name |-> v.infos[i].sqlName] = r[k]
        BY <3>1, <3>3, <4>1 DEF Dependency
      <4>3. QED BY <3>1, <4>2
    <3>4. CASE r[k].kind = "sibling"
      <4>1. v.infos[i].name \in Name
        BY <1>1, <3>1, <3>2, <3>4, SiblingInfo
      <4>2. QED BY <2>1, <4>1, NoneAssumption DEF Mounted
    <3>5. QED BY <3>1, <3>3, <3>4 DEF Dependency
  <2>4. QED BY <2>2, <2>3
<1>5. ASSUME NEW k \in DOMAIN r
      PROVE  LET sibling == r[k].kind = "sibling" /\ v.tree[r[k].name] # Absent IN
             \/ sibling /\ ~ v.tree[r[k].name].create
             \/ \E i \in Created(v) :
                  v.infos[i].sqlName = IF sibling THEN v.tree[r[k].name].sqlName ELSE r[k].name
  <2> HIDE DEF v, r
  <2>1. k \in 1..Len(r) /\ k + 1 \in DOMAIN v.infos /\ InfoOf(v.tree, a, r[k], v.infos[k + 1])
    <3>1. k \in 1..Len(r)
      BY <1>1, <1>5
    <3>2. k + 1 \in 1..Len(v.infos)
      BY <1>1, <1>3, <3>1
    <3>3. QED BY <1>3, <3>1, <3>2
  <2> r[k] \in Dependency
    BY <1>1, <1>5
  <2>2. CASE r[k].kind = "base-image"
    <3>1. v.infos[k + 1] = Info(None, r[k].name, None, None, TRUE)
      BY <2>1, <2>2 DEF InfoOf
    <3>2. k + 1 \in Created(v) /\ v.infos[k + 1].sqlName = r[k].name
      BY <2>1, <3>1 DEF Created, Info
    <3>3. QED BY <2>2, <3>2
  <2>3. CASE r[k].kind = "sibling" /\ v.tree[r[k].name] = Absent
    <3>1. v.infos[k + 1].create /\ v.infos[k + 1].sqlName = r[k].name
      <4>1. r[k].kind = "sibling" /\ InfoOf(v.tree, a, r[k], v.infos[k + 1])
        BY <2>1, <2>3
      <4> DEFINE info == v.infos[k + 1]
                 t == v.tree
                 e == r[k]
      <4>2. /\ Readable(t) /\ e \in Dependency /\ e.kind = "sibling"
            /\ InfoOf(t, a, e, info) /\ t[e.name] = Absent
        BY <1>1, <2>3, <4>1
      <4> HIDE DEF info, t, e
      <4>3. info.create /\ info.sqlName = e.name
        BY <4>2, SiblingInfo
      <4>4. QED BY <4>3 DEF info, e
    <3>2. k + 1 \in Created(v)
      BY <2>1, <3>1 DEF Created
    <3>3. QED BY <2>3, <3>1, <3>2
  <2>4. CASE r[k].kind = "sibling" /\ v.tree[r[k].name] # Absent
    <3>1. /\ v.infos[k + 1].sqlName = v.tree[r[k].name].sqlName
          /\ v.infos[k + 1].create = v.tree[r[k].name].create
      <4>1. r[k].kind = "sibling" /\ InfoOf(v.tree, a, r[k], v.infos[k + 1])
        BY <2>1, <2>4
      <4> DEFINE info == v.infos[k + 1]
                 t == v.tree
                 e == r[k]
      <4>2. /\ Readable(t) /\ e \in Dependency /\ e.kind = "sibling"
            /\ InfoOf(t, a, e, info) /\ t[e.name] # Absent
        BY <1>1, <2>4, <4>1
      <4> HIDE DEF info, t, e
      <4>3. info.sqlName = t[e.name].sqlName /\ info.create = t[e.name].create
        BY <4>2, SiblingInfo
      <4>4. QED BY <4>3 DEF info, t, e
    <3>2. CASE v.tree[r[k].name].create
      BY <2>1, <2>4, <3>1, <3>2 DEF Created
    <3>3. CASE ~ v.tree[r[k].name].create
      BY <2>4, <3>3
    <3>4. QED BY <3>2, <3>3
  <2>5. QED BY <2>2, <2>3, <2>4 DEF Dependency
<1>6. QED BY <1>4, <1>5

(* What the database is to create is mounted or in the base image, and     *)
(* everything that is required is created (generateDatabaseConfig).        *)
THEOREM CreatedAreThere == Spec => []CreatedIsThere
BY TestingInvariant, CreatedFollows, PTL

(* A passed call of Test has covered what it was to test (Test).           *)
THEOREM GreenIsCovering == Spec => []GreenCovers
<1>1. TestingInv => GreenCovers
  BY NoneAssumption DEF TestingInv, TypeOK, TestsDone, GreenCovers
<1>2. QED BY <1>1, TestingInvariant, PTL
=============================================================================
