------------------------ MODULE SbomGenerationProofs ------------------------
(***************************************************************************)
(* Theorems about SbomGeneration: lemmas about compose for every scanner   *)
(* document and payload, then the invariants of a run.                     *)
(***************************************************************************)
EXTENDS SbomGeneration, GreatestNumber, FiniteSetTheorems, TLAPS

(* A payload file is matched to builder files of its content, owned ones   *)
(* if there are any.                                                       *)
LEMMA SourcesMatch ==
  ASSUME NEW b, NEW f, NEW n
  PROVE  /\ Sources(b, f, n) \subseteq Selected(b, f, n)
         /\ Selected(b, f, n) \subseteq Preferred(b, f[n])
         /\ Preferred(b, f[n]) \subseteq Candidates(b, f[n])
         /\ Candidates(b, f[n]) \subseteq DOMAIN b.files
BY DEF Sources, Selected, Preferred, Candidates

(* What is matched is a file of the builder and no other element.          *)
LEMMA MatchedFiles ==
  ASSUME NEW b, BuilderDocument(b), NEW f
  PROVE  /\ Matched(Match(b, f)) \subseteq DOMAIN b.files
         /\ DOMAIN b.files \subseteq FileId
<1>1. Matched(Match(b, f)) \subseteq DOMAIN b.files
  BY SourcesMatch DEF Matched, Match
<1>2. QED BY <1>1 DEF BuilderDocument

(* Packages, files and documents do not have each other's identifiers.     *)
LEMMA Identifiers ==
  ASSUME NEW x \in Package, NEW y \in FileId, NEW z \in PayloadFile
  PROVE  /\ x # y /\ x # z /\ x # DocumentId
         /\ y # z /\ y # DocumentId /\ z # DocumentId
BY IdentifierAssumption

(* The files of a composed document are payload files. *)
LEMMA ComposedFilesType ==
  ASSUME NEW f, Payload(f), NEW n \in DOMAIN f
  PROVE  <<n, f[n]>> \in PayloadFile
BY DEF Payload, PayloadFile

(* A matched file becomes the payload files it is matched to, and there is *)
(* one at least.                                                           *)
LEMMA ToFinalOf ==
  ASSUME NEW b, NEW f, NEW s, NEW n
  PROVE  /\ ToFinal(f, Match(b, f), s) \subseteq ComposedFiles(f)
         /\ n \in DOMAIN f /\ s \in Sources(b, f, n) =>
              /\ <<n, f[n]>> \in ToFinal(f, Match(b, f), s)
              /\ s \in Matched(Match(b, f))
         /\ n \in DOMAIN f /\ <<n, f[n]>> \in ToFinal(f, Match(b, f), s) =>
              s \in Sources(b, f, n)
BY DEF ToFinal, Match, ComposedFiles, Matched

(* An element that is not removed is one of the composed document, or has  *)
(* become some.                                                            *)
LEMMA RenamedKept ==
  ASSUME NEW b, BuilderDocument(b), NEW f,
         NEW x \in b.packages \cup DOMAIN b.files \cup {DocumentId},
         x \notin Removed(b, Match(b, f))
  PROVE  Renamed(f, Match(b, f), x)
           \subseteq Retained(b, Match(b, f)) \cup ComposedFiles(f) \cup {DocumentId}
<1>1. CASE x \in Matched(Match(b, f))
  BY <1>1, ToFinalOf DEF Renamed
<1>2. CASE x \notin Matched(Match(b, f))
  BY <1>2 DEF Renamed, Removed
<1>3. QED BY <1>1, <1>2

(* Retained packages are analysed packages of the scanner's document.      *)
LEMMA RetainedEligible ==
  ASSUME NEW b, BuilderDocument(b), NEW m
  PROVE  Retained(b, m) \subseteq b.eligible /\ b.eligible \subseteq b.packages
         /\ b.packages \subseteq Package
BY DEF Retained, Owners, BuilderDocument

(* A composed document relates its own elements only. *)
LEMMA ComposedClosed ==
  ASSUME NEW b, BuilderDocument(b), NEW f
  PROVE  Closed(Composed(b, f))
<1> DEFINE m == Match(b, f)
           D == Retained(b, m) \cup ComposedFiles(f) \cup {DocumentId}
<1>1. ASSUME NEW r \in Carried(b, f, m)
      PROVE  {r[1], r[3]} \subseteq D
  <2>1. PICK q \in b.relationships :
           /\ q[1] \notin Removed(b, m) /\ q[3] \notin Removed(b, m)
           /\ r \in Renamed(f, m, q[1]) \X {q[2]} \X Renamed(f, m, q[3])
    BY <1>1 DEF Carried
  <2>2. {q[1], q[3]} \subseteq b.packages \cup DOMAIN b.files \cup {DocumentId}
    BY DEF BuilderDocument
  <2>3. Renamed(f, m, q[1]) \subseteq D /\ Renamed(f, m, q[3]) \subseteq D
    BY <2>1, <2>2, RenamedKept
  <2>4. QED BY <2>1, <2>3
<1>2. ASSUME NEW r \in {DocumentId} \X {"DESCRIBES"} \X Described(b, f, m)
      PROVE  {r[1], r[3]} \subseteq D
  BY <1>2 DEF Described
<1>3. QED BY <1>1, <1>2 DEF Closed, Composed

(* compose's claims: a package claims a shipped file if and only if it     *)
(* owns a builder file that the shipped one is matched to.                 *)
LEMMA ClaimIff ==
  ASSUME NEW b, BuilderDocument(b), NEW f, Payload(f),
         NEW p \in Package, NEW n \in DOMAIN f
  PROVE  <<p, "CONTAINS", <<n, f[n]>>>> \in Composed(b, f).relationships
           <=> \E s \in Sources(b, f, n) : p \in Owners(b, s)
<1> DEFINE m == Match(b, f)
           x == <<n, f[n]>>
           claim == <<p, "CONTAINS", x>>
<1>1. x \in PayloadFile
  BY ComposedFilesType
<1>2. claim \in Composed(b, f).relationships <=> claim \in Carried(b, f, m)
  BY DEF Composed
<1>3. ASSUME claim \in Carried(b, f, m)
      PROVE  \E s \in Sources(b, f, n) : p \in Owners(b, s)
  <2>1. PICK q \in b.relationships :
           /\ q[1] \notin Removed(b, m) /\ q[3] \notin Removed(b, m)
           /\ claim \in Renamed(f, m, q[1]) \X {q[2]} \X Renamed(f, m, q[3])
    BY <1>3 DEF Carried
  <2>2. p \in Renamed(f, m, q[1]) /\ q[2] = "CONTAINS" /\ x \in Renamed(f, m, q[3])
    BY <2>1
  <2>3. /\ q = <<q[1], q[2], q[3]>>
        /\ q[1] \in b.packages \cup DOMAIN b.files \cup {DocumentId}
        /\ q[3] \in b.packages \cup DOMAIN b.files \cup {DocumentId}
    BY DEF BuilderDocument
  <2>4. q[1] = p
    <3>1. ToFinal(f, m, q[1]) \subseteq PayloadFile
      <4>1. ToFinal(f, m, q[1]) \subseteq ComposedFiles(f)
        BY ToFinalOf
      <4>2. ComposedFiles(f) \subseteq PayloadFile
        BY ComposedFilesType DEF ComposedFiles
      <4>3. QED BY <4>1, <4>2
    <3>2. QED BY <2>2, <3>1, IdentifierAssumption DEF Renamed
  <2>5. p \in b.packages
    BY <2>3, <2>4, MatchedFiles, IdentifierAssumption
  <2>6. p \in b.eligible
    BY <2>1, <2>4, <2>5, RetainedEligible DEF Removed
  <2>7. q[3] # x
    BY <1>1, <2>3, MatchedFiles, RetainedEligible, IdentifierAssumption
  <2>8. x \in ToFinal(f, m, q[3])
    BY <2>2, <2>7 DEF Renamed
  <2>9. q[3] \in Sources(b, f, n)
    BY <2>8, ToFinalOf
  <2>10. QED BY <2>2, <2>3, <2>4, <2>6, <2>9 DEF Owners
<1>4. ASSUME NEW s \in Sources(b, f, n), p \in Owners(b, s)
      PROVE  claim \in Carried(b, f, m)
  <2>1. s \in Matched(m) /\ x \in ToFinal(f, m, s)
    BY ToFinalOf
  <2>2. p \in Retained(b, m)
    BY <1>4, <2>1 DEF Retained
  <2>3. s \in FileId /\ s \in DOMAIN b.files
    BY <2>1, MatchedFiles
  <2>4. p \notin Removed(b, m)
    BY <2>2, MatchedFiles, IdentifierAssumption DEF Removed
  <2>5. s \notin Removed(b, m)
    BY <2>1, <2>3, RetainedEligible, IdentifierAssumption DEF Removed
  <2>6. p \in Renamed(f, m, p) /\ x \in Renamed(f, m, s)
    BY <2>1, MatchedFiles, IdentifierAssumption DEF Renamed
  <2>7. <<p, "CONTAINS", s>> \in b.relationships
    BY <1>4 DEF Owners
  <2>8. QED BY <2>4, <2>5, <2>6, <2>7 DEF Carried
<1>5. QED BY <1>2, <1>3, <1>4

(* Every retained package claims a file. *)
LEMMA RetainedClaims ==
  ASSUME NEW b, BuilderDocument(b), NEW f, Payload(f),
         NEW p \in Composed(b, f).packages
  PROVE  \E x \in Composed(b, f).files :
           <<p, "CONTAINS", x>> \in Composed(b, f).relationships
<1>1. p \in Retained(b, Match(b, f))
  BY DEF Composed
<1>2. p \in Package
  BY <1>1, RetainedEligible
<1>3. PICK s \in Matched(Match(b, f)) : p \in Owners(b, s)
  BY <1>1 DEF Retained
<1>4. PICK n \in DOMAIN f : s \in Sources(b, f, n)
  BY <1>3 DEF Matched, Match
<1>5. <<p, "CONTAINS", <<n, f[n]>>>> \in Composed(b, f).relationships
  BY <1>2, <1>3, <1>4, ClaimIff
<1>6. QED BY <1>5 DEF Composed, ComposedFiles

-----------------------------------------------------------------------------
(* As many numbers as the last of them says. *)
LEMMA IntervalSize ==
  ASSUME NEW n \in Nat
  PROVE  IsFiniteSet(1..n) /\ Cardinality(1..n) = n
<1>1. /\ IsFiniteSet(1..n)
      /\ Cardinality(1..n) = IF 1 > n THEN 0 ELSE n - 1 + 1
  BY FS_Interval
<1>2. (IF 1 > n THEN 0 ELSE n - 1 + 1) = n
  OBVIOUS
<1>3. QED BY <1>1, <1>2

(* The suffix two names share is no longer than either of them. *)
LEMMA SuffixBounded ==
  ASSUME NEW p \in Path, NEW q \in Path
  PROVE  SharedSuffix(p, q) \in Nat /\ SharedSuffix(p, q) <= Len(q)
<1> DEFINE S == {k \in 1..Len(p) :
                   k <= Len(q) /\ \A i \in 0..(k - 1) : p[Len(p) - i] = q[Len(q) - i]}
<1>1. Len(q) \in Nat
  BY PathAssumption
<1>2. S \subseteq 1..Len(q)
  BY <1>1
<1>3. IsFiniteSet(1..Len(q)) /\ Cardinality(1..Len(q)) = Len(q)
  BY <1>1, IntervalSize
<1>4. IsFiniteSet(S) /\ Cardinality(S) <= Cardinality(1..Len(q))
  BY <1>2, <1>3, FS_Subset
<1>5. Cardinality(S) \in Nat
  BY <1>4, FS_CardinalityType
<1>6. QED BY <1>3, <1>4, <1>5 DEF SharedSuffix

(* A name shares all of itself with itself. *)
LEMMA SuffixOfItself ==
  ASSUME NEW p \in Path
  PROVE  SharedSuffix(p, p) = Len(p)
<1>1. Len(p) \in Nat
  BY PathAssumption
<1>2. {k \in 1..Len(p) : k <= Len(p) /\ \A i \in 0..(k - 1) : p[Len(p) - i] = p[Len(p) - i]}
        = 1..Len(p)
  BY <1>1
<1>3. IsFiniteSet(1..Len(p)) /\ Cardinality(1..Len(p)) = Len(p)
  BY <1>1, IntervalSize
<1>4. QED BY <1>2, <1>3 DEF SharedSuffix

(* Builder files have names. *)
LEMMA NameType ==
  ASSUME NEW b, BuilderDocument(b), NEW s \in DOMAIN b.files
  PROVE  Name(b, s) \in Path
BY DEF BuilderDocument, Name

(* An owned file that is matched fits strictly better than any owned file  *)
(* of another name, or exactly.                                            *)
LEMMA MatchFitsBest ==
  ASSUME NEW b, BuilderDocument(b), NEW f, Payload(f), NEW n \in DOMAIN f,
         NEW s \in Sources(b, f, n), Owners(b, s) # {},
         NEW r \in Candidates(b, f[n]), Owners(b, r) # {}, Name(b, r) # Name(b, s)
  PROVE  \/ Name(b, s) = n
         \/ SharedSuffix(Name(b, r), n) < SharedSuffix(Name(b, s), n)
<1> DEFINE P == Preferred(b, f[n])
           suffix(t) == SharedSuffix(Name(b, t), n)
<1>1. n \in Path
  BY DEF Payload
<1>2. s \in P /\ r \in P
  BY SourcesMatch DEF Preferred
<1>3. \A t \in P : suffix(t) \in Nat
  BY <1>1, SourcesMatch, NameType, SuffixBounded
<1>4. \A t \in P : ~Better(n, Name(b, t), Name(b, s))
  BY SourcesMatch DEF Selected
<1>5. r \notin Selected(b, f, n)
  BY DEF Sources
<1>6. PICK t \in P : Better(n, Name(b, t), Name(b, r))
  BY <1>2, <1>5 DEF Selected
<1>7. SUFFICES ASSUME Name(b, s) # n, suffix(r) >= suffix(s)
               PROVE  FALSE
  BY <1>2, <1>3
<1>8. suffix(r) = suffix(s)
  BY <1>2, <1>3, <1>4, <1>7 DEF Better
<1>9. CASE suffix(t) > suffix(r)
  BY <1>2, <1>3, <1>4, <1>8, <1>9 DEF Better
<1>10. CASE suffix(t) = suffix(r) /\ Name(b, t) = n
  BY <1>4, <1>7, <1>8, <1>10 DEF Better
<1>11. QED BY <1>6, <1>9, <1>10 DEF Better

(* If owned files are at the very name, they are what is matched. *)
LEMMA ExactIsMatched ==
  ASSUME NEW b, BuilderDocument(b), NEW f, Payload(f), NEW n \in DOMAIN f,
         NEW E, E = {s \in Candidates(b, f[n]) : Name(b, s) = n /\ Owners(b, s) # {}},
         E # {}
  PROVE  Sources(b, f, n) = E
<1> DEFINE P == Preferred(b, f[n])
           suffix(t) == SharedSuffix(Name(b, t), n)
<1>1. n \in Path
  BY DEF Payload
<1>2. /\ E \subseteq P
      /\ \A t \in P : t \in Candidates(b, f[n]) /\ Owners(b, t) # {}
  BY DEF Preferred
<1>3. \A t \in P : suffix(t) \in Nat /\ suffix(t) <= Len(n)
  BY <1>1, SourcesMatch, NameType, SuffixBounded
<1>4. \A t \in E : suffix(t) = Len(n)
  BY <1>1, SuffixOfItself
<1>5. ASSUME NEW s \in E
      PROVE  s \in Selected(b, f, n)
  <2>1. ASSUME NEW t \in P
        PROVE  ~Better(n, Name(b, t), Name(b, s))
    BY <1>2, <1>3, <1>4, <1>5 DEF Better
  <2>2. QED BY <1>2, <2>1 DEF Selected
<1>6. ASSUME NEW s \in Selected(b, f, n)
      PROVE  s \in E
  <2>1. PICK e \in E : TRUE
    OBVIOUS
  <2>2. s \in P /\ ~Better(n, Name(b, e), Name(b, s))
    BY <1>2, SourcesMatch DEF Selected
  <2>3. Name(b, s) = n
    BY <1>2, <1>3, <1>4, <2>2 DEF Better
  <2>4. QED BY <1>2, <2>2, <2>3
<1>7. Selected(b, f, n) = E
  BY <1>5, <1>6
<1>8. \A r, s \in E : Name(b, r) = Name(b, s)
  OBVIOUS
<1>9. QED BY <1>7, <1>8 DEF Sources

(* Of several files one at least is selected: one that is at the very name *)
(* or one whose suffix is longest.                                         *)
LEMMA SomeSelected ==
  ASSUME NEW b, BuilderDocument(b), NEW f, Payload(f), NEW n \in DOMAIN f,
         Preferred(b, f[n]) # {}
  PROVE  Selected(b, f, n) # {}
<1> DEFINE P == Preferred(b, f[n])
           suffix(t) == SharedSuffix(Name(b, t), n)
           M == {suffix(t) : t \in P}
<1>1. n \in Path /\ Len(n) \in Nat
  BY PathAssumption DEF Payload
<1>2. \A t \in P : suffix(t) \in Nat /\ suffix(t) <= Len(n)
  BY <1>1, SourcesMatch, NameType, SuffixBounded
<1>3. M \in SUBSET (0..Len(n)) /\ M # {}
  BY <1>1, <1>2
<1>4. PICK m \in M : \A k \in M : k <= m
  BY <1>1, <1>3, HasGreatest
<1>5. PICK s \in P : m = suffix(s)
  BY <1>4
<1>6. \A t \in P : suffix(t) <= suffix(s)
  BY <1>4, <1>5
<1>7. CASE \E e \in P : suffix(e) = suffix(s) /\ Name(b, e) = n
  <2>1. PICK e \in P : suffix(e) = suffix(s) /\ Name(b, e) = n
    BY <1>7
  <2>2. \A t \in P : ~Better(n, Name(b, t), Name(b, e))
    BY <1>2, <1>6, <2>1 DEF Better
  <2>3. QED BY <2>1, <2>2 DEF Selected
<1>8. CASE \A e \in P : suffix(e) = suffix(s) => Name(b, e) # n
  <2>1. \A t \in P : ~Better(n, Name(b, t), Name(b, s))
    BY <1>2, <1>5, <1>6, <1>8 DEF Better
  <2>2. QED BY <1>5, <2>1 DEF Selected
<1>9. QED BY <1>7, <1>8

(* If owned files are matched to nothing, two of them fit equally well.    *)
LEMMA UnmatchedIsAmbiguous ==
  ASSUME NEW b, BuilderDocument(b), NEW f, Payload(f), NEW n \in DOMAIN f,
         \E s \in Candidates(b, f[n]) : Owners(b, s) # {},
         Sources(b, f, n) = {}
  PROVE  \E r, s \in Preferred(b, f[n]) :
           /\ Name(b, r) # Name(b, s) /\ n \notin {Name(b, r), Name(b, s)}
           /\ SharedSuffix(Name(b, r), n) = SharedSuffix(Name(b, s), n)
           /\ \A t \in Preferred(b, f[n]) :
                SharedSuffix(Name(b, t), n) <= SharedSuffix(Name(b, s), n)
<1> DEFINE suffix(t) == SharedSuffix(Name(b, t), n)
           O == Preferred(b, f[n])
<1>1. O # {}
  BY DEF Preferred
<1>2. n \in Path
  BY DEF Payload
<1>3. \A t \in O : suffix(t) \in Nat
  BY <1>1, <1>2, SourcesMatch, NameType, SuffixBounded
<1>4. PICK r, s \in Selected(b, f, n) : Name(b, r) # Name(b, s)
  BY <1>1, SomeSelected DEF Sources
<1>5. /\ r \in O /\ \A t \in O : ~Better(n, Name(b, t), Name(b, r))
      /\ s \in O /\ \A t \in O : ~Better(n, Name(b, t), Name(b, s))
  BY <1>1 DEF Selected
<1>6. \A t \in O : suffix(t) <= suffix(r) /\ suffix(t) <= suffix(s)
  BY <1>3, <1>5 DEF Better
<1>7. suffix(r) = suffix(s)
  BY <1>3, <1>5, <1>6
<1>8. n \notin {Name(b, r), Name(b, s)}
  BY <1>4, <1>5, <1>7 DEF Better
<1>9. QED BY <1>4, <1>5, <1>6, <1>7, <1>8

-----------------------------------------------------------------------------
(* The inductive invariant of a run. *)

(* What is composed is a document of this image. *)
LEMMA ComposedType ==
  ASSUME NEW b, BuilderDocument(b), NEW f, Payload(f)
  PROVE  /\ Composed(b, f).packages \subseteq Package
         /\ Composed(b, f).files \subseteq PayloadFile
         /\ Composed(b, f).relationships \subseteq Element \X RelationshipType \X Element
<1> DEFINE m == Match(b, f)
           D == Retained(b, m) \cup ComposedFiles(f) \cup {DocumentId}
<1>1. Retained(b, m) \subseteq Package
  BY RetainedEligible
<1>2. ComposedFiles(f) \subseteq PayloadFile
  BY ComposedFilesType DEF ComposedFiles
<1>3. ASSUME NEW r \in Carried(b, f, m)
      PROVE  r \in D \X RelationshipType \X D
  <2>1. PICK q \in b.relationships :
           /\ q[1] \notin Removed(b, m) /\ q[3] \notin Removed(b, m)
           /\ r \in Renamed(f, m, q[1]) \X {q[2]} \X Renamed(f, m, q[3])
    BY <1>3 DEF Carried
  <2>2. /\ {q[1], q[3]} \subseteq b.packages \cup DOMAIN b.files \cup {DocumentId}
        /\ q[2] \in RelationshipType
    BY DEF BuilderDocument
  <2>3. Renamed(f, m, q[1]) \subseteq D /\ Renamed(f, m, q[3]) \subseteq D
    BY <2>1, <2>2, RenamedKept
  <2>4. QED BY <2>1, <2>2, <2>3
<1>4. Described(b, f, m) \subseteq D
  BY DEF Described
<1>5. "DESCRIBES" \in RelationshipType
  BY DEF RelationshipType
<1>6. D \subseteq Element
  BY <1>1, <1>2 DEF Element
<1>7. Composed(b, f).relationships \subseteq Element \X RelationshipType \X Element
  BY <1>3, <1>4, <1>5, <1>6 DEF Composed
<1>8. QED BY <1>1, <1>2, <1>7 DEF Composed

(* A run starts from a document and a payload that may be, with nothing    *)
(* done.                                                                   *)
LEMMA InitSbomInv == Init => SbomInv
<1> SUFFICES ASSUME Init PROVE SbomInv
  OBVIOUS
<1>1. BuilderDocument(builder) /\ Payload(payload)
  BY BuilderAssumption, PayloadAssumption DEF Init
<1>2. TypeOK
  BY <1>1 DEF Init, TypeOK, Step, NoDocument
<1>3. StepsTaken
  BY DEF Init, StepsTaken, Composing, Amending, Named, Validated
<1>4. QED BY <1>2, <1>3 DEF SbomInv

(* The steps of a run, one by one. *)
LEMMA SbomInvStep == SbomInv /\ [Next]_vars => SbomInv'
<1> SUFFICES ASSUME TypeOK, StepsTaken, [Next]_vars
             PROVE  TypeOK' /\ StepsTaken'
  BY DEF SbomInv
<1> USE DEF Advance, StepsTaken, Composing, Amending, Named, Validated
<1> DEFINE Inputs == builder' = builder /\ payload' = payload
           DocumentType(d) ==
             /\ d.packages \subseteq Package
             /\ d.files \subseteq PayloadFile
             /\ d.relationships \subseteq Element \X RelationshipType \X Element
<1>1. CASE UNCHANGED vars
  BY <1>1 DEF vars, TypeOK, Closed
<1>2. CASE Start \/ ScanBuilder \/ TakeInventory
  BY <1>2 DEF Start, ScanBuilder, TakeInventory, TypeOK, Step
<1>3. CASE Compose
  <2>1. DocumentType(Composed(builder, payload))
    BY ComposedType DEF TypeOK
  <2>2. Composed(builder, payload).files = ComposedFiles(payload)
    BY DEF Composed
  <2>3. step' = "augment" /\ document' = Composed(builder, payload)
        /\ Inputs /\ UNCHANGED <<namespace, destination>> /\ step = "compose"
    BY <1>3 DEF Compose
  <2>4. TypeOK'
    BY <2>1, <2>3 DEF TypeOK, Step
  <2>5. StepsTaken'
    BY <2>2, <2>3
  <2>6. QED BY <2>4, <2>5
<1>4. CASE Augment
  <2>0. PICK p \in Package :
           \E P \in SUBSET {p}, R \in SUBSET {<<DocumentId, "DESCRIBES", p>>} :
             document' = [document EXCEPT !.packages = @ \cup P,
                                          !.relationships = @ \cup R]
    BY <1>4 DEF Augment
  <2>1. PICK P \in SUBSET {p}, R \in SUBSET {<<DocumentId, "DESCRIBES", p>>} :
           document' = [document EXCEPT !.packages = @ \cup P,
                                        !.relationships = @ \cup R]
    BY <2>0
  <2>2. R \subseteq Element \X RelationshipType \X Element
    BY DEF Element, RelationshipType
  <2>3. document.files = ComposedFiles(payload) /\ document = Composed(builder, payload)
    BY <1>4 DEF Augment
  <2>4. /\ document'.packages = document.packages \cup P
        /\ document'.files = document.files
        /\ document'.relationships = document.relationships \cup R
    BY <2>1, <2>3 DEF Composed
  <2>5. TypeOK'
    <3>1. DocumentType(document')
      BY <2>2, <2>4 DEF TypeOK
    <3>2. QED BY <1>4, <3>1 DEF Augment, TypeOK, Step
  <2>6. StepsTaken'
    BY <1>4, <2>3, <2>4 DEF Augment
  <2>7. QED BY <2>5, <2>6
<1>5. CASE SetNamespace
  BY <1>5 DEF SetNamespace, TypeOK, Step
<1>6. CASE Validate
  BY <1>6 DEF Validate, TypeOK, Step, Closed
<1>7. CASE OpenOutput
  BY <1>7 DEF OpenOutput, TypeOK, Step, Closed
<1>8. CASE WriteStatement
  BY <1>8 DEF WriteStatement, TypeOK, Step, Closed
<1>9. CASE Fail
  BY <1>9 DEF Fail, TypeOK, Step
<1>10. QED BY <1>1, <1>2, <1>3, <1>4, <1>5, <1>6, <1>7, <1>8, <1>9 DEF Next

-----------------------------------------------------------------------------
(* Whatever the scanner finds and wherever the run fails, SbomInv holds.   *)
THEOREM SbomInvariant == Spec => []SbomInv
BY InitSbomInv, SbomInvStep, PTL DEF Spec

(* No relationship of what compose returns is left dangling. *)
THEOREM DocumentsClosed == Spec => []DocumentClosed
<1>1. SbomInv => DocumentClosed
  BY ComposedClosed DEF SbomInv, TypeOK, StepsTaken, DocumentClosed, JustComposed
<1>2. QED BY <1>1, SbomInvariant, PTL

(* Every package that compose keeps claims a file that was shipped. *)
THEOREM PackagesShipped == Spec => []PackagesShip
<1>1. SbomInv => PackagesShip
  BY RetainedClaims
     DEF SbomInv, TypeOK, StepsTaken, PackagesShip, JustComposed, Claims
<1>2. QED BY <1>1, SbomInvariant, PTL

(* A claim rests on a file the package owned, with the same content and    *)
(* the best fitting path: it is never ambiguous.                           *)
THEOREM ClaimsJustified == Spec => []ClaimJustified
<1>1. SbomInv => ClaimJustified
  <2> SUFFICES ASSUME SbomInv, JustComposed, NEW p \in Package, NEW n \in DOMAIN payload,
                      Claims(p, <<n, payload[n]>>)
               PROVE  \E s \in Candidates(builder, payload[n]) :
                        /\ p \in Owners(builder, s)
                        /\ \A r \in Candidates(builder, payload[n]) :
                             Owners(builder, r) # {} /\ Name(builder, r) # Name(builder, s) =>
                               \/ Name(builder, s) = n
                               \/ SharedSuffix(Name(builder, r), n)
                                    < SharedSuffix(Name(builder, s), n)
    BY DEF ClaimJustified
  <2>1. /\ BuilderDocument(builder) /\ Payload(payload)
        /\ document = Composed(builder, payload)
    BY DEF SbomInv, TypeOK, StepsTaken, JustComposed
  <2>2. PICK s \in Sources(builder, payload, n) : p \in Owners(builder, s)
    BY <2>1, ClaimIff DEF Claims
  <2>3. s \in Candidates(builder, payload[n])
    BY <2>2, SourcesMatch
  <2>4. QED BY <2>1, <2>2, <2>3, MatchFitsBest
<1>2. QED BY <1>1, SbomInvariant, PTL

(* A file that kept its path is claimed by its owners at that path, and by *)
(* no others.                                                              *)
THEOREM ExactPathsWin == Spec => []ExactPathWins
<1>1. SbomInv => ExactPathWins
  <2> SUFFICES ASSUME SbomInv, JustComposed, NEW n \in DOMAIN payload,
                      NEW E, E = {s \in Candidates(builder, payload[n]) :
                                    Name(builder, s) = n /\ Owners(builder, s) # {}},
                      E # {}
               PROVE  {p \in Package : Claims(p, <<n, payload[n]>>)}
                        = UNION {Owners(builder, s) : s \in E}
    BY DEF ExactPathWins
  <2>1. /\ BuilderDocument(builder) /\ Payload(payload)
        /\ document = Composed(builder, payload)
    BY DEF SbomInv, TypeOK, StepsTaken, JustComposed
  <2>2. Sources(builder, payload, n) = E
    BY <2>1, ExactIsMatched
  <2>3. \A p \in Package : Claims(p, <<n, payload[n]>>) <=> \E s \in E : p \in Owners(builder, s)
    BY <2>1, <2>2, ClaimIff DEF Claims
  <2>4. \A s \in E : Owners(builder, s) \subseteq Package
    BY <2>1 DEF Owners, BuilderDocument
  <2>5. QED BY <2>3, <2>4
<1>2. QED BY <1>1, SbomInvariant, PTL

(* A shipped file that was owned is unclaimed only because it is           *)
(* ambiguous: between two names, neither its own, that fit it best.        *)
THEOREM UnclaimedAreAmbiguous == Spec => []UnclaimedAmbiguous
<1>1. SbomInv => UnclaimedAmbiguous
  <2> SUFFICES ASSUME SbomInv, JustComposed, NEW n \in DOMAIN payload,
                      NEW O, O = {s \in Candidates(builder, payload[n]) :
                                    Owners(builder, s) # {}},
                      O # {}, \A p \in Package : ~ Claims(p, <<n, payload[n]>>)
               PROVE  \E r, s \in O :
                        /\ Name(builder, r) # Name(builder, s)
                        /\ n \notin {Name(builder, r), Name(builder, s)}
                        /\ SharedSuffix(Name(builder, r), n) = SharedSuffix(Name(builder, s), n)
                        /\ \A t \in O : SharedSuffix(Name(builder, t), n)
                                         <= SharedSuffix(Name(builder, s), n)
    BY DEF UnclaimedAmbiguous
  <2>1. /\ BuilderDocument(builder) /\ Payload(payload)
        /\ document = Composed(builder, payload)
    BY DEF SbomInv, TypeOK, StepsTaken, JustComposed
  <2>2. Preferred(builder, payload[n]) = O
    BY DEF Preferred
  <2>3. ASSUME NEW s \in Sources(builder, payload, n)
        PROVE  FALSE
    <3>1. PICK p \in Owners(builder, s) : TRUE
      BY <2>2, SourcesMatch
    <3>2. p \in Package
      BY <2>1 DEF Owners, BuilderDocument
    <3>3. QED BY <2>1, <3>1, <3>2, ClaimIff DEF Claims
  <2>4. Sources(builder, payload, n) = {}
    BY <2>3
  <2>5. \E s \in Candidates(builder, payload[n]) : Owners(builder, s) # {}
    OBVIOUS
  <2>6. \E r, s \in Preferred(builder, payload[n]) :
           /\ Name(builder, r) # Name(builder, s)
           /\ n \notin {Name(builder, r), Name(builder, s)}
           /\ SharedSuffix(Name(builder, r), n) = SharedSuffix(Name(builder, s), n)
           /\ \A t \in Preferred(builder, payload[n]) :
                SharedSuffix(Name(builder, t), n) <= SharedSuffix(Name(builder, s), n)
    BY <2>1, <2>4, <2>5, UnmatchedIsAmbiguous
  <2>7. QED BY <2>2, <2>6
<1>2. QED BY <1>1, SbomInvariant, PTL

(* A composed document describes something, and every package it lists.    *)
THEOREM PayloadsDescribed == Spec => []PayloadDescribed
<1>1. SbomInv => PayloadDescribed
  <2> SUFFICES ASSUME SbomInv, JustComposed
               PROVE  LET Roots == {x \in Element :
                                      <<DocumentId, "DESCRIBES", x>> \in document.relationships}
                      IN  Roots # {} /\ document.packages \subseteq Roots
    BY DEF PayloadDescribed
  <2> DEFINE m == Match(builder, payload)
             Roots == {x \in Element :
                         <<DocumentId, "DESCRIBES", x>> \in document.relationships}
  <2>1. /\ BuilderDocument(builder) /\ Payload(payload) /\ DOMAIN payload # {}
        /\ document = Composed(builder, payload)
    BY DEF SbomInv, TypeOK, StepsTaken, JustComposed, Composing
  <2>2. Retained(builder, m) \subseteq Package /\ ComposedFiles(payload) \subseteq PayloadFile
    BY <2>1, RetainedEligible, ComposedFilesType DEF ComposedFiles
  <2>3. Described(builder, payload, m) \subseteq Roots
    BY <2>1, <2>2 DEF Composed, Described, Element
  <2>4. Described(builder, payload, m) # {}
    BY <2>1 DEF Described, ComposedFiles
  <2>5. document.packages \subseteq Described(builder, payload, m)
    BY <2>1 DEF Composed, Described
  <2>6. QED BY <2>3, <2>4, <2>5
<1>2. QED BY <1>1, SbomInvariant, PTL

(* A whole statement is closed, lists the payload, and has the name of its *)
(* content.                                                                *)
THEOREM StatementsSound == Spec => []StatementSound
<1>1. SbomInv => StatementSound
  BY DEF SbomInv, StepsTaken, StatementSound, Amending, Composing, Named, Validated
<1>2. QED BY <1>1, SbomInvariant, PTL

(* A directory that was not empty is left alone. *)
THEOREM OccupiedStays == Spec => OccupiedUntouched
<1>1. SbomInv /\ [Next]_vars => [destination = "occupied" => UNCHANGED destination]_vars
  BY DEF SbomInv, StepsTaken, Next, Advance, Start, ScanBuilder, TakeInventory, Compose,
         Augment, SetNamespace, Validate, OpenOutput, WriteStatement, Fail, vars
<1>2. QED BY <1>1, SbomInvariant, PTL DEF Spec, OccupiedUntouched
=============================================================================
