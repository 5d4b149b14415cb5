------------------------- MODULE PublicationProofs -------------------------
(***************************************************************************)
(* Machine-checked proofs about Publication: the composition implements    *)
(* each of its components, so that what is proved of them holds of it, and *)
(* what the catalogs list is what the pipeline has vetted.  They hold for  *)
(* every build matrix, history of main and of the upstream catalogs, and   *)
(* any number of runs, attempts and minutes.                               *)
(***************************************************************************)
EXTENDS Publication, BakeTargetsProofs

(* The composition starts where the pipeline does, and every step of it is *)
(* one of the pipeline, or leaves the pipeline alone.                      *)
LEMMA PipelineOfStep ==
  ASSUME [PublicationNext]_publication
  PROVE  [Next]_vars
BY DEF PublicationNext, PipelineStep, OtherCopy, CatalogsStep, publication

(* The composition implements the pipeline: what is proved of BakeTargets  *)
(* holds whatever the catalogs workflow does.                              *)
THEOREM PublicationIsPipeline == PublicationSpec => Spec
<1>1. PublicationInit => Init
  BY DEF PublicationInit
<1>2. [PublicationNext]_publication => [Next]_vars
  BY PipelineOfStep
<1>3. QED BY <1>1, <1>2, PTL DEF PublicationSpec, Spec

-----------------------------------------------------------------------------
(* The production repository as the catalogs workflow sees it. *)

(* A production tag of the pipeline, as a lookup finds it. *)
LEMMA CopiedTags ==
  /\ \A i \in Image, m \in Minute :
       TagOf(i, Extension, ThisVersion, m) \in Copied <=> prodTag[i][m] # NoDigest
  /\ \A t \in Copied : \E i \in Image, m \in Minute :
       t = TagOf(i, Extension, ThisVersion, m) /\ prodTag[i][m] # NoDigest
BY DEF Copied, TagOf

(* The same after a step. *)
LEMMA CopiedTagsNext ==
  /\ \A i \in Image, m \in Minute :
       TagOf(i, Extension, ThisVersion, m) \in Copied' <=> prodTag'[i][m] # NoDigest
  /\ \A t \in Copied' : \E i \in Image, m \in Minute :
       t = TagOf(i, Extension, ThisVersion, m) /\ prodTag'[i][m] # NoDigest
BY DEF Copied, TagOf

(* A copy adds its timestamped tag; under the rolling one it adds none. *)
LEMMA CopyAddsTag ==
  ASSUME TypeOK, NEW r \in Run, NEW i \in Image, NEW t \in Tag, CopyTag(r, i, t),
         BakesInOrder
  PROVE  /\ t = Rolling => Copied' = Copied
         /\ t # Rolling => /\ t = StampOf(r)
                           /\ Copied' = Copied \cup {TagOf(i, Extension, ThisVersion, t)}
         /\ \A j \in Image, m \in Minute : prodTag[j][m] # NoDigest => prodTag'[j][m] # NoDigest
         /\ prodTag'[i][t] # NoDigest
<1>1. Built(r, i) # NoDigest
  BY BuiltIsDigest, NoDigestIsNone DEF CopyTag, CopyDue
<1>2. prodTag' = [prodTag EXCEPT ![i][t] = Built(r, i)]
  BY DEF CopyTag
<1>3. prodTag \in [Image -> [Tag -> Digest \cup {NoDigest}]]
  BY DEF TypeOK
<1>4. \A j \in Image, u \in Tag :
        prodTag'[j][u] = IF j = i /\ u = t THEN Built(r, i) ELSE prodTag[j][u]
  BY <1>2, <1>3
<1>5. t = Rolling => Copied' = Copied
  <2> SUFFICES ASSUME t = Rolling PROVE Copied' = Copied
    OBVIOUS
  <2>1. \A j \in Image, m \in Minute : prodTag'[j][m] = prodTag[j][m]
    BY <1>4, MinuteIsTag DEF Rolling
  <2>2. QED BY <2>1 DEF Copied
<1>6. t # Rolling => /\ t = StampOf(r)
                     /\ Copied' = Copied \cup {TagOf(i, Extension, ThisVersion, t)}
  <2> SUFFICES ASSUME t # Rolling
               PROVE  /\ t = StampOf(r)
                      /\ Copied' = Copied \cup {TagOf(i, Extension, ThisVersion, t)}
    OBVIOUS
  <2>1. t \in Minute
    BY DEF Tag
  <2>2. \A j \in Image, m \in Minute :
          prodTag'[j][m] # NoDigest <=> prodTag[j][m] # NoDigest \/ (j = i /\ m = t)
    BY <1>1, <1>4, MinuteIsTag
  <2> DEFINE C == [catalog : Image, ext : {Extension}, version : {ThisVersion}, minute : Minute]
  <2>3. TagOf(i, Extension, ThisVersion, t) \in C
    BY <2>1 DEF TagOf
  <2>4. \A x \in C : x.catalog = i /\ x.minute = t <=> x = TagOf(i, Extension, ThisVersion, t)
    BY DEF TagOf
  <2>5. \A x \in C : x.catalog \in Image /\ x.minute \in Minute
    OBVIOUS
  <2>6. /\ Copied = {x \in C : prodTag[x.catalog][x.minute] # NoDigest}
        /\ Copied' = {x \in C : prodTag'[x.catalog][x.minute] # NoDigest}
    BY DEF Copied
  <2> HIDE DEF C
  <2>7. Copied' = Copied \cup {TagOf(i, Extension, ThisVersion, t)}
    BY <2>2, <2>3, <2>4, <2>5, <2>6
  <2>8. QED BY <2>7 DEF CopyTag
<1>7. QED BY <1>1, <1>4, <1>5, <1>6, MinuteIsTag

(* A timestamped production tag never goes away. *)
LEMMA TagsStay ==
  ASSUME TypeOK, BakesInOrder, [Next]_vars, NEW i \in Image, NEW m \in Minute,
         prodTag[i][m] # NoDigest
  PROVE  prodTag'[i][m] # NoDigest
<1>1. ASSUME NEW q \in Run, NEW j \in Image, NEW t \in Tag, CopyTag(q, j, t)
      PROVE  prodTag'[i][m] # NoDigest
  BY <1>1, CopyAddsTag
<1>2. (\E q \in Run, j \in Image, t \in Tag : CopyTag(q, j, t)) \/ prodTag' = prodTag
  BY WhoChangesWhat
<1>3. QED BY <1>1, <1>2

-----------------------------------------------------------------------------
(* What the pipeline contributes to the invariant. *)

(* A bake takes the minute it is. *)
LEMMA StampsPastStep ==
  ASSUME TypeOK, StampsPast, [Next]_vars
  PROVE  StampsPast'
<1> SUFFICES ASSUME NEW r \in Run, NEW k \in Attempt
             PROVE  stamp'[r][k] <= clock'
  BY DEF StampsPast
<1>1. clock \in Nat /\ stamp[r][k] \in Nat /\ stamp[r][k] <= clock
  BY DEF TypeOK, StampsPast, Minute
<1>2. clock' \in Nat /\ clock <= clock'
  BY <1>1, WhoChangesWhat DEF Tick
<1>3. ASSUME NEW q \in Run, StartBake(q)
      PROVE  stamp'[r][k] = stamp[r][k] \/ stamp'[r][k] = clock
  BY <1>3 DEF StartBake, TypeOK
<1>4. stamp'[r][k] = stamp[r][k] \/ stamp'[r][k] = clock
  BY <1>3, WhoChangesWhat
<1>5. QED BY <1>1, <1>2, <1>4

(* A copy and its tag come in one step, and tags stay. *)
LEMMA CopiesThereStep ==
  ASSUME TypeOK, BakesInOrder, CopiesThere, [Next]_vars
  PROVE  CopiesThere'
<1> SUFFICES ASSUME NEW r \in Run, NEW i \in Image, NEW m \in Minute,
                    <<i, m>> \in copied'[r]
             PROVE  prodTag'[i][m] # NoDigest
  BY DEF CopiesThere
<1>1. CASE <<i, m>> \in copied[r]
  BY <1>1, TagsStay DEF CopiesThere
<1>2. CASE <<i, m>> \notin copied[r]
  <2>1. ASSUME NEW q \in Run, RerunFailed(q) PROVE FALSE
    BY <1>2, <2>1 DEF RerunFailed, TypeOK
  <2>2. PICK q \in Run, j \in Image, t \in Tag : CopyTag(q, j, t)
    BY <1>2, <2>1, WhoChangesWhat
  <2>3. copied' = [copied EXCEPT ![q] = @ \cup {<<j, t>>}]
    BY <2>2 DEF CopyTag
  <2>4. j = i /\ t = m
    BY <1>2, <2>3 DEF TypeOK
  <2>5. QED BY <2>2, <2>4, CopyAddsTag
<1>3. QED BY <1>1, <1>2

(* A run of main starts when main maintains the version. *)
LEMMA MainMaintainsStep ==
  ASSUME PublicationInv, [PublicationNext]_publication, head \in Nat, head' \in Nat,
         head <= head'
  PROVE  MainMaintains'
<1> SUFFICES ASSUME NEW r \in Run, ref'[r] = "main", NEW i \in Image
             PROVE  \E k \in 0..head' : Source[k][i][Extension] = ThisVersion
  BY DEF MainMaintains
<1>1. 0..head \subseteq 0..head' /\ head \in 0..head'
  OBVIOUS
<1>2. CASE ref[r] = "main"
  BY <1>1, <1>2 DEF PublicationInv, MainMaintains
<1>3. CASE ref[r] # "main"
  <2>1. PipelineStep
    BY <1>3 DEF PublicationNext, OtherCopy, CatalogsStep, publication, vars
  <2>2. ref[r] = "none"
    <3>1. ASSUME NEW q \in Run, TriggerRun(q) PROVE ref[r] = "none"
      BY <1>3, <3>1 DEF TriggerRun, PublicationInv, PipelineInv, TypeOK, BakesInOrder
    <3>2. \E q \in Run : TriggerRun(q)
      BY <1>3, PipelineOfStep, WhoChangesWhat
    <3>3. QED BY <3>1, <3>2
  <2>3. MainBuilds
    BY <2>1, <2>2 DEF PipelineStep
  <2>4. QED BY <1>1, <2>3 DEF MainBuilds
<1>4. QED BY <1>2, <1>3
-----------------------------------------------------------------------------
(* The composition and the catalogs workflow. *)

(* The hypotheses on the constants are those of CatalogPublication. *)
LEMMA CatalogsFit ==
  ASSUME ConstantsFit
  PROVE  /\ /\ MaxCommit \in Nat /\ MaxUpstream \in Nat
            /\ MaxMinute \in Nat \ {0}
         /\ Source \in [Catalogs!Commit -> [Image -> [Ext -> Version \cup {NoVersion}]]]
         /\ Base \in [0..MaxUpstream -> SUBSET Image]
         /\ NoVersion \notin Version
BY BoundAssumption DEF ConstantsFit, Catalogs!Commit, Catalogs!BranchHead

(* A step of the pipeline is for the catalogs workflow a minute that       *)
(* passes, an image that comes to production, or nothing: an image that a  *)
(* run of main copies is of a version that main has maintained, and of a   *)
(* minute that has come.                                                   *)
LEMMA PipelineIsEnvironment ==
  ASSUME ConstantsFit, PublicationInv, PipelineStep
  PROVE  \/ Catalogs!Tick
         \/ \E i \in Image, e \in Ext : Catalogs!ProductionCopy(i, e)
         \/ UNCHANGED Catalogs!vars
<1> USE DEF PublicationInv, PipelineInv
<1>1. [Next]_vars /\ UNCHANGED <<others, catalogs>>
  BY DEF PipelineStep
<1>2. UNCHANGED <<head, upstream, file, phase, commit, base, found, stale>>
  BY <1>1 DEF catalogs
<1>3. CASE Tick
  <2>1. Copied' = Copied
    BY <1>3 DEF Tick, production, Copied
  <2>2. Catalogs!Tick
    BY <1>1, <1>2, <1>3, <2>1 DEF Catalogs!Tick, Catalogs!runs, Tick
  <2>3. QED BY <2>2
<1>4. ASSUME NEW r \in Run, NEW i \in Image, NEW t \in Tag, CopyTag(r, i, t)
      PROVE  \/ \E j \in Image, e \in Ext : Catalogs!ProductionCopy(j, e)
             \/ UNCHANGED Catalogs!vars
  <2>1. clock' = clock
    BY <1>4 DEF CopyTag
  <2>2. CASE t = Rolling
    <3>1. Copied' = Copied
      BY <1>4, <2>2, CopyAddsTag
    <3>2. QED BY <1>1, <1>2, <2>1, <3>1 DEF Catalogs!vars, Catalogs!world, Catalogs!runs
  <2>3. CASE t # Rolling
    <3>1. /\ t = StampOf(r)
          /\ Copied' = Copied \cup {TagOf(i, Extension, ThisVersion, t)}
      BY <1>4, <2>3, CopyAddsTag
    <3>2. baked[r] \in Attempt /\ StampOf(r) \in Minute
      BY <1>4 DEF CopyTag, CopyDue, BakesInOrder, StampOf
    <3>3. t \in 1..clock
      BY <3>1, <3>2 DEF StampsPast, StampOf, Minute, TypeOK
    <3>4. PICK k \in 0..head : Source[k][i][Extension] = ThisVersion
      BY <1>4 DEF MainMaintains, CopyTag, CopyDue
    <3>5. (others \cup Copied)' =
            (others \cup Copied) \cup {TagOf(i, Extension, ThisVersion, t)}
      BY <1>1, <3>1
    <3>6. Extension \in Ext /\ ThisVersion # NoVersion
      BY DEF ConstantsFit
    <3>7. Catalogs!ProductionCopy(i, Extension)
      BY <1>2, <2>1, <3>3, <3>4, <3>5, <3>6
         DEF Catalogs!ProductionCopy, Catalogs!runs, TagOf
    <3>8. QED BY <3>6, <3>7
  <2>4. QED BY <2>2, <2>3
<1>5. CASE clock' = clock /\ prodTag' = prodTag
  <2>1. Copied' = Copied
    BY <1>5 DEF Copied
  <2>2. QED BY <1>1, <1>2, <1>5, <2>1 DEF Catalogs!vars, Catalogs!world, Catalogs!runs
<1>6. QED BY <1>1, <1>3, <1>4, <1>5, WhoChangesWhat

(* The composition implements the catalogs workflow in each step. *)
LEMMA CatalogsOfStep ==
  ASSUME ConstantsFit, PublicationInv, [PublicationNext]_publication
  PROVE  [Catalogs!Next]_(Catalogs!vars)
<1>1. prodTag' = prodTag => Copied' = Copied
  BY DEF Copied
<1>2. CASE PipelineStep
  BY <1>2, PipelineIsEnvironment DEF Catalogs!Next
<1>3. CASE OtherCopy
  <2>1. PICK i \in Image, e \in Ext, k \in 0..head, m \in 1..clock :
          /\ Source[k][i][e] # NoVersion
          /\ others' = others \cup {TagOf(i, e, Source[k][i][e], m)}
    BY <1>3 DEF OtherCopy
  <2>2. UNCHANGED <<vars, catalogs>>
    BY <1>3 DEF OtherCopy
  <2>3. (others \cup Copied)' = (others \cup Copied) \cup {TagOf(i, e, Source[k][i][e], m)}
    BY <1>1, <2>1, <2>2 DEF vars, production
  <2>4. Catalogs!ProductionCopy(i, e)
    BY <2>1, <2>2, <2>3
       DEF Catalogs!ProductionCopy, Catalogs!runs, TagOf, vars, catalogs
  <2>5. QED BY <2>4 DEF Catalogs!Next
<1>4. CASE CatalogsStep
  <2>1. CASE Catalogs!Merge \/ Catalogs!UpstreamCommit
    BY <2>1 DEF Catalogs!Next
  <2>2. CASE \E s \in Slot : Catalogs!Step(s) \/ Catalogs!Fail(s)
    BY <2>2 DEF Catalogs!Next
  <2>3. CASE \E s \in Slot : Start(s) \/ \E r \in Run : Dispatch(s, r)
    BY <2>3 DEF Start, Dispatch, Catalogs!Next
  <2>4. QED BY <1>4, <2>1, <2>2, <2>3 DEF CatalogsStep
<1>5. CASE UNCHANGED publication
  <2>1. (others \cup Copied)' = others \cup Copied
    BY <1>1, <1>5 DEF publication, vars, production
  <2>2. QED
    BY <1>5, <2>1 DEF publication, vars, catalogs, Catalogs!vars, Catalogs!world,
                      Catalogs!runs
<1>6. QED BY <1>2, <1>3, <1>4, <1>5 DEF PublicationNext

-----------------------------------------------------------------------------
(* What the composition adds to the invariant. *)

(* Another pipeline does not tag the version of this one. *)
LEMMA OthersApartStep ==
  ASSUME OthersApart, [PublicationNext]_publication
  PROVE  OthersApart'
<1>1. CASE others' = others
  BY <1>1 DEF OthersApart
<1>2. CASE OtherCopy
  <2>1. PICK i \in Image, e \in Ext, k \in 0..head, m \in 1..clock :
          /\ <<e, Source[k][i][e]>> # <<Extension, ThisVersion>>
          /\ others' = others \cup {TagOf(i, e, Source[k][i][e], m)}
    BY <1>2 DEF OtherCopy
  <2>2. \A j \in Image, n \in Minute :
          TagOf(j, Extension, ThisVersion, n) # TagOf(i, e, Source[k][i][e], m)
    BY <2>1 DEF TagOf
  <2>3. QED BY <2>1, <2>2 DEF OthersApart
<1>3. QED BY <1>1, <1>2 DEF PublicationNext, PipelineStep, CatalogsStep, publication

(* A run of the catalogs workflow that is started has looked nothing up.   *)
LEMMA WhoStarts ==
  ASSUME [PublicationNext]_publication, NEW s \in Slot,
         before = [q \in Slot |-> before[q]], dispatched \in [Slot -> 0..MaxMinute]
  PROVE  \/ before'[s] = before[s] /\ dispatched'[s] = dispatched[s]
         \/ /\ before'[s] = others \cup Copied
            /\ UNCHANGED <<others, prodTag, found>>
            /\ phase[s] = "free"
            /\ \/ dispatched'[s] = 0
               \/ \E r \in Run : Green(r) /\ ref[r] = "main" /\ dispatched'[s] = StampOf(r)
<1>1. CASE UNCHANGED <<before, dispatched>>
  BY <1>1
<1>2. CASE ~ UNCHANGED <<before, dispatched>>
  <2>1. CatalogsStep /\ UNCHANGED <<others, prodTag>>
    BY <1>2 DEF PublicationNext, PipelineStep, OtherCopy, CatalogsStep, publication,
                catalogs, vars, production
  <2>2. PICK q \in Slot : Start(q) \/ \E r \in Run : Dispatch(q, r)
    BY <1>2, <2>1 DEF CatalogsStep
  <2>3. CASE q # s
    BY <2>2, <2>3 DEF Start, Dispatch
  <2>4. CASE q = s /\ Start(s)
    BY <2>1, <2>4 DEF Start, Catalogs!Trigger, Catalogs!ManualRun, Catalogs!Begin
  <2>5. ASSUME q = s, NEW r \in Run, Dispatch(s, r)
        PROVE  /\ before'[s] = others \cup Copied /\ found' = found
               /\ phase[s] = "free"
               /\ Green(r) /\ ref[r] = "main" /\ dispatched'[s] = StampOf(r)
    BY <2>5 DEF Dispatch, Catalogs!Trigger, Catalogs!Begin
  <2>6. QED BY <2>1, <2>2, <2>3, <2>4, <2>5
<1>3. QED BY <1>1, <1>2

(* A green run of main has the tag of each image in production. *)
LEMMA GreenHasTags ==
  ASSUME PipelineInv, CopiesThere, NEW r \in Run, Green(r), ref[r] = "main"
  PROVE  /\ StampOf(r) \in Minute
         /\ \A i \in Image : prodTag[i][StampOf(r)] # NoDigest
<1>1. copy[r] = "success" /\ build[r] = "success"
  BY DEF Green
<1>2. copied[r] = Image \X {Rolling, StampOf(r)}
  BY <1>1 DEF PipelineInv, JobsDone
<1>3. StampOf(r) \in Minute
  BY <1>1, BuiltIsDigest DEF PipelineInv
<1>4. \A i \in Image : <<i, StampOf(r)>> \in copied[r]
  BY <1>2
<1>5. QED BY <1>3, <1>4 DEF CopiesThere

(* Production only grows. *)
LEMMA ProductionGrows ==
  ASSUME PublicationInv, [PublicationNext]_publication
  PROVE  others \cup Copied \subseteq (others \cup Copied)'
<1>1. others \subseteq others'
  BY DEF PublicationNext, PipelineStep, OtherCopy, CatalogsStep, publication
<1>2. ASSUME NEW t \in Copied PROVE t \in Copied'
  <2>1. PICK i \in Image, m \in Minute :
          t = TagOf(i, Extension, ThisVersion, m) /\ prodTag[i][m] # NoDigest
    BY CopiedTags
  <2>2. prodTag'[i][m] # NoDigest
    BY <2>1, PipelineOfStep, TagsStay DEF PublicationInv, PipelineInv
  <2>3. QED BY <2>1, <2>2, CopiedTagsNext
<1>3. QED BY <1>1, <1>2

(* The history variables keep their types. *)
LEMMA HistoryType ==
  ASSUME PublicationInv, [PublicationNext]_publication
  PROVE  /\ dispatched' \in [Slot -> 0..MaxMinute]
         /\ before' = [s \in Slot |-> before'[s]]
<1> USE DEF PublicationInv
<1>1. CASE UNCHANGED <<before, dispatched>>
  BY <1>1
<1>2. CASE ~ UNCHANGED <<before, dispatched>>
  <2>1. PICK q \in Slot : Start(q) \/ \E r \in Run : Dispatch(q, r)
    BY <1>2 DEF PublicationNext, PipelineStep, OtherCopy, CatalogsStep, publication, catalogs
  <2>2. before' = [before EXCEPT ![q] = others \cup Copied]
    BY <2>1 DEF Start, Dispatch
  <2>3. 0 \in 0..MaxMinute
    BY MinuteIsTag
  <2>4. \A r \in Run : Green(r) /\ ref[r] = "main" => StampOf(r) \in 0..MaxMinute
    BY GreenHasTags, MinuteIsTag
  <2>5. \E m \in 0..MaxMinute : dispatched' = [dispatched EXCEPT ![q] = m]
    BY <2>1, <2>3, <2>4 DEF Start, Dispatch
  <2>6. QED BY <2>2, <2>5
<1>3. QED BY <1>1, <1>2

(* What a run has before it stays in production; a green run that          *)
(* dispatches it has its images there.                                     *)
LEMMA StartedAfterStep ==
  ASSUME PublicationInv, [PublicationNext]_publication
  PROVE  StartedAfter'
<1> USE DEF PublicationInv
<1> SUFFICES ASSUME NEW s \in Slot
             PROVE  /\ before'[s] \subseteq (others \cup Copied)'
                    /\ dispatched'[s] # 0 =>
                         \A i \in Image :
                           TagOf(i, Extension, ThisVersion, dispatched'[s]) \in before'[s]
  BY DEF StartedAfter, TagOf
<1>1. others \cup Copied \subseteq (others \cup Copied)'
  BY ProductionGrows
<1>2. CASE before'[s] = before[s] /\ dispatched'[s] = dispatched[s]
  BY <1>1, <1>2 DEF StartedAfter
<1>3. CASE /\ before'[s] = others \cup Copied
           /\ \/ dispatched'[s] = 0
              \/ \E r \in Run : Green(r) /\ ref[r] = "main" /\ dispatched'[s] = StampOf(r)
  <2>1. ASSUME NEW r \in Run, Green(r), ref[r] = "main", NEW i \in Image
        PROVE  TagOf(i, Extension, ThisVersion, StampOf(r)) \in Copied
    BY <2>1, GreenHasTags, CopiedTags
  <2>2. QED BY <1>1, <1>3, <2>1
<1>4. QED BY <1>2, <1>3, WhoStarts

(* The lookups of a run come after its start and take the newest image.    *)
LEMMA FoundFreshStep ==
  ASSUME ConstantsFit, PublicationInv, [PublicationNext]_publication
  PROVE  FoundFresh'
<1> USE DEF PublicationInv, Catalogs!CatalogInv
<1> SUFFICES ASSUME NEW s \in Slot, NEW i \in Image, NEW e \in Ext, NEW m \in Minute,
                    found'[s][i][e] # 0,
                    TagOf(i, e, Source[commit'[s]][i][e], m) \in before'[s]
             PROVE  found'[s][i][e] >= m
  BY DEF FoundFresh, TagOf
<1>1. Catalogs!NothingFound[i][e] = 0
  BY DEF Catalogs!NothingFound
<1>2. phase[s] # "generating" => found[s] = Catalogs!NothingFound
  BY DEF Catalogs!RunsKnown
<1>3. before'[s] = before[s]
  BY <1>1, <1>2, WhoStarts
<1>4. [Catalogs!Next]_(Catalogs!vars)
  BY CatalogsOfStep
<1>5. CASE commit'[s] = commit[s] /\ found'[s] = found[s]
  BY <1>3, <1>5 DEF FoundFresh
<1>6. ASSUME NEW k \in 0..head \cup {Catalogs!BranchHead}, Catalogs!Begin(s, k)
      PROVE  FALSE
  <2>1. found'[s] = Catalogs!NothingFound
    BY <1>2, <1>6 DEF Catalogs!Begin
  <2>2. QED BY <1>1, <2>1
<1>7. CASE Catalogs!CheckoutUpstream(s) \/ Catalogs!CheckoutArtifacts(s)
  BY <1>5, <1>7 DEF Catalogs!CheckoutUpstream, Catalogs!CheckoutArtifacts
<1>8. ASSUME Catalogs!Publish(s) \/ Catalogs!End(s)
      PROVE  FALSE
  <2>1. found'[s] = Catalogs!NothingFound
    BY <1>8 DEF Catalogs!Publish, Catalogs!End, Catalogs!Leave, Catalogs!TypeOK
  <2>2. QED BY <1>1, <2>1
<1>9. ASSUME NEW c \in Image, NEW x \in Ext, Catalogs!Lookup(s, c, x)
      PROVE  found'[s][i][e] >= m
  <2>1. commit' = commit
    BY <1>9 DEF Catalogs!Lookup
  <2>2. CASE c = i /\ x = e
    <3> DEFINE v == Source[commit[s]][i][e]
    <3>1. PICK n \in Catalogs!Minutes(i, e, v) :
            /\ \A k \in Catalogs!Minutes(i, e, v) : k <= n
            /\ found' = [found EXCEPT ![s][i][e] = n]
      BY <1>9, <2>2 DEF Catalogs!Lookup, Catalogs!Wanted
    <3>2. found'[s][i][e] = n
      BY <3>1 DEF Catalogs!TypeOK
    <3>3. TagOf(i, e, v, m) \in others \cup Copied
      BY <1>3, <2>1 DEF StartedAfter
    <3>4. m \in Catalogs!Minutes(i, e, v)
      BY <3>3 DEF Catalogs!Minutes, Catalogs!Minute, TagOf, Minute
    <3>5. n \in Nat /\ m \in Nat
      BY <3>1, BoundAssumption DEF Catalogs!Minutes, Catalogs!Minute, Minute
    <3>6. QED BY <3>1, <3>2, <3>4, <3>5
  <2>3. CASE ~(c = i /\ x = e)
    <3>1. found'[s][i][e] = found[s][i][e]
      BY <1>9, <2>3 DEF Catalogs!Lookup, Catalogs!TypeOK
    <3>2. QED BY <1>3, <2>1, <3>1 DEF FoundFresh
  <2>4. QED BY <2>2, <2>3
<1>10. QED
  BY <1>4, <1>5, <1>6, <1>7, <1>8, <1>9, CatalogsFit, Catalogs!RunSteps

-----------------------------------------------------------------------------
(* The inductive invariant of the composition. *)

(* It holds to begin with. *)
LEMMA InitPublicationInv ==
  ASSUME ConstantsFit, PublicationInit
  PROVE  PublicationInv
<1>1. PipelineInv
  BY InitPipelineInv DEF PublicationInit
<1>2. Catalogs!CatalogInv
  BY CatalogsFit, Catalogs!InitCatalogInv DEF PublicationInit
<1>3. /\ dispatched \in [Slot -> 0..MaxMinute] /\ before = [s \in Slot |-> before[s]]
      /\ StartedAfter
  BY BoundAssumption DEF PublicationInit, StartedAfter
<1>4. OthersApart /\ StampsPast /\ CopiesThere /\ MainMaintains
  BY BoundAssumption
     DEF PublicationInit, Init, OthersApart, StampsPast, CopiesThere, MainMaintains
<1>5. FoundFresh
  BY DEF PublicationInit, FoundFresh
<1>6. QED BY <1>1, <1>2, <1>3, <1>4, <1>5 DEF PublicationInv

(* Every step preserves it. *)
LEMMA PublicationInvStep ==
  ASSUME ConstantsFit, PublicationInv, [PublicationNext]_publication
  PROVE  PublicationInv'
<1>1. PipelineInv'
  BY PipelineOfStep, PipelineInvStep DEF PublicationInv
<1>2. (Catalogs!CatalogInv)'
  BY CatalogsOfStep, CatalogsFit, Catalogs!CatalogInvStep DEF PublicationInv
<1>3. head \in Nat /\ head' \in Nat /\ head <= head'
  BY CatalogsOfStep, CatalogsFit, Catalogs!WorldGrows
     DEF PublicationInv, Catalogs!CatalogInv, Catalogs!TypeOK
<1>4. OthersApart' /\ StampsPast' /\ CopiesThere' /\ MainMaintains'
  BY <1>3, PipelineOfStep, OthersApartStep, StampsPastStep, CopiesThereStep,
     MainMaintainsStep DEF PublicationInv, PipelineInv
<1>5. QED
  BY <1>1, <1>2, <1>4, HistoryType, StartedAfterStep, FoundFreshStep DEF PublicationInv

(* The inductive invariant holds in every state. *)
THEOREM PublicationInvariant ==
  ASSUME ConstantsFit
  PROVE  PublicationSpec => []PublicationInv
<1>1. PublicationInit => PublicationInv
  BY InitPublicationInv
<1>2. PublicationInv /\ [PublicationNext]_publication => PublicationInv'
  BY PublicationInvStep
<1>3. QED BY <1>1, <1>2, PTL DEF PublicationSpec

(* The composition implements the catalogs workflow: each step of the      *)
(* pipeline is one that CatalogPublication leaves to the world around it.  *)
(* So what is proved of the catalogs holds of them with this pipeline.     *)
THEOREM PublicationIsCatalogs ==
  ASSUME ConstantsFit
  PROVE  PublicationSpec => Catalogs!Spec
<1>1. PublicationInit => Catalogs!Init
  BY DEF PublicationInit
<1>2. PublicationInv /\ [PublicationNext]_publication => [Catalogs!Next]_(Catalogs!vars)
  BY CatalogsOfStep
<1>3. QED BY <1>1, <1>2, PublicationInvariant, PTL DEF PublicationSpec, Catalogs!Spec

-----------------------------------------------------------------------------
(* What is listed. *)

(* What a catalog lists of the extension is a tag the pipeline has copied. *)
LEMMA ListedIsCopied ==
  ASSUME ConstantsFit, PublicationInv, NEW i \in Image, NEW m, Lists(i, m)
  PROVE  m \in Minute /\ prodTag[i][m] # NoDigest
<1>1. ThisVersion # NoVersion /\ Extension \in Ext
  BY DEF ConstantsFit
<1>2. m \in Catalogs!Minutes(i, Extension, ThisVersion)
  BY <1>1 DEF PublicationInv, Catalogs!CatalogInv, Catalogs!CompleteOrUntouched,
              Catalogs!Listed, Lists
<1>3. m \in Minute /\ TagOf(i, Extension, ThisVersion, m) \in others \cup Copied
  BY <1>2 DEF Catalogs!Minutes, Catalogs!Minute, Minute, TagOf
<1>4. TagOf(i, Extension, ThisVersion, m) \in Copied
  BY <1>3 DEF PublicationInv, OthersApart
<1>5. QED BY <1>3, <1>4, CopiedTags

(* An image that a published catalog lists was built from main for that    *)
(* catalog and vetted by the pipeline.                                     *)
THEOREM ListedIsVetted ==
  ASSUME ConstantsFit
  PROVE  PublicationSpec => []ListedVetted
<1>1. PublicationInv => ListedVetted
  <2> SUFFICES ASSUME PublicationInv, NEW i \in Image, NEW m \in 0..MaxMinute, Lists(i, m)
               PROVE  /\ m # 0
                      /\ LET d == prodTag[i][m] IN
                           /\ d # NoDigest /\ d.image = i /\ ref[d.run] = "main"
                           /\ d \in testSigned \cap passed["provenance"]
                           /\ DistinctMinutes => \A c \in Check : d \in passed[c]
    BY DEF ListedVetted
  <2>1. m \in Minute /\ m \in Tag /\ m # 0 /\ prodTag[i][m] # NoDigest
    BY ListedIsCopied, MinuteIsTag
  <2>2. QED
    BY <2>1 DEF PublicationInv, PipelineInv, ProductionOrigin, ProductionProvenance,
                ProductionTested
<1>2. QED BY <1>1, PublicationInvariant, PTL

(* The digest under a listed tag does not change. *)
THEOREM ListedKeepsItsImage ==
  ASSUME ConstantsFit
  PROVE  PublicationSpec => ListedStays
<1>1. PublicationInv /\ [PublicationNext]_publication =>
        [DistinctMinutes' =>
           \A i \in Image, m \in 1..MaxMinute :
             Lists(i, m) => prodTag'[i][m] = prodTag[i][m]]_publication
  <2> SUFFICES ASSUME PublicationInv, [PublicationNext]_publication, DistinctMinutes',
                      NEW i \in Image, NEW m \in 1..MaxMinute, Lists(i, m)
               PROVE  prodTag'[i][m] = prodTag[i][m]
    OBVIOUS
  <2>1. m \in Minute /\ prodTag[i][m] # NoDigest
    BY ListedIsCopied
  <2>2. QED BY <2>1, PipelineOfStep, MinuteTagStep DEF PublicationInv, PipelineInv
<1>2. QED BY <1>1, PublicationInvariant, PTL DEF PublicationSpec, ListedStays

(* What a run publishes is what it has looked up. *)
LEMMA PublishedIsFound ==
  ASSUME ConstantsFit, PublicationInv, NEW s \in Slot, NEW i \in Base[base[s]], i \in Image,
         NEW e \in Ext, Catalogs!Publish(s)
  PROVE  /\ file'[i].commit = commit[s] /\ file'[i].base = base[s]
         /\ file'[i].image[e] = found[s][i][e]
         /\ Source[commit[s]][i][e] # NoVersion => found[s][i][e] # 0
<1>1. file' = Catalogs!Export(s) /\ Catalogs!Generated(s)
  BY DEF Catalogs!Publish
<1>2. Source[commit[s]][i][e] # NoVersion => <<i, e>> \in Catalogs!Due(s)
  BY DEF Catalogs!Due, Catalogs!Wanted
<1>3. Source[commit[s]][i][e] # NoVersion => found[s][i][e] # 0
  BY <1>1, <1>2 DEF Catalogs!Generated
<1>4. QED BY <1>1, <1>3 DEF Catalogs!Export

(* There is no image of a version that is none. *)
LEMMA TagHasVersion ==
  ASSUME ConstantsFit, PublicationInv, NEW i, NEW e, NEW v, NEW m,
         TagOf(i, e, v, m) \in others \cup Copied
  PROVE  v # NoVersion
BY DEF PublicationInv, Catalogs!CatalogInv, Catalogs!TypeOK, Catalogs!Tag, TagOf,
       ConstantsFit

(* A run lists nothing older than what was in production when it started.  *)
LEMMA PublishIsFresh ==
  ASSUME ConstantsFit, PublicationInv, NEW s \in Slot, NEW i \in Image, NEW e \in Ext,
         NEW m \in Minute, Catalogs!Publish(s), i \in Base[base[s]],
         TagOf(i, e, Source[commit[s]][i][e], m) \in before[s]
  PROVE  file'[i].image[e] >= m
<1>1. Source[commit[s]][i][e] # NoVersion
  BY TagHasVersion DEF PublicationInv, StartedAfter
<1>2. file'[i].image[e] = found[s][i][e] /\ found[s][i][e] # 0
  BY <1>1, PublishedIsFound
<1>3. QED BY <1>2 DEF PublicationInv, FoundFresh

(* However long a run of the catalogs workflow takes, it publishes nothing *)
(* older than what was there when it started.                              *)
THEOREM PublicationIsFresh ==
  ASSUME ConstantsFit
  PROVE  PublicationSpec => PublishedFresh
<1>1. PublicationInv /\ [PublicationNext]_publication =>
        [\A s \in Slot, i \in Image, e \in Ext, m \in 1..MaxMinute :
           /\ Catalogs!Publish(s) /\ i \in Base[base[s]]
           /\ TagOf(i, e, Source[commit[s]][i][e], m) \in before[s]
           => file'[i].image[e] >= m]_publication
  BY PublishIsFresh DEF Minute
<1>2. QED BY <1>1, PublicationInvariant, PTL DEF PublicationSpec, PublishedFresh

(* A run that a green run on main has dispatched publishes what that run   *)
(* has built, or something newer.                                          *)
THEOREM DispatchBringsImages ==
  ASSUME ConstantsFit
  PROVE  PublicationSpec => DispatchBrings
<1>1. ASSUME PublicationInv, NEW s \in Slot, NEW i \in Image, Catalogs!Publish(s),
             dispatched[s] # 0, i \in Base[base[s]],
             Source[commit[s]][i][Extension] = ThisVersion
      PROVE  file'[i].image[Extension] >= dispatched[s]
  <2>1. Extension \in Ext /\ dispatched[s] \in Minute
    BY <1>1, MinuteIsTag DEF ConstantsFit, PublicationInv, Minute
  <2>2. TagOf(i, Extension, ThisVersion, dispatched[s]) \in before[s]
    BY <1>1 DEF PublicationInv, StartedAfter
  <2>3. QED BY <1>1, <2>1, <2>2, PublishIsFresh
<1>2. PublicationInv /\ [PublicationNext]_publication =>
        [\A s \in Slot, i \in Image :
           /\ Catalogs!Publish(s) /\ dispatched[s] # 0
           /\ i \in Base[base[s]] /\ Source[commit[s]][i][Extension] = ThisVersion
           => file'[i].image[Extension] >= dispatched[s]]_publication
  BY <1>1
<1>3. QED BY <1>2, PublicationInvariant, PTL DEF PublicationSpec, DispatchBrings

(* When nothing has changed since a run of main started, its push leaves   *)
(* nothing to do: the step on which CatalogCatchesUp rests.                *)
THEOREM OneRunBringsUpToDate ==
  ASSUME ConstantsFit
  PROVE  PublicationSpec => OneRunSuffices
<1>1. ASSUME PublicationInv, NEW s \in Slot, Catalogs!Publish(s),
             commit[s] = head, base[s] = upstream, before[s] = others \cup Copied
      PROVE  (Catalogs!UpToDate)'
  <2>1. Catalogs!CatalogInv
    BY <1>1 DEF PublicationInv
  <2>2. Base[upstream] \subseteq Image
    BY <2>1 DEF Catalogs!CatalogInv, Catalogs!TypeOK, ConstantsFit
  <2>3. ASSUME NEW i \in Base[upstream], NEW e \in Ext, NEW m \in Minute,
               [catalog |-> i, ext |-> e, version |-> Source[head][i][e], minute |-> m]
                 \in others \cup Copied
        PROVE  m <= file'[i].image[e]
    <3>1. TagOf(i, e, Source[commit[s]][i][e], m) \in before[s]
      BY <1>1, <2>3 DEF TagOf
    <3>2. file'[i].image[e] >= m
      BY <1>1, <2>2, <3>1, PublishIsFresh
    <3>3. QED BY <3>2
  <2>4. Catalogs!Minute = Minute
    BY DEF Catalogs!Minute, Minute
  <2>5. QED BY <1>1, <2>1, <2>3, <2>4, CatalogsFit, Catalogs!PushSuffices
<1>2. PublicationInv /\ [PublicationNext]_publication =>
        [\A s \in Slot :
           /\ Catalogs!Publish(s) /\ commit[s] = head /\ base[s] = upstream
           /\ before[s] = others \cup Copied
           => (Catalogs!UpToDate)']_publication
  BY <1>1
<1>3. QED BY <1>2, PublicationInvariant, PTL DEF PublicationSpec, OneRunSuffices

(* A user of the catalogs sees one publication after the other, each of    *)
(* images the pipelines have copied: the contract of the artifacts         *)
(* repository holds of the composition.                                    *)
THEOREM PublicationKeepsBothContracts ==
  ASSUME ConstantsFit
  PROVE  PublicationSpec => ContractKept /\ Catalogs!ContractKept
<1>1. Spec => ContractKept
  BY PipelineKeepsContract
<1>2. Catalogs!Spec => Catalogs!ContractKept
  BY CatalogsFit, Catalogs!PublicationKeepsContract
<1>3. QED BY <1>1, <1>2, PublicationIsPipeline, PublicationIsCatalogs, PTL
=============================================================================
