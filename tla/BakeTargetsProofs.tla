------------------------- MODULE BakeTargetsProofs -------------------------
(***************************************************************************)
(* Machine-checked proofs about BakeTargets, for every build matrix, every *)
(* set of CloudNativePG releases and any number of runs, attempts and      *)
(* minutes.                                                                *)
(***************************************************************************)
EXTENDS BakeTargets, TLAPS

(* NoDigest is the value of a tag that does not exist: no image has it.    *)
LEMMA NoDigestIsNone == NoDigest \notin Digest
BY BoundAssumption DEF NoDigest, Digest, Run

(* A minute is never the rolling tag, nor the stamp of a bake to come.     *)
LEMMA MinuteIsTag ==
  /\ Minute \subseteq Tag /\ Minute \subseteq 0..MaxMinute /\ 0 \notin Minute
  /\ 0 \in 0..MaxMinute
BY BoundAssumption DEF Minute, Tag, Rolling

(* A run whose build has left the queue has an image for each matrix entry *)
(* and a minute for its tags.                                              *)
LEMMA BuiltIsDigest ==
  ASSUME TypeOK, BakesInOrder, NEW r \in Run, build[r] # "queued"
  PROVE  /\ BuiltBy(r) \subseteq Digest
         /\ \A i \in Image : Built(r, i) \in Digest
         /\ StampOf(r) \in Minute
BY DEF BakesInOrder, BuiltBy, Built, Digest, StampOf

(* The initial state is well typed. *)
LEMMA TypeInit == Init => TypeOK
<1> SUFFICES ASSUME Init PROVE TypeOK
  OBVIOUS
<1>1. 1 \in Minute /\ 0 \in 0..MaxMinute /\ 0 \in 0..MaxAttempt
  BY BoundAssumption DEF Minute
<1>2. QED
  BY <1>1 DEF Init, TypeOK, Status

(* Re-running requeues statuses into statuses. *)
LEMMA RerunType ==
  ASSUME TypeOK, NEW r \in Run, RerunFailed(r)
  PROVE  TypeOK'
<1>1. \A s \in Status : Requeued(s) \in Status
  BY DEF Status, Requeued
<1>2. build' \in [Run -> Status \cup {"baking", "pushed"}]
  BY DEF RerunFailed, TypeOK, Requeued, Status
<1>3. check' \in [Run -> [Check -> [Image -> Status]]]
  BY <1>1 DEF RerunFailed, TypeOK
<1>4. attest' \in [Run -> [Image -> Status]] /\ copy' \in [Run -> Status]
  BY <1>1 DEF RerunFailed, TypeOK
<1>5. copied' \in [Run -> SUBSET (Image \X Tag)]
  BY DEF RerunFailed, TypeOK
<1>6. attempt' \in [Run -> 0..MaxAttempt]
  BY BoundAssumption DEF RerunFailed, TypeOK
<1>7. QED
  BY <1>2, <1>3, <1>4, <1>5, <1>6 DEF RerunFailed, TypeOK, testing, production

(* Changing one entry of a table of statuses changes that entry only. *)
LEMMA EntryOfThree ==
  ASSUME NEW A, NEW B, NEW C, NEW V, NEW f \in [A -> [B -> [C -> V]]],
         NEW a \in A, NEW b \in B, NEW c \in C, NEW v \in V
  PROVE  /\ [f EXCEPT ![a][b][c] = v][a][b][c] = v
         /\ \A x \in A, y \in B, z \in C :
              <<x, y, z>> # <<a, b, c>> => [f EXCEPT ![a][b][c] = v][x][y][z] = f[x][y][z]
OBVIOUS

(* Changing an entry of a table leaves a table. *)
LEMMA EntryOfTwo ==
  ASSUME NEW A, NEW B, NEW V, NEW f \in [A -> [B -> V]],
         NEW a \in A, NEW b, NEW v, b \in B => v \in V
  PROVE  [f EXCEPT ![a][b] = v] \in [A -> [B -> V]]
OBVIOUS

(* Every step keeps the types. *)
LEMMA TypeStep ==
  ASSUME TypeOK, BakesInOrder, JobsDone, [Next]_vars
  PROVE  TypeOK'
<1> USE DEF TypeOK, testing, production, jobs, Status
<1>1. ASSUME Tick PROVE TypeOK'
  BY <1>1, BoundAssumption DEF Tick, Minute
<1>2. ASSUME NEW r \in Run, TriggerRun(r) PROVE TypeOK'
  <2>1. 1 \in 0..MaxAttempt
    BY BoundAssumption
  <2>2. QED BY <1>2, <2>1 DEF TriggerRun
<1>3. ASSUME NEW r \in Run, StartBake(r) PROVE TypeOK'
  <2>1. attempt[r] \in Attempt /\ clock \in 0..MaxMinute
    BY <1>3, BoundAssumption, MinuteIsTag DEF StartBake, Attempt
  <2>2. QED BY <1>3, <2>1 DEF StartBake
<1>4. ASSUME NEW r \in Run, PushBake(r) PROVE TypeOK'
  <2>1. \A i \in Image : Built(r, i) \in Digest
    BY <1>4, BuiltIsDigest DEF PushBake
  <2>2. ASSUME NEW S \in SUBSET Image, PushTesting(r, S)
        PROVE  /\ testTag' \in [Image -> [Minute -> Digest \cup {NoDigest}]]
               /\ stored' \subseteq Digest
    BY <2>1, <2>2 DEF PushTesting
  <2>3. /\ testTag' \in [Image -> [Minute -> Digest \cup {NoDigest}]]
        /\ stored' \subseteq Digest
    <3>1. \E S \in SUBSET Image : PushTesting(r, S)
      BY <1>4 DEF PushBake
    <3>2. QED BY <2>2, <3>1
  <2>4. build' \in [Run -> Status \cup {"baking", "pushed"}]
    BY <1>4 DEF PushBake
  <2>5. QED BY <1>4, <2>3, <2>4 DEF PushBake
<1>5. ASSUME NEW r \in Run, SignTesting(r) PROVE TypeOK'
  <2>1. BuiltBy(r) \subseteq Digest
    BY <1>5, BuiltIsDigest DEF SignTesting
  <2>2. QED BY <1>5, <2>1 DEF SignTesting
<1>6. ASSUME NEW r \in Run, NEW c \in Check, NEW i \in Image, RunCheck(r, c, i)
      PROVE  TypeOK'
  <2>2. check' \in [Run -> [Check -> [Image -> Status]]]
    <3>1. \A v \in Status : [check EXCEPT ![r][c][i] = v] \in [Run -> [Check -> [Image -> Status]]]
      OBVIOUS
    <3>2. QED BY <1>6, <3>1 DEF RunCheck
  <2>3. passed' \in [Check -> SUBSET Digest]
    <3>1. CASE /\ Checked(r, c, i) \in stored
               /\ passed' = [passed EXCEPT ![c] = @ \cup {Checked(r, c, i)}]
      BY <3>1
    <3>2. QED BY <1>6, <3>1 DEF RunCheck
  <2>4. QED BY <1>6, <2>2, <2>3 DEF RunCheck
<1>7. ASSUME NEW r \in Run, NEW i \in Image, NEW t \in Tag, CopyTag(r, i, t)
      PROVE  TypeOK'
  <2>1. Built(r, i) \in Digest
    BY <1>7, BuiltIsDigest DEF CopyTag, CopyDue
  <2>2. prodTag' \in [Image -> [Tag -> Digest \cup {NoDigest}]]
    BY <1>7, <2>1 DEF CopyTag
  <2>3. copied' \in [Run -> SUBSET (Image \X Tag)]
    BY <1>7 DEF CopyTag
  <2>4. QED BY <1>7, <2>2, <2>3 DEF CopyTag
<1>8. ASSUME NEW r \in Run, SignProduction(r) PROVE TypeOK'
  <2>1. BuiltBy(r) \subseteq Digest
    BY <1>8, BuiltIsDigest DEF SignProduction, CopyDue
  <2>2. QED BY <1>8, <2>1 DEF SignProduction
<1>9. ASSUME NEW r \in Run, CopyFails(r) PROVE TypeOK'
  BY <1>9 DEF CopyFails
<1>10. ASSUME NEW r \in Run, NEW i \in Image, AttestProduction(r, i) PROVE TypeOK'
  <2>1. Built(r, i) \in Digest
    BY <1>10, BuiltIsDigest DEF AttestProduction, JobsDone, CopyDue
  <2>2. attest' \in [Run -> [Image -> Status]]
    <3>1. \A v \in Status : [attest EXCEPT ![r][i] = v] \in [Run -> [Image -> Status]]
      OBVIOUS
    <3>2. QED BY <1>10, <3>1 DEF AttestProduction
  <2>3. QED BY <1>10, <2>1, <2>2 DEF AttestProduction
<1>11. ASSUME NEW r \in Run, RerunFailed(r) PROVE TypeOK'
  BY <1>11, RerunType
<1>12. ASSUME UNCHANGED vars PROVE TypeOK'
  BY <1>12 DEF vars
<1>13. ASSUME NEW d \in stored, Clean(d) PROVE TypeOK'
  <2>1. d.image \in Image
    BY DEF Digest
  <2>2. testTag' \in [Image -> [Minute -> Digest \cup {NoDigest}]]
    <3> DEFINE v == IF testTag[d.image][MinuteOf(d)] = d THEN NoDigest
                    ELSE testTag[d.image][MinuteOf(d)]
    <3>1. testTag' = [testTag EXCEPT ![d.image][MinuteOf(d)] = v]
      BY <1>13 DEF Clean
    <3>2. MinuteOf(d) \in Minute => v \in Digest \cup {NoDigest}
      BY <2>1
    <3> HIDE DEF v
    <3>3. QED BY <2>1, <3>1, <3>2, EntryOfTwo
  <2>3. QED BY <1>13, <2>2 DEF Clean
<1>14. QED
  BY <1>1, <1>2, <1>3, <1>4, <1>5, <1>6, <1>7, <1>8, <1>9, <1>10, <1>11, <1>12, <1>13
     DEF Next, Retry, ManualRerun

-----------------------------------------------------------------------------
(* What is over stays over.                                                *)

(* Who changes what: each part of the state is left alone by all but a few *)
(* actions.                                                                *)
LEMMA WhoChangesWhat ==
  ASSUME [Next]_vars
  PROVE  /\ Tick \/ clock' = clock
         /\ (\E q \in Run : TriggerRun(q)) \/ ref' = ref
         /\ (\E q \in Run : StartBake(q)) \/ stamp' = stamp
         /\ \/ \E q \in Run : StartBake(q) \/ PushBake(q) \/ SignTesting(q) \/ RerunFailed(q)
            \/ build' = build /\ baked' = baked
         /\ \/ \E q \in Run : PushBake(q)
            \/ \E d \in stored : Clean(d)
            \/ testTag' = testTag /\ stored' = stored
         /\ \/ \E q \in Run, c \in Check, i \in Image : RunCheck(q, c, i)
            \/ \E q \in Run : RerunFailed(q)
            \/ check' = check
         /\ \/ \E q \in Run, i \in Image, t \in Tag : CopyTag(q, i, t)
            \/ \E q \in Run : RerunFailed(q)
            \/ copied' = copied
         /\ \/ \E q \in Run : SignProduction(q) \/ CopyFails(q) \/ RerunFailed(q)
            \/ copy' = copy
         /\ (\E q \in Run, i \in Image, t \in Tag : CopyTag(q, i, t)) \/ prodTag' = prodTag
         /\ \/ \E q \in Run, i \in Image : AttestProduction(q, i)
            \/ \E q \in Run : RerunFailed(q)
            \/ attest' = attest
<1> USE DEF jobs, testing, production
<1>1. CASE Tick BY <1>1 DEF Tick
<1>2. ASSUME NEW r \in Run, TriggerRun(r) PROVE UNCHANGED <<clock, jobs, testing, production>>
  BY <1>2 DEF TriggerRun
<1>3. ASSUME NEW r \in Run, StartBake(r)
      PROVE  UNCHANGED <<clock, ref, check, copy, copied, attest, testing, production>>
  BY <1>3 DEF StartBake
<1>4. ASSUME NEW r \in Run, PushBake(r)
      PROVE  UNCHANGED <<clock, ref, stamp, check, copy, copied, attest, production>>
  BY <1>4 DEF PushBake
<1>5. ASSUME NEW r \in Run, SignTesting(r)
      PROVE  UNCHANGED <<clock, ref, stamp, check, copy, copied, attest, testTag, stored, production>>
  BY <1>5 DEF SignTesting
<1>6. ASSUME NEW r \in Run, NEW c \in Check, NEW i \in Image, RunCheck(r, c, i)
      PROVE  UNCHANGED <<clock, ref, build, baked, stamp, copy, copied, attest, testTag, stored, production>>
  BY <1>6 DEF RunCheck
<1>7. ASSUME NEW r \in Run, NEW i \in Image, NEW t \in Tag, CopyTag(r, i, t)
      PROVE  UNCHANGED <<clock, ref, build, baked, stamp, check, copy, attest, testing>>
  BY <1>7 DEF CopyTag
<1>8. ASSUME NEW r \in Run, SignProduction(r)
      PROVE  UNCHANGED <<clock, ref, build, baked, stamp, check, copied, attest, testing, prodTag>>
  BY <1>8 DEF SignProduction
<1>9. ASSUME NEW r \in Run, CopyFails(r)
      PROVE  UNCHANGED <<clock, ref, build, baked, stamp, check, copied, attest, testing, production>>
  BY <1>9 DEF CopyFails
<1>10. ASSUME NEW r \in Run, NEW i \in Image, AttestProduction(r, i)
       PROVE  UNCHANGED <<clock, ref, build, baked, stamp, check, copy, copied, testing, prodTag>>
  BY <1>10 DEF AttestProduction
<1>11. ASSUME NEW r \in Run, RerunFailed(r)
       PROVE  UNCHANGED <<clock, ref, stamp, testing, production>>
  BY <1>11 DEF RerunFailed
<1>12. CASE UNCHANGED vars BY <1>12 DEF vars
<1>13. ASSUME NEW d \in stored, Clean(d)
       PROVE  UNCHANGED <<clock, ref, jobs, production>>
  BY <1>13 DEF Clean
<1>14. \/ Tick \/ UNCHANGED vars \/ \E d \in stored : Clean(d)
       \/ \E r \in Run : \/ TriggerRun(r) \/ StartBake(r) \/ PushBake(r) \/ SignTesting(r)
                         \/ \E c \in Check, i \in Image : RunCheck(r, c, i)
                         \/ \E i \in Image, t \in Tag : CopyTag(r, i, t)
                         \/ SignProduction(r) \/ CopyFails(r)
                         \/ \E i \in Image : AttestProduction(r, i)
                         \/ RerunFailed(r)
  BY DEF Next, Retry, ManualRerun
<1>15. QED
  BY <1>1, <1>2, <1>3, <1>4, <1>5, <1>6, <1>7, <1>8, <1>9, <1>10, <1>11, <1>12, <1>13,
     <1>14

(* A run that exists keeps its branch. *)
LEMMA RefKept ==
  ASSUME TypeOK, [Next]_vars, NEW r \in Run, attempt[r] > 0
  PROVE  ref'[r] = ref[r]
<1>1. ASSUME NEW q \in Run, TriggerRun(q) PROVE ref'[r] = ref[r]
  BY <1>1 DEF TriggerRun, TypeOK
<1>2. (\E q \in Run : TriggerRun(q)) \/ ref' = ref
  BY WhoChangesWhat
<1>3. QED BY <1>1, <1>2

(* A bake keeps its minute: the only minute a step sets is that of the     *)
(* current attempt of a queued build.                                      *)
LEMMA StampKept ==
  ASSUME TypeOK, BakesInOrder, [Next]_vars,
         NEW r \in Run, NEW k \in Attempt, stamp[r][k] # 0
  PROVE  stamp'[r][k] = stamp[r][k]
<1>1. ASSUME NEW q \in Run, StartBake(q) PROVE stamp'[r][k] = stamp[r][k]
  BY <1>1 DEF StartBake, BakesInOrder, TypeOK
<1>2. (\E q \in Run : StartBake(q)) \/ stamp' = stamp
  BY WhoChangesWhat
<1>3. QED BY <1>1, <1>2

(* Minutes that collided stay collided. *)
LEMMA DistinctBefore ==
  ASSUME TypeOK, BakesInOrder, [Next]_vars, DistinctMinutes'
  PROVE  DistinctMinutes
BY StampKept DEF DistinctMinutes

(* A build that succeeded is never repeated. *)
LEMMA BuildKept ==
  ASSUME TypeOK, BakesInOrder, [Next]_vars, NEW r \in Run, build[r] = "success"
  PROVE  /\ build'[r] = "success" /\ baked'[r] = baked[r]
         /\ StampOf(r)' = StampOf(r)
         /\ \A i \in Image : Built(r, i)' = Built(r, i)
         /\ BuiltBy(r)' = BuiltBy(r)
<1>1. build'[r] = "success" /\ baked'[r] = baked[r]
  <2>1. ASSUME NEW q \in Run, StartBake(q) \/ PushBake(q) \/ SignTesting(q)
        PROVE  build'[r] = "success" /\ baked'[r] = baked[r]
    BY <2>1 DEF StartBake, PushBake, SignTesting, TypeOK
  <2>2. ASSUME NEW q \in Run, RerunFailed(q)
        PROVE  build'[r] = "success" /\ baked'[r] = baked[r]
    BY <2>2 DEF RerunFailed, Requeued, TypeOK
  <2>3. \/ \E q \in Run : StartBake(q) \/ PushBake(q) \/ SignTesting(q) \/ RerunFailed(q)
        \/ build' = build /\ baked' = baked
    BY WhoChangesWhat
  <2>4. QED BY <2>1, <2>2, <2>3
<1>2. baked[r] \in Attempt /\ stamp[r][baked[r]] # 0
  BY MinuteIsTag DEF BakesInOrder
<1>3. QED
  BY <1>1, <1>2, StampKept DEF StampOf, Built, BuiltBy

(* What was signed, attested or checked stays so. *)
LEMMA EvidenceGrows ==
  ASSUME TypeOK, [Next]_vars
  PROVE  /\ testSigned \subseteq testSigned' /\ prodSigned \subseteq prodSigned'
         /\ prodAttested \subseteq prodAttested'
         /\ \A c \in Check : passed[c] \subseteq passed'[c]
<1> DEFINE Grows == /\ testSigned \subseteq testSigned'
                   /\ prodSigned \subseteq prodSigned'
                   /\ prodAttested \subseteq prodAttested'
                   /\ \A c \in Check : passed[c] \subseteq passed'[c]
<1> USE DEF testing, production
<1>1. ASSUME NEW r \in Run, NEW c \in Check, NEW i \in Image, RunCheck(r, c, i)
      PROVE  Grows
  <2>1. CASE passed' = [passed EXCEPT ![c] = @ \cup {Checked(r, c, i)}]
    <3>1. \A e \in Check : passed[e] \subseteq passed'[e]
      BY <2>1 DEF TypeOK
    <3>2. QED BY <1>1, <3>1 DEF RunCheck
  <2>2. CASE passed' = passed
    BY <1>1, <2>2 DEF RunCheck
  <2>3. QED BY <1>1, <2>1, <2>2 DEF RunCheck
<1>2. ASSUME NEW r \in Run, SignTesting(r) PROVE Grows
  BY <1>2 DEF SignTesting
<1>3. ASSUME NEW r \in Run, SignProduction(r) PROVE Grows
  BY <1>3 DEF SignProduction
<1>4. ASSUME NEW r \in Run, NEW i \in Image, AttestProduction(r, i) PROVE Grows
  BY <1>4 DEF AttestProduction
<1>5. ASSUME NEW r \in Run, NEW i \in Image, NEW t \in Tag, CopyTag(r, i, t)
      PROVE  Grows
  BY <1>5 DEF CopyTag
<1>6. ASSUME NEW r \in Run,
             \/ TriggerRun(r) \/ StartBake(r) \/ PushBake(r)
             \/ CopyFails(r) \/ RerunFailed(r)
      PROVE  Grows
  <2>1. testSigned' = testSigned /\ passed' = passed /\ production' = production
    <3>1. CASE TriggerRun(r) BY <3>1 DEF TriggerRun
    <3>2. CASE StartBake(r) BY <3>2 DEF StartBake
    <3>3. CASE PushBake(r) BY <3>3 DEF PushBake
    <3>4. CASE CopyFails(r) BY <3>4 DEF CopyFails
    <3>5. CASE RerunFailed(r) BY <3>5 DEF RerunFailed
    <3>6. QED BY <1>6, <3>1, <3>2, <3>3, <3>4, <3>5
  <2>2. QED BY <2>1
<1>7. ASSUME Tick \/ UNCHANGED vars PROVE Grows
  BY <1>7 DEF Tick, vars
<1>8. ASSUME NEW d \in stored, Clean(d) PROVE Grows
  BY <1>8 DEF Clean
<1>9. QED
  BY <1>1, <1>2, <1>3, <1>4, <1>5, <1>6, <1>7, <1>8 DEF Next, Retry, ManualRerun

(* A check that passed, a copy that was due and a copy that is over stay   *)
(* so.                                                                     *)
LEMMA ResultsKept ==
  ASSUME TypeOK, BakesInOrder, JobsDone, [Next]_vars, NEW r \in Run
  PROVE  /\ \A c \in Check, i \in Image :
              check[r][c][i] = "success" => check'[r][c][i] = "success"
         /\ CopyDue(r) => CopyDue(r)'
         /\ copy[r] = "success" => copy'[r] = "success" /\ copied'[r] = copied[r]
<1>1. \A c \in Check, i \in Image :
        check[r][c][i] = "success" => check'[r][c][i] = "success"
  <2>1. ASSUME NEW q \in Run, NEW d \in Check, NEW j \in Image, RunCheck(q, d, j),
               NEW c \in Check, NEW i \in Image, check[r][c][i] = "success"
        PROVE  check'[r][c][i] = "success"
    <3>1. ~(q = r /\ d = c /\ j = i)
      BY <2>1 DEF RunCheck
    <3>2. <<r, c, i>> # <<q, d, j>>
      BY <3>1
    <3>3. QED BY <2>1, <3>2, EntryOfThree DEF RunCheck, TypeOK, Status
  <2>2. ASSUME NEW q \in Run, RerunFailed(q),
               NEW c \in Check, NEW i \in Image, check[r][c][i] = "success"
        PROVE  check'[r][c][i] = "success"
    BY <2>2 DEF RerunFailed, Requeued, TypeOK
  <2>3. \/ \E q \in Run, d \in Check, j \in Image : RunCheck(q, d, j)
        \/ \E q \in Run : RerunFailed(q)
        \/ check' = check
    BY WhoChangesWhat
  <2>4. QED BY <2>1, <2>2, <2>3
<1>2. ASSUME CopyDue(r) PROVE CopyDue(r)'
  <2>1. attempt[r] > 0
    BY <1>2, BoundAssumption DEF CopyDue, BakesInOrder, TypeOK
  <2>2. QED BY <1>1, <1>2, <2>1, RefKept, BuildKept DEF CopyDue, ChecksPassed
<1>3. ASSUME copy[r] = "success"
      PROVE  copy'[r] = "success" /\ copied'[r] = copied[r]
  <2>1. ASSUME NEW q \in Run,
               \/ \E i \in Image, t \in Tag : CopyTag(q, i, t)
               \/ SignProduction(q) \/ CopyFails(q)
        PROVE  copy'[r] = "success" /\ copied'[r] = copied[r]
    BY <1>3, <2>1 DEF CopyTag, SignProduction, CopyFails, TypeOK
  <2>2. ASSUME NEW q \in Run, RerunFailed(q)
        PROVE  copy'[r] = "success" /\ copied'[r] = copied[r]
    BY <1>3, <2>2 DEF RerunFailed, Requeued, TypeOK
  <2>3. \/ \E q \in Run : \/ \E i \in Image, t \in Tag : CopyTag(q, i, t)
                          \/ SignProduction(q) \/ CopyFails(q) \/ RerunFailed(q)
        \/ copy' = copy /\ copied' = copied
    BY WhoChangesWhat
  <2>4. QED BY <1>3, <2>1, <2>2, <2>3
<1>4. QED BY <1>1, <1>2, <1>3

-----------------------------------------------------------------------------
(* Each part of the invariant is preserved.                                *)

(* A bake always starts with a free minute slot. *)
LEMMA BakesInOrderStep ==
  ASSUME TypeOK, BakesInOrder, [Next]_vars
  PROVE  BakesInOrder'
<1> USE DEF BakesInOrder
<1>1. ASSUME NEW r \in Run, TriggerRun(r) PROVE BakesInOrder'
  <2>1. ref'[r] # "none" /\ attempt'[r] = 1 /\ attempt[r] = 0
    BY <1>1 DEF TriggerRun, TypeOK
  <2>2. \A q \in Run : q # r => ref'[q] = ref[q] /\ attempt'[q] = attempt[q]
    BY <1>1 DEF TriggerRun, TypeOK
  <2>3. \A k \in Attempt : k > 0
    BY BoundAssumption DEF Attempt
  <2>4. \A k \in Attempt : stamp[r][k] = 0
    BY <2>1, <2>3
  <2>5. UNCHANGED <<build, baked, stamp>>
    BY <1>1 DEF TriggerRun, jobs
  <2>6. attempt'[r] \in Attempt
    BY <2>1, BoundAssumption DEF Attempt
  <2>7. QED BY <2>1, <2>2, <2>4, <2>5, <2>6
<1>2. ASSUME NEW r \in Run, StartBake(r) PROVE BakesInOrder'
  <2>1. attempt[r] \in Attempt
    BY <1>2, BoundAssumption DEF StartBake, TypeOK, Attempt
  <2>2. /\ build'[r] = "baking" /\ baked'[r] = attempt[r]
        /\ stamp'[r][attempt[r]] = clock
        /\ \A k \in Attempt : k # attempt[r] => stamp'[r][k] = stamp[r][k]
    BY <1>2, <2>1 DEF StartBake, TypeOK
  <2>3. \A q \in Run : q # r => /\ build'[q] = build[q] /\ baked'[q] = baked[q]
                                /\ stamp'[q] = stamp[q]
    BY <1>2 DEF StartBake, TypeOK
  <2>4. UNCHANGED <<ref, attempt>> /\ clock \in Minute
    BY <1>2 DEF StartBake, TypeOK
  <2>5. ASSUME NEW k \in Attempt, k > attempt[r] PROVE stamp'[r][k] = 0
    <3>1. k # attempt[r]
      BY <2>1, <2>5, BoundAssumption DEF Attempt
    <3>2. QED BY <2>2, <2>5, <3>1
  <2>6. QED BY <1>2, <2>1, <2>2, <2>3, <2>4, <2>5 DEF StartBake
<1>3. ASSUME NEW r \in Run, PushBake(r) \/ SignTesting(r) PROVE BakesInOrder'
  <2>1. /\ build[r] # "queued" /\ build'[r] # "queued"
        /\ \A q \in Run : q # r => build'[q] = build[q]
    BY <1>3 DEF PushBake, SignTesting, TypeOK
  <2>2. UNCHANGED <<ref, attempt, baked, stamp>>
    BY <1>3 DEF PushBake, SignTesting
  <2>3. QED BY <2>1, <2>2
<1>4. ASSUME NEW r \in Run, RerunFailed(r) PROVE BakesInOrder'
  <2>1. /\ attempt[r] > 0 /\ attempt'[r] = attempt[r] + 1
        /\ attempt'[r] \in Attempt /\ attempt'[r] > attempt[r]
    BY <1>4, BoundAssumption DEF RerunFailed, Failed, TypeOK, Attempt
  <2>2. \A q \in Run : q # r => attempt'[q] = attempt[q] /\ build'[q] = build[q]
    BY <1>4 DEF RerunFailed, TypeOK
  <2>3. build'[r] # "queued" => build'[r] = build[r]
    BY <1>4 DEF RerunFailed, TypeOK, Requeued
  <2>4. UNCHANGED <<ref, baked, stamp>>
    BY <1>4 DEF RerunFailed
  <2>5. \A k \in Attempt : k > attempt'[r] => k > attempt[r]
    BY <2>1, BoundAssumption DEF Attempt, TypeOK
  <2>6. \A k \in Attempt : k > attempt'[r] => stamp'[r][k] = 0
    BY <2>4, <2>5
  <2>7. stamp'[r][attempt'[r]] = 0
    BY <2>1, <2>4
  <2>8. ref'[r] # "none" /\ attempt'[r] # 0
    BY <2>1, <2>4, BoundAssumption DEF Attempt, TypeOK
  <2>9. QED BY <2>1, <2>2, <2>3, <2>4, <2>6, <2>7, <2>8
<1>5. ASSUME NEW r \in Run,
             \/ \E c \in Check, i \in Image : RunCheck(r, c, i)
             \/ \E i \in Image, t \in Tag : CopyTag(r, i, t)
             \/ SignProduction(r) \/ CopyFails(r)
             \/ \E i \in Image : AttestProduction(r, i)
      PROVE  BakesInOrder'
  <2>1. /\ ref' = ref /\ attempt' = attempt /\ build' = build
        /\ baked' = baked /\ stamp' = stamp
    BY <1>5 DEF RunCheck, CopyTag, SignProduction, CopyFails, AttestProduction
  <2>2. QED BY <2>1
<1>6. ASSUME Tick \/ UNCHANGED vars PROVE BakesInOrder'
  BY <1>6 DEF Tick, vars, jobs
<1>7. ASSUME NEW d \in stored, Clean(d) PROVE BakesInOrder'
  <2>1. UNCHANGED <<ref, attempt, build, baked, stamp>>
    BY <1>7 DEF Clean, jobs
  <2>2. QED BY <2>1
<1>8. QED
  BY <1>1, <1>2, <1>3, <1>4, <1>5, <1>6, <1>7 DEF Next, Retry, ManualRerun

(* Pushing under a minute of one's own leaves the tags of other runs, and  *)
(* the clean-up only takes tags away.                                      *)
LEMMA TestTagsStep ==
  ASSUME TypeOK, BakesInOrder, TestTagsOwn, [Next]_vars
  PROVE  TestTagsOwn'
<1> SUFFICES ASSUME DistinctMinutes', NEW r \in Run, NEW i \in Image,
                    build'[r] \in {"pushed", "success"}
             PROVE  testTag'[i][StampOf(r)'] \in {Built(r, i)', NoDigest}
  BY DEF TestTagsOwn
<1>1. DistinctMinutes
  BY DistinctBefore
<1>2. ASSUME NEW q \in Run, PushBake(q)
      PROVE  testTag'[i][StampOf(r)'] \in {Built(r, i)', NoDigest}
  <2>1. UNCHANGED <<baked, stamp>> /\ build[q] = "baking"
    BY <1>2 DEF PushBake
  <2>2. StampOf(r)' = StampOf(r) /\ Built(r, i)' = Built(r, i)
    BY <2>1 DEF StampOf, Built
  <2>3. PICK S \in SUBSET Image :
          PushTesting(q, S) /\ (build'[q] = "failure" \/ S = Image)
    BY <1>2 DEF PushBake, TypeOK
  <2>4. StampOf(q) \in Minute
    BY <2>1, BuiltIsDigest
  <2>5. /\ testTag'[i] = testTag[i] \/ testTag'[i] = [testTag[i] EXCEPT ![StampOf(q)] = Built(q, i)]
        /\ i \in S => testTag'[i] = [testTag[i] EXCEPT ![StampOf(q)] = Built(q, i)]
    BY <2>3 DEF PushTesting
  <2>6. testTag[i] \in [Minute -> Digest \cup {NoDigest}]
    BY DEF TypeOK
  <2>7. CASE r = q
    BY <2>2, <2>3, <2>4, <2>5, <2>6, <2>7
  <2>8. CASE r # q
    <3>1. build[r] \in {"pushed", "success"}
      BY <1>2, <2>8 DEF PushBake, TypeOK
    <3>2. testTag[i][StampOf(r)] \in {Built(r, i), NoDigest} /\ StampOf(r) \in Minute
      BY <1>1, <3>1, BuiltIsDigest DEF TestTagsOwn
    <3>3. StampOf(r) # StampOf(q)
      BY <1>1, <2>1, <2>8, <3>1, MinuteIsTag DEF DistinctMinutes, StampOf, BakesInOrder
    <3>4. QED BY <2>2, <2>4, <2>5, <2>6, <3>2, <3>3
  <2>9. QED BY <2>7, <2>8
<1>3. ASSUME ~\E q \in Run : PushBake(q)
      PROVE  /\ build[r] \in {"pushed", "success"}
             /\ StampOf(r)' = StampOf(r) /\ Built(r, i)' = Built(r, i)
  <2>1. build[r] \in {"pushed", "success"} /\ baked'[r] = baked[r]
    <3>1. ASSUME NEW q \in Run, StartBake(q) \/ SignTesting(q)
          PROVE  build[r] \in {"pushed", "success"} /\ baked'[r] = baked[r]
      BY <3>1 DEF StartBake, SignTesting, TypeOK
    <3>2. ASSUME NEW q \in Run, RerunFailed(q)
          PROVE  build[r] \in {"pushed", "success"} /\ baked'[r] = baked[r]
      BY <3>2 DEF RerunFailed, Requeued, TypeOK
    <3>3. \/ \E q \in Run : StartBake(q) \/ SignTesting(q) \/ RerunFailed(q)
          \/ build' = build /\ baked' = baked
      BY <1>3, WhoChangesWhat
    <3>4. QED BY <3>1, <3>2, <3>3
  <2>2. baked[r] \in Attempt /\ stamp[r][baked[r]] # 0
    BY <2>1, MinuteIsTag DEF BakesInOrder
  <2>3. QED BY <2>1, <2>2, StampKept DEF StampOf, Built
<1>4. ASSUME NEW d \in stored, Clean(d), NEW m \in Minute
      PROVE  testTag'[i][m] \in {testTag[i][m], NoDigest}
  BY <1>4 DEF Clean, TypeOK
<1>5. ASSUME ~\E q \in Run : PushBake(q)
      PROVE  testTag'[i][StampOf(r)] \in {testTag[i][StampOf(r)], NoDigest}
  <2>1. StampOf(r) \in Minute
    BY <1>3, <1>5, BuiltIsDigest
  <2>2. QED BY <1>4, <1>5, <2>1, WhoChangesWhat
<1>6. QED
  BY <1>1, <1>2, <1>3, <1>5 DEF TestTagsOwn

(* A timestamped testing tag is moved by the push of the bake of that      *)
(* minute, or taken away by the clean-up.                                  *)
LEMMA TestTagChange ==
  ASSUME TypeOK, BakesInOrder, [Next]_vars, NEW i \in Image, NEW m \in Minute
  PROVE  \/ testTag'[i][m] \in {testTag[i][m], NoDigest}
         \/ \E q \in Run : /\ PushBake(q) /\ m = StampOf(q) /\ baked[q] \in Attempt
                           /\ testTag'[i][m] = Built(q, i)
<1>1. ASSUME NEW q \in Run, PushBake(q), testTag'[i][m] # testTag[i][m]
      PROVE  m = StampOf(q) /\ testTag'[i][m] = Built(q, i) /\ baked[q] \in Attempt
  <2>1. PICK S \in SUBSET Image : PushTesting(q, S)
    BY <1>1 DEF PushBake
  <2>2. build[q] = "baking"
    BY <1>1 DEF PushBake
  <2>3. baked[q] \in Attempt
    BY <2>2 DEF BakesInOrder
  <2>4. testTag'[i] = [testTag[i] EXCEPT ![StampOf(q)] = Built(q, i)]
    BY <1>1, <2>1 DEF PushTesting
  <2>5. testTag[i] \in [Minute -> Digest \cup {NoDigest}]
    BY DEF TypeOK
  <2>6. QED BY <1>1, <2>3, <2>4, <2>5
<1>2. ASSUME NEW d \in stored, Clean(d)
      PROVE  testTag'[i][m] \in {testTag[i][m], NoDigest}
  BY <1>2 DEF Clean, TypeOK
<1>3. QED BY <1>1, <1>2, WhoChangesWhat

LEMMA TestTagOriginStep ==
  ASSUME TypeOK, BakesInOrder, TestTagOrigin, [Next]_vars
  PROVE  TestTagOrigin'
<1> SUFFICES ASSUME NEW i \in Image, NEW m \in Minute, testTag'[i][m] # NoDigest
             PROVE  /\ testTag'[i][m].image = i
                    /\ stamp'[testTag'[i][m].run][testTag'[i][m].build] = m
  BY DEF TestTagOrigin
<1>1. CASE testTag'[i][m] = testTag[i][m]
  <2>1. testTag[i][m] \in Digest
    BY <1>1 DEF TypeOK
  <2>2. testTag[i][m].run \in Run /\ testTag[i][m].build \in Attempt
    BY <2>1 DEF Digest
  <2>3. /\ testTag[i][m].image = i
        /\ stamp[testTag[i][m].run][testTag[i][m].build] = m
    BY <1>1 DEF TestTagOrigin
  <2>4. stamp'[testTag[i][m].run][testTag[i][m].build] = m
    BY <2>2, <2>3, StampKept, MinuteIsTag
  <2>5. QED BY <1>1, <2>3, <2>4
<1>2. ASSUME NEW q \in Run, PushBake(q), m = StampOf(q), testTag'[i][m] = Built(q, i)
      PROVE  /\ testTag'[i][m].image = i
             /\ stamp'[testTag'[i][m].run][testTag'[i][m].build] = m
  BY <1>2 DEF PushBake, Built, StampOf
<1>3. QED BY <1>1, <1>2, TestTagChange

(* With distinct minutes, what a tag is given is what it has.              *)
LEMMA TestTagsKeptStep ==
  ASSUME TypeOK, BakesInOrder, TestTagOrigin, [Next]_vars, DistinctMinutes',
         NEW i \in Image, NEW m \in Minute, testTag[i][m] # NoDigest
  PROVE  testTag'[i][m] \in {testTag[i][m], NoDigest}
<1>1. DistinctMinutes
  BY DistinctBefore
<1>2. ASSUME NEW q \in Run, m = StampOf(q), baked[q] \in Attempt,
             testTag'[i][m] = Built(q, i)
      PROVE  testTag'[i][m] = testTag[i][m]
  <2>1. testTag[i][m] \in Digest
    BY DEF TypeOK
  <2>2. /\ testTag[i][m].run \in Run /\ testTag[i][m].build \in Attempt
        /\ testTag[i][m].image = i
        /\ stamp[testTag[i][m].run][testTag[i][m].build] = m
    BY <2>1 DEF Digest, TestTagOrigin
  <2>3. testTag[i][m].run = q /\ testTag[i][m].build = baked[q]
    BY <1>1, <1>2, <2>2, MinuteIsTag DEF DistinctMinutes, StampOf
  <2>4. testTag[i][m] = [run |-> q, build |-> baked[q], image |-> i]
    BY <2>1, <2>2, <2>3 DEF Digest
  <2>5. QED BY <1>2, <2>4 DEF Built
<1>3. QED BY <1>2, TestTagChange

(* A job reports success only for what it has done, and what it has done   *)
(* is not undone by a later attempt.                                       *)
LEMMA JobsDoneStep ==
  ASSUME TypeOK, BakesInOrder, TestTagsOwn, JobsDone, [Next]_vars, NEW r \in Run
  PROVE  /\ build'[r] = "success" => BuiltBy(r)' \subseteq testSigned'
         /\ \A c \in Check, i \in Image : check'[r][c][i] = "success" =>
              /\ build'[r] = "success"
              /\ c = "provenance" \/ DistinctMinutes' => Built(r, i)' \in passed'[c]
         /\ copied'[r] # {} \/ copy'[r] # "queued" => CopyDue(r)'
         /\ copy'[r] = "success" => /\ copied'[r] = Image \X {Rolling, StampOf(r)'}
                                    /\ BuiltBy(r)' \subseteq prodSigned'
         /\ \A i \in Image :
              /\ attest'[r][i] # "queued" => copy'[r] = "success"
              /\ attest'[r][i] = "success" => Built(r, i)' \in prodAttested'
<1>1. build'[r] = "success" => BuiltBy(r)' \subseteq testSigned'
  <2>1. CASE build[r] = "success"
    BY <2>1, BuildKept, EvidenceGrows DEF JobsDone
  <2>2. ASSUME NEW q \in Run, SignTesting(q), build[r] # "success", build'[r] = "success"
        PROVE  BuiltBy(r)' \subseteq testSigned'
    <3>1. q = r /\ BuiltBy(r)' = BuiltBy(r)
      BY <2>2 DEF SignTesting, TypeOK, BuiltBy, Built
    <3>2. QED BY <2>2, <3>1 DEF SignTesting, TypeOK
  <2>3. ASSUME build[r] # "success", build'[r] = "success"
        PROVE  \E q \in Run : SignTesting(q)
    <3>1. ASSUME NEW q \in Run, StartBake(q) \/ PushBake(q) \/ RerunFailed(q)
          PROVE  FALSE
      BY <2>3, <3>1 DEF StartBake, PushBake, RerunFailed, Requeued, TypeOK
    <3>2. \/ \E q \in Run : StartBake(q) \/ PushBake(q) \/ SignTesting(q) \/ RerunFailed(q)
          \/ build' = build
      BY WhoChangesWhat
    <3>3. QED BY <2>3, <3>1, <3>2
  <2>4. QED BY <2>1, <2>2, <2>3
<1>2. ASSUME NEW c \in Check, NEW i \in Image, check'[r][c][i] = "success"
      PROVE  /\ build'[r] = "success"
             /\ c = "provenance" \/ DistinctMinutes' => Built(r, i)' \in passed'[c]
  <2>1. CASE check[r][c][i] = "success"
    BY <2>1, BuildKept, EvidenceGrows, DistinctBefore DEF JobsDone
  <2>2. ASSUME RunCheck(r, c, i), check[r][c][i] # "success"
        PROVE  /\ build'[r] = "success"
               /\ c = "provenance" \/ DistinctMinutes' => Built(r, i)' \in passed'[c]
    <3>1. /\ passed' = [passed EXCEPT ![c] = @ \cup {Checked(r, c, i)}]
          /\ Checked(r, c, i) \in stored
      BY <1>2, <2>2, EntryOfThree DEF RunCheck, TypeOK, Status
    <3>2. Checked(r, c, i) \in passed'[c]
      BY <3>1 DEF TypeOK
    <3>3. build[r] = "success"
      BY <2>2 DEF RunCheck
    <3>4. c = "provenance" \/ DistinctMinutes => Checked(r, c, i) = Built(r, i)
      BY <3>1, <3>3, NoDigestIsNone DEF Checked, TestTagsOwn, TypeOK
    <3>5. QED BY <3>2, <3>3, <3>4, BuildKept, DistinctBefore
  <2>3. ASSUME check[r][c][i] # "success" PROVE RunCheck(r, c, i)
    <3>1. ASSUME NEW q \in Run, NEW d \in Check, NEW j \in Image, RunCheck(q, d, j)
          PROVE  q = r /\ d = c /\ j = i
      <4>1. <<r, c, i>> # <<q, d, j>> => check'[r][c][i] = check[r][c][i]
        BY <3>1, EntryOfThree DEF RunCheck, TypeOK, Status
      <4>2. QED BY <1>2, <2>3, <4>1
    <3>2. ASSUME NEW q \in Run, RerunFailed(q) PROVE FALSE
      <4>1. check' = [check EXCEPT ![q] = [d \in Check |->
                        [j \in Image |-> Requeued(check[q][d][j])]]]
        BY <3>2 DEF RerunFailed
      <4>2. check'[r][c][i] \in {check[r][c][i], Requeued(check[r][c][i])}
        BY <4>1 DEF TypeOK
      <4>3. QED BY <1>2, <2>3, <4>2 DEF Requeued
    <3>3. \/ \E q \in Run, d \in Check, j \in Image : RunCheck(q, d, j)
          \/ \E q \in Run : RerunFailed(q)
          \/ check' = check
      BY WhoChangesWhat
    <3>4. QED BY <1>2, <2>3, <3>1, <3>2, <3>3
  <2>4. QED BY <2>1, <2>2, <2>3
<1>3. ASSUME NEW q \in Run,
             \/ \E i \in Image, t \in Tag : CopyTag(q, i, t)
             \/ SignProduction(q) \/ CopyFails(q) \/ RerunFailed(q)
      PROVE  /\ copied'[r] # {} \/ copy'[r] # "queued" =>
                  CopyDue(r) \/ copied[r] # {} \/ copy[r] # "queued"
             /\ copy'[r] = "success" =>
                  copy[r] = "success" \/ (q = r /\ SignProduction(q))
  <2>1. CASE \E i \in Image, t \in Tag : CopyTag(q, i, t)
    <3>1. copy' = copy /\ CopyDue(q) /\ (q # r => copied'[r] = copied[r])
      BY <2>1 DEF CopyTag, TypeOK
    <3>2. QED BY <3>1
  <2>2. CASE SignProduction(q) \/ CopyFails(q)
    BY <2>2 DEF SignProduction, CopyFails, TypeOK
  <2>3. CASE RerunFailed(q)
    <3>1. copied'[r] # {} => copied[r] # {}
      BY <2>3 DEF RerunFailed, TypeOK
    <3>2. copy'[r] \in {copy[r], Requeued(copy[r])}
      BY <2>3 DEF RerunFailed, TypeOK
    <3>3. QED BY <3>1, <3>2 DEF Requeued
  <2>4. QED BY <1>3, <2>1, <2>2, <2>3
<1>4. \/ \E q \in Run : \/ \E i \in Image, t \in Tag : CopyTag(q, i, t)
                        \/ SignProduction(q) \/ CopyFails(q) \/ RerunFailed(q)
      \/ copied' = copied /\ copy' = copy
  BY WhoChangesWhat
<1>5. copied'[r] # {} \/ copy'[r] # "queued" => CopyDue(r)'
  BY <1>3, <1>4, ResultsKept DEF JobsDone
<1>6. ASSUME copy'[r] = "success"
      PROVE  /\ copied'[r] = Image \X {Rolling, StampOf(r)'}
             /\ BuiltBy(r)' \subseteq prodSigned'
  <2>1. CASE copy[r] = "success"
    <3>1. build[r] = "success"
      BY <2>1 DEF JobsDone, CopyDue
    <3>2. QED BY <2>1, <3>1, BuildKept, ResultsKept, EvidenceGrows DEF JobsDone
  <2>2. CASE SignProduction(r)
    <3>1. build[r] = "success" /\ copied' = copied
      BY <2>2 DEF SignProduction, CopyDue
    <3>2. QED BY <2>2, <3>1, BuildKept DEF SignProduction
  <2>3. QED BY <1>3, <1>4, <1>6, <2>1, <2>2
<1>7. ASSUME NEW i \in Image, attest'[r][i] = "success"
      PROVE  copy'[r] = "success" /\ Built(r, i)' \in prodAttested'
  <2>1. CASE attest[r][i] = "success"
    <3>1. copy[r] = "success" /\ build[r] = "success"
      BY <2>1 DEF JobsDone, CopyDue
    <3>2. QED BY <2>1, <3>1, BuildKept, ResultsKept, EvidenceGrows DEF JobsDone
  <2>2. ASSUME AttestProduction(r, i), attest[r][i] # "success"
        PROVE  copy'[r] = "success" /\ Built(r, i)' \in prodAttested'
    <3>1. prodAttested' = prodAttested \cup {Built(r, i)}
      BY <1>7, <2>2 DEF AttestProduction, TypeOK
    <3>2. copy[r] = "success" /\ build[r] = "success"
      BY <2>2 DEF AttestProduction, JobsDone, CopyDue
    <3>3. QED BY <3>1, <3>2, BuildKept, ResultsKept
  <2>3. ASSUME attest[r][i] # "success" PROVE AttestProduction(r, i)
    <3>1. ASSUME NEW q \in Run, NEW j \in Image, AttestProduction(q, j)
          PROVE  q = r /\ j = i
      <4>1. PICK s : attest' = [attest EXCEPT ![q][j] = s]
        BY <3>1 DEF AttestProduction
      <4>2. ~(q = r /\ j = i) => attest'[r][i] = attest[r][i]
        BY <4>1 DEF TypeOK
      <4>3. QED BY <1>7, <2>3, <4>2
    <3>2. ASSUME NEW q \in Run, RerunFailed(q) PROVE FALSE
      BY <1>7, <2>3, <3>2 DEF RerunFailed, Requeued, TypeOK
    <3>3. \/ \E q \in Run, j \in Image : AttestProduction(q, j)
          \/ \E q \in Run : RerunFailed(q)
          \/ attest' = attest
      BY WhoChangesWhat
    <3>4. QED BY <1>7, <2>3, <3>1, <3>2, <3>3
  <2>4. QED BY <2>1, <2>2, <2>3
<1>8. ASSUME NEW i \in Image, attest'[r][i] # "queued"
      PROVE  copy'[r] = "success"
  <2>1. ASSUME attest[r][i] = "queued" PROVE copy[r] = "success"
    <3>1. ASSUME NEW q \in Run, NEW j \in Image, AttestProduction(q, j)
          PROVE  copy[r] = "success"
      BY <1>8, <2>1, <3>1 DEF AttestProduction, TypeOK
    <3>2. ASSUME NEW q \in Run, RerunFailed(q) PROVE FALSE
      BY <1>8, <2>1, <3>2 DEF RerunFailed, Requeued, TypeOK
    <3>3. \/ \E q \in Run, j \in Image : AttestProduction(q, j)
          \/ \E q \in Run : RerunFailed(q)
          \/ attest' = attest
      BY WhoChangesWhat
    <3>4. QED BY <1>8, <2>1, <3>1, <3>2, <3>3
  <2>2. QED BY <2>1, ResultsKept DEF JobsDone
<1>9. QED BY <1>1, <1>2, <1>5, <1>6, <1>7, <1>8

-----------------------------------------------------------------------------
(* The production repository. *)

(* What one copy does to the production tags. *)
LEMMA CopyFacts ==
  ASSUME TypeOK, BakesInOrder, JobsDone,
         NEW r \in Run, NEW i \in Image, NEW t \in Tag, CopyTag(r, i, t)
  PROVE  /\ prodTag'[i][t] = Built(r, i)
         /\ \A j \in Image, u \in Tag :
              <<j, u>> # <<i, t>> => prodTag'[j][u] = prodTag[j][u]
         /\ t # Rolling => t = StampOf(r) /\ t \in Minute
         /\ Built(r, i) \in Digest
         /\ ref[r] = "main" /\ Built(r, i) \in testSigned
         /\ \A c \in Check : c = "provenance" \/ DistinctMinutes => Built(r, i) \in passed[c]
         /\ UNCHANGED <<ref, baked, stamp, testSigned, passed>>
<1>1. /\ prodTag' = [prodTag EXCEPT ![i][t] = Built(r, i)]
      /\ CopyDue(r) /\ t \in {Rolling, StampOf(r)}
      /\ UNCHANGED <<ref, baked, stamp, testSigned, passed>>
  BY DEF CopyTag, testing
<1>2. StampOf(r) \in Minute /\ Built(r, i) \in Digest
  BY <1>1, BuiltIsDigest DEF CopyDue
<1>3. /\ prodTag'[i][t] = Built(r, i)
      /\ \A j \in Image, u \in Tag :
           <<j, u>> # <<i, t>> => prodTag'[j][u] = prodTag[j][u]
  BY <1>1 DEF TypeOK
<1>4. Built(r, i) \in testSigned
  BY <1>1 DEF CopyDue, JobsDone, BuiltBy
<1>5. \A c \in Check : c = "provenance" \/ DistinctMinutes => Built(r, i) \in passed[c]
  BY <1>1 DEF CopyDue, ChecksPassed, JobsDone
<1>6. QED BY <1>1, <1>2, <1>3, <1>4, <1>5 DEF CopyDue

(* A tag that changes was copied in this step; the others keep their       *)
(* image.                                                                  *)
LEMMA TagChange ==
  ASSUME TypeOK, BakesInOrder, JobsDone, [Next]_vars,
         NEW i \in Image, NEW t \in Tag, prodTag'[i][t] # prodTag[i][t]
  PROVE  \E r \in Run : CopyTag(r, i, t)
<1>1. ASSUME NEW r \in Run, NEW j \in Image, NEW u \in Tag, CopyTag(r, j, u)
      PROVE  CopyTag(r, i, t)
  <2>1. <<i, t>> = <<j, u>>
    BY <1>1, CopyFacts
  <2>2. QED BY <1>1, <2>1
<1>2. QED BY <1>1, WhoChangesWhat

(* A timestamped production tag names an image of its own minute's bake,   *)
(* built from main.                                                        *)
LEMMA OriginStep ==
  ASSUME TypeOK, BakesInOrder, JobsDone, ProductionOrigin, ProductionProvenance,
         [Next]_vars
  PROVE  ProductionOrigin' /\ ProductionProvenance'
<1>1. ASSUME NEW i \in Image, NEW t \in Tag, prodTag'[i][t] # NoDigest
      PROVE  /\ ref'[prodTag'[i][t].run] = "main"
             /\ prodTag'[i][t] \in testSigned' \cap passed'["provenance"]
             /\ t \in Minute => /\ prodTag'[i][t].image = i
                                /\ stamp'[prodTag'[i][t].run][prodTag'[i][t].build] = t
  <2>1. "provenance" \in Check
    BY DEF Check
  <2>2. CASE prodTag'[i][t] = prodTag[i][t]
    <3>1. prodTag[i][t] \in Digest
      BY <1>1, <2>2 DEF TypeOK
    <3>2. prodTag[i][t].run \in Run /\ prodTag[i][t].build \in Attempt
      BY <3>1 DEF Digest
    <3>3. attempt[prodTag[i][t].run] > 0 /\ ref[prodTag[i][t].run] = "main"
      BY <1>1, <2>2, <3>2, BoundAssumption DEF ProductionProvenance, BakesInOrder, TypeOK
    <3>4. ref'[prodTag[i][t].run] = "main"
      BY <3>2, <3>3, RefKept
    <3>5. prodTag[i][t] \in testSigned' \cap passed'["provenance"]
      BY <1>1, <2>1, <2>2, EvidenceGrows DEF ProductionProvenance
    <3>6. t \in Minute => /\ prodTag[i][t].image = i
                          /\ stamp'[prodTag[i][t].run][prodTag[i][t].build] = t
      BY <1>1, <2>2, <3>2, StampKept, MinuteIsTag DEF ProductionOrigin
    <3>7. QED BY <2>2, <3>4, <3>5, <3>6
  <2>3. ASSUME NEW r \in Run, CopyTag(r, i, t)
        PROVE  /\ ref'[prodTag'[i][t].run] = "main"
               /\ prodTag'[i][t] \in testSigned' \cap passed'["provenance"]
               /\ t \in Minute => /\ prodTag'[i][t].image = i
                                  /\ stamp'[prodTag'[i][t].run][prodTag'[i][t].build] = t
    <3>1. prodTag'[i][t] = [run |-> r, build |-> baked[r], image |-> i]
      BY <2>3, CopyFacts DEF Built
    <3>2. t \in Minute => stamp[r][baked[r]] = t
      BY <2>3, CopyFacts, MinuteIsTag DEF StampOf, Rolling
    <3>3. /\ ref' = ref /\ stamp' = stamp /\ testSigned' = testSigned /\ passed' = passed
          /\ ref[r] = "main" /\ Built(r, i) \in testSigned
          /\ Built(r, i) \in passed["provenance"]
      BY <2>1, <2>3, CopyFacts
    <3>4. prodTag'[i][t] = Built(r, i)
      BY <2>3, CopyFacts
    <3>5. /\ prodTag'[i][t].run = r /\ prodTag'[i][t].build = baked[r]
          /\ prodTag'[i][t].image = i
      BY <3>1
    <3>6. /\ ref'[prodTag'[i][t].run] = "main"
          /\ prodTag'[i][t] \in testSigned' \cap passed'["provenance"]
      BY <3>3, <3>4, <3>5
    <3>7. stamp'[prodTag'[i][t].run][prodTag'[i][t].build] = stamp[r][baked[r]]
      BY <3>3, <3>5
    <3>8. QED BY <3>2, <3>5, <3>6, <3>7
  <2>4. QED BY <2>2, <2>3, TagChange
<1>2. ProductionProvenance'
  BY <1>1 DEF ProductionProvenance
<1>3. ASSUME NEW i \in Image, NEW m \in Minute, prodTag'[i][m] # NoDigest
      PROVE  /\ prodTag'[i][m].image = i
             /\ stamp'[prodTag'[i][m].run][prodTag'[i][m].build] = m
  BY <1>1, <1>3, MinuteIsTag
<1>4. ProductionOrigin'
  BY <1>3 DEF ProductionOrigin
<1>5. QED BY <1>2, <1>4

(* With distinct minutes, what is copied has passed every check.           *)
LEMMA TestedStep ==
  ASSUME TypeOK, BakesInOrder, JobsDone, ProductionTested, [Next]_vars
  PROVE  ProductionTested'
<1> SUFFICES ASSUME DistinctMinutes', NEW i \in Image, NEW t \in Tag,
                    prodTag'[i][t] # NoDigest, NEW c \in Check
             PROVE  prodTag'[i][t] \in passed'[c]
  BY DEF ProductionTested
<1>1. DistinctMinutes
  BY DistinctBefore
<1>2. CASE prodTag'[i][t] = prodTag[i][t]
  BY <1>1, <1>2, EvidenceGrows DEF ProductionTested
<1>3. CASE \E r \in Run : CopyTag(r, i, t)
  BY <1>1, <1>3, CopyFacts
<1>4. QED BY <1>2, <1>3, TagChange

(* With distinct minutes, a timestamped tag is only ever given its own     *)
(* image again.                                                            *)
LEMMA MinuteTagStep ==
  ASSUME TypeOK, BakesInOrder, JobsDone, ProductionOrigin, [Next]_vars, DistinctMinutes',
         NEW i \in Image, NEW m \in Minute, prodTag[i][m] # NoDigest
  PROVE  prodTag'[i][m] = prodTag[i][m]
<1>1. DistinctMinutes /\ m \in Tag
  BY DistinctBefore, MinuteIsTag
<1>2. ASSUME NEW r \in Run, CopyTag(r, i, m) PROVE prodTag'[i][m] = prodTag[i][m]
  <2>1. prodTag[i][m] \in Digest
    BY <1>1 DEF TypeOK
  <2>2. /\ prodTag[i][m].run \in Run /\ prodTag[i][m].build \in Attempt
        /\ prodTag[i][m].image = i
        /\ stamp[prodTag[i][m].run][prodTag[i][m].build] = m
    BY <2>1 DEF Digest, ProductionOrigin
  <2>3. stamp[r][baked[r]] = m /\ m # 0
    BY <1>1, <1>2, CopyFacts, MinuteIsTag DEF StampOf, Rolling
  <2>4. baked[r] \in Attempt
    BY <1>2 DEF CopyTag, CopyDue, BakesInOrder
  <2>5. prodTag[i][m].run = r /\ prodTag[i][m].build = baked[r]
    BY <1>1, <2>2, <2>3, <2>4 DEF DistinctMinutes
  <2>6. prodTag[i][m] = [run |-> r, build |-> baked[r], image |-> i]
    BY <2>1, <2>2, <2>5 DEF Digest
  <2>7. QED BY <1>1, <1>2, <2>6, CopyFacts DEF Built
<1>3. QED BY <1>1, <1>2, TagChange

(* With distinct minutes, what a run copied is not overwritten.            *)
LEMMA CopiesStep ==
  ASSUME TypeOK, BakesInOrder, JobsDone, ProductionOrigin, CopiesKept, [Next]_vars
  PROVE  CopiesKept'
<1> SUFFICES ASSUME DistinctMinutes', NEW r \in Run, NEW i \in Image, NEW m \in Minute,
                    <<i, m>> \in copied'[r]
             PROVE  m = StampOf(r)' /\ prodTag'[i][m] = Built(r, i)'
  BY DEF CopiesKept
<1>1. DistinctMinutes /\ m \in Tag /\ m # Rolling
  BY DistinctBefore, MinuteIsTag DEF Rolling
<1>2. CASE <<i, m>> \in copied[r]
  <2>1. build[r] = "success"
    BY <1>2 DEF JobsDone, CopyDue
  <2>2. m = StampOf(r) /\ prodTag[i][m] = Built(r, i) /\ Built(r, i) # NoDigest
    BY <1>1, <1>2, <2>1, BuiltIsDigest, NoDigestIsNone DEF CopiesKept
  <2>3. QED BY <2>1, <2>2, BuildKept, MinuteTagStep
<1>3. ASSUME NEW q \in Run, NEW j \in Image, NEW t \in Tag, CopyTag(q, j, t),
             <<i, m>> \notin copied[r]
      PROVE  m = StampOf(r)' /\ prodTag'[i][m] = Built(r, i)'
  <2>1. q = r /\ <<i, m>> = <<j, t>>
    BY <1>3 DEF CopyTag, TypeOK
  <2>2. CopyTag(r, i, m) /\ build[r] = "success"
    BY <1>3, <2>1 DEF CopyTag, CopyDue
  <2>3. QED BY <1>1, <2>2, CopyFacts, BuildKept
<1>4. ASSUME <<i, m>> \notin copied[r]
      PROVE  \E q \in Run, j \in Image, t \in Tag : CopyTag(q, j, t)
  <2>1. ASSUME NEW q \in Run, RerunFailed(q) PROVE copied'[r] \subseteq copied[r]
    BY <2>1 DEF RerunFailed, TypeOK
  <2>2. \/ \E q \in Run, j \in Image, t \in Tag : CopyTag(q, j, t)
        \/ \E q \in Run : RerunFailed(q)
        \/ copied' = copied
    BY WhoChangesWhat
  <2>3. QED BY <1>4, <2>1, <2>2
<1>5. QED BY <1>2, <1>3, <1>4

-----------------------------------------------------------------------------
(* The initial state satisfies the invariant. *)
LEMMA InitPipelineInv == Init => PipelineInv
<1> SUFFICES ASSUME Init PROVE PipelineInv
  OBVIOUS
<1>1. TypeOK
  BY TypeInit
<1>2. BakesInOrder /\ JobsDone /\ TestTagsOwn /\ TestTagOrigin
  BY DEF Init, BakesInOrder, JobsDone, TestTagsOwn, TestTagOrigin
<1>3. ProductionOrigin /\ CopiesKept /\ ProductionTested /\ ProductionProvenance
  BY MinuteIsTag DEF Init, ProductionOrigin, CopiesKept, ProductionTested,
     ProductionProvenance
<1>4. QED BY <1>1, <1>2, <1>3 DEF PipelineInv

(* An image that is not in the testing repository does not come back to it *)
(* once its build has succeeded.                                           *)
LEMMA StoredStep ==
  ASSUME TypeOK, [Next]_vars, NEW r \in Run, build[r] = "success",
         NEW i \in Image, Built(r, i) \notin stored
  PROVE  Built(r, i) \notin stored'
<1>1. ASSUME NEW q \in Run, PushBake(q) PROVE Built(r, i) \notin stored'
  <2>1. PICK S \in SUBSET Image : PushTesting(q, S)
    BY <1>1 DEF PushBake
  <2>2. q # r
    BY <1>1 DEF PushBake
  <2>3. QED BY <2>1, <2>2 DEF PushTesting, Built
<1>2. ASSUME NEW d \in stored, Clean(d) PROVE Built(r, i) \notin stored'
  BY <1>2 DEF Clean
<1>3. (\E q \in Run : PushBake(q)) \/ (\E d \in stored : Clean(d)) \/ stored' = stored
  BY WhoChangesWhat
<1>4. QED BY <1>1, <1>2, <1>3

(* Every step preserves it. *)
LEMMA PipelineInvStep == PipelineInv /\ [Next]_vars => PipelineInv'
<1> SUFFICES ASSUME PipelineInv, [Next]_vars PROVE PipelineInv'
  OBVIOUS
<1> USE DEF PipelineInv
<1>1. TypeOK' /\ BakesInOrder' /\ TestTagsOwn' /\ TestTagOrigin'
  BY TypeStep, BakesInOrderStep, TestTagsStep, TestTagOriginStep
<1>2. JobsDone'
  BY JobsDoneStep DEF JobsDone
<1>3. ProductionOrigin' /\ ProductionProvenance' /\ ProductionTested' /\ CopiesKept'
  BY OriginStep, TestedStep, CopiesStep
<1>4. QED BY <1>1, <1>2, <1>3

(* PipelineInv holds in every state of every instance.                     *)
THEOREM PipelineInvariant == Spec => []PipelineInv
BY InitPipelineInv, PipelineInvStep, PTL DEF Spec

(* An image under a production tag passed every check itself, as long as   *)
(* no two bakes started in one minute.                                     *)
THEOREM ProductionIsTested == Spec => []ProductionTested
BY PipelineInvariant, PTL DEF PipelineInv

(* An image under a production tag was built from main, signed and given   *)
(* testing provenance, even when minutes collide.                          *)
THEOREM ProductionHasProvenance == Spec => []ProductionProvenance
BY PipelineInvariant, PTL DEF PipelineInv

(* A green run of main has its signed and attested images in production.   *)
THEOREM GreenIsPublished == Spec => []GreenMeansPublished
<1>1. PipelineInv => GreenMeansPublished
  <2> SUFFICES ASSUME PipelineInv, NEW r \in Run, Green(r), ref[r] = "main",
                      NEW i \in Image
               PROVE  /\ Built(r, i) \in prodSigned \cap prodAttested
                      /\ DistinctMinutes => prodTag[i][StampOf(r)] = Built(r, i)
    BY DEF GreenMeansPublished
  <2> USE DEF PipelineInv
  <2>1. copy[r] = "success" /\ attest[r][i] = "success" /\ build[r] = "success"
    BY DEF Green
  <2>2. Built(r, i) \in prodSigned \cap prodAttested
    BY <2>1 DEF JobsDone, BuiltBy
  <2>3. StampOf(r) \in Minute /\ <<i, StampOf(r)>> \in copied[r]
    BY <2>1, BuiltIsDigest DEF JobsDone
  <2>4. QED BY <2>2, <2>3 DEF CopiesKept
<1>2. QED BY <1>1, PipelineInvariant, PTL

(* A timestamped production tag never changes what it names, as long as no *)
(* two bakes started in one minute.                                        *)
THEOREM ProductionIsImmutable == Spec => ProductionImmutable
<1>1. PipelineInv /\ [Next]_vars =>
        [DistinctMinutes' =>
           \A i \in Image, m \in Minute :
             prodTag[i][m] # NoDigest => prodTag'[i][m] = prodTag[i][m]]_vars
  BY MinuteTagStep DEF PipelineInv
<1>2. QED BY <1>1, PipelineInvariant, PTL DEF Spec, ProductionImmutable

(* A timestamped testing tag leads to one image until it is cleaned up, as *)
(* long as no two bakes started in one minute.                             *)
THEOREM TestTagsAreKept == Spec => TestTagsKept
<1>1. PipelineInv /\ [Next]_vars =>
        [DistinctMinutes' =>
           \A i \in Image, m \in Minute : testTag[i][m] # NoDigest =>
             testTag'[i][m] \in {testTag[i][m], NoDigest}]_vars
  BY TestTagsKeptStep DEF PipelineInv
<1>2. QED BY <1>1, PipelineInvariant, PTL DEF Spec, TestTagsKept

(* A run whose testing image was deleted before its copy never publishes   *)
(* it.                                                                     *)
THEOREM LostStaysLost == Spec => LostForGood
<1>1. ASSUME PipelineInv, [Next]_vars, NEW r \in Run, Lost(r) PROVE Lost(r)'
  <2> USE DEF PipelineInv
  <2>1. PICK i \in Image : Built(r, i) \notin stored /\ <<i, StampOf(r)>> \notin copied[r]
    BY <1>1 DEF Lost
  <2>2. /\ ref[r] = "main" /\ build[r] = "success" /\ copy[r] # "success"
        /\ StampOf(r) \in Minute
    BY <1>1, BuiltIsDigest DEF Lost
  <2>3. /\ build'[r] = "success" /\ StampOf(r)' = StampOf(r) /\ Built(r, i)' = Built(r, i)
    BY <1>1, <2>2, BuildKept
  <2>4. ref'[r] = "main"
    BY <1>1, <2>2, RefKept, BoundAssumption DEF BakesInOrder, TypeOK
  <2>5. Built(r, i) \notin stored'
    BY <1>1, <2>1, <2>2, StoredStep
  <2>6. <<i, StampOf(r)>> \notin copied'[r] /\ copy'[r] # "success"
    <3>1. ASSUME NEW q \in Run, NEW j \in Image, NEW t \in Tag, CopyTag(q, j, t)
          PROVE  <<i, StampOf(r)>> \notin copied'[r]
      BY <2>1, <3>1 DEF CopyTag, TypeOK
    <3>2. ASSUME NEW q \in Run, RerunFailed(q)
          PROVE  <<i, StampOf(r)>> \notin copied'[r] /\ copy'[r] # "success"
      BY <2>1, <2>2, <3>2 DEF RerunFailed, Requeued, TypeOK
    <3>3. ASSUME NEW q \in Run, SignProduction(q) \/ CopyFails(q)
          PROVE  copy'[r] # "success"
      <4>1. <<i, StampOf(r)>> \in Image \X {Rolling, StampOf(r)}
        OBVIOUS
      <4>2. ~SignProduction(r)
        BY <2>1, <4>1 DEF SignProduction
      <4>3. CASE SignProduction(q)
        <5>1. q # r
          BY <4>2, <4>3
        <5>2. QED BY <2>2, <4>3, <5>1 DEF SignProduction, TypeOK
      <4>4. CASE CopyFails(q)
        BY <2>2, <4>4 DEF CopyFails, TypeOK
      <4>5. QED BY <3>3, <4>3, <4>4
    <3>4. QED BY <1>1, <2>1, <2>2, <3>1, <3>2, <3>3, WhoChangesWhat
  <2>7. QED BY <2>2, <2>3, <2>4, <2>5, <2>6 DEF Lost
<1>2. PipelineInv /\ [Next]_vars => [\A r \in Run : Lost(r) => Lost(r)']_vars
  BY <1>1
<1>3. QED BY <1>2, PipelineInvariant, PTL DEF Spec, LostForGood

-----------------------------------------------------------------------------
(* The two facts on which RetriedOnce rests, for every matrix and however  *)
(* many runs: a run that has not ended goes on, and going on brings it     *)
(* nearer to its end.                                                      *)

(* Every run is green, has failed or goes on, and only one of them.        *)
THEOREM RunsEndOrGoOn == Spec => []RunsEnd
<1>1. PipelineInv => RunsEnd
  <2> SUFFICES ASSUME PipelineInv, NEW r \in Run, attempt[r] > 0
               PROVE  /\ Green(r) \/ Failed(r) \/ GoesOn(r)
                      /\ ~(Green(r) /\ Failed(r)) /\ ~(Green(r) /\ GoesOn(r))
                      /\ ~(Failed(r) /\ GoesOn(r))
    BY DEF RunsEnd
  <2>1. /\ build[r] \in Status \cup {"baking", "pushed"}
        /\ copy[r] \in Status /\ ref[r] \in {"none", "main", "branch"}
        /\ \A i \in Image : attest[r][i] \in Status
        /\ \A c \in Check, i \in Image : check[r][c][i] \in Status
    BY DEF PipelineInv, TypeOK
  <2>2. copy[r] # "queued" => /\ build[r] = "success" /\ ref[r] = "main"
                              /\ ChecksPassed(r)
    BY DEF PipelineInv, JobsDone, CopyDue
  <2>3. build[r] # "success" => ~Green(r) /\ (Failed(r) <=> ~GoesOn(r))
    BY <2>1, <2>2 DEF Green, Failed, GoesOn, CopyDue, Status
  <2>4. ASSUME build[r] = "success", ~ChecksOver(r)
        PROVE  GoesOn(r) /\ ~Green(r) /\ ~Failed(r)
    BY <2>4 DEF ChecksOver, ChecksPassed, Green, Failed, GoesOn
  <2>5. ASSUME build[r] = "success", ChecksOver(r), ~ChecksPassed(r)
        PROVE  Failed(r) /\ ~Green(r) /\ ~GoesOn(r)
    BY <2>2, <2>5 DEF ChecksOver, Green, Failed, GoesOn, CopyDue
  <2>6. ASSUME build[r] = "success", ChecksPassed(r), ref[r] # "main"
        PROVE  Green(r) /\ ~Failed(r) /\ ~GoesOn(r)
    <3>1. copy[r] = "queued"
      BY <2>2, <2>6
    <3>2. \A i \in Image : attest[r][i] # "failure"
      BY <2>6, <3>1 DEF PipelineInv, JobsDone
    <3>3. QED BY <2>6, <3>1, <3>2 DEF Green, Failed, GoesOn, CopyDue, ChecksPassed
  <2>7. ASSUME build[r] = "success", ChecksPassed(r), ref[r] = "main"
        PROVE  /\ Green(r) \/ Failed(r) \/ GoesOn(r)
               /\ ~(Green(r) /\ Failed(r)) /\ ~(Green(r) /\ GoesOn(r))
               /\ ~(Failed(r) /\ GoesOn(r))
    <3>1. CopyDue(r) /\ ChecksOver(r)
      BY <2>7 DEF CopyDue, ChecksOver, ChecksPassed
    <3>2. Green(r) <=> copy[r] = "success" /\ \A i \in Image : attest[r][i] = "success"
      BY <2>7 DEF Green
    <3>3. Failed(r) <=> \/ copy[r] = "failure"
                        \/ /\ \E i \in Image : attest[r][i] = "failure"
                           /\ \A i \in Image : attest[r][i] # "queued"
      BY <2>7, <3>1 DEF Failed
    <3>4. GoesOn(r) <=> \/ copy[r] = "queued"
                        \/ /\ copy[r] = "success"
                           /\ \E i \in Image : attest[r][i] = "queued"
      BY <2>7, <3>1 DEF GoesOn, ChecksPassed
    <3>5. copy[r] # "success" => \A i \in Image : attest[r][i] = "queued"
      BY DEF PipelineInv, JobsDone
    <3>6. QED BY <2>1, <3>2, <3>3, <3>4, <3>5, ImageAssumption DEF Status
  <2>8. QED BY <2>1, <2>3, <2>4, <2>5, <2>6, <2>7
<1>2. QED BY <1>1, PipelineInvariant, PTL

(* What a step leaves of the results of run r. *)
LEMMA ResultsStand ==
  ASSUME TypeOK, BakesInOrder, JobsDone, [Next]_vars, NEW r \in Run
  PROVE  /\ build[r] \in {"success", "failure"} => Stands(r, build[r], build'[r])
         /\ Stands(r, copy[r], copy'[r])
         /\ \A i \in Image :
              /\ Stands(r, attest[r][i], attest'[r][i])
              /\ \A c \in Check : Stands(r, check[r][c][i], check'[r][c][i])
<1>1. ASSUME RerunFailed(r) PROVE attempt'[r] # attempt[r]
  <2>1. attempt[r] \in Nat /\ attempt'[r] = attempt[r] + 1
    BY <1>1 DEF RerunFailed, TypeOK
  <2>2. QED BY <2>1
<1>2. ASSUME build[r] = "failure", attempt'[r] = attempt[r] PROVE build'[r] = "failure"
  <2>1. ASSUME NEW q \in Run, StartBake(q) \/ PushBake(q) \/ SignTesting(q)
        PROVE  build'[r] = "failure"
    BY <1>2, <2>1 DEF StartBake, PushBake, SignTesting, TypeOK
  <2>2. ASSUME NEW q \in Run, RerunFailed(q) PROVE build'[r] = "failure"
    BY <1>1, <1>2, <2>2 DEF RerunFailed, TypeOK
  <2>3. QED BY <1>2, <2>1, <2>2, WhoChangesWhat
<1>3. ASSUME copy[r] = "failure", attempt'[r] = attempt[r] PROVE copy'[r] = "failure"
  <2>1. ASSUME NEW q \in Run, SignProduction(q) \/ CopyFails(q)
        PROVE  copy'[r] = "failure"
    BY <1>3, <2>1 DEF SignProduction, CopyFails, TypeOK
  <2>2. ASSUME NEW q \in Run, RerunFailed(q) PROVE copy'[r] = "failure"
    BY <1>1, <1>3, <2>2 DEF RerunFailed, TypeOK
  <2>3. QED BY <1>3, <2>1, <2>2, WhoChangesWhat
<1>4. ASSUME NEW i \in Image PROVE Stands(r, attest[r][i], attest'[r][i])
  <2>1. ASSUME NEW q \in Run, NEW j \in Image, AttestProduction(q, j), attest[r][i] # "queued"
        PROVE  attest'[r][i] = attest[r][i]
    <3>1. PICK s : attest' = [attest EXCEPT ![q][j] = s]
      BY <2>1 DEF AttestProduction
    <3>2. ~(q = r /\ j = i)
      BY <2>1 DEF AttestProduction
    <3>3. QED BY <3>1, <3>2 DEF TypeOK
  <2>2. ASSUME NEW q \in Run, RerunFailed(q), q # r PROVE attest'[r][i] = attest[r][i]
    BY <2>2 DEF RerunFailed, TypeOK
  <2>3. RerunFailed(r) /\ attest[r][i] = "success" => attest'[r][i] = "success"
    BY DEF RerunFailed, Requeued, TypeOK
  <2>4. QED BY <1>1, <2>1, <2>2, <2>3, WhoChangesWhat DEF Stands
<1>5. ASSUME NEW c \in Check, NEW i \in Image
      PROVE  Stands(r, check[r][c][i], check'[r][c][i])
  <2>1. ASSUME NEW q \in Run, NEW d \in Check, NEW j \in Image, RunCheck(q, d, j),
               check[r][c][i] # "queued"
        PROVE  check'[r][c][i] = check[r][c][i]
    <3>1. <<r, c, i>> # <<q, d, j>>
      BY <2>1 DEF RunCheck
    <3>2. QED BY <2>1, <3>1, EntryOfThree DEF RunCheck, TypeOK, Status
  <2>2. ASSUME NEW q \in Run, RerunFailed(q), q # r
        PROVE  check'[r][c][i] = check[r][c][i]
    BY <2>2 DEF RerunFailed, TypeOK
  <2>3. check[r][c][i] = "success" => check'[r][c][i] = "success"
    BY ResultsKept
  <2>4. QED BY <1>1, <2>1, <2>2, <2>3, WhoChangesWhat DEF Stands
<1>6. build[r] \in {"success", "failure"} => Stands(r, build[r], build'[r])
  BY <1>2, BuildKept DEF Stands
<1>7. Stands(r, copy[r], copy'[r])
  BY <1>3, ResultsKept DEF Stands, TypeOK, Status
<1>8. QED BY <1>4, <1>5, <1>6, <1>7

(* A result is final within its attempt, a success in all of them.         *)
THEOREM ResultsAreFinal == Spec => ResultsFinal
<1>1. PipelineInv /\ [Next]_vars =>
        [\A r \in Run :
           /\ build[r] \in {"success", "failure"} => Stands(r, build[r], build'[r])
           /\ Stands(r, copy[r], copy'[r])
           /\ \A i \in Image :
                /\ Stands(r, attest[r][i], attest'[r][i])
                /\ \A c \in Check : Stands(r, check[r][c][i], check'[r][c][i])]_vars
  BY ResultsStand DEF PipelineInv
<1>2. QED BY <1>1, PipelineInvariant, PTL DEF Spec, ResultsFinal

-----------------------------------------------------------------------------
(* While minutes stay distinct, the pipeline implements the contract of    *)
(* the production repository: artifacts become fit for ever, and a step    *)
(* that moves a production tag gives it a fit artifact of its own minute.  *)
THEOREM PipelineKeepsContract == Spec => ContractKept
<1>1. Init => Contract!Init
  BY DEF Init, Contract!Init, Fit
<1>2. PipelineInv /\ [Next]_vars =>
        [DistinctMinutes' => [Contract!Next]_(Contract!vars)]_vars
  <2> SUFFICES ASSUME PipelineInv, Next, DistinctMinutes'
               PROVE  [Contract!Next]_(Contract!vars)
    BY DEF vars, testing, production, Contract!vars, Fit
  <2> USE DEF PipelineInv
  <2>1. [Next]_vars /\ DistinctMinutes
    BY DistinctBefore
  <2>2. ASSUME NEW r \in Run, NEW i \in Image, NEW t \in Tag, CopyTag(r, i, t)
        PROVE  Contract!Publish
    <3>1. Built(r, i) \in Fit
      BY <2>1, <2>2, CopyFacts DEF Fit, Built
    <3>2. Fit' = Fit
      BY <2>2, CopyFacts DEF Fit
    <3>3. prodTag' = [prodTag EXCEPT ![i][t] = Built(r, i)]
      BY <2>2 DEF CopyTag
    <3>4. t # Rolling => prodTag[i][t] \in {NoDigest, Built(r, i)}
      BY <2>1, <2>2, CopyFacts, MinuteTagStep
    <3>5. QED BY <3>1, <3>2, <3>3, <3>4 DEF Contract!Publish
  <2>3. ASSUME prodTag' = prodTag PROVE Contract!Approve
    <3>1. Fit \subseteq Fit'
      <4>1. ASSUME NEW d \in Fit PROVE d \in Fit'
        <5>1. d.run \in Run /\ ref[d.run] = "main" /\ d \in testSigned
          BY DEF Fit, TypeOK, Digest
        <5>2. attempt[d.run] > 0
          BY <5>1, BoundAssumption DEF BakesInOrder, TypeOK
        <5>3. QED BY <2>1, <5>1, <5>2, RefKept, EvidenceGrows DEF Fit
      <4>2. QED BY <4>1
    <3>2. Fit' \subseteq Digest
      BY <2>1, TypeStep DEF Fit, TypeOK
    <3>3. Fit' = Fit \cup Fit'
      BY <3>1
    <3>4. QED BY <2>3, <3>2, <3>3 DEF Contract!Approve
  <2>4. QED BY <2>1, <2>2, <2>3, WhoChangesWhat DEF Contract!Next
<1>3. QED
  BY <1>1, <1>2, PipelineInvariant, PTL DEF Spec, ContractKept
=============================================================================
