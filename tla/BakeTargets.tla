---------------------------- MODULE BakeTargets ----------------------------
(***************************************************************************)
(* Build, test and publication of one extension's images: the jobs of      *)
(* .github/workflows/bake_targets.yml over the tags of docker-bake.hcl,    *)
(* with the single automatic retry of retry-failed-builds.yml.  Runs of    *)
(* every branch are under way at once and share one testing repository;    *)
(* runs of main also write the production repository.  A job may fail at   *)
(* any step and leaves behind what it had pushed, signed or copied.  The   *)
(* daily clean-up of registry-clean.yml deletes old testing images, also   *)
(* those a run still has to check or copy.                                 *)
(*                                                                         *)
(* One image is built for each entry of the build matrix (distribution and *)
(* PostgreSQL major).  All runs build the same extension version, the case *)
(* in which their tags can meet.                                           *)
(***************************************************************************)
EXTENDS Naturals

CONSTANTS Image,       \* the build matrix, docker-bake.hcl getBuildMatrix
          Cnpg,        \* the CloudNativePG releases of the smoke tests
          MaxRun,      \* how many runs of the workflow are considered
          MaxAttempt,  \* how often one run may be attempted
          MaxMinute,   \* how many minutes pass
          CutOff       \* the age, in minutes, from which an image is deleted

ASSUME BoundAssumption == /\ MaxRun \in Nat \ {0}
                          /\ MaxAttempt \in Nat \ {0}
                          /\ MaxMinute \in Nat \ {0}
                          /\ CutOff \in Nat
ASSUME CnpgAssumption == Cnpg \cap {"provenance", "security"} = {}
ASSUME ImageAssumption == Image # {}

Run == 1..MaxRun
Attempt == 1..MaxAttempt
Minute == 1..MaxMinute

(* The checks an image goes through: its testing provenance, the security  *)
(* checks, and one smoke test for each CloudNativePG release.              *)
Check == {"provenance", "security"} \cup Cnpg

(* The tags of an image: one for each minute a bake can start in, and the  *)
(* rolling one.                                                            *)
Rolling == 0
Tag == {Rolling} \cup Minute

(* A digest is unique to a bake and a matrix entry: the image carries the  *)
(* creation time, the revision and the attestations of its build.          *)
Digest == [run : Run, build : Attempt, image : Image]
NoDigest == [run |-> 0, build |-> 0, image |-> 0]

VARIABLES
    clock,     \* the minute it is
    ref,       \* ref[r]: "main" or "branch", "none" before run r exists
    attempt,   \* attempt[r]: the current attempt of run r
    build,     \* build[r]: where job testbuild stands
    baked,     \* baked[r]: the attempt whose bake testbuild's outputs come from
    stamp,     \* stamp[r][k]: the minute the bake of attempt k started in
    check,     \* check[r][c][i]: status of check c on image i
    copy,      \* copy[r]: where job copytoproduction stands
    copied,    \* copied[r]: the tags that job has copied
    attest,    \* attest[r][i]: status of production-provenance on image i
    testTag,   \* testTag[i][m]: timestamped tags of the testing repository
    stored,    \* the digests whose image the testing repository has
    testSigned,\* history: the digests given a signature there
    passed,    \* passed[c]: history, the digests that check c passed on
    prodTag,   \* prodTag[i][t]: the tags of the production repository
    prodSigned,\* the digests with a signature in the production repository
    prodAttested \* the digests with a provenance attestation there

testing == <<testTag, stored, testSigned, passed>>
production == <<prodTag, prodSigned, prodAttested>>
jobs == <<build, baked, stamp, check, copy, copied, attest>>
vars == <<clock, ref, attempt, jobs, testing, production>>

Status == {"queued", "success", "failure"}

Built(r, i) == [run |-> r, build |-> baked[r], image |-> i]
BuiltBy(r) == {Built(r, i) : i \in Image}
StampOf(r) == stamp[r][baked[r]]

ChecksPassed(r) == \A c \in Check, i \in Image : check[r][c][i] = "success"

(* Faults for the checks to find: a copy that does not wait for the        *)
(* checks, or is not confined to main.                                     *)
CopyUnchecked(r) == ref[r] = "main" /\ build[r] = "success"
CopyFromAnywhere(r) == build[r] = "success" /\ ChecksPassed(r)

(* The condition of copytoproduction and what its `needs' add to it. *)
CopyDue(r) == ref[r] = "main" /\ build[r] = "success" /\ ChecksPassed(r)

-----------------------------------------------------------------------------
Init == /\ clock = 1
        /\ ref = [r \in Run |-> "none"]
        /\ attempt = [r \in Run |-> 0]
        /\ build = [r \in Run |-> "queued"]
        /\ baked = [r \in Run |-> 0]
        /\ stamp = [r \in Run |-> [k \in Attempt |-> 0]]
        /\ check = [r \in Run |-> [c \in Check |-> [i \in Image |-> "queued"]]]
        /\ copy = [r \in Run |-> "queued"]
        /\ copied = [r \in Run |-> {}]
        /\ attest = [r \in Run |-> [i \in Image |-> "queued"]]
        /\ testTag = [i \in Image |-> [m \in Minute |-> NoDigest]]
        /\ stored = {}
        /\ testSigned = {}
        /\ passed = [c \in Check |-> {}]
        /\ prodTag = [i \in Image |-> [t \in Tag |-> NoDigest]]
        /\ prodSigned = {}
        /\ prodAttested = {}

Tick == /\ clock < MaxMinute
        /\ clock' = clock + 1
        /\ UNCHANGED <<ref, attempt, jobs, testing, production>>

(* A push to any branch starts a run. *)
TriggerRun(r) ==
    /\ attempt[r] = 0
    /\ \A q \in 1..(r - 1) : attempt[q] > 0
    /\ \E b \in {"main", "branch"} : ref' = [ref EXCEPT ![r] = b]
    /\ attempt' = [attempt EXCEPT ![r] = 1]
    /\ UNCHANGED <<clock, jobs, testing, production>>

-----------------------------------------------------------------------------
(* Job testbuild. *)

(* Bake evaluates timestamp() when it starts; the tags carry its minute.   *)
StartBake(r) ==
    /\ attempt[r] > 0 /\ build[r] = "queued"
    /\ build' = [build EXCEPT ![r] = "baking"]
    /\ baked' = [baked EXCEPT ![r] = attempt[r]]
    /\ stamp' = [stamp EXCEPT ![r][attempt[r]] = clock]
    /\ UNCHANGED <<clock, ref, attempt, check, copy, copied, attest,
                   testing, production>>

(* The images S are pushed under their timestamped tags. *)
PushTesting(r, S) ==
    /\ testTag' = [i \in Image |->
                     IF i \in S THEN [testTag[i] EXCEPT ![StampOf(r)] = Built(r, i)]
                     ELSE testTag[i]]
    /\ stored' = stored \cup {Built(r, i) : i \in S}

(* Bake pushes every image, or fails having pushed some of them. *)
PushBake(r) ==
    /\ build[r] = "baking"
    /\ \/ PushTesting(r, Image) /\ build' = [build EXCEPT ![r] = "pushed"]
       \/ \E S \in SUBSET Image :
            PushTesting(r, S) /\ build' = [build EXCEPT ![r] = "failure"]
    /\ UNCHANGED <<clock, ref, attempt, baked, stamp, check, copy, copied, attest,
                   testSigned, passed, production>>

(* Every digest of bake's metadata is signed, or the job fails on the way. *)
SignTesting(r) ==
    /\ build[r] = "pushed"
    /\ \/ /\ BuiltBy(r) \subseteq stored
          /\ testSigned' = testSigned \cup BuiltBy(r)
          /\ build' = [build EXCEPT ![r] = "success"]
       \/ \E S \in SUBSET BuiltBy(r) :
            /\ testSigned' = testSigned \cup S
            /\ build' = [build EXCEPT ![r] = "failure"]
    /\ UNCHANGED <<clock, ref, attempt, baked, stamp, check, copy, copied, attest,
                   testTag, stored, passed, production>>

-----------------------------------------------------------------------------
(* The image a check looks at: provenance is given the digest, the others  *)
(* the timestamped tag (outputs `provenance_matrix' and `images').         *)
Checked(r, c, i) ==
    IF c = "provenance" THEN Built(r, i) ELSE testTag[i][StampOf(r)]

(* One entry of the matrix of a check job ends; without its image it       *)
(* fails.                                                                  *)
RunCheck(r, c, i) ==
    /\ build[r] = "success" /\ check[r][c][i] = "queued"
    /\ \/ /\ Checked(r, c, i) \in stored
          /\ check' = [check EXCEPT ![r][c][i] = "success"]
          /\ passed' = [passed EXCEPT ![c] = @ \cup {Checked(r, c, i)}]
       \/ /\ check' = [check EXCEPT ![r][c][i] = "failure"]
          /\ UNCHANGED passed
    /\ UNCHANGED <<clock, ref, attempt, build, baked, stamp, copy, copied, attest,
                   testTag, stored, testSigned, production>>

-----------------------------------------------------------------------------
(* Faults: the tags are made up again when the copy runs; the job ends     *)
(* after the first tag.                                                    *)
CopyTagOfNow(r, i, t) ==
    /\ CopyDue(r) /\ copy[r] = "queued" /\ Built(r, i) \in stored
    /\ t \in {Rolling, clock} /\ <<i, t>> \notin copied[r]
    /\ prodTag' = [prodTag EXCEPT ![i][t] = Built(r, i)]
    /\ copied' = [copied EXCEPT ![r] = @ \cup {<<i, t>>}]
    /\ UNCHANGED <<clock, ref, attempt, build, baked, stamp, check, copy, attest,
                   testing, prodSigned, prodAttested>>

SignProductionEarly(r) ==
    /\ copy[r] = "queued" /\ CopyDue(r) /\ copied[r] # {}
    /\ prodSigned' = prodSigned \cup BuiltBy(r)
    /\ copy' = [copy EXCEPT ![r] = "success"]
    /\ UNCHANGED <<clock, ref, attempt, build, baked, stamp, check, copied, attest,
                   testing, prodTag, prodAttested>>

(* Job copytoproduction: the copy-images action copies each tag of bake's  *)
(* metadata by its digest, then signs the copies.                          *)
CopyTag(r, i, t) ==
    /\ CopyDue(r) /\ copy[r] = "queued" /\ Built(r, i) \in stored
    /\ t \in {Rolling, StampOf(r)} /\ <<i, t>> \notin copied[r]
    /\ prodTag' = [prodTag EXCEPT ![i][t] = Built(r, i)]
    /\ copied' = [copied EXCEPT ![r] = @ \cup {<<i, t>>}]
    /\ UNCHANGED <<clock, ref, attempt, build, baked, stamp, check, copy, attest,
                   testing, prodSigned, prodAttested>>

SignProduction(r) ==
    /\ copy[r] = "queued" /\ CopyDue(r)
    /\ copied[r] = Image \X {Rolling, StampOf(r)}
    /\ prodSigned' = prodSigned \cup BuiltBy(r)
    /\ copy' = [copy EXCEPT ![r] = "success"]
    /\ UNCHANGED <<clock, ref, attempt, build, baked, stamp, check, copied, attest,
                   testing, prodTag, prodAttested>>

(* The copy fails; what it copied stays. *)
CopyFails(r) ==
    /\ CopyDue(r) /\ copy[r] = "queued"
    /\ copy' = [copy EXCEPT ![r] = "failure"]
    /\ UNCHANGED <<clock, ref, attempt, build, baked, stamp, check, copied, attest,
                   testing, production>>

(* Job production-provenance, by digest, in the production repository. *)
AttestProduction(r, i) ==
    /\ copy[r] = "success" /\ attest[r][i] = "queued"
    /\ \/ /\ attest' = [attest EXCEPT ![r][i] = "success"]
          /\ prodAttested' = prodAttested \cup {Built(r, i)}
       \/ /\ attest' = [attest EXCEPT ![r][i] = "failure"]
          /\ UNCHANGED prodAttested
    /\ UNCHANGED <<clock, ref, attempt, build, baked, stamp, check, copy, copied,
                   testing, prodTag, prodSigned>>

-----------------------------------------------------------------------------
(* The run as a whole. *)
ChecksOver(r) == \A c \in Check, i \in Image : check[r][c][i] # "queued"

Green(r) == /\ attempt[r] > 0 /\ build[r] = "success" /\ ChecksPassed(r)
            /\ ref[r] = "main" =>
                 /\ copy[r] = "success"
                 /\ \A i \in Image : attest[r][i] = "success"

(* A fault: a failed copy is not seen as a failure of the run. *)
FailedBeforeCopy(r) == \/ build[r] = "failure"
                       \/ build[r] = "success" /\ ChecksOver(r) /\ ~ChecksPassed(r)

Failed(r) == \/ build[r] = "failure"
             \/ /\ build[r] = "success" /\ ChecksOver(r)
                /\ \/ ~ChecksPassed(r)
                   \/ copy[r] = "failure"
                   \/ /\ \E i \in Image : attest[r][i] = "failure"
                      /\ \A i \in Image : attest[r][i] # "queued"

(* A fault: the jobs that succeeded are run again too. *)
RequeuedAll(s) == "queued"

Requeued(s) == IF s = "failure" THEN "queued" ELSE s

(* "Re-run failed jobs": what succeeded keeps its result and its outputs.  *)
RerunFailed(r) ==
    /\ Failed(r) /\ attempt[r] < MaxAttempt
    /\ attempt' = [attempt EXCEPT ![r] = @ + 1]
    /\ build' = [build EXCEPT ![r] = Requeued(@)]
    /\ check' = [check EXCEPT ![r] = [c \in Check |->
                   [i \in Image |-> Requeued(check[r][c][i])]]]
    /\ copied' = [copied EXCEPT ![r] = IF copy[r] = "failure" THEN {} ELSE @]
    /\ copy' = [copy EXCEPT ![r] = Requeued(@)]
    /\ attest' = [attest EXCEPT ![r] = [i \in Image |-> Requeued(attest[r][i])]]
    /\ UNCHANGED <<clock, ref, baked, stamp, testing, production>>

(* The workflow retries the first attempt only; a maintainer may re-run    *)
(* any failed one.                                                         *)
Retry(r) == attempt[r] = 1 /\ RerunFailed(r)
ManualRerun(r) == RerunFailed(r)

-----------------------------------------------------------------------------
(* Workflow clean-testing-package: a testing image is deleted with its tag *)
(* once it is as old as the cut-off; one of the most recent is kept.       *)
MinuteOf(d) == stamp[d.run][d.build]

Clean(d) ==
    /\ MinuteOf(d) + CutOff <= clock
    /\ \E e \in stored \ {d} : MinuteOf(e) >= MinuteOf(d)
    /\ stored' = stored \ {d}
    /\ testTag' = [testTag EXCEPT ![d.image][MinuteOf(d)] =
                     IF @ = d THEN NoDigest ELSE @]
    /\ UNCHANGED <<clock, ref, attempt, jobs, testSigned, passed, production>>

Next == \/ Tick
        \/ \E d \in stored : Clean(d)
        \/ \E r \in Run :
             \/ TriggerRun(r) \/ StartBake(r) \/ PushBake(r) \/ SignTesting(r)
             \/ \E c \in Check, i \in Image : RunCheck(r, c, i)
             \/ \E i \in Image, t \in Tag : CopyTag(r, i, t)
             \/ SignProduction(r) \/ CopyFails(r)
             \/ \E i \in Image : AttestProduction(r, i)
             \/ Retry(r) \/ ManualRerun(r)

Spec == Init /\ [][Next]_vars

(* Jobs end one way or the other, and the retry workflow runs.  Pushes and *)
(* manual re-runs need never come.                                         *)
FairSpec ==
    /\ Spec
    /\ \A r \in Run :
         /\ WF_vars(StartBake(r)) /\ WF_vars(PushBake(r)) /\ WF_vars(SignTesting(r))
         /\ \A c \in Check, i \in Image : WF_vars(RunCheck(r, c, i))
         /\ WF_vars((\E i \in Image, t \in Tag : CopyTag(r, i, t))
                     \/ SignProduction(r) \/ CopyFails(r))
         /\ \A i \in Image : WF_vars(AttestProduction(r, i))
         /\ WF_vars(Retry(r))

-----------------------------------------------------------------------------
(* TypeOK: every variable has its type. *)
TypeOK == /\ clock \in Minute
          /\ ref \in [Run -> {"none", "main", "branch"}]
          /\ attempt \in [Run -> 0..MaxAttempt]
          /\ build \in [Run -> Status \cup {"baking", "pushed"}]
          /\ baked \in [Run -> 0..MaxAttempt]
          /\ stamp \in [Run -> [Attempt -> 0..MaxMinute]]
          /\ check \in [Run -> [Check -> [Image -> Status]]]
          /\ copy \in [Run -> Status]
          /\ copied \in [Run -> SUBSET (Image \X Tag)]
          /\ attest \in [Run -> [Image -> Status]]
          /\ testTag \in [Image -> [Minute -> Digest \cup {NoDigest}]]
          /\ stored \subseteq Digest
          /\ testSigned \subseteq Digest
          /\ passed \in [Check -> SUBSET Digest]
          /\ prodTag \in [Image -> [Tag -> Digest \cup {NoDigest}]]
          /\ prodSigned \subseteq Digest
          /\ prodAttested \subseteq Digest

(* Two bakes of the extension never start in the same minute.  Nothing in  *)
(* the workflow ensures it: it is the premise under which the tags are     *)
(* unique, and it stays visible in what relies on it.                      *)
DistinctMinutes ==
    \A p, q \in Run, j, k \in Attempt :
      stamp[p][j] = stamp[q][k] /\ stamp[p][j] # 0 => p = q /\ j = k

(* ProductionTested: whatever failed, was retried or ran in parallel, an   *)
(* image under any production tag passed every check itself: the digest    *)
(* that is copied is the one the tag led the security and smoke tests to   *)
(* (bake_targets.yml, `images' against `metadata').                        *)
ProductionTested ==
    DistinctMinutes =>
      \A i \in Image, t \in Tag : prodTag[i][t] # NoDigest =>
        \A c \in Check : prodTag[i][t] \in passed[c]

(* ProductionProvenance: even if minutes collide, an image under a         *)
(* production tag was built from main, and was signed and given its        *)
(* testing provenance before ("Testing provenance gates production         *)
(* copying").                                                              *)
ProductionProvenance ==
    \A i \in Image, t \in Tag : prodTag[i][t] # NoDigest =>
      /\ ref[prodTag[i][t].run] = "main"
      /\ prodTag[i][t] \in testSigned \cap passed["provenance"]

(* GreenMeansPublished: when a run of main is green, after any sequence of *)
(* failures and re-runs, each of its images is in production under its     *)
(* timestamped tag, with a signature and a provenance attestation there    *)
(* (copytoproduction, production-provenance).                              *)
GreenMeansPublished ==
    \A r \in Run : Green(r) /\ ref[r] = "main" =>
      \A i \in Image : /\ Built(r, i) \in prodSigned \cap prodAttested
                       /\ DistinctMinutes => prodTag[i][StampOf(r)] = Built(r, i)

(* ProductionImmutable: a timestamped production tag never changes what it *)
(* names, a second copy after a failure included ("immutable container     *)
(* images", README.md:5).                                                  *)
ProductionImmutable ==
    [][DistinctMinutes' =>
         \A i \in Image, m \in Minute :
           prodTag[i][m] # NoDigest => prodTag'[i][m] = prodTag[i][m]]_vars

(* RetriedOnce: a failed first attempt is attempted again, and a run ends  *)
(* green or has failed twice (retry-failed-builds.yml).                    *)
RetriedOnce ==
    \A r \in Run : attempt[r] > 0 ~> Green(r) \/ (attempt[r] > 1 /\ Failed(r))

(* A successful build of main still has to copy an image that the clean-up *)
(* has deleted.                                                            *)
Lost(r) == /\ ref[r] = "main" /\ build[r] = "success" /\ copy[r] # "success"
           /\ \E i \in Image : /\ Built(r, i) \notin stored
                              /\ <<i, StampOf(r)>> \notin copied[r]

(* LostForGood: a run whose testing image was deleted before its copy      *)
(* never publishes it: the build succeeded, so neither the retry nor any   *)
(* re-run builds the image again, and the copy fails each time             *)
(* (registry-clean.yml against retry-failed-builds.yml).                   *)
LostForGood == [][\A r \in Run : Lost(r) => Lost(r)']_vars

(* TimestampTagUnique (bake_targets.yml:74, "extract each unique tag (e.g. *)
(* the ones with the timestamp)"): a timestamped tag names one image for   *)
(* as long as it exists.                                                   *)
TimestampTagUnique ==
    [][\A i \in Image, m \in Minute :
         testTag[i][m] # NoDigest => testTag'[i][m] = testTag[i][m]]_vars

(* TestTagsKept: what TimestampTagUnique comes down to: while minutes are  *)
(* distinct, nothing but the clean-up moves a timestamped testing tag, and *)
(* it only takes it away.                                                  *)
TestTagsKept ==
    [][DistinctMinutes' =>
         \A i \in Image, m \in Minute : testTag[i][m] # NoDigest =>
           testTag'[i][m] \in {testTag[i][m], NoDigest}]_vars

(* Something in run r can go on: the guards of its jobs. *)
GoesOn(r) ==
    \/ build[r] \in {"queued", "baking", "pushed"}
    \/ build[r] = "success" /\ \E c \in Check, i \in Image : check[r][c][i] = "queued"
    \/ CopyDue(r) /\ copy[r] = "queued"
    \/ copy[r] = "success" /\ \E i \in Image : attest[r][i] = "queued"

(* RunsEnd: a run is green, or failed, or goes on, and only one of them:   *)
(* no combination of failures of its jobs, skipped jobs and re-runs leaves *)
(* a run waiting for nothing, which the retry would not see, and no run    *)
(* is retried while a job is under way whose result it would lose          *)
(* (retry-failed-builds.yml waits for the conclusion of the whole run).    *)
RunsEnd ==
    \A r \in Run : attempt[r] > 0 =>
      /\ Green(r) \/ Failed(r) \/ GoesOn(r)
      /\ ~(Green(r) /\ Failed(r)) /\ ~(Green(r) /\ GoesOn(r))
      /\ ~(Failed(r) /\ GoesOn(r))

(* A result s of a job of run r is still there as t. *)
Stands(r, s, t) == /\ s = "success" => t = "success"
                   /\ s # "queued" /\ attempt'[r] = attempt[r] => t = s

(* ResultsFinal: no step of any run takes back a success, in whichever     *)
(* attempt, nor within an attempt a failure ("Re-run failed jobs"), so     *)
(* that a run has only so many steps to take before it ends.               *)
ResultsFinal ==
    [][\A r \in Run :
         /\ build[r] \in {"success", "failure"} => Stands(r, build[r], build'[r])
         /\ Stands(r, copy[r], copy'[r])
         /\ \A i \in Image :
              /\ Stands(r, attest[r][i], attest'[r][i])
              /\ \A c \in Check : Stands(r, check[r][c][i], check'[r][c][i])]_vars
-----------------------------------------------------------------------------
(* The inductive invariant behind the safety properties. *)

(* A run that does not exist has done nothing; a bake has its minute, and  *)
(* no later attempt has one yet.                                           *)
BakesInOrder ==
    \A r \in Run :
      /\ ref[r] = "none" <=> attempt[r] = 0
      /\ attempt[r] = 0 => build[r] = "queued"
      /\ \A k \in Attempt : k > attempt[r] => stamp[r][k] = 0
      /\ build[r] = "queued" /\ attempt[r] > 0 => stamp[r][attempt[r]] = 0
      /\ build[r] # "queued" => baked[r] \in Attempt /\ stamp[r][baked[r]] \in Minute

(* What the jobs of a run have established when they have a result. *)
JobsDone ==
    \A r \in Run :
      /\ build[r] = "success" => BuiltBy(r) \subseteq testSigned
      /\ \A c \in Check, i \in Image : check[r][c][i] = "success" =>
           /\ build[r] = "success"
           /\ c = "provenance" \/ DistinctMinutes => Built(r, i) \in passed[c]
      /\ copied[r] # {} \/ copy[r] # "queued" => CopyDue(r)
      /\ copy[r] = "success" => /\ copied[r] = Image \X {Rolling, StampOf(r)}
                                /\ BuiltBy(r) \subseteq prodSigned
      /\ \A i \in Image :
           /\ attest[r][i] # "queued" => copy[r] = "success"
           /\ attest[r][i] = "success" => Built(r, i) \in prodAttested

(* While minutes are distinct, the timestamped testing tags of a run lead  *)
(* to the images it built, or nowhere.                                     *)
TestTagsOwn ==
    DistinctMinutes =>
      \A r \in Run, i \in Image : build[r] \in {"pushed", "success"} =>
        testTag[i][StampOf(r)] \in {Built(r, i), NoDigest}

(* A timestamped production tag names an image of the bake that started in *)
(* that minute.                                                            *)
ProductionOrigin ==
    \A i \in Image, m \in Minute : prodTag[i][m] # NoDigest =>
      /\ prodTag[i][m].image = i
      /\ stamp[prodTag[i][m].run][prodTag[i][m].build] = m

(* A timestamped testing tag names an image of the bake that started in    *)
(* that minute.                                                            *)
TestTagOrigin ==
    \A i \in Image, m \in Minute : testTag[i][m] # NoDigest =>
      /\ testTag[i][m].image = i
      /\ stamp[testTag[i][m].run][testTag[i][m].build] = m

(* While minutes are distinct, what a run copied is still there. *)
CopiesKept ==
    DistinctMinutes =>
      \A r \in Run, i \in Image, m \in Minute :
        <<i, m>> \in copied[r] => m = StampOf(r) /\ prodTag[i][m] = Built(r, i)

(* PipelineInv: TypeOK, the facts above and the safety properties; every   *)
(* step preserves it.                                                      *)
PipelineInv == /\ TypeOK /\ BakesInOrder /\ JobsDone /\ TestTagsOwn /\ TestTagOrigin
               /\ ProductionOrigin /\ CopiesKept
               /\ ProductionTested /\ ProductionProvenance

-----------------------------------------------------------------------------
Fit == {d \in testSigned : ref[d.run] = "main" /\ \A c \in Check : d \in passed[c]}

Contract == INSTANCE ProductionContract
              WITH Artifact <- Digest, None <- NoDigest, fit <- Fit

(* ContractKept: while minutes are distinct, the pipeline implements the   *)
(* contract of the production repository.  Every step of every run,        *)
(* failing, retried or concurrent, approves artifacts, gives a fit one a   *)
(* tag it may have, or changes nothing a user of the repository sees.      *)
ContractKept ==
    /\ Contract!Init
    /\ [][DistinctMinutes' => [Contract!Next]_(Contract!vars)]_vars
=============================================================================
