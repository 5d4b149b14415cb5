---------------------------- MODULE SbomRelease ----------------------------
(***************************************************************************)
(* The release of the SBOM generator image: the jobs of                    *)
(* .github/workflows/sbom-generator.yml and the two operations of          *)
(* sbom-generator/release.py, `build' and `promote', over one registry     *)
(* repository.  Several runs of the workflow are under way at once; each   *)
(* goes through its checks (cancelled by a newer run of the same ref) and, *)
(* when it has to publish, through the steps of the publish job (one at a  *)
(* time, one more may wait).  A job may die at any step; what it pushed,   *)
(* signed or tagged stays in the registry.                                 *)
(*                                                                         *)
(* A digest stands for an image index.  It is content-addressed, so the    *)
(* revision label that release.py reads from the image is part of it.      *)
(***************************************************************************)
EXTENDS Naturals

CONSTANTS Arch,         \* the architectures of the check matrix
          MaxRun,       \* how many runs of the workflow are considered
          MaxAttempt,   \* how often one run may be attempted
          MaxOutside,   \* how many pushes from outside the workflow
          Triggers      \* the kinds of event considered

Run == 1..MaxRun
Alias == {"latest", "test"}

(* Commit 0 is main before the first run, commit r is the one that push r  *)
(* brought to main, the last one is the head of an unmerged branch.        *)
BranchHead == MaxRun + 1
Commit == 0..BranchHead

(* The events of the workflow: a push to main that touches the generator's *)
(* paths, `generator' telling whether more than packaging changed; a pull  *)
(* request; and a manual dispatch on any ref with its two inputs.          *)
EventRecord == [event : {"push", "pull_request", "workflow_dispatch"},
                ref : {"main", "branch", "pull"},
                generator : BOOLEAN, publish : BOOLEAN, publish_latest : BOOLEAN]

AllTriggers ==
    {t \in EventRecord :
       \/ t.event = "push" /\ t.ref = "main" /\ ~t.publish /\ ~t.publish_latest
       \/ t.event = "pull_request" /\ t.ref = "pull"
            /\ ~t.generator /\ ~t.publish /\ ~t.publish_latest
       \/ t.event = "workflow_dispatch" /\ t.ref # "pull" /\ ~t.generator}

NoTrigger == [event |-> "none", ref |-> "none", generator |-> FALSE,
              publish |-> FALSE, publish_latest |-> FALSE]

ASSUME BoundAssumption == /\ MaxRun \in Nat \ {0}
                          /\ MaxAttempt \in Nat \ {0}
                          /\ MaxOutside \in Nat
ASSUME ArchAssumption == Arch # {} /\ "changes" \notin Arch
ASSUME TriggersAssumption == Triggers \subseteq AllTriggers

(* `builder' is the run that built the image, 0 for anybody else; `nth'    *)
(* tells the builder's images apart; `label' is the revision label.        *)
Digest == [builder : {0} \cup Run, nth : 1..(MaxAttempt + MaxOutside),
           label : Commit]
NoDigest == [builder |-> 0, nth |-> 0, label |-> 0]

VARIABLES
    trigger,    \* trigger[r]: the event that started run r
    rev,        \* rev[r]: the commit run r works on, GITHUB_SHA
    head,       \* the commit main is at
    attempt,    \* attempt[r]: the current attempt of run r, 0 before it exists
    job,        \* job[r]: status of the jobs the publish job needs
    publish,    \* publish[r]: where the publish job of run r stands
    digest,     \* digest[r]: the digest in the publish job's output directory
    commitTag,  \* commitTag[c]: what sha-<c> points at in the registry
    alias,      \* alias[a]: what the moving tag a points at in the registry
    signed,     \* the digests with a cosign signature
    smoked,     \* history: the digests that passed the smoke test
    outside     \* how many pushes came from outside the workflow

registry == <<commitTag, alias, signed, smoked, outside>>
vars == <<trigger, rev, head, attempt, job, publish, digest, registry>>

Job == Arch \cup {"changes"}
JobStatus == {"none", "running", "success", "failure", "cancelled", "skipped"}

(* The steps of a running publish job, named for what it does next. *)
Steps == {"lookup", "build", "inspect", "verify", "smoke", "sign",
          "compare", "retag", "recheck"}
PublishStatus == {"idle", "pending", "done", "failed", "cancelled"} \cup Steps

Publishing(r) == publish[r] \in Steps
(* Faults for the checks to find: a job that failed holds the group; there *)
(* is no group.                                                            *)
GroupWithFailed == {r \in Run : Publishing(r) \/ publish[r] = "failed"}
NoGroup == {}

Group == {r \in Run : Publishing(r)}
Waiting == {r \in Run : publish[r] = "pending"}

(* The condition of the publish job. *)
WantsPublish(r) ==
    LET t == trigger[r] IN
      \/ t.event = "push" /\ t.ref = "main" /\ t.generator
      \/ t.event = "workflow_dispatch"
           /\ (t.publish \/ (t.publish_latest /\ t.ref = "main"))

(* A fault: the destination step trusts the input without the ref. *)
DestinationAsAsked(r) ==
    IF trigger[r].event = "push" \/ trigger[r].publish_latest THEN "latest" ELSE "test"

(* The step "Select publication destination". *)
Destination(r) ==
    IF \/ trigger[r].event = "push"
       \/ trigger[r].publish_latest /\ trigger[r].ref = "main"
    THEN "latest" ELSE "test"

CheckPassed(r) == \A a \in Arch : job[r][a] = "success"
Eligible(r) == WantsPublish(r) /\ \A j \in Job : job[r][j] = "success"

RunOver(r) == /\ attempt[r] > 0
              /\ \A j \in Job : job[r][j] # "running"
              /\ publish[r] = "idle" => ~Eligible(r)
              /\ publish[r] \in {"idle", "done", "failed", "cancelled"}

-----------------------------------------------------------------------------
Init == /\ trigger = [r \in Run |-> NoTrigger]
        /\ rev = [r \in Run |-> 0]
        /\ head = 0
        /\ attempt = [r \in Run |-> 0]
        /\ job = [r \in Run |-> [j \in Job |-> "none"]]
        /\ publish = [r \in Run |-> "idle"]
        /\ digest = [r \in Run |-> NoDigest]
        /\ commitTag = [c \in Commit |-> NoDigest]
        /\ alias = [a \in Alias |-> NoDigest]
        /\ signed = {}
        /\ smoked = {}
        /\ outside = 0

(* The jobs J of run r are queued.  The check of one architecture is alone *)
(* in the concurrency group of its ref, and cancels what is there.         *)
QueueJobs(r, ref, J) ==
    job' = [q \in Run |-> [j \in Job |->
              IF q = r THEN IF j \in J THEN "running"
                            ELSE IF job[r][j] = "none" THEN "skipped"
                            ELSE job[r][j]
              ELSE IF /\ j \in Arch \cap J
                      /\ trigger[q].ref = ref
                      /\ job[q][j] = "running"
                   THEN "cancelled"
              ELSE job[q][j]]]

(* An event starts run r: checks always, `changes' unless it is a pull     *)
(* request.  A push moves main.                                            *)
TriggerRun(r) ==
    \E t \in Triggers :
      /\ attempt[r] = 0
      /\ \A q \in 1..(r - 1) : attempt[q] > 0
      /\ trigger' = [trigger EXCEPT ![r] = t]
      /\ attempt' = [attempt EXCEPT ![r] = 1]
      /\ rev' = [rev EXCEPT ![r] = IF t.event = "push" THEN r
                                   ELSE IF t.ref = "main" THEN head
                                   ELSE BranchHead]
      /\ head' = IF t.event = "push" THEN r ELSE head
      /\ QueueJobs(r, t.ref,
                   IF t.event = "pull_request" THEN Arch ELSE Job)
      /\ UNCHANGED <<publish, digest, registry>>

(* "Re-run failed jobs" on a run that is over: the jobs that succeeded     *)
(* keep their result, the others start again in a fresh runner.            *)
Rerun(r) ==
    LET failed == {j \in Job : job[r][j] \in {"failure", "cancelled"}} IN
      /\ RunOver(r)
      /\ attempt[r] < MaxAttempt
      /\ failed # {} \/ publish[r] \in {"failed", "cancelled"}
      /\ attempt' = [attempt EXCEPT ![r] = @ + 1]
      /\ QueueJobs(r, trigger[r].ref, failed)
      /\ publish' = [publish EXCEPT ![r] = "idle"]
      /\ digest' = [digest EXCEPT ![r] = NoDigest]
      /\ UNCHANGED <<trigger, rev, head, registry>>

(* A check job or the `changes' job ends. *)
FinishJob(r, j) ==
    /\ job[r][j] = "running"
    /\ \E outcome \in {"success", "failure"} :
         job' = [job EXCEPT ![r][j] = outcome]
    /\ UNCHANGED <<trigger, rev, head, attempt, publish, digest, registry>>

(* A fault: publish jobs are not serialized. *)
RequestAtOnce(r) ==
    /\ publish[r] = "idle" /\ Eligible(r)
    /\ publish' = [publish EXCEPT ![r] = "lookup"]
    /\ UNCHANGED <<trigger, rev, head, attempt, job, digest, registry>>

(* The publish job reaches the concurrency group sbom-generator-publish,   *)
(* which never cancels the job that runs but keeps only one waiting: the   *)
(* newcomer replaces the one that was.  A job already waiting for a free   *)
(* group starts before another one is admitted.                            *)
RequestPublish(r) ==
    /\ publish[r] = "idle" /\ Eligible(r)
    /\ IF Group = {}
       THEN /\ Waiting = {}
            /\ publish' = [publish EXCEPT ![r] = "lookup"]
       ELSE publish' = [q \in Run |-> IF q = r THEN "pending"
                                      ELSE IF q \in Waiting THEN "cancelled"
                                      ELSE publish[q]]
    /\ UNCHANGED <<trigger, rev, head, attempt, job, digest, registry>>

StartWaiting(r) ==
    /\ publish[r] = "pending" /\ Group = {}
    /\ publish' = [publish EXCEPT ![r] = "lookup"]
    /\ UNCHANGED <<trigger, rev, head, attempt, job, digest, registry>>

-----------------------------------------------------------------------------
(* The steps of the publish job. *)

(* Run r goes from step `from' to step `to', or fails if `ok' is false. *)
Advance(r, from, ok, to) ==
    /\ publish[r] = from
    /\ publish' = [publish EXCEPT ![r] = IF ok THEN to ELSE "failed"]
    /\ UNCHANGED <<trigger, rev, head, attempt, job, outside>>

(* Faults: any answer of the registry is taken for "not found"; none is.   *)
LookupNever(r) ==
    /\ Advance(r, "lookup", TRUE, "build")
    /\ UNCHANGED <<digest, commitTag, alias, signed, smoked>>

(* build: only an explicit "not found" allows a commit image to be built;  *)
(* an image that is there is reused.                                       *)
Lookup(r) ==
    LET found == commitTag[rev[r]] IN
      /\ Advance(r, "lookup", TRUE, IF found = NoDigest THEN "build" ELSE "verify")
      /\ digest' = [digest EXCEPT ![r] = found]
      /\ UNCHANGED <<commitTag, alias, signed, smoked>>

NewDigest(r) == [builder |-> r, nth |-> attempt[r], label |-> rev[r]]

BuildPush(r) ==
    /\ Advance(r, "build", TRUE, "inspect")
    /\ commitTag' = [commitTag EXCEPT ![rev[r]] = NewDigest(r)]
    /\ digest' = [digest EXCEPT ![r] = NewDigest(r)]
    /\ UNCHANGED <<alias, signed, smoked>>

Inspect(r) ==
    /\ Advance(r, "inspect", commitTag[rev[r]] = digest[r], "verify")
    /\ UNCHANGED <<digest, commitTag, alias, signed, smoked>>

(* A fault: the revision label is not compared. *)
VerifyNothing(r) ==
    /\ Advance(r, "verify", TRUE, "smoke")
    /\ UNCHANGED <<digest, commitTag, alias, signed, smoked>>

(* verify_image: the labels of the image name this run's revision. *)
VerifyImage(r) ==
    /\ Advance(r, "verify", digest[r].label = rev[r], "smoke")
    /\ UNCHANGED <<digest, commitTag, alias, signed, smoked>>

SmokeTest(r) ==
    /\ Advance(r, "smoke", TRUE, "sign")
    /\ smoked' = smoked \cup {digest[r]}
    /\ UNCHANGED <<digest, commitTag, alias, signed>>

Sign(r) ==
    /\ Advance(r, "sign", TRUE, "compare")
    /\ signed' = signed \cup {digest[r]}
    /\ UNCHANGED <<digest, commitTag, alias, smoked>>

(* promote: the commit tag must still be the checked digest, ... *)
Compare(r) ==
    /\ Advance(r, "compare", commitTag[rev[r]] = digest[r], "retag")
    /\ UNCHANGED <<digest, commitTag, alias, signed, smoked>>

(* A fault: promote copies the commit tag, not the checked digest. *)
RetagByTag(r) ==
    /\ Advance(r, "retag", TRUE, "recheck")
    /\ alias' = [alias EXCEPT ![Destination(r)] = commitTag[rev[r]]]
    /\ UNCHANGED <<digest, commitTag, signed, smoked>>

(* ... then the alias is pointed at that digest ... *)
Retag(r) ==
    /\ Advance(r, "retag", TRUE, "recheck")
    /\ alias' = [alias EXCEPT ![Destination(r)] = digest[r]]
    /\ UNCHANGED <<digest, commitTag, signed, smoked>>

(* ... and read back. *)
Recheck(r) ==
    /\ Advance(r, "recheck", alias[Destination(r)] = digest[r], "done")
    /\ UNCHANGED <<digest, commitTag, alias, signed, smoked>>

(* Any step may fail: a registry or network error, a failing smoke test, a *)
(* runner that is lost.                                                    *)
Fail(r) ==
    /\ Publishing(r)
    /\ publish' = [publish EXCEPT ![r] = "failed"]
    /\ UNCHANGED <<trigger, rev, head, attempt, job, digest, registry>>

(* Somebody else with write access to the repository pushes a commit tag.  *)
PushFromOutside ==
    /\ outside < MaxOutside
    /\ outside' = outside + 1
    /\ \E c, l \in Commit :
         commitTag' = [commitTag EXCEPT
                         ![c] = [builder |-> 0, nth |-> outside + 1, label |-> l]]
    /\ UNCHANGED <<trigger, rev, head, attempt, job, publish, digest,
                   alias, signed, smoked>>

PublishStep(r) == \/ Lookup(r) \/ BuildPush(r) \/ Inspect(r) \/ VerifyImage(r)
                  \/ SmokeTest(r) \/ Sign(r)
                  \/ Compare(r) \/ Retag(r) \/ Recheck(r)

Next == \/ \E r \in Run : \/ TriggerRun(r) \/ Rerun(r)
                          \/ \E j \in Job : FinishJob(r, j)
                          \/ RequestPublish(r) \/ StartWaiting(r)
                          \/ PublishStep(r) \/ Fail(r)
        \/ PushFromOutside

Spec == Init /\ [][Next]_vars

(* A queued job ends, GitHub schedules the publish jobs that are due, and  *)
(* a publish job takes its next step or fails: nothing keeps them waiting  *)
(* for ever (a job has a timeout).  Events, re-runs and pushes from        *)
(* outside need never come.                                                *)
FairSpec == /\ Spec
            /\ \A r \in Run :
                 /\ \A j \in Job : WF_vars(FinishJob(r, j))
                 /\ WF_vars(RequestPublish(r))
                 /\ WF_vars(StartWaiting(r))
                 /\ WF_vars(PublishStep(r))
-----------------------------------------------------------------------------
(* TypeOK: every variable has its type. *)
TypeOK == /\ trigger \in [Run -> AllTriggers \cup {NoTrigger}]
          /\ rev \in [Run -> Commit]
          /\ head \in 0..MaxRun
          /\ attempt \in [Run -> 0..MaxAttempt]
          /\ job \in [Run -> [Job -> JobStatus]]
          /\ publish \in [Run -> PublishStatus]
          /\ digest \in [Run -> Digest \cup {NoDigest}]
          /\ commitTag \in [Commit -> Digest \cup {NoDigest}]
          /\ alias \in [Alias -> Digest \cup {NoDigest}]
          /\ signed \subseteq Digest
          /\ smoked \subseteq Digest
          /\ outside \in 0..MaxOutside

(* AliasVetted: whatever jobs died, were re-run or replaced, and whatever  *)
(* somebody else pushed under a commit tag in between, a moving tag only   *)
(* ever names an image that passed the smoke test and carries a signature, *)
(* and whose revision label is a commit some run passed its checks on      *)
(* (sbom-generator.yml, the order of the publish job's steps;              *)
(* release.py, verify_image and promote).                                  *)
AliasVetted ==
    \A a \in Alias : alias[a] # NoDigest =>
      /\ alias[a] \in smoked \cap signed
      /\ \E r \in Run : rev[r] = alias[a].label /\ CheckPassed(r)

(* LatestFromMain: `latest' names an image of a commit of main that was    *)
(* checked on main; a manual test publication, or a forced one from a      *)
(* branch, never gets there (the publish condition and the destination     *)
(* step).                                                                  *)
LatestFromMain ==
    alias["latest"] # NoDigest =>
      \E r \in Run : /\ rev[r] = alias["latest"].label /\ CheckPassed(r)
                     /\ trigger[r].ref = "main"
                     /\ alias["latest"].label \in 0..head

(* BuildRetained: while nobody else pushes commit tags, an image a moving  *)
(* tag names, which consumers pin by digest, stays under the sha-<commit>  *)
(* tag of its own revision ("sha-<full-commit> tags retain individual      *)
(* builds").                                                               *)
BuildRetained ==
    outside = 0 =>
      \A a \in Alias : alias[a] # NoDigest => commitTag[alias[a].label] = alias[a]

(* CommitTagStable: while nobody else pushes commit tags, no step of any   *)
(* run re-points a commit tag once it exists: neither two runs of one      *)
(* commit, nor a run attempted again after it died anywhere between the    *)
(* push and the promotion, build that commit twice (release.py, build:     *)
(* lookup and push are separate registry calls).                           *)
CommitTagStable ==
    [][outside' = 0 => \A c \in Commit :
         commitTag[c] # NoDigest => commitTag'[c] = commitTag[c]]_vars

(* RecheckSound: the digest a publish job reads back from the moving tag  *)
(* it has just promoted is its own: no other run moves that tag in         *)
(* between, so the promotion the job reports is the one consumers see      *)
(* (release.py:78, and the concurrency group of the publish job).          *)
RecheckSound ==
    \A r \in Run : publish[r] = "recheck" => alias[Destination(r)] = digest[r]

(* PublicationEnds: a publish job that is admitted, running or waiting,    *)
(* ends: nobody is stuck behind a job that died (concurrency group         *)
(* sbom-generator-publish).                                                *)
PublicationEnds ==
    \A r \in Run : publish[r] \in Steps \cup {"pending"}
                     ~> publish[r] \in {"done", "failed", "cancelled"}

(* GeneratorPushPublished (sbom-generator/README.md:222, "Push to main     *)
(* changing generator files [...] | Publish or reuse commit image; promote *)
(* the checked digest to latest"): the change such a push brings to main   *)
(* reaches `latest', with its commit or a later one, unless a job fails.   *)
GeneratorPushPublished ==
    \A r \in Run :
      trigger[r].event = "push" /\ trigger[r].generator
        ~> \/ alias["latest"] # NoDigest /\ alias["latest"].label >= r
           \/ \E q \in Run : \/ publish[q] = "failed"
                             \/ \E j \in Job : job[q][j] = "failure"

(* OverIsSettled: what GeneratorPushPublished comes down to: a run that    *)
(* has to publish and is over has promoted a vetted image of its own       *)
(* commit, or shows a job that failed or was cancelled; none of its jobs   *)
(* is silently skipped, in whichever attempt (the condition of the publish *)
(* job and of `changes').                                                  *)
OverIsSettled ==
    \A r \in Run : RunOver(r) /\ WantsPublish(r) =>
      \/ /\ publish[r] = "done"
         /\ digest[r].label = rev[r] /\ digest[r] \in smoked \cap signed
      \/ publish[r] \in {"failed", "cancelled"}
      \/ \E j \in Job : job[r][j] \in {"failure", "cancelled"}

-----------------------------------------------------------------------------
(* The inductive invariant behind the safety properties. *)

(* At most one publish job is running, and at most one waits. *)
OneRunning == \A p, q \in Run : Publishing(p) /\ Publishing(q) => p = q
OneWaiting == \A p, q \in Waiting : p = q

(* A run that has to publish has all of its jobs. *)
JobsQueued == \A r \in Run, j \in Job : attempt[r] > 0 /\ WantsPublish(r) =>
                job[r][j] \notin {"none", "skipped"}

(* Runs exist in order, and only an existing one has jobs; a run on main   *)
(* works on a commit main has reached; an admitted publication is due.     *)
RunsInOrder ==
    /\ head = 0 \/ attempt[head] > 0
    /\ \A r \in Run :
         /\ attempt[r] > 0 => \A q \in 1..(r - 1) : attempt[q] > 0
         /\ attempt[r] = 0 => /\ publish[r] = "idle"
                               /\ \A j \in Job : job[r][j] = "none"
         /\ trigger[r].ref = "main" => rev[r] <= head
         /\ publish[r] \in Steps \cup {"pending"} => Eligible(r)

(* What the publish job has established when it comes to a step, or to its *)
(* end.                                                                    *)
StepsDone ==
    \A r \in Run :
      /\ publish[r] \in (Steps \ {"lookup", "build"}) \cup {"done"} => digest[r] \in Digest
      /\ publish[r] \in (Steps \ {"lookup", "build", "inspect", "verify"}) \cup {"done"} =>
           digest[r].label = rev[r]
      /\ publish[r] \in {"sign", "compare", "retag", "recheck", "done"} =>
           digest[r] \in smoked
      /\ publish[r] \in {"compare", "retag", "recheck", "done"} => digest[r] \in signed

(* While nobody else pushes, a running publish job and the registry agree  *)
(* on the commit tag, so none of release.py's comparisons can fail.        *)
TagsAgree ==
    outside = 0 => \A r \in Run :
      /\ publish[r] = "build" => commitTag[rev[r]] = NoDigest
      /\ publish[r] \in Steps \ {"lookup", "build"} =>
           commitTag[rev[r]] = digest[r]

(* ReleaseInv: TypeOK, the facts above about runs and their publish jobs,  *)
(* and the safety properties; it is preserved by every step.               *)
ReleaseInv == /\ TypeOK /\ OneRunning /\ OneWaiting /\ RunsInOrder /\ JobsQueued
              /\ StepsDone /\ TagsAgree
              /\ AliasVetted /\ LatestFromMain /\ BuildRetained /\ RecheckSound
-----------------------------------------------------------------------------
(* The release workflow implements the contract of the moving tags.        *)
OnMain(d) == d.label # BranchHead

Contract == INSTANCE AliasContract
              WITH Image <- Digest, NoImage <- NoDigest, FromMain <- OnMain,
                   vetted <- smoked \cap signed

(* ContractKept: every step of every run, dying or not, is a step of the   *)
(* abstract registry of vetted images, or changes nothing it sees.         *)
ContractKept == Contract!Spec
=============================================================================
