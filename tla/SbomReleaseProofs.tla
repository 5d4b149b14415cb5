------------------------- MODULE SbomReleaseProofs -------------------------
(***************************************************************************)
(* Machine-checked proofs about SbomRelease, for every number of runs, of  *)
(* attempts and of pushes from outside, every set of events and every      *)
(* check matrix.                                                           *)
(***************************************************************************)
EXTENDS SbomRelease, TLAPS

(* The head of a branch is a commit. *)
LEMMA BranchHeadIsCommit == BranchHead \in Commit
BY BoundAssumption DEF BranchHead, Commit

(* Pushes to main are numbered like the commits they bring. *)
LEMMA RunIsCommit == Run \subseteq Commit /\ 0 \in Commit
BY BoundAssumption DEF BranchHead, Commit, Run

(* The absence of an image is not an image. *)
LEMMA NoDigestIsNone == NoDigest \notin Digest
BY BoundAssumption DEF NoDigest, Digest

(* Queueing jobs keeps the shape of the job table. *)
LEMMA QueueJobsType ==
  ASSUME TypeOK, NEW r \in Run, NEW ref, NEW J, QueueJobs(r, ref, J)
  PROVE  job' \in [Run -> [Job -> JobStatus]]
BY DEF TypeOK, QueueJobs, JobStatus

(* A new run is of the type of a run. *)
LEMMA TriggerRunType ==
  ASSUME TypeOK, NEW r \in Run, TriggerRun(r)
  PROVE  TypeOK'
<1>1. PICK t \in Triggers :
        /\ trigger' = [trigger EXCEPT ![r] = t]
        /\ attempt' = [attempt EXCEPT ![r] = 1]
        /\ rev' = [rev EXCEPT ![r] = IF t.event = "push" THEN r
                                     ELSE IF t.ref = "main" THEN head
                                     ELSE BranchHead]
        /\ head' = IF t.event = "push" THEN r ELSE head
        /\ QueueJobs(r, t.ref, IF t.event = "pull_request" THEN Arch ELSE Job)
        /\ UNCHANGED <<publish, digest, registry>>
  BY DEF TriggerRun
<1>2. trigger' \in [Run -> AllTriggers \cup {NoTrigger}]
  BY <1>1, TriggersAssumption DEF TypeOK
<1>3. head \in Commit /\ head \in 0..MaxRun
  BY BoundAssumption DEF TypeOK, Commit, BranchHead
<1>4. rev' \in [Run -> Commit]
  BY <1>1, <1>3, RunIsCommit, BranchHeadIsCommit DEF TypeOK
<1>5. head' \in 0..MaxRun
  BY <1>1, <1>3, BoundAssumption DEF Run
<1>6. attempt' \in [Run -> 0..MaxAttempt]
  BY <1>1, BoundAssumption DEF TypeOK
<1>7. job' \in [Run -> [Job -> JobStatus]]
  BY <1>1, QueueJobsType
<1>8. QED
  BY <1>1, <1>2, <1>4, <1>5, <1>6, <1>7 DEF TypeOK, registry

(* A re-run changes jobs and positions to others of their types. *)
LEMMA RerunType ==
  ASSUME TypeOK, NEW r \in Run, Rerun(r)
  PROVE  TypeOK'
<1>1. job' \in [Run -> [Job -> JobStatus]]
  BY QueueJobsType DEF Rerun
<1>2. attempt' \in [Run -> 0..MaxAttempt]
  BY BoundAssumption DEF Rerun, TypeOK
<1>3. publish' \in [Run -> PublishStatus]
  BY DEF Rerun, TypeOK, PublishStatus
<1>4. QED
  BY <1>1, <1>2, <1>3 DEF Rerun, TypeOK, registry

(* What a run builds is an image. *)
LEMMA NewDigestType ==
  ASSUME TypeOK, NEW r \in Run, attempt[r] > 0
  PROVE  NewDigest(r) \in Digest
<1>1. attempt[r] \in 1..(MaxAttempt + MaxOutside)
  BY BoundAssumption DEF TypeOK
<1>2. QED BY <1>1 DEF TypeOK, NewDigest, Digest

(* The variables have their types to begin with. *)
LEMMA TypeInit == Init => TypeOK
<1> SUFFICES ASSUME Init PROVE TypeOK
  OBVIOUS
<1>1. 0 \in Commit
  BY RunIsCommit
<1>2. 0 \in 0..MaxRun /\ 0 \in 0..MaxAttempt /\ 0 \in 0..MaxOutside
  BY BoundAssumption
<1>3. QED
  BY <1>1, <1>2 DEF Init, TypeOK, JobStatus, PublishStatus

(* Every step keeps the types: only existing runs push images, and what is *)
(* smoke-tested, signed or promoted is an image.                           *)
LEMMA TypeStep ==
  ASSUME TypeOK, RunsInOrder, StepsDone, [Next]_vars
  PROVE  TypeOK'
<1> USE DEF TypeOK, registry, PublishStatus, Steps
<1>1. ASSUME NEW r \in Run, TriggerRun(r) PROVE TypeOK'
  BY <1>1, TriggerRunType
<1>2. ASSUME NEW r \in Run, Rerun(r) PROVE TypeOK'
  BY <1>2, RerunType
<1>3. ASSUME NEW r \in Run, NEW j \in Job, FinishJob(r, j) PROVE TypeOK'
  BY <1>3 DEF FinishJob, JobStatus
<1>4. ASSUME NEW r \in Run, RequestPublish(r) PROVE TypeOK'
  BY <1>4 DEF RequestPublish
<1>5. ASSUME NEW r \in Run, StartWaiting(r) \/ Fail(r) PROVE TypeOK'
  BY <1>5 DEF StartWaiting, Fail
<1>6. ASSUME NEW r \in Run, Lookup(r) PROVE TypeOK'
  <2>1. commitTag[rev[r]] \in Digest \cup {NoDigest}
    OBVIOUS
  <2>2. QED BY <1>6, <2>1 DEF Lookup, Advance
<1>7. ASSUME NEW r \in Run, BuildPush(r) PROVE TypeOK'
  <2>1. NewDigest(r) \in Digest
    BY <1>7, NewDigestType DEF BuildPush, Advance, RunsInOrder
  <2>2. QED BY <1>7, <2>1 DEF BuildPush, Advance
<1>8. ASSUME NEW r \in Run, Inspect(r) \/ VerifyImage(r) \/ Compare(r) \/ Recheck(r)
      PROVE TypeOK'
  BY <1>8 DEF Inspect, VerifyImage, Compare, Recheck, Advance
<1>9. ASSUME NEW r \in Run, SmokeTest(r) \/ Sign(r) \/ Retag(r) PROVE TypeOK'
  <2>1. digest[r] \in Digest
    BY <1>9 DEF SmokeTest, Sign, Retag, Advance, StepsDone
  <2>2. QED BY <1>9, <2>1 DEF SmokeTest, Sign, Retag, Advance
<1>10. ASSUME PushFromOutside PROVE TypeOK'
  <2>1. PICK c \in Commit, l \in Commit :
          commitTag' = [commitTag EXCEPT
                          ![c] = [builder |-> 0, nth |-> outside + 1, label |-> l]]
    BY <1>10 DEF PushFromOutside
  <2>2. outside + 1 \in 1..(MaxAttempt + MaxOutside) /\ outside + 1 \in 0..MaxOutside
    BY <1>10, BoundAssumption DEF PushFromOutside
  <2>3. [builder |-> 0, nth |-> outside + 1, label |-> l] \in Digest
    BY <2>2 DEF Digest
  <2>4. QED BY <1>10, <2>1, <2>2, <2>3 DEF PushFromOutside
<1>11. ASSUME UNCHANGED vars PROVE TypeOK'
  BY <1>11 DEF vars
<1>12. QED
  BY <1>1, <1>2, <1>3, <1>4, <1>5, <1>6, <1>7, <1>8, <1>9, <1>10, <1>11
     DEF Next, PublishStep

-----------------------------------------------------------------------------
(* What the registry and the runs' identities owe to a step: only a first  *)
(* trigger changes what a run is, only a rerun or a check its jobs.        *)
LEMMA PublishStepFrame ==
  ASSUME NEW r \in Run, PublishStep(r) \/ Fail(r) \/ RequestPublish(r) \/ StartWaiting(r)
  PROVE  UNCHANGED <<trigger, rev, head, attempt, job, outside>>
BY DEF PublishStep, Lookup, BuildPush, Inspect, VerifyImage, SmokeTest, Sign,
       Compare, Retag, Recheck, Advance, Fail, RequestPublish, StartWaiting, registry

(* The publish jobs' positions after a step of run r that is not a         *)
(* scheduling decision.                                                    *)
LEMMA PublishStepMoves ==
  ASSUME TypeOK, NEW r \in Run, PublishStep(r) \/ Fail(r)
  PROVE  /\ Publishing(r)
         /\ \A q \in Run : q # r => publish'[q] = publish[q]
         /\ publish'[r] \in Steps \cup {"done", "failed"}
BY DEF PublishStep, Lookup, BuildPush, Inspect, VerifyImage, SmokeTest, Sign,
       Compare, Retag, Recheck, Advance, Fail, Publishing, Steps, TypeOK

(* The concurrency group admits one publish job at a time. *)
LEMMA OneRunningStep ==
  ASSUME TypeOK, RunsInOrder, OneRunning, [Next]_vars
  PROVE  OneRunning'
<1> USE DEF OneRunning, Publishing
<1>1. ASSUME NEW r \in Run, TriggerRun(r) PROVE OneRunning'
  BY <1>1 DEF TriggerRun
<1>2. ASSUME NEW r \in Run, Rerun(r) PROVE OneRunning'
  BY <1>2 DEF Rerun, TypeOK, Steps
<1>3. ASSUME NEW r \in Run, NEW j \in Job, FinishJob(r, j) PROVE OneRunning'
  BY <1>3 DEF FinishJob
<1>4. ASSUME NEW r \in Run, RequestPublish(r) PROVE OneRunning'
  BY <1>4 DEF RequestPublish, Group, TypeOK, Steps
<1>5. ASSUME NEW r \in Run, StartWaiting(r) PROVE OneRunning'
  BY <1>5 DEF StartWaiting, Group, TypeOK
<1>6. ASSUME NEW r \in Run, PublishStep(r) \/ Fail(r) PROVE OneRunning'
  BY <1>6, PublishStepMoves
<1>7. ASSUME PushFromOutside \/ UNCHANGED vars PROVE OneRunning'
  BY <1>7 DEF PushFromOutside, vars
<1>8. QED
  BY <1>1, <1>2, <1>3, <1>4, <1>5, <1>6, <1>7 DEF Next

-----------------------------------------------------------------------------
(* A new run comes after the others and publishes nothing yet. *)
LEMMA RunsInOrderTrigger ==
  ASSUME TypeOK, RunsInOrder, NEW r \in Run, TriggerRun(r)
  PROVE  RunsInOrder'
<1>1. PICK t \in Triggers :
        /\ attempt[r] = 0
        /\ \A q \in 1..(r - 1) : attempt[q] > 0
        /\ trigger' = [trigger EXCEPT ![r] = t]
        /\ attempt' = [attempt EXCEPT ![r] = 1]
        /\ rev' = [rev EXCEPT ![r] = IF t.event = "push" THEN r
                                     ELSE IF t.ref = "main" THEN head
                                     ELSE BranchHead]
        /\ head' = IF t.event = "push" THEN r ELSE head
        /\ QueueJobs(r, t.ref, IF t.event = "pull_request" THEN Arch ELSE Job)
        /\ UNCHANGED <<publish, digest, registry>>
  BY DEF TriggerRun
<1>2. r \in Nat /\ r > 0 /\ head \in Nat /\ \A q \in Run : q \in Nat /\ q > 0
  BY BoundAssumption DEF Run, TypeOK
<1>3. head = 0 \/ head \in Run
  BY BoundAssumption DEF TypeOK, Run
<1>4. head < r
  BY <1>1, <1>2, <1>3 DEF RunsInOrder
<1>5. head' \in Nat /\ head <= head' /\ (head' = 0 \/ attempt'[head'] > 0)
  BY <1>1, <1>2, <1>3, <1>4 DEF RunsInOrder, TypeOK
<1>6. ASSUME NEW p \in Run, attempt'[p] > 0, NEW q \in 1..(p - 1)
      PROVE  attempt'[q] > 0
  <2>1. q \in Run
    BY <1>2, BoundAssumption DEF Run
  <2>2. QED BY <1>1, <1>6, <2>1 DEF RunsInOrder, TypeOK
<1>7. ASSUME NEW p \in Run, attempt'[p] = 0
      PROVE  publish'[p] = "idle" /\ \A j \in Job : job'[p][j] = "none"
  BY <1>1, <1>7 DEF RunsInOrder, TypeOK, QueueJobs
<1>8. ASSUME NEW p \in Run, trigger'[p].ref = "main" PROVE rev'[p] <= head'
  <2>1. CASE p = r
    <3>1. t.event = "push" \/ t.ref = "main"
      BY <1>1, <1>8, <2>1 DEF TypeOK
    <3>2. QED BY <1>1, <1>2, <2>1, <3>1 DEF TypeOK
  <2>2. CASE p # r
    <3>1. rev[p] \in Nat
      BY BoundAssumption DEF TypeOK, Commit, BranchHead
    <3>2. QED BY <1>1, <1>2, <1>5, <1>8, <2>2, <3>1 DEF RunsInOrder, TypeOK
  <2>3. QED BY <2>1, <2>2
<1>9. ASSUME NEW p \in Run, publish'[p] \in Steps \cup {"pending"} PROVE Eligible(p)'
  <2>1. p # r /\ Eligible(p)
    BY <1>1, <1>9 DEF RunsInOrder, Steps
  <2>2. \A j \in Job : job'[p][j] = job[p][j]
    BY <1>1, <2>1 DEF QueueJobs, Eligible
  <2>3. QED BY <1>1, <2>1, <2>2 DEF Eligible, WantsPublish, TypeOK
<1>10. QED BY <1>5, <1>6, <1>7, <1>8, <1>9 DEF RunsInOrder

(* A run that is over has no publication under way. *)
LEMMA RunsInOrderRerun ==
  ASSUME TypeOK, RunsInOrder, NEW r \in Run, Rerun(r)
  PROVE  RunsInOrder'
<1>1. /\ UNCHANGED <<trigger, rev, head>>
      /\ attempt[r] > 0 /\ attempt' = [attempt EXCEPT ![r] = attempt[r] + 1]
      /\ publish' = [publish EXCEPT ![r] = "idle"]
  BY DEF Rerun, RunOver
<1>2. \A q \in Run : q # r /\ Eligible(q) => \A j \in Job : job'[q][j] = job[q][j]
  BY DEF Rerun, QueueJobs, Eligible
<1>3. ASSUME NEW p \in Run, publish'[p] \in Steps \cup {"pending"} PROVE Eligible(p)'
  <2>1. p # r /\ Eligible(p)
    BY <1>1, <1>3 DEF RunsInOrder, Steps, TypeOK
  <2>2. QED BY <1>1, <1>2, <2>1 DEF Eligible, WantsPublish
<1>4. ASSUME NEW p \in Run, attempt'[p] = 0
      PROVE  publish'[p] = "idle" /\ \A j \in Job : job'[p][j] = "none"
  <2>1. p # r /\ attempt[p] = 0
    BY <1>1, <1>4, BoundAssumption DEF TypeOK
  <2>2. \A j \in Job : job'[p][j] = "none"
    BY <2>1 DEF Rerun, QueueJobs, RunsInOrder
  <2>3. QED BY <1>1, <2>1, <2>2 DEF RunsInOrder
<1>5. \A p \in Run : attempt[p] > 0 <=> attempt'[p] > 0
  BY <1>1, BoundAssumption DEF TypeOK
<1>6. /\ head' = 0 \/ attempt'[head'] > 0
      /\ \A p \in Run : attempt'[p] > 0 => \A q \in 1..(p - 1) : attempt'[q] > 0
  <2>1. head = 0 \/ head \in Run
    BY BoundAssumption DEF TypeOK, Run
  <2>2. \A p \in Run : 1..(p - 1) \subseteq Run
    BY BoundAssumption DEF Run
  <2>3. QED BY <1>1, <1>5, <2>1, <2>2 DEF RunsInOrder
<1>7. QED BY <1>1, <1>3, <1>4, <1>6 DEF RunsInOrder

(* Every step keeps the runs in order. *)
LEMMA RunsInOrderStep ==
  ASSUME TypeOK, RunsInOrder, [Next]_vars
  PROVE  RunsInOrder'
<1>1. ASSUME NEW r \in Run, TriggerRun(r) PROVE RunsInOrder'
  BY <1>1, RunsInOrderTrigger
<1>2. ASSUME NEW r \in Run, Rerun(r) PROVE RunsInOrder'
  BY <1>2, RunsInOrderRerun
<1>3. ASSUME NEW r \in Run, NEW j \in Job, FinishJob(r, j) PROVE RunsInOrder'
  BY <1>3 DEF FinishJob, RunsInOrder, TypeOK, Eligible, WantsPublish
<1>4. ASSUME NEW r \in Run, RequestPublish(r) PROVE RunsInOrder'
  <2>1. UNCHANGED <<trigger, rev, head, attempt, job>>
    BY <1>4, PublishStepFrame
  <2>2. \A p \in Run : publish'[p] \in Steps \cup {"pending"} =>
            p = r \/ publish[p] \in Steps \cup {"pending"}
    BY <1>4 DEF RequestPublish, TypeOK, Steps
  <2>3. Eligible(r) /\ attempt[r] # 0
    BY <1>4, ArchAssumption DEF RequestPublish, RunsInOrder, Eligible, Job
  <2>4. \A p \in Run : attempt[p] = 0 => publish'[p] = "idle"
    BY <1>4, <2>3 DEF RequestPublish, RunsInOrder, Waiting, TypeOK
  <2>5. QED BY <2>1, <2>2, <2>3, <2>4 DEF RunsInOrder, Eligible, WantsPublish
<1>5. ASSUME NEW r \in Run, StartWaiting(r) PROVE RunsInOrder'
  <2>1. UNCHANGED <<trigger, rev, head, attempt, job>>
    BY <1>5, PublishStepFrame
  <2>2. QED BY <1>5, <2>1 DEF StartWaiting, RunsInOrder, TypeOK, Steps, Eligible, WantsPublish
<1>6. ASSUME NEW r \in Run, PublishStep(r) \/ Fail(r) PROVE RunsInOrder'
  <2>1. UNCHANGED <<trigger, rev, head, attempt, job>>
    BY <1>6, PublishStepFrame
  <2>2. publish[r] # "idle" /\ publish[r] \in Steps
    BY <1>6, PublishStepMoves DEF Publishing, Steps
  <2>3. QED BY <1>6, <2>1, <2>2, PublishStepMoves DEF RunsInOrder, Steps, Eligible, WantsPublish
<1>7. ASSUME PushFromOutside \/ UNCHANGED vars PROVE RunsInOrder'
  BY <1>7 DEF PushFromOutside, vars, RunsInOrder, Eligible, WantsPublish
<1>8. QED
  BY <1>1, <1>2, <1>3, <1>4, <1>5, <1>6, <1>7 DEF Next

-----------------------------------------------------------------------------
(* The actions that schedule or end jobs leave the registry alone and      *)
(* bring no publish job beyond its first step.                             *)
LEMMA SchedulingFrame ==
  ASSUME TypeOK, NEW r \in Run,
         \/ TriggerRun(r) \/ Rerun(r) \/ RequestPublish(r) \/ StartWaiting(r) \/ Fail(r)
         \/ \E j \in Job : FinishJob(r, j)
  PROVE  /\ UNCHANGED registry
         /\ \A p \in Run : publish'[p] \in (Steps \ {"lookup"}) \cup {"done"} =>
              publish'[p] = publish[p] /\ digest'[p] = digest[p]
BY DEF TriggerRun, Rerun, RequestPublish, StartWaiting, Fail, FinishJob, TypeOK, Steps

(* A publishing run keeps its commit. *)
LEMMA RevKept ==
  ASSUME TypeOK, RunsInOrder, [Next]_vars, NEW p \in Run, attempt[p] > 0
  PROVE  rev'[p] = rev[p] /\ trigger'[p] = trigger[p]
<1>1. ASSUME NEW r \in Run, TriggerRun(r) PROVE rev'[p] = rev[p] /\ trigger'[p] = trigger[p]
  BY <1>1 DEF TriggerRun, TypeOK
<1>2. ASSUME NEW r \in Run, Rerun(r) \/ \E j \in Job : FinishJob(r, j)
      PROVE  rev'[p] = rev[p] /\ trigger'[p] = trigger[p]
  BY <1>2 DEF Rerun, FinishJob
<1>3. QED
  BY <1>1, <1>2, PublishStepFrame DEF Next, PushFromOutside, vars

(* Where a publish job stands says what it has done: every step adds its   *)
(* own effect and no step takes another's back.                            *)
LEMMA StepsDoneStep ==
  ASSUME TypeOK, RunsInOrder, StepsDone, [Next]_vars
  PROVE  StepsDone'
<1> DEFINE Done(p) ==
      /\ publish[p] \in (Steps \ {"lookup", "build"}) \cup {"done"} => digest[p] \in Digest
      /\ publish[p] \in (Steps \ {"lookup", "build", "inspect", "verify"}) \cup {"done"} =>
           digest[p].label = rev[p]
      /\ publish[p] \in {"sign", "compare", "retag", "recheck", "done"} => digest[p] \in smoked
      /\ publish[p] \in {"compare", "retag", "recheck", "done"} => digest[p] \in signed
<1>1. \A p \in Run : publish[p] # "idle" => attempt[p] > 0
  BY BoundAssumption DEF RunsInOrder, TypeOK
<1>2. \A p \in Run : publish[p] \in Steps \cup {"done"} => rev'[p] = rev[p]
  BY <1>1, RevKept DEF Steps
<1>3. ASSUME NEW r \in Run,
             \/ TriggerRun(r) \/ Rerun(r) \/ RequestPublish(r) \/ StartWaiting(r) \/ Fail(r)
             \/ \E j \in Job : FinishJob(r, j)
      PROVE  StepsDone'
  BY <1>2, <1>3, SchedulingFrame DEF StepsDone, registry, Steps
<1>4. ASSUME NEW r \in Run, PublishStep(r) PROVE StepsDone'
  <2>1. \A p \in Run : p # r => publish'[p] = publish[p] /\ digest'[p] = digest[p]
    BY <1>4 DEF PublishStep, Lookup, BuildPush, Inspect, VerifyImage, SmokeTest,
       Sign, Compare, Retag, Recheck, Advance, TypeOK
  <2>2. smoked \subseteq smoked' /\ signed \subseteq signed'
    BY <1>4 DEF PublishStep, Lookup, BuildPush, Inspect, VerifyImage, SmokeTest,
       Sign, Compare, Retag, Recheck
  <2>3. ASSUME NEW p \in Run, p # r PROVE Done(p)'
    BY <1>2, <2>1, <2>2, <2>3 DEF StepsDone
  <2>4. rev'[r] = rev[r]
    BY <1>4, PublishStepFrame
  <2>5. Done(r)'
    <3>1. CASE Lookup(r)
      BY <2>4, <3>1 DEF Lookup, Advance, TypeOK, Steps
    <3>2. CASE BuildPush(r)
      <4>1. NewDigest(r) \in Digest
        BY <3>2, <1>1, NewDigestType DEF BuildPush, Advance
      <4>2. QED BY <3>2, <4>1 DEF BuildPush, Advance, TypeOK, Steps
    <3>3. CASE Inspect(r) \/ VerifyImage(r)
      BY <2>4, <3>3 DEF Inspect, VerifyImage, Advance, TypeOK, Steps, StepsDone
    <3>4. CASE SmokeTest(r) \/ Sign(r)
      BY <2>4, <3>4 DEF SmokeTest, Sign, Advance, TypeOK, Steps, StepsDone
    <3>5. CASE Compare(r) \/ Retag(r) \/ Recheck(r)
      BY <2>4, <3>5 DEF Compare, Retag, Recheck, Advance, TypeOK, Steps, StepsDone
    <3>6. QED BY <1>4, <3>1, <3>2, <3>3, <3>4, <3>5 DEF PublishStep
  <2>6. QED BY <2>3, <2>5 DEF StepsDone
<1>5. ASSUME PushFromOutside \/ UNCHANGED vars PROVE StepsDone'
  BY <1>5 DEF PushFromOutside, vars, registry, StepsDone
<1>6. QED
  BY <1>3, <1>4, <1>5 DEF Next

-----------------------------------------------------------------------------
(* A newcomer replaces the publication that waited, if there was one.      *)
LEMMA OneWaitingStep ==
  ASSUME TypeOK, RunsInOrder, OneWaiting, [Next]_vars
  PROVE  OneWaiting'
<1> USE DEF OneWaiting, Waiting
<1>1. ASSUME NEW r \in Run, TriggerRun(r) PROVE OneWaiting'
  BY <1>1 DEF TriggerRun
<1>2. ASSUME NEW r \in Run, Rerun(r) PROVE OneWaiting'
  BY <1>2 DEF Rerun, TypeOK
<1>3. ASSUME NEW r \in Run, NEW j \in Job, FinishJob(r, j) PROVE OneWaiting'
  BY <1>3 DEF FinishJob
<1>4. ASSUME NEW r \in Run, RequestPublish(r) PROVE OneWaiting'
  <2>1. CASE publish' = [publish EXCEPT ![r] = "lookup"]
    BY <2>1 DEF TypeOK
  <2>2. CASE publish' = [q \in Run |-> IF q = r THEN "pending"
                                      ELSE IF q \in Waiting THEN "cancelled"
                                      ELSE publish[q]]
    BY <2>2
  <2>3. QED BY <1>4, <2>1, <2>2 DEF RequestPublish
<1>5. ASSUME NEW r \in Run, StartWaiting(r) PROVE OneWaiting'
  BY <1>5 DEF StartWaiting, TypeOK
<1>6. ASSUME NEW r \in Run, PublishStep(r) \/ Fail(r) PROVE OneWaiting'
  BY <1>6, PublishStepMoves DEF Steps
<1>7. ASSUME PushFromOutside \/ UNCHANGED vars PROVE OneWaiting'
  BY <1>7 DEF PushFromOutside, vars
<1>8. QED
  BY <1>1, <1>2, <1>3, <1>4, <1>5, <1>6, <1>7 DEF Next

(* The jobs of a run that has to publish are queued when it is triggered,  *)
(* and no re-run takes one away.                                           *)
LEMMA JobsQueuedStep ==
  ASSUME TypeOK, RunsInOrder, JobsQueued, [Next]_vars
  PROVE  JobsQueued'
<1> SUFFICES ASSUME NEW p \in Run, NEW i \in Job, attempt'[p] > 0, WantsPublish(p)'
             PROVE  job'[p][i] \notin {"none", "skipped"}
  BY DEF JobsQueued
<1>1. ASSUME NEW r \in Run, TriggerRun(r)
      PROVE  job'[p][i] \notin {"none", "skipped"}
  <2>1. PICK t \in Triggers :
          /\ trigger' = [trigger EXCEPT ![r] = t]
          /\ attempt' = [attempt EXCEPT ![r] = 1]
          /\ QueueJobs(r, t.ref, IF t.event = "pull_request" THEN Arch ELSE Job)
    BY <1>1 DEF TriggerRun
  <2>2. CASE p = r
    <3>1. t.event # "pull_request"
      BY <2>1, <2>2 DEF WantsPublish, TypeOK
    <3>2. QED BY <2>1, <2>2, <3>1 DEF QueueJobs
  <2>3. CASE p # r
    <3>1. attempt[p] > 0 /\ WantsPublish(p)
      BY <2>1, <2>3 DEF WantsPublish, TypeOK
    <3>2. job[p][i] \notin {"none", "skipped"}
      BY <3>1 DEF JobsQueued
    <3>3. QED BY <2>1, <2>3, <3>2 DEF QueueJobs
  <2>4. QED BY <2>2, <2>3
<1>2. ASSUME NEW r \in Run, Rerun(r)
      PROVE  job'[p][i] \notin {"none", "skipped"}
  <2>1. attempt[p] > 0 /\ WantsPublish(p)
    BY <1>2, BoundAssumption DEF Rerun, RunOver, WantsPublish, TypeOK
  <2>2. job[p][i] \notin {"none", "skipped"}
    BY <2>1 DEF JobsQueued
  <2>3. QED BY <1>2, <2>2 DEF Rerun, QueueJobs
<1>3. ASSUME NEW r \in Run, NEW j \in Job, FinishJob(r, j)
      PROVE  job'[p][i] \notin {"none", "skipped"}
  BY <1>3 DEF FinishJob, TypeOK, JobsQueued, WantsPublish
<1>4. ASSUME UNCHANGED <<trigger, attempt, job>>
      PROVE  job'[p][i] \notin {"none", "skipped"}
  BY <1>4 DEF JobsQueued, WantsPublish
<1>5. QED
  BY <1>1, <1>2, <1>3, <1>4, PublishStepFrame DEF Next, PushFromOutside, vars

-----------------------------------------------------------------------------
(* Main only moves forward: push r comes after every commit main was at.   *)
LEMMA HeadGrows ==
  ASSUME TypeOK, RunsInOrder, [Next]_vars
  PROVE  head <= head' /\ head \in Nat /\ head' \in Nat
<1>1. head \in Nat /\ (head = 0 \/ head \in Run)
  BY BoundAssumption DEF TypeOK, Run
<1>2. ASSUME NEW r \in Run, TriggerRun(r) PROVE head <= head' /\ head' \in Nat
  <2>1. r \in Nat /\ attempt[r] = 0 /\ (head' = r \/ head' = head)
    BY <1>2, BoundAssumption DEF TriggerRun, Run
  <2>2. head <= r
    <3>1. ASSUME head > r PROVE FALSE
      <4>1. head \in Run /\ attempt[head] > 0 /\ r \in 1..(head - 1)
        BY <1>1, <2>1, <3>1, BoundAssumption DEF RunsInOrder, Run
      <4>2. QED BY <2>1, <4>1 DEF RunsInOrder
    <3>2. QED BY <1>1, <2>1, <3>1
  <2>3. QED BY <1>1, <2>1, <2>2
<1>3. (\E r \in Run : TriggerRun(r)) \/ head' = head
  BY PublishStepFrame DEF Next, Rerun, FinishJob, PushFromOutside, vars
<1>4. QED
  BY <1>1, <1>2, <1>3

(* A check that passed stays passed, on the same commit and ref: a re-run  *)
(* repeats only what failed, and a newer run cancels only what is running. *)
LEMMA PassedStays ==
  ASSUME TypeOK, RunsInOrder, [Next]_vars, NEW p \in Run, CheckPassed(p)
  PROVE  CheckPassed(p)' /\ rev'[p] = rev[p] /\ trigger'[p] = trigger[p]
<1>1. attempt[p] > 0
  <2>1. attempt[p] # 0
    BY ArchAssumption DEF CheckPassed, RunsInOrder, Job
  <2>2. QED BY <2>1, BoundAssumption DEF TypeOK
<1>2. ASSUME NEW r \in Run, TriggerRun(r) PROVE CheckPassed(p)'
  <2>1. p # r
    BY <1>1, <1>2 DEF TriggerRun
  <2>2. QED BY <1>2, <2>1 DEF TriggerRun, QueueJobs, CheckPassed, Job
<1>3. ASSUME NEW r \in Run, Rerun(r) PROVE CheckPassed(p)'
  BY <1>3 DEF Rerun, QueueJobs, CheckPassed, Job
<1>4. ASSUME NEW r \in Run, NEW j \in Job, FinishJob(r, j) PROVE CheckPassed(p)'
  BY <1>4 DEF FinishJob, CheckPassed, TypeOK, Job
<1>5. CheckPassed(p)'
  BY <1>2, <1>3, <1>4, PublishStepFrame DEF Next, PushFromOutside, vars, CheckPassed
<1>6. QED BY <1>1, <1>5, RevKept

(* Only the promotion step moves an alias; smoke tests and signatures are  *)
(* never taken back.                                                       *)
LEMMA RegistryGrows ==
  ASSUME TypeOK, [Next]_vars
  PROVE  /\ smoked \subseteq smoked' /\ signed \subseteq signed'
         /\ (\E r \in Run : Retag(r)) \/ alias' = alias
BY DEF Next, TriggerRun, Rerun, FinishJob, RequestPublish, StartWaiting, PublishStep,
       Lookup, BuildPush, Inspect, VerifyImage, SmokeTest, Sign, Compare, Retag,
       Recheck, Advance, Fail, PushFromOutside, vars, registry

(* What the promotion step promotes, and where to. *)
LEMMA RetagFacts ==
  ASSUME TypeOK, RunsInOrder, StepsDone, NEW r \in Run, Retag(r)
  PROVE  /\ alias' = [alias EXCEPT ![Destination(r)] = digest[r]]
         /\ digest[r] \in smoked /\ digest[r] \in signed
         /\ digest[r] \in Digest /\ digest[r].label = rev[r]
         /\ CheckPassed(r) /\ Destination(r) \in Alias
         /\ Destination(r) = "latest" => trigger[r].ref = "main" /\ rev[r] <= head
<1>1. publish[r] = "retag" /\ alias' = [alias EXCEPT ![Destination(r)] = digest[r]]
  BY DEF Retag, Advance
<1>2. Eligible(r)
  BY <1>1 DEF RunsInOrder, Steps
<1>3. CheckPassed(r)
  BY <1>2 DEF Eligible, CheckPassed, Job
<1>4. Destination(r) = "latest" => trigger[r].ref = "main"
  BY DEF Destination, TypeOK, AllTriggers, NoTrigger
<1>5. QED
  BY <1>1, <1>3, <1>4 DEF StepsDone, Steps, RunsInOrder, Destination, Alias

(* Only a promotion moves an alias, to an image that is vetted. *)
LEMMA AliasStep ==
  ASSUME TypeOK, RunsInOrder, StepsDone, AliasVetted, LatestFromMain, [Next]_vars
  PROVE  AliasVetted' /\ LatestFromMain'
<1>1. ASSUME NEW a \in Alias, alias'[a] = alias[a], alias[a] # NoDigest
      PROVE  /\ alias'[a] \in smoked' \cap signed'
             /\ \E r \in Run : rev'[r] = alias'[a].label /\ CheckPassed(r)'
             /\ a = "latest" =>
                  \E r \in Run : /\ rev'[r] = alias'[a].label /\ CheckPassed(r)'
                                 /\ trigger'[r].ref = "main" /\ alias'[a].label \in 0..head'
  <2>1. alias'[a] \in smoked' \cap signed'
    BY <1>1, RegistryGrows DEF AliasVetted
  <2>2. PICK r \in Run : rev[r] = alias[a].label /\ CheckPassed(r)
    BY <1>1 DEF AliasVetted
  <2>3. ASSUME a = "latest"
        PROVE  \E q \in Run : /\ rev'[q] = alias'[a].label /\ CheckPassed(q)'
                              /\ trigger'[q].ref = "main" /\ alias'[a].label \in 0..head'
    <3>1. PICK q \in Run : /\ rev[q] = alias[a].label /\ CheckPassed(q)
                           /\ trigger[q].ref = "main" /\ alias[a].label \in 0..head
      BY <1>1, <2>3 DEF LatestFromMain
    <3>2. alias'[a].label \in 0..head'
      BY <1>1, <3>1, HeadGrows
    <3>3. QED BY <1>1, <3>1, <3>2, PassedStays
  <2>4. QED BY <1>1, <2>1, <2>2, <2>3, PassedStays
<1>2. ASSUME NEW r \in Run, Retag(r) PROVE AliasVetted' /\ LatestFromMain'
  <2>1. CheckPassed(r)' /\ rev'[r] = rev[r] /\ trigger'[r] = trigger[r]
    BY <1>2, RetagFacts, PassedStays
  <2>2. rev[r] \in Nat /\ head' = head /\ head \in Nat
    BY <1>2, BoundAssumption DEF TypeOK, Commit, BranchHead, Retag, Advance
  <2>3. ASSUME NEW a \in Alias PROVE alias'[a] = alias[a] \/ (a = Destination(r) /\ alias'[a] = digest[r])
    BY <1>2, RetagFacts DEF TypeOK
  <2>4. AliasVetted'
    BY <1>1, <1>2, <2>1, <2>3, RetagFacts, RegistryGrows DEF AliasVetted
  <2>5. LatestFromMain'
    <3>1. CASE alias'["latest"] = alias["latest"]
      BY <1>1, <3>1 DEF LatestFromMain, Alias
    <3>2. CASE Destination(r) = "latest" /\ alias'["latest"] = digest[r]
      BY <1>2, <2>1, <2>2, <3>2, RetagFacts DEF LatestFromMain
    <3>3. QED BY <2>3, <3>1, <3>2 DEF Alias
  <2>6. QED BY <2>4, <2>5
<1>3. CASE alias' = alias
  BY <1>1, <1>3 DEF AliasVetted, LatestFromMain, Alias
<1>4. QED BY <1>2, <1>3, RegistryGrows

-----------------------------------------------------------------------------
(* A push from outside is never forgotten. *)
LEMMA OutsideGrows ==
  ASSUME TypeOK, [Next]_vars, outside' = 0
  PROVE  outside = 0
<1>1. outside' = outside \/ PushFromOutside
  BY PublishStepFrame DEF Next, TriggerRun, Rerun, FinishJob, registry, vars
<1>2. outside \in Nat
  BY BoundAssumption DEF TypeOK
<1>3. QED BY <1>1, <1>2 DEF PushFromOutside

(* Without pushes from outside, the registry's commit tags follow the      *)
(* running publish job.                                                    *)
LEMMA TagsStep ==
  ASSUME TypeOK, RunsInOrder, OneRunning, StepsDone, TagsAgree, BuildRetained,
         [Next]_vars
  PROVE  TagsAgree' /\ BuildRetained'
<1> SUFFICES ASSUME outside' = 0
             PROVE  TagsAgree' /\ BuildRetained'
  BY DEF TagsAgree, BuildRetained
<1>1. outside = 0
  BY OutsideGrows
<1>2. \A p \in Run : publish[p] \in Steps => attempt[p] > 0 /\ rev'[p] = rev[p]
  <2>1. \A p \in Run : publish[p] # "idle" => attempt[p] > 0
    BY BoundAssumption DEF RunsInOrder, TypeOK
  <2>2. QED BY <2>1, RevKept DEF Steps
<1>3. ASSUME NEW r \in Run,
             \/ TriggerRun(r) \/ Rerun(r) \/ RequestPublish(r) \/ StartWaiting(r) \/ Fail(r)
             \/ \E j \in Job : FinishJob(r, j)
      PROVE  TagsAgree' /\ BuildRetained'
  BY <1>1, <1>2, <1>3, SchedulingFrame DEF TagsAgree, BuildRetained, registry, Steps
<1>4. ASSUME NEW r \in Run, PublishStep(r) PROVE TagsAgree' /\ BuildRetained'
  <2>1. Publishing(r) /\ rev'[r] = rev[r]
    BY <1>2, <1>4, PublishStepMoves DEF Publishing
  <2>2. \A p \in Run : p # r => publish'[p] = publish[p] /\ ~Publishing(p)
    BY <1>4, <2>1, PublishStepMoves DEF OneRunning
  <2>3. ASSUME NEW p \in Run, p # r PROVE publish'[p] \notin Steps
    BY <2>2, <2>3 DEF Publishing
  <2>4. SUFFICES /\ publish'[r] = "build" => commitTag'[rev[r]] = NoDigest
                 /\ publish'[r] \in Steps \ {"lookup", "build"} =>
                      commitTag'[rev[r]] = digest'[r]
                 /\ BuildRetained'
    BY <2>1, <2>3 DEF TagsAgree, Steps
  <2>5. CASE Lookup(r)
    BY <1>1, <2>5 DEF Lookup, Advance, TypeOK, Steps, BuildRetained
  <2>6. CASE BuildPush(r)
    <3>1. commitTag[rev[r]] = NoDigest /\ rev[r] \in Commit
      BY <1>1, <2>6 DEF BuildPush, Advance, TagsAgree, TypeOK
    <3>2. commitTag' = [commitTag EXCEPT ![rev[r]] = NewDigest(r)] /\ alias' = alias
      BY <2>6 DEF BuildPush
    <3>3. BuildRetained'
      BY <1>1, <3>1, <3>2 DEF BuildRetained, TypeOK
    <3>4. QED
      BY <2>6, <3>1, <3>2, <3>3 DEF BuildPush, Advance, TypeOK
  <2>7. CASE Inspect(r) \/ VerifyImage(r) \/ SmokeTest(r) \/ Sign(r) \/ Compare(r) \/ Recheck(r)
    BY <1>1, <2>7 DEF Inspect, VerifyImage, SmokeTest, Sign, Compare, Recheck, Advance,
       TypeOK, Steps, TagsAgree, BuildRetained
  <2>8. CASE Retag(r)
    <3>1. commitTag[rev[r]] = digest[r] /\ commitTag' = commitTag /\ digest' = digest
      BY <1>1, <2>8 DEF Retag, Advance, TagsAgree, Steps
    <3>2. ASSUME NEW a \in Alias
          PROVE  alias'[a] = alias[a] \/ (alias'[a] = digest[r] /\ digest[r].label = rev[r])
      BY <2>8, RetagFacts DEF TypeOK
    <3>3. BuildRetained'
      BY <1>1, <3>1, <3>2 DEF BuildRetained
    <3>4. QED BY <3>1, <3>3, <2>8 DEF Retag, Advance, TypeOK
  <2>9. QED BY <1>4, <2>5, <2>6, <2>7, <2>8 DEF PublishStep
<1>5. CASE UNCHANGED vars
  BY <1>5 DEF vars, registry, TagsAgree, BuildRetained
<1>6. CASE PushFromOutside
  BY <1>1, <1>6 DEF PushFromOutside, TypeOK
<1>7. QED
  BY <1>3, <1>4, <1>5, <1>6 DEF Next

(* While a job runs alone, what it promoted is what it reads back. *)
LEMMA RecheckStep ==
  ASSUME TypeOK, RunsInOrder, OneRunning, StepsDone, RecheckSound, [Next]_vars
  PROVE  RecheckSound'
<1>1. \A p \in Run : publish[p] # "idle" => Destination(p)' = Destination(p)
  <2>1. \A p \in Run : publish[p] # "idle" => attempt[p] > 0
    BY BoundAssumption DEF RunsInOrder, TypeOK
  <2>2. QED BY <2>1, RevKept DEF Destination
<1>2. ASSUME NEW r \in Run,
             \/ TriggerRun(r) \/ Rerun(r) \/ RequestPublish(r) \/ StartWaiting(r) \/ Fail(r)
             \/ \E j \in Job : FinishJob(r, j)
      PROVE  RecheckSound'
  BY <1>1, <1>2, SchedulingFrame DEF RecheckSound, registry, Steps
<1>3. ASSUME NEW r \in Run, PublishStep(r) PROVE RecheckSound'
  <2>1. ASSUME NEW p \in Run, publish'[p] = "recheck" PROVE p = r
    BY <1>3, <2>1, PublishStepMoves DEF OneRunning, Publishing, Steps
  <2>2. publish'[r] = "recheck" => Retag(r)
    BY <1>3 DEF PublishStep, Lookup, BuildPush, Inspect, VerifyImage, SmokeTest,
       Sign, Compare, Recheck, Advance, TypeOK
  <2>3. Retag(r) => alias'[Destination(r)] = digest'[r] /\ publish[r] = "retag"
    BY RetagFacts DEF Retag, Advance, TypeOK
  <2>4. QED BY <1>1, <2>1, <2>2, <2>3 DEF RecheckSound
<1>4. CASE PushFromOutside \/ UNCHANGED vars
  BY <1>4 DEF PushFromOutside, vars, registry, RecheckSound, Destination
<1>5. QED BY <1>2, <1>3, <1>4 DEF Next

-----------------------------------------------------------------------------
(* The invariant holds when nothing has run. *)
LEMMA InitReleaseInv == Init => ReleaseInv
<1> SUFFICES ASSUME Init PROVE ReleaseInv
  OBVIOUS
<1>1. TypeOK
  BY TypeInit
<1>2. OneRunning /\ OneWaiting /\ StepsDone /\ TagsAgree /\ RecheckSound
  BY DEF Init, OneRunning, OneWaiting, Waiting, StepsDone, TagsAgree, RecheckSound,
         Publishing, Steps
<1>3. RunsInOrder /\ JobsQueued
  BY DEF Init, RunsInOrder, JobsQueued, NoTrigger, Steps
<1>4. AliasVetted /\ LatestFromMain /\ BuildRetained
  BY DEF Init, AliasVetted, LatestFromMain, BuildRetained, Alias
<1>5. QED BY <1>1, <1>2, <1>3, <1>4 DEF ReleaseInv

(* The lemmas above, put together. *)
LEMMA ReleaseInvStep == ReleaseInv /\ [Next]_vars => ReleaseInv'
BY TypeStep, OneRunningStep, OneWaitingStep, RunsInOrderStep, JobsQueuedStep,
   StepsDoneStep, AliasStep, TagsStep, RecheckStep DEF ReleaseInv

(* ReleaseInv holds in every state of every instance: with it, the types,  *)
(* AliasVetted, LatestFromMain, BuildRetained and RecheckSound.            *)
THEOREM ReleaseInvariant == Spec => []ReleaseInv
BY InitReleaseInv, ReleaseInvStep, PTL DEF Spec

(* Moving tags name only images that were smoke-tested, signed and built   *)
(* from a checked commit, whatever is pushed from outside and wherever     *)
(* jobs die.                                                               *)
THEOREM AliasesVetted == Spec => []AliasVetted
BY ReleaseInvariant, PTL DEF ReleaseInv

(* `latest' names only images of commits of main, checked on main.         *)
THEOREM LatestIsMain == Spec => []LatestFromMain
BY ReleaseInvariant, PTL DEF ReleaseInv

(* What a moving tag names stays under its own commit tag.                 *)
THEOREM BuildsRetained == Spec => []BuildRetained
BY ReleaseInvariant, PTL DEF ReleaseInv

(* The read-back of a promotion cannot find somebody else's image.         *)
THEOREM RecheckIsSound == Spec => []RecheckSound
BY ReleaseInvariant, PTL DEF ReleaseInv

(* A run that had to publish and is over has promoted its own vetted image *)
(* or shows what failed or was cancelled (sbom-generator.yml, publish).    *)
THEOREM OverRunsSettled == Spec => []OverIsSettled
<1>1. ReleaseInv => OverIsSettled
  <2> SUFFICES ASSUME ReleaseInv, NEW r \in Run, RunOver(r), WantsPublish(r),
                      publish[r] \notin {"failed", "cancelled"},
                      \A j \in Job : job[r][j] \notin {"failure", "cancelled"}
               PROVE  /\ publish[r] = "done"
                      /\ digest[r].label = rev[r] /\ digest[r] \in smoked \cap signed
    BY DEF OverIsSettled
  <2> USE DEF ReleaseInv
  <2>1. \A j \in Job : job[r][j] = "success"
    BY DEF RunOver, JobsQueued, TypeOK, JobStatus
  <2>2. publish[r] = "done"
    BY <2>1 DEF RunOver, Eligible
  <2>3. QED BY <2>2 DEF StepsDone
<1>2. QED BY <1>1, ReleaseInvariant, PTL

(* No step re-points a commit tag that exists.                             *)
LEMMA TagStableStep ==
  ASSUME ReleaseInv, [Next]_vars, outside' = 0, NEW c \in Commit,
         commitTag[c] # NoDigest
  PROVE  commitTag'[c] = commitTag[c]
<1> USE DEF ReleaseInv
<1>1. outside = 0
  BY OutsideGrows
<1>2. ASSUME NEW r \in Run, BuildPush(r) PROVE commitTag'[c] = commitTag[c]
  BY <1>1, <1>2 DEF BuildPush, Advance, TagsAgree, TypeOK
<1>3. (\E r \in Run : BuildPush(r)) \/ commitTag' = commitTag \/ PushFromOutside
  BY DEF Next, TriggerRun, Rerun, FinishJob, RequestPublish, StartWaiting, PublishStep,
     Lookup, Inspect, VerifyImage, SmokeTest, Sign, Compare, Retag, Recheck, Fail,
     vars, registry
<1>4. ~PushFromOutside
  BY <1>1 DEF PushFromOutside
<1>5. QED BY <1>2, <1>3, <1>4

(* Without pushes from outside, a commit tag keeps what it names. *)
THEOREM CommitTagsStable == Spec => CommitTagStable
<1>1. ReleaseInv /\ [Next]_vars =>
        [outside' = 0 => \A c \in Commit :
           commitTag[c] # NoDigest => commitTag'[c] = commitTag[c]]_vars
  BY TagStableStep
<1>2. QED BY <1>1, ReleaseInvariant, PTL DEF Spec, CommitTagStable

-----------------------------------------------------------------------------
(* The release workflow implements the contract of its moving tags: only a *)
(* smoke test followed by a signature vets an image, only vetted images    *)
(* are promoted, and `latest' takes only images of commits of main.        *)
THEOREM ReleaseKeepsContract == Spec => ContractKept
<1>1. Init => Contract!Init
  BY DEF Init, Contract!Init
<1>2. ReleaseInv /\ ReleaseInv' /\ [Next]_vars => [Contract!Next]_(Contract!vars)
  <2> SUFFICES ASSUME ReleaseInv, [Next]_vars
               PROVE  [Contract!Next]_(Contract!vars)
    OBVIOUS
  <2> USE DEF ReleaseInv
  <2>1. ASSUME NEW r \in Run, Retag(r) PROVE Contract!Promote
    <3>1. digest[r] \in smoked \cap signed /\ Destination(r) \in Alias
      BY <2>1, RetagFacts
    <3>2. Destination(r) = "latest" => OnMain(digest[r])
      <4>1. head \in 0..MaxRun /\ rev[r] \in Nat
        BY BoundAssumption DEF TypeOK, Commit, BranchHead
      <4>2. QED BY <2>1, <4>1, RetagFacts, BoundAssumption DEF OnMain, BranchHead
    <3>3. UNCHANGED (smoked \cap signed)
      BY <2>1 DEF Retag
    <3>4. QED BY <2>1, <3>1, <3>2, <3>3, RetagFacts DEF Contract!Promote
  <2>2. ASSUME NEW r \in Run, SmokeTest(r) \/ Sign(r)
        PROVE  Contract!Vet \/ UNCHANGED (Contract!vars)
    <3>1. digest[r] \in Digest /\ alias' = alias
      BY <2>2 DEF SmokeTest, Sign, Advance, StepsDone, Steps
    <3>2. \/ (smoked \cap signed)' = smoked \cap signed
          \/ (smoked \cap signed)' = (smoked \cap signed) \cup {digest[r]}
      BY <2>2 DEF SmokeTest, Sign
    <3>3. QED BY <3>1, <3>2 DEF Contract!Vet, Contract!vars
  <2>3. \/ \E r \in Run : Retag(r) \/ SmokeTest(r) \/ Sign(r)
        \/ UNCHANGED <<alias, smoked, signed>>
    BY DEF Next, TriggerRun, Rerun, FinishJob, RequestPublish, StartWaiting, PublishStep,
       Lookup, BuildPush, Inspect, VerifyImage, Compare, Recheck, Fail, PushFromOutside,
       vars, registry
  <2>4. QED BY <2>1, <2>2, <2>3 DEF Contract!Next, Contract!vars
<1>3. QED
  BY <1>1, <1>2, ReleaseInvariant, PTL DEF Spec, ContractKept, Contract!Spec
=============================================================================
