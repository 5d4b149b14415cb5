# Verification of the extension image pipelines

This directory specifies, in TLA+, the concurrent and failure-prone parts of
`postgres-extensions-containers`: the workflows that build, test, sign, copy and
catalogue extension images, the release of the SBOM generator they use, and the
maintenance module (`dagger/maintenance`) that reads metadata, updates library lists and
runs the end-to-end tests.
TLC checks each specification on small instances; TLAPS proves the safety
results for every value of the constants.

Paths below are relative to the repository root.

## 1. The system

| Part | Code | State it keeps | Operations |
| --- | --- | --- | --- |
| Extension build pipeline | `.github/workflows/bake_targets.yml`, `docker-bake.hcl`, `retry-failed-builds.yml` | tags, signatures and attestations in the testing and the production repository of an extension; job results of each run | bake and push, sign, provenance, security and smoke checks, copy to production, production provenance, re-run of failed jobs |
| Catalog publication | `.github/workflows/update-catalogs.yml`, `dagger/maintenance/{main,catalogs,image}.go` | the catalog files in the `artifacts` repository | check out the sources, resolve every extension to its newest production tag, sign, push |
| SBOM generator release | `.github/workflows/sbom-generator.yml`, `sbom-generator/release.py` | commit tags, the moving tags `latest` and `test`, signatures | check jobs, publish job (`build`, smoke test, sign, `promote`) |
| Triage and merge gate | `.github/workflows/bake.yml`, `pr-scope.yml` | the check results of the head of each branch | change triage, Bake, gate, scope check, prerelease check |
| Retention | `.github/workflows/registry-clean.yml` | the testing repository | daily deletion by age |
| Extension metadata | `dagger/maintenance/{parse,image,updatelibs}.go`, `docker-bake.hcl` | `metadata.hcl` of each directory | list extensions, build matrix, extension version, image, scaffold |
| SBOM generator run | `sbom-generator/generator.py`, `hooks.py`, `spdx_validation.py` | the output directory of one scan | scan, inventory, compose, augment, validate, write |
| SPDX composition | `sbom-generator/compose.py` | none | merge of the builder's document with the payload's files |
| System library staging | `scripts/stage_system_libs.sh`, `capture_base_image_libs.sh` | `/system`, `/licenses` of a build stage | select, copy and link libraries |
| OS library updates | `.github/workflows/update_os_libraries.yml`, `dagger/maintenance/updatelibs.go` | library lists, one branch and pull request per extension | list, open or update a pull request, auto-merge |
| Testing values | `dagger/maintenance/{main,testingvalues}.go` | `values.yaml` of each directory | generate the images, extensions and assertions of an end-to-end test; run it |
| Local environment | `Taskfile.yml` | containers, networks and a cluster on a developer's machine | set up, test, clean up |

How they interact: a push to any branch starts `bake.yml`, which calls
`bake_targets.yml` for every changed extension. Runs of all branches push to one
*testing* repository per extension; runs of `main` copy what passed to
*production*. When all extensions of a run of `main` succeeded, the catalogs
workflow is dispatched; it reads production tags only and writes the `artifacts`
repository. Every build uses the generator image that the release workflow
published, pinned by digest. Changes reach main by pull requests: `bake.yml` and
`sbom-generator.yml` both report a check named `Automerge gate`, `pr-scope.yml` a second
required one. The daily library updates go the same way, merged by themselves. The smoke
tests of a bake run `values.yaml` files that the maintenance module makes from the
metadata and from annotations of the image that was built.

What makes it hard:

* **Interleaving.** Runs of the same workflow overlap. The only mutual exclusion is
  the concurrency group of the publish job of the generator; everything else
  relies on tags being unique, on digests, or on a rejected `git push`.
* **Failure and re-run.** Any job may die between two registry calls.
  `retry-failed-builds.yml` and maintainers re-run the *failed* jobs: results and
  outputs of the others are kept, so a run is a patchwork of attempts.
* **Names against digests.** Some steps look an image up by tag, others by digest.
* **Ordering.** Older runs may finish after newer ones, and results of a head may come
  when the branch has another one.
* **One name for two checks.** Which of two workflows answers for a head depends on the
  files of a push or on those of the whole request.

What makes each part correct is stated by the properties of section 3, and the
hazards they answer are listed, line by line, in `PROJECT.json`.

## 2. Modules

| Module | What it is |
| --- | --- |
| `SbomRelease` | the generator's release: events, checks, publish group, `release.py` |
| `AliasContract` | what a consumer of the generator's registry repository relies on |
| `SbomReleaseProofs` | theorems about `SbomRelease` |
| `BakeTargets` | build, test and publication of one extension, and the clean-up of its testing images |
| `ProductionContract` | what a user of an extension's production repository relies on |
| `BakeTargetsProofs` | theorems about `BakeTargets` |
| `CatalogPublication` | generation and publication of the image catalogs |
| `CatalogContract` | what a user of the catalogs relies on |
| `CatalogPublicationProofs` | theorems about `CatalogPublication` |
| `Publication` | the pipeline of an extension and the catalogs workflow, from the bake to the catalogs |
| `PublicationProofs` | theorems about `Publication` |
| `GreatestNumber` | a bounded set of numbers has a greatest element: for the newest image, the longest version, the best path |
| `SpdxComposition` | `compose`: what of the scanner's document describes the payload |
| `SbomGeneration` | one run of the SBOM generator, around `compose` |
| `SbomGenerationProofs` | theorems about `SbomGeneration` and the operators of `SpdxComposition` |
| `MergeGate` | branches, checks, and what lets a change into main |
| `LibraryUpdates` | the library lists and the workflow that updates them, through the gate |
| `LibraryUpdatesProofs` | theorems about `MergeGate` and `LibraryUpdates` |
| `PackageVersion` | the two extractions of a version from a package version |
| `ExtensionMetadata` | what the maintenance module reads from a source tree |
| `ExtensionImage` | the images metadata stands for: those the maintenance module refers to, those a bake pushes |
| `TestingValues` | generation of the values of end-to-end tests, and the tests |
| `TestingValuesProofs` | theorems about `PackageVersion`, `ExtensionImage` and `TestingValues` |
| `MC*` | small instances for TLC |

### SbomRelease

`trigger`, `rev`, `attempt` describe the runs of the workflow (event, `GITHUB_SHA`,
attempt number); `job` the status of the check jobs and of `changes`; `publish`
where the publish job stands; `digest` the content of its output directory.
`commitTag`, `alias`, `signed` are the registry.

Each step of the publish job that touches the registry is an action, and
`release.py` is cut at its registry calls: `Lookup` (`digest_for` in `build`),
`BuildPush`, `Inspect`, `VerifyImage`, then the workflow's `SmokeTest` and `Sign`, then
`promote`'s `Compare`, `Retag` and `Recheck`. `Fail` ends the job between any two of
them and leaves the registry as it is. `Rerun` is "Re-run failed jobs": the jobs
that succeeded keep their result and the publish job starts again.

`QueueJobs` is the concurrency group of the checks (`cancel-in-progress: true`):
queueing a check cancels the one of the same ref and architecture.
`RequestPublish` and `StartWaiting` are the group `sbom-generator-publish`: one job
runs, one may wait, a newcomer replaces the one that waits.

A digest is a record of who built it, its number and its revision label: it is
content-addressed, so the label is part of its identity. `smoked` is a history
variable. `PushFromOutside` is somebody else with write access to the repository;
`MaxOutside` bounds it and is 0 in the runs that are about the workflow alone.

### BakeTargets

One extension, one version, several runs. `build`, `check`, `copy`, `attest` are the
job results, `baked` and `stamp` the outputs of `testbuild` (the bake whose metadata
is handed on and the minute in its tags), `copied` the progress of the copy.
`testTag`, `stored`, `prodTag`, `prodSigned`, `prodAttested` are the two repositories;
`testSigned` and `passed` are history variables.

`StartBake` fixes the minute (`now = timestamp()`), `PushBake` pushes all images or
fails having pushed some. `Checked` is what a check looks at: the provenance job is
given the digest, the security and smoke tests the timestamped tag, so an image
pushed to the same tag by another run is what they see. The copy works by the
digests of bake's metadata, tag by tag (`CopyTag`), and signs at the end
(`SignProduction`). The action `copy-images` is not part of the repository; it is
modelled from its inputs in `bake_targets.yml`.

`RerunFailed` re-queues exactly the jobs and matrix entries that failed. `Retry` is
the workflow that does so after the first attempt, `ManualRerun` a maintainer.

`Clean` is the daily clean-up of `registry-clean.yml`: a testing image that is `CutOff` minutes
old is deleted with its tag, unless it is the most recent one. The deletion by name, age and
number to keep is an external action, so any image it may delete is deleted at any moment. A
signature, a check or a copy of an image that is gone fails.

All runs build the same version, since tags of different versions never meet.

### CatalogPublication

The job of `update-catalogs.yml` and the Dagger function `GenerateCatalogs`, for runs
that overlap. `head` is the commit of main, `upstream` the revision of the upstream
catalogs, `production` the timestamped tags of the production repositories, `file`
the catalogs in the `artifacts` repository. A run in a slot has its `commit`, its
copy of the upstream catalogs (`base`), and what it has looked up (`found`); `stale`
says that `artifacts` has moved since the run checked it out.

The three checkouts and every registry lookup are steps of their own, in the
order of the workflow, so that merges, copies to production and other runs come
in between. `Lookup` is `getExtensionImageWithTimestamp`: the greatest matching tag,
compared as text, which for twelve digits is the newest minute. A missing image
fails the generation (`MissingImage`), an empty selection too
(`NothingToGenerate`). `Publish` is the commit and push of the last step: on main
only, all files at once, and refused by git when the run is `stale`
(`EndUnpublished`); there is no concurrency group. Signatures of catalogs are not
represented except that they make every commit non-empty.

`ProductionCopy` is the one action of the build pipeline that this module sees. It
adds a tag of any minute up to now, because the copy comes later than the bake.

What commits maintain (`Source`) and what upstream offers (`Base`) are parameters: the
properties hold for any history, an instance gives one. A catalog stands for one
file of one distribution, an extension for a package on one PostgreSQL major. A major that
upstream's catalog does not list is skipped (`main.go:517-521`); the model has no such major: an
extension stands for one on a major that every catalog of the instance has.

`CatalogContract` has the same history and two actions: `World`, in which anything but the
files moves, and `Publish`, in which all files of one upstream revision are generated at once
from one commit, each from images that are in production and not older than those listed.

### Publication

Composes `BakeTargets` with an instance of `CatalogPublication`. They share the clock and the
production repository: `production` of the catalogs is what the pipeline has copied (`Copied`,
read off `prodTag`) and what the pipelines of other versions and extensions have (`others`).
The catalogs of `CatalogPublication` are the images of `BakeTargets`, one for each distribution.
`Dispatch` is the last job of `bake.yml`: a green run on main triggers the catalogs workflow;
`Start` is its schedule or a run by hand. `dispatched` (the minute of the bake that
dispatched a run) and `before` (what was in production then) are history.

A run on main builds what main maintains when it is pushed (`MainBuilds`). `ConstantsFit` says
that the constants of the two modules fit together; it is the hypothesis of the theorems and
repeats the assumptions of `CatalogPublication`, which are about constants this module renames.
The module has no run of its own: its state space is the product of two that are checked
separately, and its invariants are proved. They were model-checked before, with one image and
two minutes: two runs of the pipeline and one slot (433 000 states), and one run, two slots and
two commits of main (53 000 states).

### SpdxComposition

`compose` as operators on two arguments: `b`, the SPDX document that Syft wrote about the
build stage, and `f`, the payload as a function from names to contents. A path is the
sequence of its parts and `SharedSuffix` is `path_score`. The payload's files are matched
to the builder's by content (`Candidates`), those of packages first (`Preferred`), by path
(`Selected`); a tie between different paths is no match (`Sources`). Packages that own a
match are kept (`Retained`), everything else is dropped (`Removed`), relationships are
carried over with their ends replaced, one for each payload file that a builder's file
has become (`Carried`), and the document describes its packages or else its files
(`Described`).

Attributes that decide nothing are left out: licences, copyright, verification codes,
checksums other than SHA256. The identifier that `file_id` computes stands for the pair
of name and content, so hash collisions are not represented. Documents of SPDX have
sets where the code has lists; the code itself removes duplicates and sorts.

### SbomGeneration

`generate`, one action for each thing it does: `Start` (mounts, empty output directory),
`ScanBuilder` (Syft and `infer_platform`), `TakeInventory`, `Compose`, `Augment`,
`SetNamespace`, `Validate`, `OpenOutput`, `WriteStatement`. Any of them may raise, which is
`Fail`; what is in the output directory by then stays there. `namespace` is the content
that the document's namespace was computed from.

Syft, the validator and the hook are not in the generator's code. Syft may come up with any
well-formed document (`Builders`), the payload is any (`Payloads`). Of the validator only
that it rejects relationships to what is not listed is used (`Closed`). A hook is taken to
add a package and a relationship: a hook that takes files away is free to do so, and
`StatementSound` would not hold of it.

### MergeGate

Branches, their pull requests, and the results that the head of a branch has. The content
of a branch is abstracted to `change`, the areas in which it differs from main: one area for
each extension, and `Shared`, `Sbom`, `Neutral` and `Elsewhere`, which is how the path filters of the
workflows tell files apart. `defect` are the areas whose own checks would fail, `preview` the
extensions that are moved to a prerelease. Main itself is not represented: it is what
branches are compared with.

`Push` touches any areas and leaves each of them equal to main or not: a commit, a revert, and
a rebase, which touches what main has changed without making a difference. A new head
(`SetHead`) starts with the checks that its triggers give it (`HeadChecks`): `bake.yml` looks at
the files of the push, `sbom-generator.yml` at those of the request, and `pr-scope.yml` always
runs. What a check may report is computed from the head it is about: `Matrix` is the triage
against main, `Bakes` the legs and the gate, which a skipped Bake passes, `Stable` the prerelease
check, `InScope` the scope check. Checks may also fail for no reason in the change, and are
re-run (`Rerun`). `Dispatch` is a run started by hand on a branch; its gate has the same name,
and whatever it was about is left open.

`Mergeable` is the branch protection: both required names have a success on the head and no
failure. A gate that still waits for its jobs has not reported anything and blocks nothing,
if the other workflow has reported success under the name: this is how GitHub treats a job
whose `needs` are not done, and is an assumption about a service outside the repository, as
are the path filter of a push (the difference between the two heads) and the merge.

### LibraryUpdates

Composes `MergeGate` (the branches of updates are branches of it) with `ExtensionMetadata`
(which extensions have lists, and for which combinations). A list is known by the state of
the archive it was read from, a number that `ArchiveMoves` counts up.

`Trigger` starts a run: each of its jobs has the commit that main had then (`base`), and `todo`,
the combinations of the build matrix. `ReadList` is `updateOSLibsOnTarget` for one of them.
`EndJob` is an error, after which nothing is exported. `OpenUpdate` is the export and
`create-pull-request`: the branch is reset to the job's commit and lists, whatever was there.
`MergeUpdate` is auto-merge through the gate, a three-way merge of files. Runs overlap (`Slot`),
since the workflow has no concurrency group. `asof` and `since` are history.

### PackageVersion, ExtensionMetadata, ExtensionImage

A package version is a sequence of characters. `IsVersion` says what both expressions call a
version; they differ in what may follow: `ExtractGo` wants another character or the end,
`ExtractBake` takes the longest one there is. So the Go side may find nothing where HCL finds
a version (`1.2.-1`), and never something else.

`ExtensionMetadata` has the directories of a tree, readable or not, and operators that give the
set of their possible results: none when the code returns an error.

`ExtensionImage` has references with the repository they are in: a registry with its owner, an
image, and whether the name ends in `-testing`. `GetExtensionImage` puts every image into
`ghcr.io/cloudnative-pg` (`Upstream`; `image.go:119`) under the name that metadata has.
`BakeTags` are the tags that a bake pushes for a registry `g` of `BakeRegistry` (the owner's, or a
local one: `bake_targets.yml:64`, `Taskfile.yml:110`) and an environment, all in lower case
(`docker-bake.hcl:18`, `95-98`). That the two never are in one repository is the assumption
`OwnerAssumption` about where this repository is.

### TestingValues

A call of `GenerateTestingValues` works on the tree it was given (`tree`), and looks at the
registry, where names are in lower case, when it comes to the target (`ReadTarget`) and to each
sibling (`SiblingDependency`); pushes and edits come in between. `infos` is the list that `testingvalues.go` builds, and
`Mounted` and `Created` are the lists of `values.yaml` that are made from it. `values` keeps with
each file, as history, the tree and the image it was made from. `Test` runs over the
directories that had metadata when it was called: the shared test first (`RunShared`), then
the extension's own (`RunOwn`), and stops at the first failure or missing file.

## 3. What is checked

`CHECK_DEADLOCK FALSE` everywhere: a workflow that nobody triggers stops, and a run of the
generator ends.

| Run | Question | Bounds |
| --- | --- | --- |
| `release` | the release invariant, where `latest` comes from, that a commit is built once, that the re-check of `promote` is sound, and that `AliasContract` is implemented, with any event, failure, re-run, and a push by somebody else | 1 architecture, 2 runs, 2 attempts, 1 foreign push; 1 160 000 states |
| `release_live` | an admitted publication ends | 3 runs, so that one holds the group, one waits and one replaces it |
| `release_dropped` | finding: a generator change that is never published | 2 pushes |
| `bake` | `ProductionTested`, `ProductionProvenance`, `GreenMeansPublished`, `ProductionImmutable`, `LostForGood`, the invariant behind them, and that `ProductionContract` is implemented while minutes are distinct, with testing images deleted in between | 1 image, 2 runs, 2 attempts, 2 minutes, images deleted after 1; 1 730 000 states |
| `bake_live` | a run ends green or fails twice | 2 images, 1 release, 1 run, 2 attempts, 2 minutes, images deleted after 1; 152 000 states |
| `bake_collision` | finding: two bakes under one timestamped tag | 2 runs, 1 minute |
| `catalog` | `CatalogInv`, `CompleteOrUntouched`, `NeverOlderImage` for any two overlapping runs, and that `CatalogContract` is implemented | 2 catalogs of which upstream drops one, 2 extensions, 2 commits and a branch, 2 minutes; 477 000 states |
| `catalog_live` | the catalogs catch up | 2 runs, 1 extension, 2 commits, 2 minutes; 75 000 states |
| `sbom_scan` | what a composed document claims, and what a written statement is | all documents of 2 packages and 3 files (two of equal content) at 3 paths, all payloads of 2 files; 744 000 states |
| `testing` | `ValuesOfOneMoment`, `CreatedIsThere`, `SiblingTagsBaked`, `GreenCovers`, the invariant behind them | 4 trees of 3 extensions, 2 distributions, 2 registries of bakes and upstream's, 1 edit, 1 push, 2 calls; 1 030 000 states |
| `updates` | `GateSound`, `StableReleases`, `ListsNeverOlder`, `UpdateBringsUp`, the invariants behind them | 2 extensions, of which 1 has lists, on 2 distributions, 2 overlapping runs, a branch of Renovate, 3 events, 2 areas in a push; 615 000 states |
| `sbom_gate` | finding: a change of the generator merged without its checks | the same |

Why the bounds are enough to be interesting: a violation of a property about two
publications needs two runs; a stale result needs a second attempt; a waiting job
that is displaced needs three. A catalog goes back to an older image only if two
runs overlap and an image appears between their lookups: two slots and two
minutes. A wrong match needs two builder files of one content, of different owners, at
paths of which one is the suffix of the other, and a third file that stays behind. A gate
lets something through that it should not if one push makes it run and a later one
hides it: two pushes of two areas. A library list goes back if a run reads before another
one merges and resets the branch after it: two runs and one move of the archive. Values
that mix two images need a push between two looks, and the trees have a sibling, a
dependency of the base image, one that is not there, one that does not parse, and a
version with an epoch. The
bounds are `MaxRun`, `MaxAttempt`, `MaxOutside`, `MaxMinute`, `MaxCommit`, `MaxUpstream`, `MaxEvent`,
`MaxTouched`, `MaxEdit`, `MaxPush`, `MaxCall`, and `CutOff` for the week of the clean-up; the theorems hold for all of them.

`DistinctMinutes` is the premise under which tags are unique. Nothing in the
workflows establishes it (finding 2), so it is not built into the model: the
properties that need it say so, and `ProductionProvenance` is stated without it.

### Fairness

Weak fairness of what GitHub schedules: a queued job ends, a publish job that is due
is admitted or starts, and a running one takes its next step or fails (jobs have a
time limit), the retry workflow runs. Events, manual re-runs, failures and foreign
pushes are not fair: they may never come. A job may always end by
failing instead of succeeding; a copy whose image was cleaned up can only fail.

The catalogs' schedule triggers a run again and again (weak fairness of `Trigger`),
a run takes its next step, and steps that may fail do not fail every time (strong
fairness of each step of a run). `CatalogCatchesUp` starts from when every
extension of main has an image and no run of another commit is left: a run that is
repeated for ever with an old commit may publish that commit's catalogs for ever.

### Findings

1. **A generator change may never be published.** `sbom-generator.yml:76-78` lets a
   newer push cancel the checks of an older one. If only the older one changed the
   generator, its publish job is skipped and the newer run does not publish.
   `sbom-generator/README.md:222` promises publication.
2. **Timestamped tags are not unique.** `docker-bake.hcl:42` has the resolution of a
   minute and all branches share the testing repository, so two bakes in one minute
   write the same tag; the tests of the first then look at the image of the
   second, while the copy takes the first by its digest.
   `bake_targets.yml:74` calls the tags unique.
3. **A change of the SBOM generator may be merged without its checks.** A rebase of its
   branch over extension commits is a push with extension files, so `bake.yml` runs; with
   respect to main there is nothing to build, Bake is skipped, and its `Automerge gate` is
   green (`bake.yml:148`). `PR scope` is green as well. The generator's own gate, of the same
   name, reports when its checks are over; `platformAutomerge` need not wait for it.
   `renovate.json:269` says "after all checks pass on the current base".
4. **Siblings are looked up in upstream's repository.** `image.go:119` refers to
   `ghcr.io/cloudnative-pg/<image>`, for a required extension of the tree and for the target when
   no image is given; the bakes here push to the repository of their owner, and `image.go:128`
   looks for the same images in `ghcr.io/cnpg-extensions`. `MERGE.md:110` asks to "check repository
   and image identity values for accidental `cloudnative-pg` references", and
   `merge-records/2026-09-14-upstream-sync.md:87` says that "downstream `cnpg-extensions` branding,
   catalog, image, and policy references remain in place". It is so of every sibling in every
   state, so it is proved (`SiblingsNameUpstream`) instead of being refuted by a run. Today it does
   not bite: the one required extension there is (`postgis`, of `mobilitydb`) is not in the tree.
   The first that is will not be found, or will be the image of upstream.

## 4. What is proved

`SbomReleaseProofs`, `BakeTargetsProofs`, `CatalogPublicationProofs`, `PublicationProofs`,
`SbomGenerationProofs`, `TestingValuesProofs` and `LibraryUpdatesProofs` prove, for every number of runs, attempts,
images, architectures, extensions, branches and minutes, every history of main and of the
upstream catalogs, every tree, registry and package version, and every set of scanner
documents and payloads:

* type correctness and the inductive invariants `ReleaseInv`, `PipelineInv`, `CatalogInv`,
  `SbomInv`, `TestingInv`, `GateInv` and `LibraryInv` (`ReleaseInvariant`, `PipelineInvariant`,
  `CatalogInvariant`, `SbomInvariant`, `TestingInvariant`, `GateInvariant`, `LibraryInvariant`);
* from them the safety properties the runs check, and the action properties
  `CommitTagStable`, `ProductionImmutable`, `LostForGood`, `NeverOlderImage`, `OccupiedUntouched`,
  `ListsNeverOlder` and `UpdateBringsUp`;
* that the two extractions of a version agree wherever the Go one succeeds
  (`VersionsAgree`), and that the one of HCL finds exactly one version in whatever starts with
  a digit (`BakeFindsOne`);
* that `SbomRelease` implements `AliasContract`, that `BakeTargets`, while minutes are
  distinct, implements `ProductionContract`, and that `CatalogPublication` implements
  `CatalogContract`;
* that the pipeline and the catalogs workflow together (`Publication`) implement each of the
  two, and what only holds of both: a listed image was vetted (`ListedIsVetted`) and stays
  (`ListedKeepsItsImage`), a dispatch brings what was built (`DispatchBringsImages`), nothing
  staler than the start of its run is published (`PublicationIsFresh`), and one undisturbed
  run is enough (`OneRunBringsUpToDate`);
* how far each finding goes (below), and what liveness rests on (below).

The argument for the release: at most one publish job runs (`OneRunning`); what a
running job has done is recorded by where it stands (`StepsDone`); and, as long as
nobody else pushes, its commit tag agrees with its output directory (`TagsAgree`),
so `promote`'s comparisons cannot fail and a tag is never built twice. None of the
properties is inductive without these. With foreign pushes `TagsAgree` is gone, and
`AliasVetted` still follows from `StepsDone`, because `Retag` works by digest.

The argument for the pipeline: a bake has its minute from the moment it starts and no
later attempt has one (`BakesInOrder`); a job's result, kept across re-runs, still
refers to the bake whose outputs are in use (`JobsDone`); with distinct minutes the
testing tags lead to that bake, or nowhere once it was cleaned up (`TestTagsOwn`); and a production tag names an image
of the bake of its minute (`ProductionOrigin`), so a second copy writes what is
there already.

The argument for the catalogs: a lookup comes after the checkout of the artifacts
(`RunsKnown`), so whatever was published by then lists images that the lookup saw
(`FoundThere`); what is published later makes the run `stale`, and its push is
refused. Hence what a run may still push is not older than what is published
(`FoundNewer`), which is what `NeverOlderImage` needs.

For `CatalogContract`, the step that pushes has to be a publication of everything at once:
the run's lookups were made one by one, but images do not leave production, what they found
is not older than what is published, and a run that others have overtaken is refused. Every
other step of any run is a step of the world or a stutter.

The argument for the composition: to the catalogs every step of the pipeline is the clock, an
image coming to production, or nothing. A copy fits `ProductionCopy` because its minute has
passed (`StampsPast`) and a run on main builds what some commit of main maintains
(`MainMaintains`). Other pipelines have tags of their own (`OthersApart`), so a listed tag at
this version is one that this pipeline copied, and `ProductionOrigin` says which image that is.
`CopiesThere` does not need distinct minutes: a green run has left an image under its tag,
whoever wrote it last; so a run that it dispatches starts with that in production
(`StartedAfter`) and finds it or something newer (`FoundFresh`).

The argument for the generator: a step records what it has established
(`StepsTaken`), so all that is said of a composed document is said of
`Composed(builder, payload)`. There, a package claims a payload file exactly if it owns
one of the files it was matched to (`ClaimIff`), because renaming maps the ends of
`CONTAINS` to the files the ends have become and nothing else (`RenamedKept`). A match fits
best of all candidates, and no candidate of another name fits as well (`MatchFitsBest`);
an owned candidate at the very path is always matched (`ExactIsMatched`). No induction
over the files is needed, since `compose` treats them one by one. The ranking always has a
best candidate (`SomeSelected`, since suffixes are no longer than the name), so a file of which
owned copies exist goes unclaimed only if two names tie for the best fit
(`UnclaimedAreAmbiguous`, the converse of `ClaimsJustified`).

The argument for the gate: a new head has no result (`SetHead`), so each result that is
there was computed from this head (`ResultsOfHead`), and what is merged kept a green one
(`MergedGreen`). If the green gate is that of the bake, what differs from main was built. If
it is that of the generator, the request changes the generator, and the scope check says
that it changes no extension.

The argument for the library lists: what a run reads is at least what its commit had and
what the archive had when it began (`JobsDone`), and so is what a branch carries
(`BranchesDone`). A merge that changes a list finds on main what the branch started from, or
the new list already; anything else is a conflict. So a later run may reset the branch with
older lists than another run merged in between, and its merge cannot go through.

The argument for testing values: whatever is under the tag when the target is read is
noted (`CallDone`), the infos are those of the dependencies in order (`InfosOf`), each found for
the coordinates of that one look, and a file keeps what the call had (`ValuesDone`). A sibling's
tag is what `ExtractGo` finds in its package version, of the combination that was looked
up (`SiblingRequired`); as `ExtractBake` finds the same (`GoIsBake`), the bake of that combination
pushes the tag (`SiblingTagsBaked`), to whatever repository it pushes. The repository of the
reference is upstream's, where no bake pushes (`SiblingsAreUpstreams`, which is proved and was
model-checked on the instance of `testing`).

### How far the findings go

A counterexample says that something goes wrong; these theorems say what does not.

1. `OverRunsSettled`: a run that has to publish and is over has promoted a vetted image of its
   own commit, or shows a failed or cancelled job, in whichever attempt. So a change is
   dropped visibly, never by a job that is skipped without a trace. It needs that no job of
   such a run is skipped from the start (`JobsQueued`), and that the group has one place to
   wait (`OneWaiting`).
2. `TestTagsAreKept`: while minutes are distinct, nothing but the clean-up touches a timestamped
   testing tag, and it only takes it away. A testing tag names the bake of its minute
   (`TestTagOrigin`).
3. `UnvettedOnlySkipped`: a generator change that is merged without its checks is of the
   generator and documentation alone, and the bake that was green had no leg.
4. `SiblingTagsAreBaked`: in its own repository the tag is the right one: the bake of that very
   sibling for that distribution and major pushes it, in any registry and environment.

### What liveness rests on

Liveness under fairness is model-checked, but the steps it is made of are proved: nothing is
stuck, and nothing goes back.

* `RunsEndOrGoOn`: a run of the pipeline is exactly one of green, failed, and able to go on.
  `ResultsAreFinal`: no success is taken back, and no failure within an attempt. So an attempt
  has only so many steps to take, and `RetriedOnce` needs no more than fair scheduling.
* `CatalogRunsGoOn`: a run of the catalogs workflow has an image to take, or nothing to take, or
  all it needs; that there is a newest image is `HasGreatest`. `CatalogRunsAdvance`: whatever
  moves meanwhile, a step of a run ends it or leaves it less to look up.
  `OneRunBringsUpToDate`: one push of an undisturbed run is all that `CatalogCatchesUp` waits for.

`RunsEnd` states the guards of the jobs (`GoesOn`) instead of ENABLED, which the prover does not
handle; that the two are the same was checked by TLC on the instance of `bake`.

The constants are assumed to be what the modules' `ASSUME`s say: bounds are positive
naturals, the build and check matrices are not empty, identifiers of packages, files and
documents are distinct (Syft's are, by their prefixes), and scanner documents are well formed.
Registries have owners, of which upstream is not one that bakes push for.
The theorems about `Publication` assume `ConstantsFit`, which instances of both modules satisfy.

The liveness properties (`PublicationEnds`, `RetriedOnce`, `CatalogCatchesUp`) and findings 1 to 3 are
model-checked only: fairness and ENABLED are out of the prover's reach. Theorems of induction
that take an operator cannot be used either, so no recursive definition is proved about;
`GreatestNumber` is the one fact that needs induction, and has it from the well-foundedness of
the numbers, which is a statement about a set.

## 5. What is not modelled

* `*/metadata.hcl`, `*/Dockerfile` and `templates/`: data, one set for each extension. Of a new
  extension only what other operations read of it is there (`Template`).
* What images contain, how they are built, and what the security and smoke tests look
  at: a check passes or fails.
* `scripts/stage_system_libs.sh`: one process in one build stage; its cases are those of `cp`,
  `ln` and `ldd` on real packages.
* The tasks of `Taskfile.yml` around containers, networks and the cluster; `setup-kind` skips a
  cluster that exists, also one that an interrupted task left half made.
* The order in which `values.yaml` lists extensions to be created: the extension comes before
  what it requires, while `mobilitydb/README.md:82` says that `required_extensions` enforces the
  order. What is done with the list is up to the operator, which is not in this repository.
* A run that is dispatched on a branch reports its gate on the branch's head, whatever it was
  asked to build, and can stand for a gate that failed or never ran. `GateSound` is stated of
  merges that had no such help (`Merged`).
* The exception of `pr-scope.yml:31-35` for the one request that introduced the scope check: the
  check is in force.
* Conflicts within a file: `MergeUpdate` refuses a merge when both sides changed a list, git when
  they changed the same part of it. The argument of `ListsNeverOlder` is that a merge never takes
  back what main has changed since the branch started, which holds of parts as of files; but two
  lists that git merges part by part are one list of no moment, and the model has no such list.
* A prerelease of `age`: `bake.yml:179` exempts it, and `StableReleases` with it.
* `pgrx.yml`: a stub that publishes nothing. `renovate.json` beyond branches, rebases and
  auto-merge: configuration of a service.
* Wording: summaries, labels, pull request texts, logs.
* Credentials, permissions and the certificates behind signatures: who may push is
  represented, how it is enforced is not.

## 6. What could come next

1. `bake.yml` with the legs of several extensions: `Publication` has the pipeline of one, and the
   tags of the others come to production by themselves (`OtherCopy`), although the dispatch
   waits for all legs.
2. The contract of a library list: that `LibraryUpdates` replaces lists as if one update at a time
   were made.
3. Liveness of library updates, under the assumption that checks pass on what is not broken.
