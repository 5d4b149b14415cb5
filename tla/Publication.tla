---------------------------- MODULE Publication ----------------------------
(***************************************************************************)
(* The way of an image from its bake to the catalogs: the build pipeline   *)
(* of one extension and the catalogs workflow, which share the production  *)
(* repository and the clock.  What CatalogPublication leaves open, the     *)
(* images that come to production, is here what BakeTargets copies.        *)
(*                                                                         *)
(* The runs of the pipeline build one version of the extension, and each   *)
(* image of the build matrix is listed by one catalog.  The other versions *)
(* and extensions have pipelines of their own: others are their tags.      *)
(***************************************************************************)
EXTENDS BakeTargets

CONSTANTS Ext, Version, NoVersion, MaxCommit, Source, MaxUpstream, Base, Slot,
          Extension,   \* the extension of the pipeline
          ThisVersion  \* the version that its runs build

VARIABLES others,     \* the timestamped production tags of other pipelines
          dispatched, \* dispatched[s]: history, the minute in the tags of the
                      \* green run that has dispatched run s of the catalogs
          before,     \* before[s]: history, what was in production then
          head, upstream, file, phase, commit, base, found, stale

catalogs == <<head, upstream, file, phase, commit, base, found, stale,
              dispatched, before>>

(* The timestamped tags of the production repositories, as a lookup of the *)
(* catalogs workflow finds them.                                           *)
TagOf(i, e, v, m) == [catalog |-> i, ext |-> e, version |-> v, minute |-> m]
Copied == {t \in [catalog : Image, ext : {Extension}, version : {ThisVersion}, minute : Minute] :
             prodTag[t.catalog][t.minute] # NoDigest}

Catalogs == INSTANCE CatalogPublicationProofs
              WITH Catalog <- Image, production <- others \cup Copied

(* The ASSUMEs of CatalogPublication, with every image in a catalog.       *)
ConstantsFit ==
    /\ MaxCommit \in Nat /\ MaxUpstream \in Nat
    /\ Source \in [0..MaxCommit + 1 -> [Image -> [Ext -> Version \cup {NoVersion}]]]
    /\ Base \in [0..MaxUpstream -> SUBSET Image]
    /\ NoVersion \notin Version
    /\ Extension \in Ext /\ ThisVersion \in Version

-----------------------------------------------------------------------------
PublicationInit == /\ Init
                   /\ others = {}
                   /\ Catalogs!Init
                   /\ dispatched = [s \in Slot |-> 0]
                   /\ before = [s \in Slot |-> {}]

(* Main maintains the version for every image of the build matrix. *)
MainBuilds == \A i \in Image : Source[head][i][Extension] = ThisVersion

(* A step of the pipeline; a new run on main builds what main maintains. *)
PipelineStep ==
    /\ Next
    /\ (\E r \in Run : ref[r] = "none" /\ ref'[r] = "main") => MainBuilds
    /\ UNCHANGED <<others, catalogs>>

(* Another pipeline copies an image. *)
OtherCopy ==
    /\ \E i \in Image, e \in Ext, k \in 0..head, m \in 1..clock :
         LET v == Source[k][i][e] IN
           /\ v # NoVersion /\ <<e, v>> # <<Extension, ThisVersion>>
           /\ others' = others \cup {TagOf(i, e, v, m)}
    /\ UNCHANGED <<vars, catalogs>>

(* Job Catalogs of bake.yml, after the last leg of Bake is green on main.  *)
Dispatch(s, r) ==
    /\ Green(r) /\ ref[r] = "main"
    /\ Catalogs!Trigger(s)
    /\ dispatched' = [dispatched EXCEPT ![s] = StampOf(r)]
    /\ before' = [before EXCEPT ![s] = others \cup Copied]

(* The schedule, or somebody by hand. *)
Start(s) == /\ Catalogs!Trigger(s) \/ Catalogs!ManualRun(s)
            /\ dispatched' = [dispatched EXCEPT ![s] = 0]
            /\ before' = [before EXCEPT ![s] = others \cup Copied]

CatalogsStep ==
    /\ UNCHANGED <<vars, others>>
    /\ \/ /\ \/ Catalogs!Merge \/ Catalogs!UpstreamCommit
             \/ \E s \in Slot : Catalogs!Step(s) \/ Catalogs!Fail(s)
          /\ UNCHANGED <<dispatched, before>>
       \/ \E s \in Slot : Start(s) \/ \E r \in Run : Dispatch(s, r)

PublicationNext == PipelineStep \/ OtherCopy \/ CatalogsStep

publication == <<vars, others, catalogs>>

PublicationSpec == PublicationInit /\ [][PublicationNext]_publication

-----------------------------------------------------------------------------
(* What catalog i lists of the extension, at the version of the pipeline.  *)
Lists(i, m) ==
    /\ file[i] # Catalogs!NoFile
    /\ Source[file[i].commit][i][Extension] = ThisVersion
    /\ m = file[i].image[Extension]

(* ListedVetted: an image that a published catalog lists was built from    *)
(* main for that very catalog, and was signed and given its testing        *)
(* provenance; while minutes are distinct it passed every check itself.    *)
(* The catalogs only know its tag: this needs that the copy, the checks,   *)
(* the lookup and the push are about one image.                            *)
ListedVetted ==
    \A i \in Image, m \in 0..MaxMinute : Lists(i, m) =>
      /\ m # 0
      /\ LET d == prodTag[i][m] IN
           /\ d # NoDigest /\ d.image = i /\ ref[d.run] = "main"
           /\ d \in testSigned \cap passed["provenance"]
           /\ DistinctMinutes => \A c \in Check : d \in passed[c]

(* ListedStays: while minutes are distinct and a catalog lists the same    *)
(* image, its tag names the same digest.                                   *)
ListedStays ==
    [][DistinctMinutes' =>
         \A i \in Image, m \in 1..MaxMinute :
           Lists(i, m) => prodTag'[i][m] = prodTag[i][m]]_publication

(* DispatchBrings: what a dispatched run publishes lists, for each image   *)
(* that the green run on main has built, that image or a newer one; so no  *)
(* dispatch comes too early to find it (bake.yml, Catalogs needs Bake).    *)
DispatchBrings ==
    [][\A s \in Slot, i \in Image :
         /\ Catalogs!Publish(s) /\ dispatched[s] # 0
         /\ i \in Base[base[s]] /\ Source[commit[s]][i][Extension] = ThisVersion
         => file'[i].image[Extension] >= dispatched[s]]_publication

(* PublishedFresh: whatever a run publishes, of any extension, it lists no *)
(* image that is older than one that was in production when it started,    *)
(* even if it waited and others published in between.                      *)
PublishedFresh ==
    [][\A s \in Slot, i \in Image, e \in Ext, m \in 1..MaxMinute :
         /\ Catalogs!Publish(s) /\ i \in Base[base[s]]
         /\ TagOf(i, e, Source[commit[s]][i][e], m) \in before[s]
         => file'[i].image[e] >= m]_publication

(* OneRunSuffices: if main, upstream and production are as they were when  *)
(* a run of main started, its push brings all catalogs up to date: no      *)
(* earlier failure or older publication needs anything more.               *)
OneRunSuffices ==
    [][\A s \in Slot :
         /\ Catalogs!Publish(s) /\ commit[s] = head /\ base[s] = upstream
         /\ before[s] = others \cup Copied
         => (Catalogs!UpToDate)']_publication
-----------------------------------------------------------------------------
(* The inductive invariant behind them. *)

(* The tags of other pipelines are of another version or extension. *)
OthersApart == \A i \in Image, m \in Minute :
                 TagOf(i, Extension, ThisVersion, m) \notin others

(* A bake does not start in a minute to come. *)
StampsPast == \A r \in Run, k \in Attempt : stamp[r][k] <= clock

(* What a run of the pipeline has copied has its tag, even if minutes      *)
(* collide.                                                                *)
CopiesThere == \A r \in Run, i \in Image, m \in Minute :
                 <<i, m>> \in copied[r] => prodTag[i][m] # NoDigest

(* A run on main builds what some commit of main maintains. *)
MainMaintains ==
    \A r \in Run : ref[r] = "main" =>
      \A i \in Image : \E k \in 0..head : Source[k][i][Extension] = ThisVersion

(* A run has before it what was in production when it started, that of the *)
(* run that dispatched it included; so what it has looked up is not older. *)
StartedAfter ==
    \A s \in Slot :
      /\ before[s] \subseteq others \cup Copied
      /\ dispatched[s] # 0 =>
           \A i \in Image : TagOf(i, Extension, ThisVersion, dispatched[s]) \in before[s]

FoundFresh ==
    \A s \in Slot, i \in Image, e \in Ext, m \in Minute :
      /\ found[s][i][e] # 0
      /\ TagOf(i, e, Source[commit[s]][i][e], m) \in before[s]
      => found[s][i][e] >= m

(* PublicationInv: the invariants of the two components and the facts      *)
(* above; every step preserves it.                                         *)
PublicationInv ==
    /\ PipelineInv /\ Catalogs!CatalogInv
    /\ dispatched \in [Slot -> 0..MaxMinute]
    /\ before = [s \in Slot |-> before[s]]
    /\ OthersApart /\ StampsPast /\ CopiesThere /\ MainMaintains
    /\ StartedAfter /\ FoundFresh
=============================================================================
