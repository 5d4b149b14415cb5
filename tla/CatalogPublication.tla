------------------------- MODULE CatalogPublication -------------------------
(***************************************************************************)
(* The publication of the image catalogs: the job of                       *)
(* .github/workflows/update-catalogs.yml and GenerateCatalogs of the       *)
(* Dagger module (dagger/maintenance/main.go, catalogs.go, image.go).  A   *)
(* run takes the extensions of its own commit and a copy of the upstream   *)
(* catalogs, looks up the newest production image of each extension, one   *)
(* registry call after the other, and pushes the result to the artifacts   *)
(* repository.  No concurrency group keeps two runs apart: what does is    *)
(* that git refuses a push on top of a commit it has not seen.             *)
(*                                                                         *)
(* A catalog stands for one file, of one distribution; an extension for    *)
(* its package on one PostgreSQL major.  The histories of main and of the  *)
(* upstream repository are parameters.                                     *)
(***************************************************************************)
EXTENDS Naturals

CONSTANTS Catalog,     \* the minimal catalogs of supported distributions
          Ext,         \* the extensions
          Version,     \* their versions
          NoVersion,   \* for an extension a catalog's distribution lacks
          MaxCommit,   \* the last commit of main
          Source,      \* Source[k][c][e]: metadata.versions of commit k
          MaxUpstream, \* the last revision of the upstream catalogs
          Base,        \* Base[u]: the catalogs upstream has in revision u
          MaxMinute,   \* how many minutes pass
          Slot         \* the runs that are under way at one time

(* An unmerged branch has the number after the last commit of main. *)
BranchHead == MaxCommit + 1
Commit == 0..BranchHead
Minute == 1..MaxMinute

ASSUME BoundAssumption == /\ MaxCommit \in Nat /\ MaxUpstream \in Nat
                          /\ MaxMinute \in Nat \ {0}
ASSUME SourceAssumption ==
    Source \in [Commit -> [Catalog -> [Ext -> Version \cup {NoVersion}]]]
ASSUME BaseAssumption == Base \in [0..MaxUpstream -> SUBSET Catalog]
ASSUME VersionAssumption == NoVersion \notin Version

(* The tags of production images that carry a timestamp; what such a tag   *)
(* names never changes (ProductionContract), so it stands for the digest.  *)
Tag == [catalog : Catalog, ext : Ext, version : Version, minute : Minute]

(* A published file: what it was generated from, and the minute of the     *)
(* image it lists for each extension, 0 for one it does not list.          *)
File == [commit : 0..MaxCommit, base : 0..MaxUpstream,
         image : [Ext -> 0..MaxMinute]]
NoFile == [commit |-> BranchHead, base |-> 0, image |-> [e \in Ext |-> 0]]
NothingFound == [c \in Catalog |-> [e \in Ext |-> 0]]

VARIABLES
    head,       \* the commit main is at
    upstream,   \* the revision the upstream catalogs are at
    clock,      \* the minute it is
    production, \* the timestamped tags of the production repositories
    file,       \* file[c]: catalog c in the artifacts repository
    phase,      \* phase[s]: where the run in slot s stands
    commit,     \* commit[s]: the commit of the run, GITHUB_SHA
    base,       \* base[s]: the upstream revision it has checked out
    found,      \* found[s][c][e]: the image it has looked up, 0 before
    stale       \* stale[s]: artifacts has moved since it was checked out

world == <<head, upstream, clock, production>>
runs == <<phase, commit, base, found, stale>>
vars == <<world, file, runs>>

Phase == {"free", "queued", "upstream", "generating"}

(* What a run has to look up: the pairs of its commit's build matrix that  *)
(* its upstream copy has a catalog for.                                    *)
Wanted(s, c, e) == Source[commit[s]][c][e]
Due(s) == {i \in Base[base[s]] \X Ext : Wanted(s, i[1], i[2]) # NoVersion}

(* The images of a version there are. *)
Minutes(c, e, v) ==
    {m \in Minute : [catalog |-> c, ext |-> e, version |-> v, minute |-> m] \in production}

-----------------------------------------------------------------------------
Init == /\ head = 0
        /\ upstream = 0
        /\ clock = 1
        /\ production = {}
        /\ file = [c \in Catalog |-> NoFile]
        /\ phase = [s \in Slot |-> "free"]
        /\ commit = [s \in Slot |-> 0]
        /\ base = [s \in Slot |-> 0]
        /\ found = [s \in Slot |-> NothingFound]
        /\ stale = [s \in Slot |-> FALSE]

(* The world around the workflow. *)
Merge == /\ head < MaxCommit
         /\ head' = head + 1
         /\ UNCHANGED <<upstream, clock, production, file, runs>>

UpstreamCommit == /\ upstream < MaxUpstream
                  /\ upstream' = upstream + 1
                  /\ UNCHANGED <<head, clock, production, file, runs>>

Tick == /\ clock < MaxMinute
        /\ clock' = clock + 1
        /\ UNCHANGED <<head, upstream, production, file, runs>>

(* A run of the build pipeline copies an image of some commit of main to   *)
(* production; its bake started in this minute or in an earlier one.       *)
ProductionCopy(c, e) ==
    /\ \E k \in 0..head, m \in 1..clock :
         /\ Source[k][c][e] # NoVersion
         /\ production' = production \cup
              {[catalog |-> c, ext |-> e, version |-> Source[k][c][e], minute |-> m]}
    /\ UNCHANGED <<head, upstream, clock, file, runs>>

-----------------------------------------------------------------------------
(* The run in slot s. *)
Begin(s, k) ==
    /\ phase[s] = "free"
    /\ phase' = [phase EXCEPT ![s] = "queued"]
    /\ commit' = [commit EXCEPT ![s] = k]
    /\ UNCHANGED <<world, file, base, found, stale>>

(* The weekly schedule, the dispatch by the build pipeline and a manual    *)
(* dispatch on main take the commit main is at.                            *)
Trigger(s) == Begin(s, head)

(* A manual dispatch on a branch, or an earlier run that is run again with *)
(* the commit it had.                                                      *)
ManualRun(s) == \E k \in 0..head \cup {BranchHead} : Begin(s, k)

CheckoutUpstream(s) ==
    /\ phase[s] = "queued"
    /\ phase' = [phase EXCEPT ![s] = "upstream"]
    /\ base' = [base EXCEPT ![s] = upstream]
    /\ UNCHANGED <<world, file, commit, found, stale>>

(* The artifacts are checked out after that and before any lookup. *)
CheckoutArtifacts(s) ==
    /\ phase[s] = "upstream"
    /\ phase' = [phase EXCEPT ![s] = "generating"]
    /\ UNCHANGED <<world, file, commit, base, found, stale>>

(* GenerateCatalogs refuses to go on with no catalog or no extension. *)
CanGenerate(s) == /\ Base[base[s]] # {}
                  /\ \E c \in Catalog, e \in Ext : Wanted(s, c, e) # NoVersion

(* A fault for the checks to find: any tag of the version will do. *)
LookupAny(s, c, e) ==
    /\ phase[s] = "generating" /\ <<c, e>> \in Due(s) /\ found[s][c][e] = 0
    /\ \E m \in Minutes(c, e, Wanted(s, c, e)) :
         found' = [found EXCEPT ![s][c][e] = m]
    /\ UNCHANGED <<world, file, phase, commit, base, stale>>

(* getExtensionImageWithTimestamp: the newest tag of the version. *)
Lookup(s, c, e) ==
    /\ phase[s] = "generating" /\ <<c, e>> \in Due(s) /\ found[s][c][e] = 0
    /\ \E m \in Minutes(c, e, Wanted(s, c, e)) :
         /\ \A n \in Minutes(c, e, Wanted(s, c, e)) : n <= m
         /\ found' = [found EXCEPT ![s][c][e] = m]
    /\ UNCHANGED <<world, file, phase, commit, base, stale>>

(* The slot is free again. *)
Leave(s) ==
    /\ phase' = [phase EXCEPT ![s] = "free"]
    /\ commit' = [commit EXCEPT ![s] = 0]
    /\ base' = [base EXCEPT ![s] = 0]
    /\ found' = [found EXCEPT ![s] = NothingFound]

(* A run that ends without a push: its slot is free again. *)
End(s) == /\ Leave(s)
          /\ stale' = [stale EXCEPT ![s] = FALSE]
          /\ UNCHANGED <<world, file>>

(* One extension without an image fails the whole generation. *)
MissingImage(s) ==
    /\ phase[s] = "generating"
    /\ \E i \in Due(s) : /\ found[s][i[1]][i[2]] = 0
                         /\ Minutes(i[1], i[2], Wanted(s, i[1], i[2])) = {}
    /\ End(s)

NothingToGenerate(s) == phase[s] = "generating" /\ ~CanGenerate(s) /\ End(s)

(* A fault: an extension without an image is left out. *)
GeneratedWithGaps(s) ==
    /\ phase[s] = "generating" /\ CanGenerate(s)
    /\ \A i \in Due(s) : \/ found[s][i[1]][i[2]] # 0
                         \/ Minutes(i[1], i[2], Wanted(s, i[1], i[2])) = {}

Generated(s) == /\ phase[s] = "generating" /\ CanGenerate(s)
                /\ \A i \in Due(s) : found[s][i[1]][i[2]] # 0

(* A fault: a file is written for every catalog the project knows. *)
ExportAll(s) ==
    [c \in Catalog |-> [commit |-> commit[s], base |-> base[s], image |-> found[s][c]]]

(* A fault: the files of catalogs that upstream has dropped are removed. *)
ExportOnly(s) ==
    [c \in Catalog |->
       IF c \in Base[base[s]]
       THEN [commit |-> commit[s], base |-> base[s], image |-> found[s][c]]
       ELSE NoFile]

(* The files of the catalogs in the run's upstream copy; the artifacts     *)
(* repository keeps any other file it has.                                 *)
Export(s) ==
    [c \in Catalog |->
       IF c \in Base[base[s]]
       THEN [commit |-> commit[s], base |-> base[s], image |-> found[s][c]]
       ELSE file[c]]

(* A fault: the push is rebased on what moved. *)
PublishRebased(s) ==
    /\ Generated(s) /\ commit[s] # BranchHead
    /\ file' = Export(s)
    /\ Leave(s)
    /\ stale' = [q \in Slot |-> q # s /\ phase[q] = "generating"]
    /\ UNCHANGED world

OnMain(s) == commit[s] # BranchHead

(* Commit and push on main.  There is always something to commit: each run *)
(* makes new signatures.  The runs that have artifacts checked out by now  *)
(* are out of date.                                                        *)
Publish(s) ==
    /\ Generated(s) /\ OnMain(s) /\ ~stale[s]
    /\ file' = Export(s)
    /\ Leave(s)
    /\ stale' = [q \in Slot |-> q # s /\ phase[q] = "generating"]
    /\ UNCHANGED world

(* The push is refused when artifacts has moved; on a branch there is none.*)
EndUnpublished(s) == Generated(s) /\ (OnMain(s) => stale[s]) /\ End(s)

(* A run may fail at any point before its push has succeeded. *)
Fail(s) == phase[s] # "free" /\ End(s)

Step(s) == \/ CheckoutUpstream(s) \/ CheckoutArtifacts(s) \/ NothingToGenerate(s)
           \/ \E c \in Catalog, e \in Ext : Lookup(s, c, e)
           \/ MissingImage(s) \/ Publish(s) \/ EndUnpublished(s)

Next == \/ Merge \/ UpstreamCommit \/ Tick
        \/ \E c \in Catalog, e \in Ext : ProductionCopy(c, e)
        \/ \E s \in Slot : Trigger(s) \/ ManualRun(s) \/ Step(s) \/ Fail(s)

Spec == Init /\ [][Next]_vars

(* The schedule triggers a run again and again, no run stays where it is,  *)
(* and a step that runs come to again and again does not fail every time.  *)
(* Nothing is asked of merges, copies, manual runs and failures.           *)
FairSpec ==
    /\ Spec
    /\ WF_vars(\E s \in Slot : Trigger(s))
    /\ \A s \in Slot :
         /\ WF_vars(Step(s))
         /\ SF_vars(CheckoutUpstream(s)) /\ SF_vars(CheckoutArtifacts(s))
         /\ \A c \in Catalog, e \in Ext : SF_vars(Lookup(s, c, e))
         /\ SF_vars(Publish(s))
-----------------------------------------------------------------------------
(* TypeOK: every variable has its type. *)
TypeOK == /\ head \in 0..MaxCommit
          /\ upstream \in 0..MaxUpstream
          /\ clock \in Minute
          /\ production \subseteq Tag
          /\ file \in [Catalog -> File \cup {NoFile}]
          /\ phase \in [Slot -> Phase]
          /\ commit \in [Slot -> Commit]
          /\ base \in [Slot -> 0..MaxUpstream]
          /\ found \in [Slot -> [Catalog -> [Ext -> 0..MaxMinute]]]
          /\ stale \in [Slot -> BOOLEAN]

Listed(c, e) == file[c].image[e]

(* CompleteOrUntouched: a published catalog lists exactly the extensions   *)
(* that its commit of main maintains for it, each at that commit's version *)
(* and with an image that is in production; a generation that lacked one   *)
(* of them, or an unmerged branch, left no trace (main.go:523-526 and the  *)
(* condition of the push).                                                 *)
CompleteOrUntouched ==
    \A c \in Catalog : file[c] # NoFile =>
      /\ file[c].commit <= head
      /\ c \in Base[file[c].base]
      /\ \A e \in Ext :
           LET v == Source[file[c].commit][c][e] IN
             IF v = NoVersion THEN Listed(c, e) = 0
             ELSE Listed(c, e) \in Minutes(c, e, v)

(* NeverOlderImage: as long as the version of an extension in a catalog    *)
(* stays what it is, no run replaces its image by an older one, whichever  *)
(* runs overlap, are run again or have waited: a run's lookups come after  *)
(* its checkout of the artifacts, and its push is refused if the artifacts *)
(* have moved since.                                                       *)
NeverOlderImage ==
    [][\A c \in Catalog, e \in Ext :
         /\ file[c] # NoFile
         /\ Source[file'[c].commit][c][e] = Source[file[c].commit][c][e]
         => file'[c].image[e] >= Listed(c, e)]_vars

(* UpToDate: the artifacts hold what a run would generate now. *)
UpToDate ==
    \A c \in Base[upstream] :
      /\ file[c].commit = head /\ file[c].base = upstream
      /\ \A e \in Ext : \A m \in Minutes(c, e, Source[head][c][e]) : m <= Listed(c, e)

(* Main has extensions, and each of them has an image. *)
Published ==
    /\ \E c \in Catalog, e \in Ext : Source[head][c][e] # NoVersion
    /\ \A c \in Base[upstream], e \in Ext :
         Source[head][c][e] # NoVersion => Minutes(c, e, Source[head][c][e]) # {}

OnlyCurrent == \A s \in Slot : phase[s] # "free" => commit[s] = head

(* CatalogCatchesUp: once every extension that main maintains has an image *)
(* in production and no run of another commit is left, the catalogs come   *)
(* to list the newest images and keep doing so, although runs fail, hold   *)
(* each other up and had published older ones (the weekly schedule).       *)
CatalogCatchesUp ==
    <>[](Published /\ OnlyCurrent) => <>[]UpToDate

(* What a run has not looked up yet. *)
Missing(s) == {i \in Due(s) : found[s][i[1]][i[2]] = 0}

(* RunsGoOn: a run that is under way can always go on by itself: if an     *)
(* extension is still missing, either there is no image of it or there is  *)
(* a newest one to take, and what has all of them ends with or without a   *)
(* push; no run waits for another one.                                     *)
RunsGoOn ==
    \A s \in Slot : phase[s] = "generating" =>
      \/ ~CanGenerate(s)
      \/ \E i \in Missing(s) :
           LET images == Minutes(i[1], i[2], Wanted(s, i[1], i[2]))
           IN  images = {} \/ \E m \in images : \A n \in images : n <= m
      \/ Generated(s)

(* RunsAdvance: whatever happens, a run is left as it is, or ends, or      *)
(* comes nearer to its end: its checkouts come once, and what it still has *)
(* to look up only gets less, even if main, upstream or production move.   *)
RunsAdvance ==
    [][\A s \in Slot : phase[s] # "free" =>
         \/ UNCHANGED <<phase[s], commit[s], base[s], found[s]>>
         \/ phase'[s] = "free"
         \/ <<phase[s], phase'[s]>> \in {<<"queued", "upstream">>, <<"upstream", "generating">>}
         \/ /\ phase[s] = "generating" /\ phase'[s] = "generating"
            /\ Missing(s)' \subseteq Missing(s) /\ Missing(s)' # Missing(s)]_vars
-----------------------------------------------------------------------------
(* The inductive invariant behind the safety properties. *)

(* A run has a commit and a revision that exist; it has looked nothing up  *)
(* before it has the artifacts checked out, and they cannot be out of date *)
(* before.                                                                 *)
RunsKnown ==
    \A s \in Slot :
      /\ commit[s] \in 0..head \cup {BranchHead} /\ base[s] <= upstream
      /\ phase[s] # "generating" => found[s] = NothingFound /\ ~stale[s]

(* What a run has looked up is due and in production. *)
FoundThere ==
    \A s \in Slot, c \in Catalog, e \in Ext : found[s][c][e] # 0 =>
      /\ <<c, e>> \in Due(s)
      /\ found[s][c][e] \in Minutes(c, e, Wanted(s, c, e))

(* What a run may still push is not older than what is published. *)
FoundNewer ==
    \A s \in Slot, c \in Catalog, e \in Ext :
      /\ found[s][c][e] # 0 /\ ~stale[s] /\ file[c] # NoFile
      /\ Source[file[c].commit][c][e] = Wanted(s, c, e)
      => found[s][c][e] >= Listed(c, e)

(* CatalogInv: TypeOK, the facts above and CompleteOrUntouched; every step *)
(* preserves it.                                                           *)
CatalogInv == /\ TypeOK /\ RunsKnown /\ FoundThere /\ FoundNewer
              /\ CompleteOrUntouched

-----------------------------------------------------------------------------
Contract == INSTANCE CatalogContract

(* ContractKept: the workflow implements the contract of the artifacts     *)
(* repository.  The checkouts, lookups and pushes of the runs under way,   *)
(* between which main, upstream, production and the artifacts move,        *)
(* amount to one run after the other that generates all files at once.     *)
ContractKept == Contract!Spec
=============================================================================
