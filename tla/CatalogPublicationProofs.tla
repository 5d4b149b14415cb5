---------------------- MODULE CatalogPublicationProofs ----------------------
(***************************************************************************)
(* Machine-checked proofs about CatalogPublication, for every history of   *)
(* main and of the upstream catalogs, every set of catalogs, extensions    *)
(* and versions, and every number of runs that are under way at one time.  *)
(***************************************************************************)
EXTENDS CatalogPublication, GreatestNumber, TLAPS

(* What a step can be; every run that ends without a push ends alike. *)
LEMMA StepCases ==
  ASSUME [Next]_vars,
         NEW P,
         UNCHANGED vars => P,
         Merge => P, UpstreamCommit => P, Tick => P,
         \A c \in Catalog, e \in Ext : ProductionCopy(c, e) => P,
         \A s \in Slot, k \in 0..head \cup {BranchHead} : Begin(s, k) => P,
         \A s \in Slot : CheckoutUpstream(s) => P,
         \A s \in Slot : CheckoutArtifacts(s) => P,
         \A s \in Slot, c \in Catalog, e \in Ext : Lookup(s, c, e) => P,
         \A s \in Slot : Publish(s) => P,
         \A s \in Slot : End(s) => P,
         head \in Nat
  PROVE  P
<1>1. ASSUME NEW s \in Slot, Trigger(s) PROVE P
  <2>1. head \in 0..head
    OBVIOUS
  <2>2. QED BY <1>1, <2>1 DEF Trigger
<1>2. ASSUME NEW s \in Slot, ManualRun(s) PROVE P
  BY <1>2 DEF ManualRun
<1>3. ASSUME NEW s \in Slot, Step(s) PROVE P
  BY <1>3 DEF Step, NothingToGenerate, MissingImage, EndUnpublished
<1>4. ASSUME NEW s \in Slot, Fail(s) PROVE P
  BY <1>4 DEF Fail
<1>5. QED BY <1>1, <1>2, <1>3, <1>4 DEF Next

(* The build matrix of a commit gives each pair a version or none. *)
LEMMA SourceType ==
  ASSUME NEW k \in Commit, NEW c \in Catalog, NEW e \in Ext
  PROVE  Source[k][c][e] \in Version \cup {NoVersion}
BY SourceAssumption

(* The commits of main and the branch's are commits. *)
LEMMA BoundsAreCommits == 0..MaxCommit \subseteq Commit /\ BranchHead \in Commit
BY BoundAssumption DEF Commit, BranchHead

-----------------------------------------------------------------------------
(* Type correctness. *)

(* A slot that is left has the values of one that was never used. *)
LEMMA LeaveType ==
  ASSUME TypeOK, NEW s \in Slot, Leave(s)
  PROVE  /\ phase' \in [Slot -> Phase]
         /\ commit' \in [Slot -> Commit]
         /\ base' \in [Slot -> 0..MaxUpstream]
         /\ found' \in [Slot -> [Catalog -> [Ext -> 0..MaxMinute]]]
<1>1. 0 \in Commit /\ 0 \in 0..MaxUpstream /\ "free" \in Phase
  BY BoundAssumption DEF Commit, BranchHead, Phase
<1>2. NothingFound \in [Catalog -> [Ext -> 0..MaxMinute]]
  BY BoundAssumption DEF NothingFound
<1>3. QED BY <1>1, <1>2 DEF Leave, TypeOK

(* The files a run on main exports are files of the artifacts repository.  *)
LEMMA ExportType ==
  ASSUME TypeOK, NEW s \in Slot, OnMain(s)
  PROVE  Export(s) \in [Catalog -> File \cup {NoFile}]
<1>1. commit[s] \in 0..MaxCommit
  BY BoundAssumption DEF TypeOK, OnMain, Commit, BranchHead
<1>2. QED BY <1>1 DEF Export, TypeOK, File

(* The variables have their types to begin with. *)
LEMMA TypeInit == Init => TypeOK
<1> SUFFICES ASSUME Init PROVE TypeOK
  OBVIOUS
<1>1. /\ 0 \in 0..MaxCommit /\ 0 \in 0..MaxUpstream /\ 0 \in Commit
      /\ 1 \in Minute /\ 0 \in 0..MaxMinute
  BY BoundAssumption DEF Commit, BranchHead, Minute
<1>2. QED BY <1>1 DEF Init, TypeOK, Phase, NothingFound

(* Every step keeps the types. *)
LEMMA TypeStep == TypeOK /\ [Next]_vars => TypeOK'
<1> SUFFICES ASSUME TypeOK, [Next]_vars PROVE TypeOK'
  OBVIOUS
<1>1. UNCHANGED vars => TypeOK'
  BY DEF vars, world, runs, TypeOK
<1>2. Merge => TypeOK'
  BY BoundAssumption DEF Merge, runs, TypeOK
<1>3. UpstreamCommit => TypeOK'
  BY BoundAssumption DEF UpstreamCommit, runs, TypeOK
<1>4. Tick => TypeOK'
  BY BoundAssumption DEF Tick, runs, TypeOK, Minute
<1>5. ASSUME NEW c \in Catalog, NEW e \in Ext, ProductionCopy(c, e) PROVE TypeOK'
  <2>1. PICK k \in 0..head, m \in 1..clock :
          /\ Source[k][c][e] # NoVersion
          /\ production' = production \cup
               {[catalog |-> c, ext |-> e, version |-> Source[k][c][e], minute |-> m]}
    BY <1>5 DEF ProductionCopy
  <2>2. k \in Commit /\ m \in Minute
    BY BoundAssumption DEF TypeOK, Commit, BranchHead, Minute
  <2>3. [catalog |-> c, ext |-> e, version |-> Source[k][c][e], minute |-> m] \in Tag
    BY <2>1, <2>2, SourceType DEF Tag
  <2>4. QED BY <1>5, <2>1, <2>3 DEF ProductionCopy, runs, TypeOK
<1>6. ASSUME NEW s \in Slot, NEW k \in 0..head \cup {BranchHead}, Begin(s, k)
      PROVE  TypeOK'
  <2>1. k \in Commit
    BY BoundsAreCommits, BoundAssumption DEF TypeOK
  <2>2. QED BY <1>6, <2>1 DEF Begin, world, TypeOK, Phase
<1>7. ASSUME NEW s \in Slot, CheckoutUpstream(s) PROVE TypeOK'
  BY <1>7 DEF CheckoutUpstream, world, TypeOK, Phase
<1>8. ASSUME NEW s \in Slot, CheckoutArtifacts(s) PROVE TypeOK'
  BY <1>8 DEF CheckoutArtifacts, world, TypeOK, Phase
<1>9. ASSUME NEW s \in Slot, NEW c \in Catalog, NEW e \in Ext, Lookup(s, c, e)
      PROVE  TypeOK'
  <2>1. PICK m \in Minute : found' = [found EXCEPT ![s][c][e] = m]
    BY <1>9 DEF Lookup, Minutes
  <2>2. m \in 0..MaxMinute
    BY BoundAssumption DEF Minute
  <2>3. QED BY <1>9, <2>1, <2>2 DEF Lookup, world, TypeOK
<1>10. ASSUME NEW s \in Slot, Publish(s) PROVE TypeOK'
  <2>1. Export(s) \in [Catalog -> File \cup {NoFile}]
    BY <1>10, ExportType DEF Publish
  <2>2. QED BY <1>10, <2>1, LeaveType DEF Publish, world, TypeOK
<1>11. ASSUME NEW s \in Slot, End(s) PROVE TypeOK'
  BY <1>11, LeaveType DEF End, world, TypeOK
<1>12. head \in Nat
  BY BoundAssumption DEF TypeOK
<1>13. QED
  BY <1>1, <1>2, <1>3, <1>4, <1>5, <1>6, <1>7, <1>8, <1>9, <1>10, <1>11, <1>12,
     StepCases

-----------------------------------------------------------------------------
(* The parts of the invariant. *)

(* Images are only ever added, and main and upstream only move on. *)
LEMMA WorldGrows ==
  ASSUME TypeOK, [Next]_vars
  PROVE  /\ head' \in Nat /\ head <= head'
         /\ upstream' \in Nat /\ upstream <= upstream'
         /\ production \subseteq production'
<1>1. head \in Nat /\ upstream \in Nat
  BY BoundAssumption DEF TypeOK
<1> DEFINE G == /\ head' \in Nat /\ head <= head'
                /\ upstream' \in Nat /\ upstream <= upstream'
                /\ production \subseteq production'
<1>2. UNCHANGED vars => G
  BY <1>1 DEF vars, world
<1>3. Merge => G
  BY <1>1 DEF Merge
<1>4. UpstreamCommit \/ Tick => G
  BY <1>1 DEF UpstreamCommit, Tick
<1>5. \A c \in Catalog, e \in Ext : ProductionCopy(c, e) => G
  BY <1>1 DEF ProductionCopy
<1>6. \A s \in Slot, k \in 0..head \cup {BranchHead} : Begin(s, k) => G
  BY <1>1 DEF Begin, world
<1>7. \A s \in Slot : CheckoutUpstream(s) \/ CheckoutArtifacts(s) => G
  BY <1>1 DEF CheckoutUpstream, CheckoutArtifacts, world
<1>8. \A s \in Slot, c \in Catalog, e \in Ext : Lookup(s, c, e) => G
  BY <1>1 DEF Lookup, world
<1>9. \A s \in Slot : Publish(s) \/ End(s) => G
  BY <1>1 DEF Publish, End, world
<1> HIDE DEF G
<1>10. G
  BY <1>1, <1>2, <1>3, <1>4, <1>5, <1>6, <1>7, <1>8, <1>9, StepCases
<1>11. QED BY <1>10 DEF G

(* An image that is found stays. *)
LEMMA MinutesGrow ==
  ASSUME production \subseteq production', NEW c, NEW e, NEW v
  PROVE  Minutes(c, e, v) \subseteq Minutes(c, e, v)'
BY DEF Minutes

(* What a step does to a run: nothing, or one of its own actions; another  *)
(* run can only make it stale, by a push.                                  *)
LEMMA RunSteps ==
  ASSUME TypeOK, [Next]_vars, NEW s \in Slot
  PROVE  \/ /\ phase'[s] = phase[s] /\ commit'[s] = commit[s] /\ base'[s] = base[s]
            /\ found'[s] = found[s]
            /\ \/ stale'[s] = stale[s] /\ file' = file
               \/ \E q \in Slot : Publish(q) /\ q # s
         \/ \E k \in 0..head \cup {BranchHead} : Begin(s, k)
         \/ CheckoutUpstream(s)
         \/ CheckoutArtifacts(s)
         \/ \E c \in Catalog, e \in Ext : Lookup(s, c, e)
         \/ Publish(s)
         \/ End(s)
<1> DEFINE Idle == /\ phase'[s] = phase[s] /\ commit'[s] = commit[s]
                   /\ base'[s] = base[s] /\ found'[s] = found[s]
           Same == stale'[s] = stale[s] /\ file' = file
           G == \/ Idle /\ (Same \/ \E q \in Slot : Publish(q) /\ q # s)
                \/ \E k \in 0..head \cup {BranchHead} : Begin(s, k)
                \/ CheckoutUpstream(s)
                \/ CheckoutArtifacts(s)
                \/ \E c \in Catalog, e \in Ext : Lookup(s, c, e)
                \/ Publish(s)
                \/ End(s)
<1>1. head \in Nat
  BY BoundAssumption DEF TypeOK
<1>2. UNCHANGED <<file, runs>> => Idle /\ Same
  BY DEF runs
<1>3. UNCHANGED vars => G
  BY <1>2 DEF vars
<1>4. Merge \/ UpstreamCommit \/ Tick => G
  BY <1>2 DEF Merge, UpstreamCommit, Tick
<1>5. \A c \in Catalog, e \in Ext : ProductionCopy(c, e) => G
  BY <1>2 DEF ProductionCopy
<1>6. ASSUME NEW q \in Slot, NEW k \in 0..head \cup {BranchHead}, Begin(q, k)
      PROVE  G
  <2>1. q # s => Idle /\ Same
    BY <1>6 DEF Begin, TypeOK
  <2>2. QED BY <1>6, <2>1
<1>7. ASSUME NEW q \in Slot, CheckoutUpstream(q) PROVE G
  <2>1. q # s => Idle /\ Same
    BY <1>7 DEF CheckoutUpstream, TypeOK
  <2>2. QED BY <1>7, <2>1
<1>8. ASSUME NEW q \in Slot, CheckoutArtifacts(q) PROVE G
  <2>1. q # s => Idle /\ Same
    BY <1>8 DEF CheckoutArtifacts, TypeOK
  <2>2. QED BY <1>8, <2>1
<1>9. ASSUME NEW q \in Slot, NEW c \in Catalog, NEW e \in Ext, Lookup(q, c, e)
      PROVE  G
  <2>1. q # s => Idle /\ Same
    BY <1>9 DEF Lookup, TypeOK
  <2>2. QED BY <1>9, <2>1
<1>10. ASSUME NEW q \in Slot, Publish(q) PROVE G
  <2>1. q # s => Idle
    BY <1>10 DEF Publish, Leave, TypeOK
  <2>2. QED BY <1>10, <2>1
<1>11. ASSUME NEW q \in Slot, End(q) PROVE G
  <2>1. q # s => Idle /\ Same
    BY <1>11 DEF End, Leave, TypeOK
  <2>2. QED BY <1>11, <2>1
<1> HIDE DEF G
<1>12. G
  BY <1>1, <1>3, <1>4, <1>5, <1>6, <1>7, <1>8, <1>9, <1>10, <1>11, StepCases
<1>13. QED BY <1>12 DEF G

(* A run keeps a commit that exists, and starts its lookups empty-handed.  *)
LEMMA RunsKnownStep ==
  ASSUME TypeOK, RunsKnown, [Next]_vars
  PROVE  RunsKnown'
<1> SUFFICES ASSUME NEW s \in Slot
             PROVE  /\ commit'[s] \in 0..head' \cup {BranchHead}
                    /\ base'[s] <= upstream'
                    /\ phase'[s] # "generating" =>
                         found'[s] = NothingFound /\ ~stale'[s]
  BY DEF RunsKnown, NothingFound
<1>1. /\ head \in Nat /\ head' \in Nat /\ head <= head'
      /\ upstream \in Nat /\ upstream' \in Nat /\ upstream <= upstream'
      /\ base[s] \in Nat
  BY WorldGrows, BoundAssumption DEF TypeOK
<1>2. 0..head \subseteq 0..head' /\ 0 \in 0..head' /\ 0 <= upstream'
  BY <1>1
<1>3. /\ commit[s] \in 0..head \cup {BranchHead} /\ base[s] <= upstream
      /\ phase[s] # "generating" => found[s] = NothingFound /\ ~stale[s]
  BY DEF RunsKnown
<1>4. base[s] <= upstream' /\ commit[s] \in 0..head' \cup {BranchHead}
  BY <1>1, <1>2, <1>3
<1>5. ASSUME phase'[s] = phase[s], commit'[s] = commit[s], base'[s] = base[s],
             found'[s] = found[s],
             \/ stale'[s] = stale[s]
             \/ \E q \in Slot : Publish(q) /\ q # s
      PROVE  /\ commit'[s] \in 0..head' \cup {BranchHead}
             /\ base'[s] <= upstream'
             /\ phase'[s] # "generating" =>
                  found'[s] = NothingFound /\ ~stale'[s]
  BY <1>3, <1>4, <1>5 DEF Publish
<1>6. ASSUME NEW k \in 0..head \cup {BranchHead}, Begin(s, k)
      PROVE  /\ commit'[s] \in 0..head' \cup {BranchHead}
             /\ base'[s] <= upstream'
             /\ found'[s] = NothingFound /\ ~stale'[s]
  BY <1>2, <1>3, <1>4, <1>6 DEF Begin, TypeOK
<1>7. ASSUME CheckoutUpstream(s)
      PROVE  /\ commit'[s] \in 0..head' \cup {BranchHead}
             /\ base'[s] <= upstream'
             /\ found'[s] = NothingFound /\ ~stale'[s]
  <2>1. base'[s] = upstream
    BY <1>7 DEF CheckoutUpstream, TypeOK
  <2>2. QED BY <1>1, <1>3, <1>4, <1>7, <2>1 DEF CheckoutUpstream
<1>8. ASSUME CheckoutArtifacts(s)
      PROVE  /\ commit'[s] \in 0..head' \cup {BranchHead}
             /\ base'[s] <= upstream'
             /\ found'[s] = NothingFound /\ ~stale'[s]
  BY <1>3, <1>4, <1>8 DEF CheckoutArtifacts, TypeOK
<1>9. ASSUME NEW c \in Catalog, NEW e \in Ext, Lookup(s, c, e)
      PROVE  /\ commit'[s] \in 0..head' \cup {BranchHead}
             /\ base'[s] <= upstream'
             /\ phase'[s] = "generating"
  BY <1>4, <1>9 DEF Lookup, TypeOK
<1>10. ASSUME Publish(s) \/ End(s)
      PROVE  /\ commit'[s] \in 0..head' \cup {BranchHead}
             /\ base'[s] <= upstream'
             /\ found'[s] = NothingFound /\ ~stale'[s]
  BY <1>2, <1>10 DEF Publish, End, Leave, TypeOK
<1>11. QED BY <1>5, <1>6, <1>7, <1>8, <1>9, <1>10, RunSteps
-----------------------------------------------------------------------------

(* What is found was there when it was looked up, and images stay. *)
LEMMA FoundThereStep ==
  ASSUME TypeOK, RunsKnown, FoundThere, [Next]_vars
  PROVE  FoundThere'
<1> SUFFICES ASSUME NEW s \in Slot, NEW c \in Catalog, NEW e \in Ext,
                    found'[s][c][e] # 0
             PROVE  /\ (<<c, e>> \in Due(s))'
                    /\ found'[s][c][e] \in Minutes(c, e, Wanted(s, c, e))'
  BY DEF FoundThere
<1>1. production \subseteq production'
  BY WorldGrows
<1>2. ASSUME commit'[s] = commit[s], base'[s] = base[s], found'[s][c][e] = found[s][c][e]
      PROVE  /\ (<<c, e>> \in Due(s))'
             /\ found'[s][c][e] \in Minutes(c, e, Wanted(s, c, e))'
  <2>1. <<c, e>> \in Due(s) /\ found[s][c][e] \in Minutes(c, e, Wanted(s, c, e))
    BY <1>2 DEF FoundThere
  <2>2. Wanted(s, c, e)' = Wanted(s, c, e) /\ Due(s)' = Due(s)
    BY <1>2 DEF Wanted, Due
  <2>3. QED BY <1>1, <1>2, <2>1, <2>2 DEF Minutes
<1>3. ASSUME phase[s] # "generating", found'[s] = found[s] PROVE FALSE
  BY <1>3 DEF RunsKnown, NothingFound
<1>4. ASSUME NEW k \in 0..head \cup {BranchHead}, Begin(s, k) PROVE FALSE
  BY <1>3, <1>4 DEF Begin
<1>5. ASSUME CheckoutUpstream(s) \/ CheckoutArtifacts(s) PROVE FALSE
  BY <1>3, <1>5 DEF CheckoutUpstream, CheckoutArtifacts
<1>6. ASSUME Publish(s) \/ End(s) PROVE FALSE
  BY <1>6 DEF Publish, End, Leave, NothingFound, TypeOK
<1>7. ASSUME NEW d \in Catalog, NEW f \in Ext, Lookup(s, d, f)
      PROVE  /\ (<<c, e>> \in Due(s))'
             /\ found'[s][c][e] \in Minutes(c, e, Wanted(s, c, e))'
  <2>1. PICK m \in Minutes(d, f, Wanted(s, d, f)) :
          found' = [found EXCEPT ![s][d][f] = m]
    BY <1>7 DEF Lookup
  <2>2. commit' = commit /\ base' = base /\ production' = production
    BY <1>7 DEF Lookup, world
  <2>3. Wanted(s, c, e)' = Wanted(s, c, e) /\ Due(s)' = Due(s)
    BY <2>2 DEF Wanted, Due
  <2>4. CASE d = c /\ f = e
    <3>1. found'[s][c][e] = m
      BY <2>1, <2>4 DEF TypeOK
    <3>2. <<c, e>> \in Due(s)
      BY <1>7, <2>4 DEF Lookup
    <3>3. m \in Minutes(c, e, Wanted(s, c, e))
      BY <2>4
    <3>4. QED BY <2>2, <2>3, <3>1, <3>2, <3>3 DEF Minutes
  <2>5. CASE ~(d = c /\ f = e)
    <3>1. found'[s][c][e] = found[s][c][e]
      BY <2>1, <2>5 DEF TypeOK
    <3>2. QED BY <1>2, <2>2, <3>1
  <2>6. QED BY <2>4, <2>5
<1>8. QED BY <1>2, <1>4, <1>5, <1>6, <1>7, RunSteps

(* What a file lists, with the version of the commit it came from, is in   *)
(* production; so the newest image there is no older.                      *)
LEMMA ListedThere ==
  ASSUME TypeOK, CompleteOrUntouched, NEW c \in Catalog, NEW e \in Ext,
         file[c] # NoFile, NEW v \in Version, Source[file[c].commit][c][e] = v
  PROVE  Listed(c, e) \in Minutes(c, e, v)
BY VersionAssumption DEF CompleteOrUntouched

(* A lookup takes the newest image there is, and a push leaves every other *)
(* run that could still push out of date.                                  *)
LEMMA FoundNewerStep ==
  ASSUME TypeOK, RunsKnown, FoundThere, FoundNewer, CompleteOrUntouched,
         [Next]_vars
  PROVE  FoundNewer'
<1> SUFFICES ASSUME NEW s \in Slot, NEW c \in Catalog, NEW e \in Ext,
                    found'[s][c][e] # 0, ~stale'[s], file'[c] # NoFile,
                    Source[file'[c].commit][c][e] = Wanted(s, c, e)'
             PROVE  found'[s][c][e] >= file'[c].image[e]
  BY DEF FoundNewer, Listed, NoFile
<1>1. ASSUME commit'[s] = commit[s], found'[s][c][e] = found[s][c][e],
             stale'[s] = stale[s], file' = file
      PROVE  found'[s][c][e] >= file'[c].image[e]
  BY <1>1 DEF FoundNewer, Wanted, Listed
<1>2. ASSUME phase[s] # "generating", found'[s] = found[s] PROVE FALSE
  BY <1>2 DEF RunsKnown, NothingFound
<1>3. ASSUME NEW q \in Slot, Publish(q), q # s, found'[s] = found[s] PROVE FALSE
  <2>1. phase[s] = "generating"
    BY <1>2, <1>3
  <2>2. QED BY <1>3, <2>1 DEF Publish
<1>4. ASSUME NEW k \in 0..head \cup {BranchHead}, Begin(s, k) PROVE FALSE
  BY <1>2, <1>4 DEF Begin
<1>5. ASSUME CheckoutUpstream(s) \/ CheckoutArtifacts(s) PROVE FALSE
  BY <1>2, <1>5 DEF CheckoutUpstream, CheckoutArtifacts
<1>6. ASSUME Publish(s) \/ End(s) PROVE FALSE
  BY <1>6 DEF Publish, End, Leave, NothingFound, TypeOK
<1>7. ASSUME NEW d \in Catalog, NEW f \in Ext, Lookup(s, d, f)
      PROVE  found'[s][c][e] >= file'[c].image[e]
  <2>1. PICK m \in Minutes(d, f, Wanted(s, d, f)) :
          /\ \A n \in Minutes(d, f, Wanted(s, d, f)) : n <= m
          /\ found' = [found EXCEPT ![s][d][f] = m]
    BY <1>7 DEF Lookup
  <2>2. commit' = commit /\ stale' = stale /\ file' = file
    BY <1>7 DEF Lookup
  <2>3. CASE d = c /\ f = e
    <3>1. found'[s][c][e] = m
      BY <2>1, <2>3 DEF TypeOK
    <3>2. Source[file[c].commit][c][e] = Wanted(s, c, e) /\ file[c] # NoFile
      BY <2>2 DEF Wanted
    <3>3. Wanted(s, c, e) \in Version
      BY <1>7, <2>3, SourceType DEF Lookup, Due, Wanted, TypeOK
    <3>4. Listed(c, e) \in Minutes(c, e, Wanted(s, c, e))
      BY <3>2, <3>3, ListedThere
    <3>5. Listed(c, e) <= m
      BY <2>1, <2>3, <3>4
    <3>6. m \in Minute /\ Listed(c, e) \in Minute
      BY <2>3, <3>4 DEF Minutes
    <3>7. QED BY <2>2, <3>1, <3>5, <3>6 DEF Minute, Listed
  <2>4. CASE ~(d = c /\ f = e)
    <3>1. found'[s][c][e] = found[s][c][e]
      BY <2>1, <2>4 DEF TypeOK
    <3>2. QED BY <1>1, <2>2, <3>1
  <2>5. QED BY <2>3, <2>4
<1>8. QED BY <1>1, <1>3, <1>4, <1>5, <1>6, <1>7, RunSteps

(* Only a push changes the files. *)
LEMMA FilesChange ==
  ASSUME TypeOK, [Next]_vars
  PROVE  file' = file \/ \E s \in Slot : Publish(s)
<1> DEFINE G == file' = file \/ \E s \in Slot : Publish(s)
<1>1. head \in Nat
  BY BoundAssumption DEF TypeOK
<1>2. UNCHANGED vars => G
  BY DEF vars
<1>3. Merge \/ UpstreamCommit \/ Tick => G
  BY DEF Merge, UpstreamCommit, Tick
<1>4. \A c \in Catalog, e \in Ext : ProductionCopy(c, e) => G
  BY DEF ProductionCopy
<1>5. \A s \in Slot, k \in 0..head \cup {BranchHead} : Begin(s, k) => G
  BY DEF Begin
<1>6. \A s \in Slot : CheckoutUpstream(s) \/ CheckoutArtifacts(s) => G
  BY DEF CheckoutUpstream, CheckoutArtifacts
<1>7. \A s \in Slot, c \in Catalog, e \in Ext : Lookup(s, c, e) => G
  BY DEF Lookup
<1>8. \A s \in Slot : Publish(s) => G
  OBVIOUS
<1>9. \A s \in Slot : End(s) => G
  BY DEF End
<1> HIDE DEF G
<1>10. G
  BY <1>1, <1>2, <1>3, <1>4, <1>5, <1>6, <1>7, <1>8, <1>9, StepCases
<1>11. QED BY <1>10 DEF G
-----------------------------------------------------------------------------

(* A push writes what the run has found, for everything that was due. *)
LEMMA CompleteStep ==
  ASSUME TypeOK, RunsKnown, FoundThere, CompleteOrUntouched, [Next]_vars
  PROVE  CompleteOrUntouched'
<1>1. production \subseteq production' /\ head <= head' /\ head \in Nat /\ head' \in Nat
  BY WorldGrows, BoundAssumption DEF TypeOK
<1> SUFFICES ASSUME NEW c \in Catalog, file'[c] # NoFile
             PROVE  (/\ file[c].commit <= head
                     /\ c \in Base[file[c].base]
                     /\ \A e \in Ext :
                          LET v == Source[file[c].commit][c][e] IN
                            IF v = NoVersion THEN file[c].image[e] = 0
                            ELSE file[c].image[e] \in Minutes(c, e, v))'
  BY DEF CompleteOrUntouched, Listed, NoFile
<1>2. CASE file'[c] = file[c]
  <2>1. /\ file[c].commit <= head /\ c \in Base[file[c].base]
        /\ \A e \in Ext :
             LET v == Source[file[c].commit][c][e] IN
               IF v = NoVersion THEN file[c].image[e] = 0
               ELSE file[c].image[e] \in Minutes(c, e, v)
    BY <1>2 DEF CompleteOrUntouched, Listed
  <2>2. file[c].commit \in Nat
    BY <1>2, BoundAssumption DEF TypeOK, File
  <2>3. file'[c].commit <= head'
    BY <1>1, <1>2, <2>1, <2>2
  <2>4. QED BY <1>1, <1>2, <2>1, <2>3, MinutesGrow
<1>3. CASE file'[c] # file[c]
  <2>1. PICK s \in Slot : Publish(s)
    BY <1>3, FilesChange
  <2>2. /\ c \in Base[base[s]]
        /\ file'[c] = [commit |-> commit[s], base |-> base[s], image |-> found[s][c]]
    BY <1>3, <2>1 DEF Publish, Export
  <2>3. commit[s] \in 0..head
    BY <2>1 DEF Publish, OnMain, RunsKnown
  <2>4. ASSUME NEW e \in Ext, Source[commit[s]][c][e] = NoVersion
        PROVE  found[s][c][e] = 0
    BY <2>4 DEF FoundThere, Due, Wanted
  <2>5. ASSUME NEW e \in Ext, Source[commit[s]][c][e] # NoVersion
        PROVE  found[s][c][e] \in Minutes(c, e, Source[commit[s]][c][e])
    <3>1. <<c, e>> \in Due(s)
      BY <2>2, <2>5 DEF Due, Wanted
    <3>2. found[s][c][e] # 0
      BY <2>1, <3>1 DEF Publish, Generated
    <3>3. QED BY <3>2 DEF FoundThere, Wanted
  <2>6. file'[c].commit <= head'
    BY <1>1, <2>2, <2>3
  <2>7. QED BY <1>1, <2>2, <2>4, <2>5, <2>6, MinutesGrow
<1>4. QED BY <1>2, <1>3

(* The invariant holds when nothing has run. *)
LEMMA InitCatalogInv == Init => CatalogInv
<1> SUFFICES ASSUME Init PROVE CatalogInv
  OBVIOUS
<1>1. TypeOK
  BY TypeInit
<1>2. RunsKnown
  BY DEF Init, RunsKnown
<1>3. FoundThere /\ FoundNewer
  BY DEF Init, FoundThere, FoundNewer, NothingFound
<1>4. CompleteOrUntouched
  BY DEF Init, CompleteOrUntouched
<1>5. QED BY <1>1, <1>2, <1>3, <1>4 DEF CatalogInv

(* The lemmas above, put together. *)
LEMMA CatalogInvStep == CatalogInv /\ [Next]_vars => CatalogInv'
BY TypeStep, RunsKnownStep, FoundThereStep, FoundNewerStep, CompleteStep
   DEF CatalogInv

(* The inductive invariant holds in every state. *)
THEOREM CatalogInvariant == Spec => []CatalogInv
BY InitCatalogInv, CatalogInvStep, PTL DEF Spec

(* A published catalog is complete: it lists exactly what its commit of    *)
(* main maintains, each with an image that is in production.               *)
THEOREM CatalogsComplete == Spec => []CompleteOrUntouched
<1>1. CatalogInv => CompleteOrUntouched
  BY DEF CatalogInv
<1>2. QED BY <1>1, CatalogInvariant, PTL

-----------------------------------------------------------------------------
(* The files. *)

(* What a run pushes is what its commit maintains, with images that are in *)
(* production and not older than those it replaces.                        *)
LEMMA PushIsFit ==
  ASSUME CatalogInv, NEW s \in Slot, Publish(s),
         NEW c \in Base[base[s]], NEW e \in Ext, c \in Catalog
  PROVE  /\ Source[commit[s]][c][e] = NoVersion => found[s][c][e] = 0
         /\ Source[commit[s]][c][e] # NoVersion =>
              found[s][c][e] \in Minutes(c, e, Source[commit[s]][c][e])
         /\ /\ file[c] # NoFile
            /\ Source[file[c].commit][c][e] = Source[commit[s]][c][e]
            => Listed(c, e) <= found[s][c][e]
<1> USE DEF CatalogInv
<1>1. CASE Source[commit[s]][c][e] = NoVersion
  <2>1. <<c, e>> \notin Due(s)
    BY <1>1 DEF Due, Wanted
  <2>2. found[s][c][e] = 0
    BY <2>1 DEF FoundThere
  <2>3. file[c] # NoFile /\ Source[file[c].commit][c][e] = NoVersion => Listed(c, e) = 0
    BY DEF CompleteOrUntouched
  <2>4. QED BY <1>1, <2>2, <2>3
<1>2. CASE Source[commit[s]][c][e] # NoVersion
  <2>1. <<c, e>> \in Due(s)
    BY <1>2 DEF Due, Wanted
  <2>2. found[s][c][e] # 0 /\ ~stale[s]
    BY <2>1 DEF Publish, Generated
  <2>3. found[s][c][e] \in Minutes(c, e, Source[commit[s]][c][e])
    BY <2>2 DEF FoundThere, Wanted
  <2>4. ASSUME file[c] # NoFile, Source[file[c].commit][c][e] = Source[commit[s]][c][e]
        PROVE  Listed(c, e) <= found[s][c][e]
    <3>1. found[s][c][e] >= Listed(c, e)
      BY <2>2, <2>4 DEF FoundNewer, Wanted
    <3>2. found[s][c][e] \in Nat /\ Listed(c, e) \in Nat
      BY <2>4, BoundAssumption DEF TypeOK, File, Listed
    <3>3. QED BY <3>1, <3>2
  <2>5. QED BY <1>2, <2>3, <2>4
<1>3. QED BY <1>1, <1>2

(* No push replaces the image of an extension by an older one of the same  *)
(* version, whichever runs overlap.                                        *)
THEOREM ImagesNeverOlder == Spec => NeverOlderImage
<1>1. CatalogInv /\ [Next]_vars =>
        [\A c \in Catalog, e \in Ext :
           /\ file[c] # NoFile
           /\ Source[file'[c].commit][c][e] = Source[file[c].commit][c][e]
           => file'[c].image[e] >= Listed(c, e)]_vars
  <2> SUFFICES ASSUME CatalogInv, [Next]_vars, NEW c \in Catalog, NEW e \in Ext,
                      file[c] # NoFile,
                      Source[file'[c].commit][c][e] = Source[file[c].commit][c][e]
               PROVE  file'[c].image[e] >= file[c].image[e]
    BY DEF Listed
  <2>1. file[c].image[e] \in 0..MaxMinute
    BY DEF CatalogInv, TypeOK, File
  <2>2. CASE file'[c] = file[c]
    BY <2>1, <2>2, BoundAssumption
  <2>3. CASE file'[c] # file[c]
    <3>1. PICK s \in Slot : Publish(s)
      BY <2>3, FilesChange DEF CatalogInv
    <3>2. /\ c \in Base[base[s]]
          /\ file'[c] = [commit |-> commit[s], base |-> base[s], image |-> found[s][c]]
      BY <2>3, <3>1 DEF Publish, Export
    <3>3. Listed(c, e) <= found[s][c][e]
      BY <3>1, <3>2, PushIsFit
    <3>4. found[s][c][e] \in 0..MaxMinute
      BY DEF CatalogInv, TypeOK
    <3>5. QED BY <2>1, <3>2, <3>3, <3>4, BoundAssumption DEF Listed
  <2>4. QED BY <2>2, <2>3
<1>2. QED BY <1>1, CatalogInvariant, PTL DEF Spec, NeverOlderImage

(* A push of what main is at leaves nothing to do, unless a newer image    *)
(* has come to production than those it lists.                             *)
LEMMA PushSuffices ==
  ASSUME CatalogInv, NEW s \in Slot, Publish(s), commit[s] = head, base[s] = upstream,
         \A c \in Base[upstream], e \in Ext, m \in Minute :
           [catalog |-> c, ext |-> e, version |-> Source[head][c][e], minute |-> m]
             \in production => m <= file'[c].image[e]
  PROVE  UpToDate'
<1>1. head' = head /\ upstream' = upstream /\ production' = production
  BY DEF Publish, world
<1>2. Base[upstream] \subseteq Catalog
  BY BaseAssumption DEF CatalogInv, TypeOK
<1>3. \A c \in Base[upstream] : file'[c].commit = head /\ file'[c].base = upstream
  BY <1>2 DEF Publish, Export
<1>4. QED BY <1>1, <1>3 DEF UpToDate, Minutes, Listed

(* Before anything is published the artifacts are those of the contract.   *)
LEMMA ContractInit == Init => Contract!Init
BY DEF Init, Contract!Init

(* A push is one publication of the contract; nothing else changes a file. *)
LEMMA ContractStep ==
  ASSUME CatalogInv, [Next]_vars
  PROVE  [Contract!Next]_(Contract!vars)
<1>1. CASE file' = file
  <2>1. head' >= head /\ upstream' >= upstream /\ production \subseteq production'
    BY WorldGrows, BoundAssumption DEF CatalogInv, TypeOK
  <2>2. Contract!World
    BY <1>1, <2>1 DEF Contract!World
  <2>3. QED BY <2>2 DEF Contract!Next
<1>2. CASE file' # file
  <2>1. PICK s \in Slot : Publish(s)
    BY <1>2, FilesChange DEF CatalogInv
  <2>2. commit[s] \in 0..head /\ base[s] \in 0..upstream
    BY <2>1, BoundAssumption DEF CatalogInv, RunsKnown, TypeOK, Publish, OnMain
  <2>3. found[s] \in [Catalog -> [Ext -> 0..MaxMinute]]
    BY DEF CatalogInv, TypeOK
  <2>4. \E c \in Catalog, e \in Ext : Source[commit[s]][c][e] # NoVersion
    BY <2>1 DEF Publish, Generated, CanGenerate, Wanted
  <2>5. Base[base[s]] \subseteq Catalog
    BY BaseAssumption DEF CatalogInv, TypeOK
  <2>6. ASSUME NEW c \in Base[base[s]]
        PROVE  /\ Contract!Maintained(commit[s], c, found[s][c])
               /\ file[c] # NoFile => Contract!NotOlder(commit[s], c, found[s][c])
    <3>1. 0 \notin Minute
      BY DEF Minute
    <3>2. Contract!Maintained(commit[s], c, found[s][c])
      BY <2>1, <2>5, <3>1, PushIsFit
         DEF Contract!Maintained, Contract!InProduction, Minutes
    <3>3. file[c] # NoFile => Contract!NotOlder(commit[s], c, found[s][c])
      BY <2>1, <2>5, PushIsFit DEF Contract!NotOlder, Listed
    <3>4. QED BY <3>2, <3>3
  <2>7. file' = [c \in Catalog |->
                   IF c \in Base[base[s]]
                   THEN [commit |-> commit[s], base |-> base[s], image |-> found[s][c]]
                   ELSE file[c]]
    BY <2>1 DEF Publish, Export
  <2>8. UNCHANGED <<head, upstream, production>>
    BY <2>1 DEF Publish, world
  <2>9. Contract!Publish
    BY <2>2, <2>3, <2>4, <2>6, <2>7, <2>8 DEF Contract!Publish
  <2>10. QED BY <2>9 DEF Contract!Next
<1>3. QED BY <1>1, <1>2

(* The workflow implements CatalogContract: a user of the artifacts sees   *)
(* one run after the other, each generating all its files at once.         *)
THEOREM PublicationKeepsContract == Spec => ContractKept
<1>1. CatalogInv /\ [Next]_vars => [Contract!Next]_(Contract!vars)
  BY ContractStep
<1>2. QED
  BY <1>1, ContractInit, CatalogInvariant, PTL DEF Spec, ContractKept, Contract!Spec

-----------------------------------------------------------------------------
(* What CatalogCatchesUp rests on, together with PushSuffices: no run      *)
(* hangs, and each has only so many steps to take.                         *)

(* A lookup that finds images finds a newest one. *)
LEMMA NewestThere ==
  ASSUME NEW c, NEW e, NEW v, Minutes(c, e, v) # {}
  PROVE  \E m \in Minutes(c, e, v) : \A n \in Minutes(c, e, v) : n <= m
<1>1. MaxMinute \in Nat /\ Minutes(c, e, v) \subseteq 0..MaxMinute
  BY BoundAssumption DEF Minutes, Minute
<1>2. QED BY <1>1, HasGreatest

(* A run that is under way can always go on by itself (GenerateCatalogs,   *)
(* getExtensionImageWithTimestamp).                                        *)
THEOREM CatalogRunsGoOn == Spec => []RunsGoOn
<1>1. RunsGoOn
  <2> SUFFICES ASSUME NEW s \in Slot, phase[s] = "generating", CanGenerate(s),
                      ~Generated(s)
               PROVE  \E i \in Missing(s) :
                        LET images == Minutes(i[1], i[2], Wanted(s, i[1], i[2]))
                        IN  images = {} \/ \E m \in images : \A n \in images : n <= m
    BY DEF RunsGoOn
  <2>1. PICK i \in Missing(s) : TRUE
    BY DEF Missing, Generated
  <2>2. QED BY <2>1, NewestThere
<1>2. QED BY <1>1, PTL

(* A run that is under way only comes nearer to its end.                   *)
THEOREM CatalogRunsAdvance == Spec => RunsAdvance
<1>1. ASSUME CatalogInv, [Next]_vars, NEW s \in Slot, phase[s] # "free"
      PROVE  \/ UNCHANGED <<phase[s], commit[s], base[s], found[s]>>
             \/ phase'[s] = "free"
             \/ <<phase[s], phase'[s]>> \in
                  {<<"queued", "upstream">>, <<"upstream", "generating">>}
             \/ /\ phase[s] = "generating" /\ phase'[s] = "generating"
                /\ Missing(s)' \subseteq Missing(s) /\ Missing(s)' # Missing(s)
  <2>1. TypeOK
    BY <1>1 DEF CatalogInv
  <2>2. ASSUME NEW c \in Catalog, NEW e \in Ext, Lookup(s, c, e)
        PROVE  /\ phase[s] = "generating" /\ phase'[s] = "generating"
               /\ Missing(s)' \subseteq Missing(s) /\ Missing(s)' # Missing(s)
    <3>1. PICK m \in Minute : found' = [found EXCEPT ![s][c][e] = m]
      BY <2>2 DEF Lookup, Minutes
    <3>2. m # 0
      BY <3>1 DEF Minute
    <3>3. Due(s)' = Due(s) /\ <<c, e>> \in Due(s) /\ found[s][c][e] = 0
      BY <2>2 DEF Lookup, Due, Wanted
    <3>4. /\ found'[s][c][e] = m
          /\ \A d \in Catalog, f \in Ext :
               <<d, f>> # <<c, e>> => found'[s][d][f] = found[s][d][f]
      BY <2>1, <3>1 DEF TypeOK
    <3>5. Due(s) \subseteq Catalog \X Ext
      BY <2>1, BaseAssumption DEF Due, TypeOK
    <3>6. Missing(s)' = Missing(s) \ {<<c, e>>}
      BY <3>2, <3>3, <3>4, <3>5 DEF Missing
    <3>7. <<c, e>> \in Missing(s)
      BY <3>3 DEF Missing
    <3>8. QED BY <2>2, <3>6, <3>7 DEF Lookup
  <2>3. ASSUME \/ CheckoutUpstream(s) \/ CheckoutArtifacts(s)
               \/ Publish(s) \/ End(s)
        PROVE  \/ phase'[s] = "free"
               \/ <<phase[s], phase'[s]>> \in
                    {<<"queued", "upstream">>, <<"upstream", "generating">>}
    BY <2>1, <2>3 DEF CheckoutUpstream, CheckoutArtifacts, Publish, End, Leave, TypeOK
  <2>4. \A k \in 0..head \cup {BranchHead} : ~Begin(s, k)
    BY <1>1 DEF Begin
  <2>5. QED BY <1>1, <2>1, <2>2, <2>3, <2>4, RunSteps
<1>2. CatalogInv /\ [Next]_vars =>
        [\A s \in Slot : phase[s] # "free" =>
           \/ UNCHANGED <<phase[s], commit[s], base[s], found[s]>>
           \/ phase'[s] = "free"
           \/ <<phase[s], phase'[s]>> \in
                {<<"queued", "upstream">>, <<"upstream", "generating">>}
           \/ /\ phase[s] = "generating" /\ phase'[s] = "generating"
              /\ Missing(s)' \subseteq Missing(s) /\ Missing(s)' # Missing(s)]_vars
  BY <1>1
<1>3. QED BY <1>2, CatalogInvariant, PTL DEF Spec, RunsAdvance
=============================================================================
