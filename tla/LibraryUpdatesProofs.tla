------------------------ MODULE LibraryUpdatesProofs ------------------------
(***************************************************************************)
(* Theorems about LibraryUpdates and the merge gate it runs behind, for    *)
(* every set of branches, extensions, combinations and overlapping runs.   *)
(***************************************************************************)
EXTENDS LibraryUpdates, TLAPS

(* What a new head has been through: nothing. *)
LEMMA HeadUnchecked ==
    ASSUME NEW b, NEW A, NEW C, NEW open \in BOOLEAN
    PROVE  /\ HeadChecks(b, A, C, open) \in [Check -> {"none", "running"}]
           /\ HeadChecks(b, A, C, open)["sbom"] # "none" => Sbom \in C
BY DEF HeadChecks, Check, BakeTriggered, SbomTriggered

(* What decides a result depends on the branch only. *)
LEMMA MayPassKept ==
    ASSUME NEW b \in Branch, NEW k \in Check,
           change'[b] = change[b], defect'[b] = defect[b], preview'[b] = preview[b]
    PROVE  MayPass(b, k)' <=> MayPass(b, k)
BY DEF MayPass, Bakes, Matrix, Stable, InScope

LEMMA GateKept == GateInv /\ UNCHANGED gateVars /\ events' \in Nat => GateInv'
BY DEF GateInv, GateTypeOK, ResultsOfHead, MergedGreen, gateVars, MayPass, Bakes,
       Matrix, Stable, InScope

LEMMA InitGateInv == GateInit => GateInv
BY DEF GateInit, GateInv, GateTypeOK, ResultsOfHead, MergedGreen, Unchecked, Check, Gate

LEMMA SetHeadStep ==
    ASSUME GateInv, events' \in Nat, NEW b \in Branch, NEW A, NEW C \in SUBSET Area,
           NEW D \in SUBSET C, NEW P \in SUBSET (C \cap Extension),
           NEW state \in {"none", "open"}, SetHead(b, A, C, D, P, state)
    PROVE  GateInv'
<1> DEFINE H == HeadChecks(b, A, C, state = "open")
<1>1. /\ H \in [Check -> {"none", "running"}]
      /\ H["sbom"] # "none" => Sbom \in C
  BY HeadUnchecked
<1>2. GateTypeOK
  BY DEF GateInv
<1>3. /\ change' = [change EXCEPT ![b] = C]
      /\ defect' = [defect EXCEPT ![b] = D]
      /\ preview' = [preview EXCEPT ![b] = P]
      /\ pull' = [pull EXCEPT ![b] = state]
      /\ check' = [check EXCEPT ![b] = H]
  BY DEF SetHead
<1> HIDE DEF H
<1>4. GateTypeOK'
  <2>1. H \in [Check -> {"none", "running", "success", "failure"}]
    BY <1>1
  <2>2. check' \in [Branch -> [Check -> {"none", "running", "success", "failure"}]]
    BY <1>2, <1>3, <2>1 DEF GateTypeOK
  <2>3. /\ change' \in [Branch -> SUBSET Area] /\ defect' \in [Branch -> SUBSET Area]
        /\ preview' \in [Branch -> SUBSET Extension]
    BY <1>2, <1>3 DEF GateTypeOK
  <2>4. pull' \in [Branch -> {"none", "open", "merged"}]
    BY <1>2, <1>3 DEF GateTypeOK
  <2>5. QED BY <2>2, <2>3, <2>4 DEF GateTypeOK
<1>5. /\ change'[b] = C /\ defect'[b] = D /\ preview'[b] = P
      /\ pull'[b] = state /\ check'[b] = H
  BY <1>2, <1>3 DEF GateTypeOK
<1>6. ASSUME NEW d \in Branch, d # b
      PROVE  /\ change'[d] = change[d] /\ defect'[d] = defect[d] /\ preview'[d] = preview[d]
             /\ pull'[d] = pull[d] /\ check'[d] = check[d]
  BY <1>2, <1>3, <1>6 DEF GateTypeOK
<1>7. ResultsOfHead'
  <2> SUFFICES ASSUME NEW d \in Branch
               PROVE  /\ defect'[d] \subseteq change'[d] /\ preview'[d] \subseteq change'[d]
                      /\ check'[d]["sbom"] # "none" => Sbom \in change'[d]
                      /\ \A k \in {"bake", "scope"} :
                           check'[d][k] = "success" => MayPass(d, k)'
    BY DEF ResultsOfHead
  <2>1. CASE d = b
    <3>1. \A k \in {"bake", "scope"} : H[k] # "success"
      BY <1>1 DEF Check
    <3>2. QED BY <1>1, <1>5, <2>1, <3>1
  <2>2. CASE d # b
    <3>1. \A k \in {"bake", "scope"} : MayPass(d, k)' <=> MayPass(d, k)
      BY <1>6, <2>2, MayPassKept DEF Check
    <3>2. QED BY <1>6, <2>2, <3>1 DEF GateInv, ResultsOfHead
  <2>3. QED BY <2>1, <2>2
<1>8. MergedGreen'
  BY <1>5, <1>6 DEF GateInv, MergedGreen
<1>9. QED BY <1>4, <1>7, <1>8 DEF GateInv

(* A step that only gives branch b other results or another state. *)
LEMMA ResultStep ==
    ASSUME GateInv, events' \in Nat, UNCHANGED <<change, defect, preview>>,
           NEW b \in Branch, NEW R \in [Check -> {"none", "running", "success", "failure"}],
           NEW state \in {"none", "open", "merged"},
           check' = [check EXCEPT ![b] = R], pull' = [pull EXCEPT ![b] = state],
           R["sbom"] # "none" => Sbom \in change[b],
           \A k \in {"bake", "scope"} : R[k] = "success" => MayPass(b, k),
           state = "merged" => /\ R["scope"] = "success"
                               /\ \E k \in Gate : R[k] = "success"
    PROVE  GateInv'
<1>1. GateTypeOK'
  BY DEF GateInv, GateTypeOK
<1>2. /\ check'[b] = R /\ pull'[b] = state
      /\ \A d \in Branch \ {b} : check'[d] = check[d] /\ pull'[d] = pull[d]
  BY DEF GateInv, GateTypeOK
<1>3. \A d \in Branch, k \in {"bake", "scope"} : MayPass(d, k)' <=> MayPass(d, k)
  BY MayPassKept DEF Check
<1>4. ResultsOfHead'
  BY <1>2, <1>3 DEF GateInv, ResultsOfHead
<1>5. MergedGreen'
  BY <1>2 DEF GateInv, MergedGreen
<1>6. QED BY <1>1, <1>4, <1>5 DEF GateInv

LEMMA PushStep ==
    ASSUME GateInv, NEW b \in Branch, Push(b) PROVE GateInv'
<1>1. PICK A \in SUBSET Area : \E C, D, P \in SUBSET A :
        /\ D \subseteq C \ {Neutral, Elsewhere} /\ P \subseteq C \cap Extension
        /\ SetHead(b, A, (change[b] \ A) \cup C, (defect[b] \ A) \cup D,
                   (preview[b] \ A) \cup P, pull[b])
  BY DEF Push
<1>2. PICK C \in SUBSET A, D \in SUBSET A, P \in SUBSET A :
        /\ D \subseteq C \ {Neutral, Elsewhere} /\ P \subseteq C \cap Extension
        /\ SetHead(b, A, (change[b] \ A) \cup C, (defect[b] \ A) \cup D,
                   (preview[b] \ A) \cup P, pull[b])
  BY <1>1
<1>3. /\ change[b] \in SUBSET Area /\ preview[b] \in SUBSET Extension
      /\ defect[b] \subseteq change[b] /\ preview[b] \subseteq change[b]
      /\ pull[b] \in {"none", "open"} /\ events' \in Nat
  BY DEF GateInv, GateTypeOK, ResultsOfHead, Push, Event
<1>4. /\ (change[b] \ A) \cup C \in SUBSET Area
      /\ (defect[b] \ A) \cup D \in SUBSET ((change[b] \ A) \cup C)
      /\ (preview[b] \ A) \cup P \in SUBSET (((change[b] \ A) \cup C) \cap Extension)
  BY <1>2, <1>3
<1>5. QED BY <1>2, <1>3, <1>4, SetHeadStep

LEMMA OpenStep ==
    ASSUME GateInv, NEW b \in Branch, Open(b) PROVE GateInv'
<1> DEFINE R == [check[b] EXCEPT !["sbom"] = SbomTriggered(change[b]),
                                 !["scope"] = "running"]
<1>1. GateTypeOK /\ ResultsOfHead /\ UNCHANGED <<change, defect, preview, events>>
  BY DEF GateInv, Open
<1>2. check[b] \in [Check -> {"none", "running", "success", "failure"}]
  BY <1>1 DEF GateTypeOK
<1>3. R \in [Check -> {"none", "running", "success", "failure"}]
  BY <1>2 DEF SbomTriggered, Check
<1>4. /\ R["sbom"] = SbomTriggered(change[b]) /\ R["scope"] = "running"
      /\ R["bake"] = check[b]["bake"]
  BY <1>2 DEF Check
<1>5. check' = [check EXCEPT ![b] = R] /\ pull' = [pull EXCEPT ![b] = "open"]
  BY <1>1 DEF Open, GateTypeOK
<1> HIDE DEF R
<1>6. /\ R["sbom"] # "none" => Sbom \in change[b]
      /\ \A k \in {"bake", "scope"} : R[k] = "success" => MayPass(b, k)
  BY <1>1, <1>4 DEF ResultsOfHead, SbomTriggered
<1>7. events' \in Nat
  BY <1>1 DEF GateTypeOK
<1>8. QED BY <1>1, <1>3, <1>5, <1>6, <1>7, ResultStep

(* One result of one branch. *)
LEMMA OneResult ==
    ASSUME GateInv, events' \in Nat, UNCHANGED <<change, defect, preview, pull>>,
           NEW b \in Branch, pull[b] # "merged", NEW k \in Check,
           NEW result \in {"running", "success", "failure"},
           check' = [check EXCEPT ![b][k] = result],
           k = "sbom" => Sbom \in change[b],
           result = "success" => MayPass(b, k)
    PROVE  GateInv'
<1> DEFINE R == [check[b] EXCEPT ![k] = result]
<1>1. GateTypeOK /\ ResultsOfHead
  BY DEF GateInv
<1>2. check[b] \in [Check -> {"none", "running", "success", "failure"}]
  BY <1>1 DEF GateTypeOK
<1>3. /\ R \in [Check -> {"none", "running", "success", "failure"}]
      /\ R[k] = result /\ \A i \in Check \ {k} : R[i] = check[b][i]
  BY <1>2
<1>4. check' = [check EXCEPT ![b] = R] /\ pull' = [pull EXCEPT ![b] = pull[b]]
  BY <1>1 DEF GateTypeOK
<1>5. PICK state \in {"none", "open", "merged"} : state = pull[b] /\ state # "merged"
  BY <1>1 DEF GateTypeOK
<1> HIDE DEF R
<1>6. R["sbom"] # "none" => Sbom \in change[b]
  BY <1>1, <1>3 DEF ResultsOfHead, Check
<1>7. \A i \in {"bake", "scope"} : R[i] = "success" => MayPass(b, i)
  BY <1>1, <1>3 DEF ResultsOfHead, Check
<1>8. pull' = [pull EXCEPT ![b] = state]
  BY <1>4, <1>5
<1>9. /\ UNCHANGED <<change, defect, preview>>
      /\ state = "merged" => /\ R["scope"] = "success"
                             /\ \E i \in Gate : R[i] = "success"
  BY <1>5
<1>10. check' = [check EXCEPT ![b] = R]
  BY <1>4
<1>11. R \in [Check -> {"none", "running", "success", "failure"}]
  BY <1>3
<1>12. QED BY ONLY GateInv, events' \in Nat, b \in Branch,
             state \in {"none", "open", "merged"},
             <1>6, <1>7, <1>8, <1>9, <1>10, <1>11, ResultStep

LEMMA DispatchStep ==
    ASSUME GateInv, NEW b \in Branch, Dispatch(b) PROVE GateInv'
<1>1. events' \in Nat
  BY DEF Dispatch, Event, GateInv, GateTypeOK
<1>2. QED BY <1>1, OneResult DEF Dispatch, Check

LEMMA EndCheckStep ==
    ASSUME GateInv, NEW b \in Branch, NEW k \in Check, EndCheck(b, k) PROVE GateInv'
<1>1. PICK result \in {"success", "failure"} :
        /\ result = "success" => MayPass(b, k)
        /\ check' = [check EXCEPT ![b][k] = result]
  BY DEF EndCheck
<1>2. k = "sbom" => Sbom \in change[b]
  BY DEF EndCheck, GateInv, ResultsOfHead
<1>3. events' \in Nat
  BY DEF EndCheck, GateInv, GateTypeOK
<1>4. QED BY <1>1, <1>2, <1>3, OneResult DEF EndCheck

LEMMA RerunStep ==
    ASSUME GateInv, NEW b \in Branch, NEW k \in Check, Rerun(b, k) PROVE GateInv'
<1>1. k = "sbom" => Sbom \in change[b]
  BY DEF Rerun, GateInv, ResultsOfHead
<1>2. events' \in Nat
  BY DEF Rerun, GateInv, GateTypeOK
<1>3. QED BY <1>1, <1>2, OneResult DEF Rerun

LEMMA MergeStep ==
    ASSUME GateInv, NEW b \in Branch, Merge(b) PROVE GateInv'
<1>1. /\ GateTypeOK /\ ResultsOfHead
      /\ check[b] \in [Check -> {"none", "running", "success", "failure"}]
  BY DEF GateInv, GateTypeOK
<1>2. /\ check' = [check EXCEPT ![b] = check[b]]
      /\ pull' = [pull EXCEPT ![b] = "merged"]
      /\ UNCHANGED <<change, defect, preview, events>>
  BY <1>1 DEF Merge, GateTypeOK
<1>3. check[b]["scope"] = "success" /\ \E k \in Gate : check[b][k] = "success"
  BY DEF Merge, Mergeable
<1>4. /\ check[b]["sbom"] # "none" => Sbom \in change[b]
      /\ \A k \in {"bake", "scope"} : check[b][k] = "success" => MayPass(b, k)
  BY <1>1 DEF ResultsOfHead
<1>5. QED BY <1>1, <1>2, <1>3, <1>4, ResultStep DEF GateTypeOK

(* What people and Renovate do, and what workflows report. *)
LEMMA ChangeStepGate == GateInv /\ ChangeStep => GateInv'
<1> SUFFICES ASSUME GateInv, ChangeStep PROVE GateInv'
  OBVIOUS
<1>1. ASSUME NEW b \in Branch, Push(b) \/ Open(b) \/ Merge(b) \/ Dispatch(b)
      PROVE  GateInv'
  BY <1>1, PushStep, OpenStep, MergeStep, DispatchStep
<1>2. ASSUME NEW b \in Branch, NEW k \in Check, EndCheck(b, k) \/ Rerun(b, k)
      PROVE  GateInv'
  BY <1>2, EndCheckStep, RerunStep
<1>3. QED BY <1>1, <1>2 DEF ChangeStep

-----------------------------------------------------------------------------
(* What the gate lets through. *)
LEMMA GateLetsThrough == GateInv => GateSound /\ StableReleases
<1> SUFFICES ASSUME GateInv, NEW b \in Merged
             PROVE  /\ defect[b] \cap (Extension \cup {Shared}) = {}
                    /\ b \in Renovate => preview[b] \subseteq Exempt
  BY DEF GateSound, StableReleases
<1>1. /\ b \in Branch /\ check[b]["scope"] = "success"
      /\ check[b]["bake"] = "success" \/ check[b]["sbom"] = "success"
      /\ defect[b] \subseteq change[b]
      /\ preview[b] \subseteq change[b] /\ preview[b] \subseteq Extension
  BY DEF Merged, GateInv, GateTypeOK, ResultsOfHead, MergedGreen, Gate
<1>2. CASE check[b]["bake"] = "success"
  <2>1. MayPass(b, "bake")
    BY <1>1, <1>2 DEF GateInv, ResultsOfHead
  <2>2. Bakes(b) /\ Stable(b)
    BY <2>1 DEF MayPass
  <2>3. defect[b] \cap (Extension \cup {Shared}) = {}
    BY <1>1, <2>2 DEF Bakes, Matrix
  <2>4. QED BY <2>2, <2>3 DEF Stable
<1>3. CASE check[b]["sbom"] = "success"
  <2>1. MayPass(b, "scope") /\ Sbom \in change[b]
    BY <1>1, <1>3 DEF GateInv, ResultsOfHead
  <2>2. change[b] \subseteq {Sbom, Neutral}
    BY <2>1 DEF MayPass, InScope
  <2>3. QED BY <1>1, <2>2, AreaAssumption
<1>4. QED BY <1>1, <1>2, <1>3

(* A merged change of the SBOM generator that its own checks have not      *)
(* passed.                                                                 *)
LEMMA UnvettedSkipped == GateInv => UnvettedIsSkipped
<1> SUFFICES ASSUME GateInv, NEW b \in Merged, Sbom \in change[b],
                    check[b]["sbom"] # "success"
             PROVE  /\ change[b] \subseteq {Sbom, Neutral}
                    /\ check[b]["bake"] = "success" /\ Matrix(b) = {}
  BY DEF UnvettedIsSkipped
<1>1. /\ b \in Branch /\ check[b]["scope"] = "success"
      /\ check[b]["bake"] = "success"
  BY DEF Merged, GateInv, MergedGreen, Gate
<1>2. MayPass(b, "scope")
  BY <1>1 DEF GateInv, ResultsOfHead
<1>3. change[b] \subseteq {Sbom, Neutral}
  BY <1>2 DEF MayPass, InScope
<1>4. Matrix(b) = {}
  BY <1>3, AreaAssumption DEF Matrix
<1>5. QED BY <1>1, <1>3, <1>4

-----------------------------------------------------------------------------
(* The lists. *)
LEMMA TargetFacts ==
    ASSUME NEW e \in Target
    PROVE  /\ BuildMatrix(Tree[e]) \subseteq Combo
           /\ BranchOf[e] \in Branch /\ {e} \subseteq Area
<1>1. e \in ExtensionDirectories(Tree) /\ Parses(Tree, e)
  BY DEF Target, OSLibsTargets, Extensions
<1>2. e \in Name /\ IsMetadata(Tree[e])
  BY <1>1, TreeAssumption DEF ExtensionDirectories, Parses
<1>3. QED BY <1>1, <1>2, BranchOfAssumption, TreeAssumption
          DEF IsMetadata, BuildMatrix, Area

LEMMA OlderTransitive ==
    ASSUME NEW l \in Lists, NEW m \in Lists, NEW n \in Lists, Older(l, m), Older(m, n)
    PROVE  Older(l, n)
BY DEF Older, Lists

LEMMA LibraryKept == LibraryInv /\ UNCHANGED libraryVars => LibraryInv'
BY DEF LibraryInv, LibraryTypeOK, JobsDone, BranchesDone, libraryVars, jobVars, branchVars

LEMMA InitLibraryInv == Init => LibraryInv
<1> SUFFICES ASSUME Init PROVE LibraryInv
  OBVIOUS
<1>1. NoLists \in Lists /\ [c \in Combo |-> 1] \in Lists
  BY DEF NoLists, Lists
<1>2. /\ archive = [e \in Target |-> [c \in Combo |-> 1]]
      /\ lists = [e \in Target |-> NoLists]
      /\ job = [j \in Job |-> "none"] /\ todo = [j \in Job |-> {}]
      /\ base = [j \in Job |-> NoLists] /\ got = base /\ asof = base
      /\ from = [e \in Target |-> NoLists] /\ to = from /\ since = from
  BY DEF Init
<1>3. LibraryTypeOK
  BY <1>1, <1>2 DEF LibraryTypeOK
<1>4. JobsDone
  BY <1>2 DEF JobsDone
<1>5. BranchesDone
  <2> SUFFICES ASSUME NEW e \in Target
               PROVE  /\ Older(lists[e], archive[e])
                      /\ Older(from[e], lists[e]) /\ Older(from[e], to[e])
                      /\ Older(to[e], archive[e])
                      /\ \A c \in BuildMatrix(Tree[e]) : to[e][c] >= since[e][c]
    BY DEF BranchesDone
  <2>1. /\ lists[e] = NoLists /\ from[e] = NoLists /\ to[e] = NoLists
        /\ since[e] = NoLists /\ archive[e] = [c \in Combo |-> 1]
    BY <1>2
  <2>2. \A c \in Combo : NoLists[c] = 0
    BY DEF NoLists
  <2>3. Older(NoLists, NoLists) /\ Older(NoLists, [c \in Combo |-> 1])
    BY <2>2 DEF Older
  <2>4. BuildMatrix(Tree[e]) \subseteq Combo
    BY TargetFacts
  <2>5. QED BY <2>1, <2>2, <2>3, <2>4
<1>6. QED BY <1>3, <1>4, <1>5 DEF LibraryInv

LEMMA ArchiveStep ==
    ASSUME LibraryInv, NEW e \in Target, NEW c \in Combo, ArchiveMoves(e, c)
    PROVE  LibraryInv'
<1>1. /\ archive' = [archive EXCEPT ![e][c] = archive[e][c] + 1]
      /\ UNCHANGED <<lists, job, todo, base, got, asof, from, to, since>>
  BY DEF ArchiveMoves, jobVars, branchVars
<1>2. LibraryTypeOK'
  BY <1>1 DEF LibraryInv, LibraryTypeOK, Lists
<1>3. \A d \in Target : Older(archive[d], archive'[d])
  BY <1>1 DEF LibraryInv, LibraryTypeOK, Lists, Older
<1>4. JobsDone'
  <2> SUFFICES ASSUME NEW j \in Job, job[j] = "reading"
               PROVE  Older(got[j], archive'[j[2]]) /\ Older(asof[j], archive'[j[2]])
    BY <1>1 DEF LibraryInv, JobsDone
  <2>1. j[2] \in Target
    BY DEF Job
  <2>2. /\ archive[j[2]] \in Lists /\ archive'[j[2]] \in Lists
        /\ got[j] \in Lists /\ asof[j] \in Lists
    BY <1>2, <2>1 DEF LibraryInv, LibraryTypeOK
  <2>3. QED BY <1>3, <2>1, <2>2, OlderTransitive DEF LibraryInv, JobsDone
<1>5. BranchesDone'
  <2> SUFFICES ASSUME NEW d \in Target
               PROVE  Older(lists[d], archive'[d]) /\ Older(to[d], archive'[d])
    BY <1>1 DEF LibraryInv, BranchesDone
  <2>1. /\ archive[d] \in Lists /\ archive'[d] \in Lists
        /\ lists[d] \in Lists /\ to[d] \in Lists
    BY <1>2 DEF LibraryInv, LibraryTypeOK
  <2>2. QED BY <1>3, <2>1, OlderTransitive DEF LibraryInv, BranchesDone
<1>6. QED BY <1>2, <1>4, <1>5 DEF LibraryInv

LEMMA TriggerStep ==
    ASSUME LibraryInv, NEW s \in Slot, Trigger(s) PROVE LibraryInv'
<1>1. /\ job' = [j \in Job |-> IF j[1] = s THEN "reading" ELSE job[j]]
      /\ todo' = [j \in Job |-> IF j[1] = s THEN BuildMatrix(Tree[j[2]]) ELSE todo[j]]
      /\ base' = [j \in Job |-> IF j[1] = s THEN lists[j[2]] ELSE base[j]]
      /\ got' = [j \in Job |-> IF j[1] = s THEN lists[j[2]] ELSE got[j]]
      /\ asof' = [j \in Job |-> IF j[1] = s THEN archive[j[2]] ELSE asof[j]]
      /\ UNCHANGED <<archive, lists, from, to, since>>
  BY DEF Trigger, branchVars
<1>2. \A j \in Job : j[2] \in Target /\ BuildMatrix(Tree[j[2]]) \subseteq Combo
  BY TargetFacts DEF Job
<1>3. LibraryTypeOK'
  BY <1>1, <1>2 DEF LibraryInv, LibraryTypeOK
<1>4. JobsDone'
  <2> SUFFICES ASSUME NEW j \in Job, job'[j] = "reading"
               PROVE  /\ Older(base'[j], lists[j[2]]) /\ Older(base'[j], got'[j])
                      /\ Older(got'[j], archive[j[2]]) /\ Older(asof'[j], archive[j[2]])
                      /\ \A c \in BuildMatrix(Tree[j[2]]) \ todo'[j] :
                           got'[j][c] >= asof'[j][c]
    BY <1>1 DEF JobsDone
  <2>1. CASE j[1] = s
    <3>1. lists[j[2]] \in Lists /\ archive[j[2]] \in Lists
      BY <1>2 DEF LibraryInv, LibraryTypeOK
    <3>2. \A l \in Lists : Older(l, l)
      BY DEF Lists, Older
    <3>3. Older(lists[j[2]], archive[j[2]])
      BY <1>2 DEF LibraryInv, BranchesDone
    <3>4. QED BY <1>1, <2>1, <3>1, <3>2, <3>3
  <2>2. CASE j[1] # s
    BY <1>1, <2>2 DEF LibraryInv, JobsDone
  <2>3. QED BY <2>1, <2>2
<1>5. BranchesDone'
  BY <1>1 DEF LibraryInv, BranchesDone
<1>6. QED BY <1>3, <1>4, <1>5 DEF LibraryInv

LEMMA ReadStep ==
    ASSUME LibraryInv, NEW j \in Job, NEW c \in Combo, ReadList(j, c) PROVE LibraryInv'
<1>1. /\ got' = [got EXCEPT ![j][c] = archive[j[2]][c]]
      /\ todo' = [todo EXCEPT ![j] = todo[j] \ {c}]
      /\ job[j] = "reading"
      /\ UNCHANGED <<archive, lists, job, base, asof, from, to, since>>
  BY DEF ReadList, branchVars
<1>2. j[2] \in Target
  BY DEF Job
<1>3. LibraryTypeOK'
  BY <1>1, <1>2 DEF LibraryInv, LibraryTypeOK, Lists
<1>4. /\ got'[j] = [got[j] EXCEPT ![c] = archive[j[2]][c]] /\ todo'[j] = todo[j] \ {c}
      /\ \A i \in Job \ {j} : got'[i] = got[i] /\ todo'[i] = todo[i]
  BY <1>1 DEF LibraryInv, LibraryTypeOK, Lists
<1>5. /\ got[j] \in Lists /\ base[j] \in Lists /\ asof[j] \in Lists
      /\ lists[j[2]] \in Lists /\ archive[j[2]] \in Lists
  BY <1>2 DEF LibraryInv, LibraryTypeOK
<1>6. /\ Older(base[j], lists[j[2]]) /\ Older(base[j], got[j])
      /\ Older(got[j], archive[j[2]]) /\ Older(asof[j], archive[j[2]])
      /\ \A i \in BuildMatrix(Tree[j[2]]) \ todo[j] : got[j][i] >= asof[j][i]
      /\ Older(lists[j[2]], archive[j[2]])
  BY <1>1, <1>2 DEF LibraryInv, JobsDone, BranchesDone
<1>7. Older(base[j], archive[j[2]])
  BY <1>5, <1>6, OlderTransitive
<1>8. Older(base[j], got'[j]) /\ Older(got'[j], archive[j[2]])
  BY <1>4, <1>5, <1>6, <1>7 DEF Older, Lists
<1>9. \A i \in BuildMatrix(Tree[j[2]]) \ todo'[j] : got'[j][i] >= asof[j][i]
  <2> SUFFICES ASSUME NEW i \in BuildMatrix(Tree[j[2]]) \ todo'[j]
               PROVE  got'[j][i] >= asof[j][i]
    OBVIOUS
  <2>1. i \in Combo
    BY <1>2, TargetFacts
  <2>2. CASE i = c
    BY <1>4, <1>5, <1>6, <2>1, <2>2 DEF Older, Lists
  <2>3. CASE i # c
    BY <1>4, <1>5, <1>6, <2>1, <2>3 DEF Lists
  <2>4. QED BY <2>2, <2>3
<1>10. JobsDone'
  BY <1>1, <1>4, <1>6, <1>8, <1>9 DEF LibraryInv, JobsDone
<1>11. BranchesDone'
  BY <1>1 DEF LibraryInv, BranchesDone
<1>12. QED BY <1>3, <1>10, <1>11 DEF LibraryInv

LEMMA JobOverStep ==
    ASSUME LibraryTypeOK, JobsDone, NEW j \in Job, JobOver(j), UNCHANGED <<archive, lists>>
    PROVE  /\ job' \in [Job -> {"none", "reading"}] /\ todo' \in [Job -> SUBSET Combo]
           /\ {base', got', asof'} \subseteq [Job -> Lists]
           /\ JobsDone'
<1>1. /\ job' \in [Job -> {"none", "reading"}] /\ todo' \in [Job -> SUBSET Combo]
      /\ {base', got', asof'} \subseteq [Job -> Lists]
  BY DEF JobOver, LibraryTypeOK, Lists, NoLists
<1>2. /\ job'[j] = "none"
      /\ \A i \in Job \ {j} : /\ job'[i] = job[i] /\ todo'[i] = todo[i]
                              /\ base'[i] = base[i] /\ got'[i] = got[i] /\ asof'[i] = asof[i]
  BY DEF JobOver, LibraryTypeOK
<1>3. JobsDone'
  BY <1>2 DEF JobsDone
<1>4. QED BY <1>1, <1>3

LEMMA EndJobStep ==
    ASSUME LibraryInv, NEW j \in Job, EndJob(j) PROVE LibraryInv'
<1>1. JobOver(j) /\ UNCHANGED <<archive, lists, from, to, since>>
  BY DEF EndJob, branchVars
<1>2. LibraryTypeOK' /\ JobsDone'
  BY <1>1, JobOverStep DEF LibraryInv, LibraryTypeOK
<1>3. BranchesDone'
  BY <1>1 DEF LibraryInv, BranchesDone
<1>4. QED BY <1>2, <1>3 DEF LibraryInv

LEMMA OpenUpdateStep ==
    ASSUME LibraryInv, NEW j \in Job, OpenUpdate(j) PROVE LibraryInv'
<1> DEFINE e == j[2]
<1>1. e \in Target
  BY DEF Job
<1>2. /\ job[j] = "reading" /\ todo[j] = {} /\ JobOver(j)
      /\ from' = [from EXCEPT ![e] = base[j]] /\ to' = [to EXCEPT ![e] = got[j]]
      /\ since' = [since EXCEPT ![e] = asof[j]]
      /\ UNCHANGED <<archive, lists>>
  BY DEF OpenUpdate
<1>3. /\ {from', to', since'} \subseteq [Target -> Lists]
      /\ from'[e] = base[j] /\ to'[e] = got[j] /\ since'[e] = asof[j]
      /\ \A d \in Target \ {e} : from'[d] = from[d] /\ to'[d] = to[d] /\ since'[d] = since[d]
  BY <1>1, <1>2 DEF LibraryInv, LibraryTypeOK
<1>4. LibraryTypeOK' /\ JobsDone'
  BY <1>2, <1>3, JobOverStep DEF LibraryInv, LibraryTypeOK
<1>5. BranchesDone'
  BY <1>1, <1>2, <1>3 DEF LibraryInv, BranchesDone, JobsDone
<1>6. QED BY <1>4, <1>5 DEF LibraryInv

(* A merge brings a list from what the branch started from to what it has, *)
(* or leaves it alone.                                                     *)
LEMMA MergedLists ==
    ASSUME LibraryInv, NEW e \in Target, MergeUpdate(e)
    PROVE  /\ lists' \in [Target -> Lists]
           /\ \A d \in Target \ {e} : lists'[d] = lists[d]
           /\ Older(lists[e], lists'[e]) /\ Older(lists'[e], archive[e])
           /\ Older(to[e], lists'[e])
<1> DEFINE M == [c \in Combo |-> IF to[e][c] = from[e][c] THEN lists[e][c] ELSE to[e][c]]
<1>1. /\ lists[e] \in Lists /\ to[e] \in Lists /\ from[e] \in Lists /\ archive[e] \in Lists
      /\ lists \in [Target -> Lists]
  BY DEF LibraryInv, LibraryTypeOK
<1>2. M \in Lists
  BY <1>1 DEF Lists
<1>3. lists' = [lists EXCEPT ![e] = M]
  BY DEF MergeUpdate
<1>4. /\ Older(from[e], lists[e]) /\ Older(from[e], to[e]) /\ Older(to[e], archive[e])
      /\ Older(lists[e], archive[e])
  BY DEF LibraryInv, BranchesDone
<1>5. \A c \in Combo : to[e][c] # from[e][c] => lists[e][c] \in {from[e][c], to[e][c]}
  BY DEF MergeUpdate, Conflict
<1>6. \A c \in Combo : /\ lists[e][c] <= M[c] /\ M[c] <= archive[e][c] /\ to[e][c] <= M[c]
  BY <1>1, <1>4, <1>5 DEF Lists, Older
<1> HIDE DEF M
<1>7. lists'[e] = M /\ lists' \in [Target -> Lists]
      /\ \A d \in Target \ {e} : lists'[d] = lists[d]
  BY <1>1, <1>2, <1>3
<1>8. QED BY <1>6, <1>7 DEF Older

LEMMA MergeUpdateStep ==
    ASSUME LibraryInv, NEW e \in Target, MergeUpdate(e) PROVE LibraryInv'
<1>1. UNCHANGED <<archive, job, todo, base, got, asof, from, to, since>>
  BY DEF MergeUpdate, jobVars, branchVars
<1>2. LibraryTypeOK'
  BY <1>1, MergedLists DEF LibraryInv, LibraryTypeOK
<1>3. \A d \in Target : Older(lists[d], lists'[d])
  BY MergedLists DEF LibraryInv, LibraryTypeOK, Lists, Older
<1>4. JobsDone'
  <2> SUFFICES ASSUME NEW j \in Job, job[j] = "reading"
               PROVE  Older(base[j], lists'[j[2]])
    BY <1>1 DEF LibraryInv, JobsDone
  <2>1. j[2] \in Target
    BY DEF Job
  <2>2. base[j] \in Lists /\ lists[j[2]] \in Lists /\ lists'[j[2]] \in Lists
    BY <1>2, <2>1 DEF LibraryInv, LibraryTypeOK
  <2>3. QED BY <1>3, <2>1, <2>2, OlderTransitive DEF LibraryInv, JobsDone
<1>5. BranchesDone'
  <2> SUFFICES ASSUME NEW d \in Target
               PROVE  Older(lists'[d], archive[d]) /\ Older(from[d], lists'[d])
    BY <1>1 DEF LibraryInv, BranchesDone
  <2>1. from[d] \in Lists /\ lists[d] \in Lists /\ lists'[d] \in Lists
    BY <1>2 DEF LibraryInv, LibraryTypeOK
  <2>2. Older(from[d], lists'[d])
    BY <1>3, <2>1, OlderTransitive DEF LibraryInv, BranchesDone
  <2>3. Older(lists'[d], archive[d])
    BY MergedLists DEF LibraryInv, BranchesDone
  <2>4. QED BY <2>2, <2>3
<1>6. QED BY <1>2, <1>4, <1>5 DEF LibraryInv

-----------------------------------------------------------------------------
(* Updates as seen by the gate. *)
LEMMA OpenUpdateGate ==
    ASSUME GateInv, NEW j \in Job, OpenUpdate(j) PROVE GateInv'
<1> DEFINE e == j[2]
<1>1. e \in Target /\ BranchOf[e] \in Branch /\ {e} \subseteq Area
  BY TargetFacts DEF Job
<1>2. events' \in Nat
  BY DEF OpenUpdate, GateInv, GateTypeOK
<1>3. CASE SetHead(BranchOf[e], {}, {}, {}, {}, "none")
  BY <1>1, <1>2, <1>3, SetHeadStep
<1>4. CASE \E D \in SUBSET {e} : SetHead(BranchOf[e], {e}, {e}, D, {}, "open")
  BY <1>1, <1>2, <1>4, SetHeadStep
<1>5. QED BY <1>3, <1>4 DEF OpenUpdate

(* Any property of a step that each kind of step has, every step has. *)
LEMMA StepCases ==
    ASSUME NEW P,
           ChangeStep => P,
           \A e \in Target, c \in Combo : ArchiveMoves(e, c) => P,
           \A s \in Slot : Trigger(s) => P,
           \A j \in Job : EndJob(j) \/ OpenUpdate(j) => P,
           \A j \in Job, c \in Combo : ReadList(j, c) => P,
           \A e \in Target : MergeUpdate(e) => P,
           UNCHANGED vars => P
    PROVE  [Next]_vars => P
BY DEF Next

LEMMA GateInvStep == GateInv /\ [Next]_vars => GateInv'
<1> SUFFICES ASSUME GateInv PROVE [Next]_vars => GateInv'
  OBVIOUS
<1>1. ChangeStep => GateInv'
  BY ChangeStepGate
<1>2. \A e \in Target, c \in Combo : ArchiveMoves(e, c) => GateInv'
  BY GateKept DEF ArchiveMoves, Event, GateInv, GateTypeOK
<1>3. \A s \in Slot : Trigger(s) => GateInv'
  BY GateKept DEF Trigger, Event, GateInv, GateTypeOK
<1>4. \A j \in Job : EndJob(j) \/ OpenUpdate(j) => GateInv'
  BY GateKept, OpenUpdateGate DEF EndJob, GateInv, GateTypeOK
<1>5. \A j \in Job, c \in Combo : ReadList(j, c) => GateInv'
  BY GateKept DEF ReadList, GateInv, GateTypeOK
<1>6. \A e \in Target : MergeUpdate(e) => GateInv'
  BY MergeStep, TargetFacts DEF MergeUpdate
<1>7. UNCHANGED vars => GateInv'
  BY GateKept DEF vars, GateInv, GateTypeOK
<1>8. QED BY <1>1, <1>2, <1>3, <1>4, <1>5, <1>6, <1>7, StepCases

LEMMA LibraryInvStep == LibraryInv /\ [Next]_vars => LibraryInv'
<1> SUFFICES ASSUME LibraryInv PROVE [Next]_vars => LibraryInv'
  OBVIOUS
<1>1. ChangeStep => LibraryInv'
  BY LibraryKept DEF ChangeStep
<1>2. UNCHANGED vars => LibraryInv'
  BY LibraryKept DEF vars
<1>3. QED BY <1>1, <1>2, ArchiveStep, TriggerStep, EndJobStep, OpenUpdateStep, ReadStep,
             MergeUpdateStep, StepCases

(* Lists change by merges only. *)
LEMMA ListsStep ==
    LibraryInv /\ [Next]_vars =>
      \/ lists' = lists
      \/ \E e \in Target : MergeUpdate(e)
<1> SUFFICES ASSUME LibraryInv
             PROVE  [Next]_vars => lists' = lists \/ \E e \in Target : MergeUpdate(e)
  OBVIOUS
<1>1. ChangeStep => lists' = lists
  BY DEF ChangeStep, libraryVars
<1>2. UNCHANGED vars => lists' = lists
  BY DEF vars, libraryVars
<1>3. QED BY <1>1, <1>2 DEF Next, ArchiveMoves, Trigger, EndJob, OpenUpdate, ReadList

-----------------------------------------------------------------------------
(* The results that the head of a branch has are about this head, for any  *)
(* order of pushes, results and merges (bake.yml, pr-scope.yml).           *)
THEOREM GateInvariant == Spec => []GateInv
<1>1. Init => GateInv
  BY InitGateInv DEF Init
<1>2. QED BY <1>1, GateInvStep, PTL DEF Spec

(* However pushes are split over the two workflows that report under one   *)
(* name, what breaks an extension does not get through (pr-scope.yml),     *)
(* unless a dispatched run reported a gate on the same head.               *)
THEOREM GateIsSound == Spec => []GateSound
BY GateInvariant, GateLetsThrough, PTL

(* Renovate merges no version that looks like a prerelease, of any         *)
(* extension that is not exempt (bake.yml), with no dispatched run to help.*)
THEOREM ReleasesAreStable == Spec => []StableReleases
BY GateInvariant, GateLetsThrough, PTL

(* The one way in which a change of the SBOM generator gets past its       *)
(* checks, for any order of pushes and results (bake.yml, pr-scope.yml).   *)
THEOREM UnvettedOnlySkipped == Spec => []UnvettedIsSkipped
BY GateInvariant, UnvettedSkipped, PTL

(* What runs have read and branches carry is no older than what main had   *)
(* when they began (update_os_libraries.yml, UpdateOSLibs).                *)
THEOREM LibraryInvariant == Spec => []LibraryInv
BY InitLibraryInv, LibraryInvStep, PTL DEF Spec

(* For any number of overlapping runs, no list on main gets older.         *)
THEOREM ListsOnlyNewer == Spec => ListsNeverOlder
<1>1. LibraryInv /\ [Next]_vars =>
        [\A e \in Target, c \in Combo : lists'[e][c] >= lists[e][c]]_vars
  <2> SUFFICES ASSUME LibraryInv, [Next]_vars, NEW d \in Target, NEW c \in Combo
               PROVE  lists'[d][c] >= lists[d][c]
    OBVIOUS
  <2>1. lists[d] \in Lists
    BY DEF LibraryInv, LibraryTypeOK
  <2>2. CASE lists' = lists
    BY <2>1, <2>2 DEF Lists
  <2>3. ASSUME NEW e \in Target, MergeUpdate(e) PROVE lists'[d][c] >= lists[d][c]
    <3>1. Older(lists[d], lists'[d]) /\ lists'[d] \in Lists
      BY <2>1, <2>3, MergedLists DEF Older, Lists
    <3>2. QED BY <2>1, <3>1 DEF Older, Lists
  <2>4. QED BY <2>2, <2>3, ListsStep
<1>2. QED BY <1>1, LibraryInvariant, PTL DEF Spec, ListsNeverOlder

(* A merged update has brought every list of the build matrix up to when   *)
(* its run began (UpdateOSLibs: all combinations or none).                 *)
THEOREM UpdatesBringUp == Spec => UpdateBringsUp
<1>1. LibraryInv /\ [Next]_vars =>
        [\A e \in Target : MergeUpdate(e) =>
           \A c \in BuildMatrix(Tree[e]) : lists'[e][c] >= since[e][c]]_vars
  <2> SUFFICES ASSUME LibraryInv, NEW e \in Target, MergeUpdate(e),
                      NEW c \in BuildMatrix(Tree[e])
               PROVE  lists'[e][c] >= since[e][c]
    OBVIOUS
  <2>1. c \in Combo
    BY TargetFacts
  <2>2. Older(to[e], lists'[e]) /\ lists'[e] \in Lists
    BY MergedLists
  <2>3. to[e][c] >= since[e][c] /\ to[e] \in Lists /\ since[e] \in Lists
    BY DEF LibraryInv, LibraryTypeOK, BranchesDone
  <2>4. QED BY <2>1, <2>2, <2>3 DEF Older, Lists
<1>2. QED BY <1>1, LibraryInvariant, PTL DEF Spec, UpdateBringsUp
=============================================================================
