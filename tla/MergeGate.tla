----------------------------- MODULE MergeGate -----------------------------
(***************************************************************************)
(* How a change reaches main: pull requests, the workflows that a push to  *)
(* their branch triggers (bake.yml, sbom-generator.yml, pr-scope.yml), and *)
(* the branch protection, for which either of two workflows may report     *)
(* under the one name `Automerge gate'.                                    *)
(*                                                                         *)
(* Of the content of a branch the model knows in which areas it differs    *)
(* from main and whether the checks of an area would fail on it.           *)
(***************************************************************************)
EXTENDS Naturals, FiniteSets

CONSTANTS
    Extension, \* directories with metadata
    Shared,    \* docker-bake.hcl, scripts, test, dagger/maintenance, ...
    Sbom,      \* sbom-generator and its workflow
    Neutral,   \* documentation and other files that no workflow is about
    Elsewhere, \* every other file
    Branch,
    Renovate,  \* the branches under refs/heads/renovate/
    Exempt,    \* extensions whose final releases look like prereleases
    MaxTouched, \* areas that one push touches
    MaxEvent   \* pushes, and what else moves the system

Area == Extension \cup {Shared, Sbom, Neutral, Elsewhere}

ASSUME AreaAssumption ==
    /\ Extension \cap {Shared, Sbom, Neutral, Elsewhere} = {}
    /\ Shared \notin {Sbom, Neutral}
ASSUME BranchAssumption == Renovate \subseteq Branch /\ Exempt \subseteq Extension
ASSUME BoundAssumption == MaxTouched \in Nat /\ MaxEvent \in Nat

VARIABLES
    change,  \* change[b]: the areas in which branch b differs from main
    defect,  \* defect[b]: those of them that fail their checks
    preview, \* preview[b]: the extensions b moves to a prerelease
    pull,    \* pull[b]: the pull request of b
    check,   \* check[b]: the results that the head of b has
    events   \* how often something has moved

gateVars == <<change, defect, preview, pull, check>>

Check == {"bake", "sbom", "scope", "dispatch"}
Gate == {"bake", "sbom", "dispatch"}

Unchecked == [k \in Check |-> "none"]

GateInit == /\ change = [b \in Branch |-> {}]
            /\ defect = [b \in Branch |-> {}]
            /\ preview = [b \in Branch |-> {}]
            /\ pull = [b \in Branch |-> "none"]
            /\ check = [b \in Branch |-> Unchecked]
            /\ events = 0

Event == events < MaxEvent /\ events' = events + 1

-----------------------------------------------------------------------------
(* Triggers.  A push is filtered by its own files, a pull request by the   *)
(* files of the whole request.                                             *)

(* paths-ignore of bake.yml *)
BakeIgnores == {Neutral, Sbom}

BakeTriggered(A) == IF A \subseteq BakeIgnores THEN "none" ELSE "running"
SbomTriggered(C) == IF Sbom \in C THEN "running" ELSE "none"

(* A fault: results are kept for the next head. *)
KeepChecks(b, A, C, open) ==
    [check[b] EXCEPT !["bake"] = IF @ = "none" THEN BakeTriggered(A) ELSE @,
                     !["sbom"] = IF open /\ @ = "none" THEN SbomTriggered(C) ELSE @,
                     !["scope"] = IF open /\ @ = "none" THEN "running" ELSE @]

(* The checks of a new head of b, of which a push has touched areas A and  *)
(* which differs from main in areas C.                                     *)
HeadChecks(b, A, C, open) ==
    [k \in Check |->
       CASE k = "bake" -> BakeTriggered(A)
         [] k = "sbom" -> IF open THEN SbomTriggered(C) ELSE "none"
         [] k = "scope" -> IF open THEN "running" ELSE "none"
         [] k = "dispatch" -> "none"]

(* Branch b gets a head that differs from main in areas C. *)
SetHead(b, A, C, D, P, state) ==
    /\ change' = [change EXCEPT ![b] = C]
    /\ defect' = [defect EXCEPT ![b] = D]
    /\ preview' = [preview EXCEPT ![b] = P]
    /\ pull' = [pull EXCEPT ![b] = state]
    /\ check' = [check EXCEPT ![b] = HeadChecks(b, A, C, state = "open")]

(* Commits, a revert, or a rebase, which touches areas without changing    *)
(* them with respect to main.                                              *)
Push(b) ==
    /\ pull[b] # "merged" /\ Event
    /\ \E A \in SUBSET Area : /\ A # {} /\ Cardinality(A) <= MaxTouched
         /\ \E C, D, P \in SUBSET A :
              /\ D \subseteq C \ {Neutral, Elsewhere} /\ P \subseteq C \cap Extension
              /\ SetHead(b, A, (change[b] \ A) \cup C, (defect[b] \ A) \cup D,
                         (preview[b] \ A) \cup P, pull[b])

(* The pull request is opened, for the head as it is. *)
Open(b) ==
    /\ pull[b] = "none" /\ change[b] # {}
    /\ pull' = [pull EXCEPT ![b] = "open"]
    /\ check' = [check EXCEPT ![b]["sbom"] = SbomTriggered(change[b]),
                              ![b]["scope"] = "running"]
    /\ UNCHANGED <<change, defect, preview, events>>

(* bake.yml or sbom-generator.yml is dispatched on the branch. *)
Dispatch(b) ==
    /\ change[b] # {} /\ pull[b] # "merged" /\ check[b]["dispatch"] = "none"
    /\ Event
    /\ check' = [check EXCEPT ![b]["dispatch"] = "running"]
    /\ UNCHANGED <<change, defect, preview, pull>>

-----------------------------------------------------------------------------
(* Results *)

(* change-triage: what the branch changes with respect to main decides.    *)
Matrix(b) == IF Shared \in change[b] THEN Extension ELSE change[b] \cap Extension

(* There is an extension, and every leg of Bake succeeds; without a leg it *)
(* is skipped.                                                             *)
Bakes(b) == /\ Extension # {}
            /\ Matrix(b) # {} => (Matrix(b) \cup {Shared}) \cap defect[b] = {}

(* A fault: the version numbers are not looked at. *)
AnyVersion(b) == TRUE

(* Check Renovate versions for prereleases *)
Stable(b) == b \in Renovate => preview[b] \subseteq Exempt

(* A fault: files that all extensions share belong to no extension.        *)
NoDirectory(b) == Sbom \in change[b] => change[b] \cap Extension = {}

(* Reject mixed SBOM and extension PRs *)
InScope(b) == Sbom \in change[b] => change[b] \subseteq {Sbom, Neutral}

MayPass(b, k) == CASE k = "bake" -> Bakes(b) /\ Stable(b)
                   [] k = "sbom" -> Sbom \notin defect[b]
                   [] k = "scope" -> InScope(b)
                   [] k = "dispatch" -> TRUE

(* A run ends.  It may fail for reasons that are not in the change; what a *)
(* dispatched run says is about the one target it was given.  What ends    *)
(* after the merge is of no consequence.                                   *)
EndCheck(b, k) ==
    /\ check[b][k] = "running" /\ pull[b] # "merged"
    /\ \E result \in {"success", "failure"} :
         /\ result = "success" => MayPass(b, k)
         /\ check' = [check EXCEPT ![b][k] = result]
    /\ UNCHANGED <<change, defect, preview, pull, events>>

(* Failed jobs are run again. *)
Rerun(b, k) ==
    /\ check[b][k] = "failure" /\ pull[b] # "merged"
    /\ check' = [check EXCEPT ![b][k] = "running"]
    /\ UNCHANGED <<change, defect, preview, pull, events>>

(* What protects main.  A gate that waits for its jobs is not there yet.   *)
Mergeable(b) ==
    /\ pull[b] = "open" /\ change[b] # {}
    /\ check[b]["scope"] = "success"
    /\ \E k \in Gate : check[b][k] = "success"
    /\ \A k \in Gate : check[b][k] # "failure"

(* By hand or by auto-merge, squashed. *)
Merge(b) ==
    /\ Mergeable(b)
    /\ pull' = [pull EXCEPT ![b] = "merged"]
    /\ UNCHANGED <<change, defect, preview, check, events>>

-----------------------------------------------------------------------------
(* Merges that no dispatched run has helped: its result has the name of    *)
(* the gate too, whatever it was about.                                    *)
Merged == {b \in Branch : pull[b] = "merged" /\ check[b]["dispatch"] # "success"}

(* GateSound: no change is merged of which its own checks would have shown *)
(* that it breaks an extension: not by a push that only one of the two     *)
(* workflows sees, not with results of an earlier head, and not with the   *)
(* green gate of the SBOM generator (bake.yml change-triage and            *)
(* automerge-gate, pr-scope.yml).                                          *)
GateSound == \A b \in Merged : defect[b] \cap (Extension \cup {Shared}) = {}

(* StableReleases: nor does Renovate merge a version that looks like a     *)
(* prerelease, of any extension but those whose releases look like one     *)
(* (Check Renovate versions for prereleases).                              *)
StableReleases == \A b \in Merged \cap Renovate : preview[b] \subseteq Exempt

(* SbomVetted (renovate.json:269, "Automerge non-major SBOM generator      *)
(* updates after all checks pass on the current base"; pr-scope.yml:3,     *)
(* "Reject PRs that trigger both workflows to avoid ambiguous same-name    *)
(* check results"): a change of the SBOM generator is merged after the     *)
(* checks of the SBOM generator.                                           *)
SbomVetted == \A b \in Merged : Sbom \in change[b] => check[b]["sbom"] = "success"

(* UnvettedIsSkipped: what SbomVetted misses comes through in one way      *)
(* only: the change is of the generator and documentation alone, and       *)
(* bake.yml, triggered by some push, had no extension to build and was     *)
(* green without a leg.  No extension is involved.                         *)
UnvettedIsSkipped ==
    \A b \in Merged : Sbom \in change[b] /\ check[b]["sbom"] # "success" =>
      /\ change[b] \subseteq {Sbom, Neutral}
      /\ check[b]["bake"] = "success" /\ Matrix(b) = {}

-----------------------------------------------------------------------------
GateTypeOK ==
    /\ change \in [Branch -> SUBSET Area]
    /\ defect \in [Branch -> SUBSET Area] /\ preview \in [Branch -> SUBSET Extension]
    /\ pull \in [Branch -> {"none", "open", "merged"}]
    /\ check \in [Branch -> [Check -> {"none", "running", "success", "failure"}]]
    /\ events \in Nat

(* The results of a head are about this head. *)
ResultsOfHead ==
    \A b \in Branch :
      /\ defect[b] \subseteq change[b] /\ preview[b] \subseteq change[b]
      /\ check[b]["sbom"] # "none" => Sbom \in change[b]
      /\ \A k \in {"bake", "scope"} : check[b][k] = "success" => MayPass(b, k)

(* What is merged had a green gate and was in scope. *)
MergedGreen ==
    \A b \in Branch : pull[b] = "merged" =>
      /\ check[b]["scope"] = "success"
      /\ \E k \in Gate : check[b][k] = "success"

GateInv == GateTypeOK /\ ResultsOfHead /\ MergedGreen
=============================================================================
