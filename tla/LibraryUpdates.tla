-------------------------- MODULE LibraryUpdates ---------------------------
(***************************************************************************)
(* The lists of the libraries an extension needs from the operating system *)
(* (<extension>/system-libs), and the workflow that keeps them up to date: *)
(* update_os_libraries.yml calls GetOSLibsTargets, then, for each target,  *)
(* UpdateOSLibs of dagger/maintenance, and opens a pull request, which the *)
(* merge gate lets into main.                                              *)
(*                                                                         *)
(* A list is known by the state of the archive it was made from, a number: *)
(* the archive moves forward.  No list is 0.                               *)
(***************************************************************************)
EXTENDS MergeGate, ExtensionMetadata

CONSTANTS Tree,     \* the metadata on main
          BranchOf, \* the branch of each extension's updates
          Slot      \* runs of the workflow that may overlap

Target == UNION OSLibsTargets(Tree)
Job == Slot \X Target
Lists == [Combo -> Nat]
NoLists == [c \in Combo |-> 0]

UpdateBranches == {BranchOf[e] : e \in Target}

ASSUME TreeAssumption ==
    /\ DOMAIN Tree = Name /\ Extension = ExtensionDirectories(Tree)
    /\ \A d \in Name : Tree[d] \in Unreadable \/ IsMetadata(Tree[d])
ASSUME BranchOfAssumption ==
    /\ BranchOf \in [Target -> Branch \ Renovate]
    /\ \A d, e \in Target : BranchOf[d] = BranchOf[e] => d = e

VARIABLES
    archive, \* archive[e][c]: what the archive has for extension and combination
    lists,   \* lists[e][c]: the list on main
    job,     \* job[<<s, e>>]: what the job for e in run s does
    todo,    \* the combinations it has not come to
    base,    \* the lists of the commit it has checked out
    got,     \* the lists in its working tree
    from,    \* from[e]: the lists that the branch of e started from
    to,      \* to[e]: the lists in the branch
    asof,    \* history: the archive when the run was triggered
    since    \* history: the same, of the run that wrote the branch

jobVars == <<job, todo, base, got, asof>>
branchVars == <<from, to, since>>
libraryVars == <<archive, lists, jobVars, branchVars>>
vars == <<gateVars, events, libraryVars>>

Init == /\ GateInit
        /\ archive = [e \in Target |-> [c \in Combo |-> 1]]
        /\ lists = [e \in Target |-> NoLists]
        /\ job = [j \in Job |-> "none"]
        /\ todo = [j \in Job |-> {}]
        /\ base = [j \in Job |-> NoLists] /\ got = base /\ asof = base
        /\ from = [e \in Target |-> NoLists] /\ to = from /\ since = from

(* Debian updates a library. *)
ArchiveMoves(e, c) ==
    /\ Event
    /\ archive' = [archive EXCEPT ![e][c] = @ + 1]
    /\ UNCHANGED <<gateVars, lists, jobVars, branchVars>>

-----------------------------------------------------------------------------
(* update_os_libraries.yml *)

(* The schedule or a maintainer.  All jobs of a run work on the commit that *)
(* main had then.                                                          *)
Trigger(s) ==
    /\ \A e \in Target : job[<<s, e>>] = "none"
    /\ Event
    /\ job' = [j \in Job |-> IF j[1] = s THEN "reading" ELSE job[j]]
    /\ todo' = [j \in Job |-> IF j[1] = s THEN BuildMatrix(Tree[j[2]]) ELSE todo[j]]
    /\ base' = [j \in Job |-> IF j[1] = s THEN lists[j[2]] ELSE base[j]]
    /\ got' = [j \in Job |-> IF j[1] = s THEN lists[j[2]] ELSE got[j]]
    /\ asof' = [j \in Job |-> IF j[1] = s THEN archive[j[2]] ELSE asof[j]]
    /\ UNCHANGED <<gateVars, archive, lists, branchVars>>

(* updateOSLibsOnTarget: the list of one combination, in whatever order.   *)
ReadList(j, c) ==
    /\ job[j] = "reading" /\ c \in todo[j]
    /\ got' = [got EXCEPT ![j][c] = archive[j[2]][c]]
    /\ todo' = [todo EXCEPT ![j] = @ \ {c}]
    /\ UNCHANGED <<gateVars, events, archive, lists, job, base, asof, branchVars>>

JobOver(j) == /\ job' = [job EXCEPT ![j] = "none"]
              /\ todo' = [todo EXCEPT ![j] = {}]
              /\ base' = [base EXCEPT ![j] = NoLists]
              /\ got' = [got EXCEPT ![j] = NoLists]
              /\ asof' = [asof EXCEPT ![j] = NoLists]

(* apt-get fails, or finds no library: nothing is exported.  Or the branch *)
(* has these lists already.                                                *)
EndJob(j) ==
    /\ job[j] = "reading"
    /\ JobOver(j)
    /\ UNCHANGED <<gateVars, events, archive, lists, branchVars>>

(* A fault: the lists read so far are exported.                            *)
UpdateEarly(j) ==
    LET e == j[2] IN
    /\ job[j] = "reading" /\ got[j] # base[j]
    /\ JobOver(j)
    /\ from' = [from EXCEPT ![e] = base[j]]
    /\ to' = [to EXCEPT ![e] = got[j]]
    /\ since' = [since EXCEPT ![e] = asof[j]]
    /\ SetHead(BranchOf[e], {e}, {e}, {}, {}, "open")
    /\ UNCHANGED <<events, archive, lists>>

(* A fault: the branch is made from what main has by now.                  *)
UpdateOnMain(j) ==
    LET e == j[2] IN
    /\ job[j] = "reading" /\ todo[j] = {} /\ got[j] # lists[e]
    /\ JobOver(j)
    /\ from' = [from EXCEPT ![e] = lists[e]]
    /\ to' = [to EXCEPT ![e] = got[j]]
    /\ since' = [since EXCEPT ![e] = asof[j]]
    /\ SetHead(BranchOf[e], {e}, {e}, {}, {}, "open")
    /\ UNCHANGED <<events, archive, lists>>

(* The branch of the extension is reset to the commit the job works on and *)
(* the lists it has made, whatever was there; its pull request is opened,  *)
(* with auto-merge.  Without a difference nothing is left of either.       *)
OpenUpdate(j) ==
    LET e == j[2] IN
    /\ job[j] = "reading" /\ todo[j] = {}
    /\ JobOver(j)
    /\ from' = [from EXCEPT ![e] = base[j]]
    /\ to' = [to EXCEPT ![e] = got[j]]
    /\ since' = [since EXCEPT ![e] = asof[j]]
    /\ \/ got[j] = base[j] /\ SetHead(BranchOf[e], {}, {}, {}, {}, "none")
       \/ /\ got[j] # base[j]
          /\ \E D \in SUBSET {e} : SetHead(BranchOf[e], {e}, {e}, D, {}, "open")
    /\ UNCHANGED <<events, archive, lists>>

-----------------------------------------------------------------------------
(* Merging: file by file, by three ways. *)

Conflict(e) == \E c \in Combo : /\ to[e][c] # from[e][c]
                               /\ lists[e][c] \notin {from[e][c], to[e][c]}

MergeUpdate(e) ==
    /\ ~ Conflict(e)
    /\ Merge(BranchOf[e])
    /\ lists' = [lists EXCEPT ![e] =
                   [c \in Combo |-> IF to[e][c] = from[e][c] THEN lists[e][c] ELSE to[e][c]]]
    /\ UNCHANGED <<archive, jobVars, branchVars>>

(* What people and Renovate do leaves the lists alone. *)
ChangeStep == /\ \/ \E b \in Branch \ UpdateBranches : Push(b) \/ Open(b) \/ Merge(b)
                 \/ \E b \in Branch : Dispatch(b)
                 \/ \E b \in Branch, k \in Check : EndCheck(b, k) \/ Rerun(b, k)
              /\ UNCHANGED libraryVars

Next == \/ ChangeStep
        \/ \E e \in Target, c \in Combo : ArchiveMoves(e, c)
        \/ \E s \in Slot : Trigger(s)
        \/ \E j \in Job : \/ EndJob(j) \/ OpenUpdate(j)
                          \/ \E c \in Combo : ReadList(j, c)
        \/ \E e \in Target : MergeUpdate(e)

Spec == Init /\ [][Next]_vars

-----------------------------------------------------------------------------
(* ListsNeverOlder: however runs overlap, reset the branch under a waiting *)
(* pull request, and merge, no list on main is replaced by an older one    *)
(* (update_os_libraries.yml, UpdateOSLibs).                                *)
ListsNeverOlder ==
    [][\A e \in Target, c \in Combo : lists'[e][c] >= lists[e][c]]_vars

(* UpdateBringsUp: after an update has been merged, each list of the       *)
(* extension is at least as new as the archive was when the run began,     *)
(* also the lists that the update has left alone (UpdateOSLibs: all        *)
(* combinations of the build matrix or none).                              *)
UpdateBringsUp ==
    [][\A e \in Target : MergeUpdate(e) =>
         \A c \in BuildMatrix(Tree[e]) : lists'[e][c] >= since[e][c]]_vars

-----------------------------------------------------------------------------
Older(l, m) == \A c \in Combo : l[c] <= m[c]

LibraryTypeOK ==
    /\ archive \in [Target -> Lists] /\ lists \in [Target -> Lists]
    /\ job \in [Job -> {"none", "reading"}] /\ todo \in [Job -> SUBSET Combo]
    /\ {base, got, asof} \subseteq [Job -> Lists]
    /\ {from, to, since} \subseteq [Target -> Lists]

(* What a job has: lists of its commit, which main has not gone back       *)
(* behind, and for the combinations it has come to, newer ones.            *)
JobsDone ==
    \A j \in Job : job[j] = "reading" =>
      /\ Older(base[j], lists[j[2]]) /\ Older(base[j], got[j])
      /\ Older(got[j], archive[j[2]]) /\ Older(asof[j], archive[j[2]])
      /\ \A c \in BuildMatrix(Tree[j[2]]) \ todo[j] : got[j][c] >= asof[j][c]

BranchesDone ==
    \A e \in Target :
      /\ Older(lists[e], archive[e])
      /\ Older(from[e], lists[e]) /\ Older(from[e], to[e]) /\ Older(to[e], archive[e])
      /\ \A c \in BuildMatrix(Tree[e]) : to[e][c] >= since[e][c]

(* LibraryInv: every step preserves it, together with the invariant of the *)
(* gate.                                                                   *)
LibraryInv == LibraryTypeOK /\ JobsDone /\ BranchesDone
=============================================================================
