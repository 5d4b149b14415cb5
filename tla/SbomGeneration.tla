--------------------------- MODULE SbomGeneration ---------------------------
(***************************************************************************)
(* One run of the SBOM generator (generate of sbom-generator/generator.py),*)
(* as a BuildKit scanner of one image for one platform: check the mounts,  *)
(* scan the builder, take the inventory of the payload, compose, let an    *)
(* optional hook amend the document, name it by its content, validate it   *)
(* and write it.  Any step may raise an error, which ends the run.         *)
(*                                                                         *)
(* What the scanner comes up with, what the hook does and what the         *)
(* validator rejects is not the generator's code.                          *)
(***************************************************************************)
EXTENDS SpdxComposition

CONSTANTS Builders, \* the documents the scanner may come up with
          Payloads  \* the payloads an image may have

ASSUME BuilderAssumption == \A b \in Builders : BuilderDocument(b)
ASSUME PayloadAssumption == \A f \in Payloads : Payload(f)

VARIABLES
    builder,    \* the document of the scanner
    payload,    \* the files of the final image
    step,       \* the next thing the generator does
    document,   \* the document it has composed so far
    namespace,  \* the content the document's namespace was computed from
    destination \* what is in the output directory

vars == <<builder, payload, step, document, namespace, destination>>

Step == {"start", "scan", "inventory", "compose", "augment", "name", "validate",
         "open", "write", "done", "failed"}
NoDocument == [packages |-> {}, files |-> {}, relationships |-> {}]

Init == /\ builder \in Builders
        /\ payload \in Payloads
        /\ step = "start"
        /\ document = NoDocument
        /\ namespace = NoDocument
        /\ destination \in {"empty", "occupied"}

Advance(from, to) == step = from /\ step' = to

(* A fault for the checks to find: the output directory is not looked at. *)
StartAnyway == /\ Advance("start", "scan")
               /\ UNCHANGED <<builder, payload, document, namespace, destination>>

(* The mounts are there and the output directory is empty. *)
Start == /\ Advance("start", "scan") /\ destination = "empty"
         /\ UNCHANGED <<builder, payload, document, namespace, destination>>

(* The scanner has succeeded, and the platform is known from the           *)
(* environment or from the builder's packages.                             *)
ScanBuilder == /\ Advance("scan", "inventory")
               /\ UNCHANGED <<builder, payload, document, namespace, destination>>

(* A fault: an image without files is as good as any. *)
TakeAnything == /\ Advance("inventory", "compose")
                /\ UNCHANGED <<builder, payload, document, namespace, destination>>

(* final_inventory: an image without files is an error. *)
TakeInventory == /\ Advance("inventory", "compose") /\ DOMAIN payload # {}
                 /\ UNCHANGED <<builder, payload, document, namespace, destination>>

Compose == /\ Advance("compose", "augment")
           /\ document' = Composed(builder, payload)
           /\ UNCHANGED <<builder, payload, namespace, destination>>

(* run_augmentation_hook: there is no hook, or it adds a package, a        *)
(* relationship to it, or both.                                            *)
Augment == /\ Advance("augment", "name")
           /\ \E p \in Package :
              \E P \in SUBSET {p}, R \in SUBSET {<<DocumentId, "DESCRIBES", p>>} :
                document' = [document EXCEPT !.packages = @ \cup P,
                                             !.relationships = @ \cup R]
           /\ UNCHANGED <<builder, payload, namespace, destination>>

(* set_document_namespace *)
SetNamespace == /\ Advance("name", "validate")
                /\ namespace' = document
                /\ UNCHANGED <<builder, payload, document, destination>>

(* Every relationship of a document is between things it lists. *)
Closed(d) ==
    \A r \in d.relationships : {r[1], r[3]} \subseteq d.packages \cup d.files \cup {DocumentId}

(* A fault: the findings are not looked at. *)
ValidateAnything == /\ Advance("validate", "open")
                    /\ UNCHANGED <<builder, payload, document, namespace, destination>>

(* validate_spdx_document has no findings. *)
Validate == /\ Advance("validate", "open") /\ Closed(document)
            /\ UNCHANGED <<builder, payload, document, namespace, destination>>

(* The file is there from when it is opened, and whole when it is closed.  *)
OpenOutput == /\ Advance("open", "write")
              /\ destination' = "partial"
              /\ UNCHANGED <<builder, payload, document, namespace>>

WriteStatement == /\ Advance("write", "done")
                  /\ destination' = "statement"
                  /\ UNCHANGED <<builder, payload, document, namespace>>

(* A mount is missing, the scanner, the hook or the disk fails, the        *)
(* platform is not known, the validator has findings.                      *)
Fail == /\ step \notin {"done", "failed"}
        /\ step' = "failed"
        /\ UNCHANGED <<builder, payload, document, namespace, destination>>

Next == \/ Start \/ ScanBuilder \/ TakeInventory \/ Compose \/ Augment
        \/ SetNamespace \/ Validate \/ OpenOutput \/ WriteStatement \/ Fail

Spec == Init /\ [][Next]_vars
-----------------------------------------------------------------------------
(* TypeOK: every variable has its type; in particular a document relates   *)
(* nothing but packages, shipped files and itself.                         *)
TypeOK == /\ BuilderDocument(builder)
          /\ Payload(payload)
          /\ step \in Step
          /\ \A d \in {document, namespace} :
               /\ d.packages \subseteq Package
               /\ d.files \subseteq PayloadFile
               /\ d.relationships \subseteq Element \X RelationshipType \X Element
          /\ destination \in {"empty", "occupied", "partial", "statement"}

(* The document is as compose returned it. *)
JustComposed == step = "augment"

Claims(p, x) == <<p, "CONTAINS", x>> \in document.relationships

(* DocumentClosed: whatever compose drops, splits and renames, no          *)
(* relationship is left with an end that is not in the document            *)
(* (compose.py:146-168).                                                   *)
DocumentClosed == JustComposed => Closed(document)

(* PackagesShip: every package in the document claims a file that was      *)
(* shipped; none is kept for builder files alone (compose.py:140-144).     *)
PackagesShip ==
    JustComposed => \A p \in document.packages : \E x \in document.files : Claims(p, x)

(* ClaimJustified: a package claims a shipped file only if it owned a file *)
(* of that content whose path fits strictly better than that of any other  *)
(* package's file elsewhere; "ambiguous matches stay unclaimed"            *)
(* (sbom-generator/REVIEWER-GUIDE.md:17).                                  *)
ClaimJustified ==
    JustComposed => \A p \in Package, n \in DOMAIN payload : Claims(p, <<n, payload[n]>>) =>
      \E s \in Candidates(builder, payload[n]) :
        /\ p \in Owners(builder, s)
        /\ \A r \in Candidates(builder, payload[n]) :
             Owners(builder, r) # {} /\ Name(builder, r) # Name(builder, s) =>
               \/ Name(builder, s) = n
               \/ SharedSuffix(Name(builder, r), n) < SharedSuffix(Name(builder, s), n)

(* ExactPathWins: a file that was shipped under the path it had in the     *)
(* builder belongs to the packages that own it there, whatever copies of   *)
(* it there are elsewhere ("Prefer an exact path", compose.py:19).         *)
ExactPathWins ==
    JustComposed => \A n \in DOMAIN payload :
      LET Exact == {s \in Candidates(builder, payload[n]) :
                      Name(builder, s) = n /\ Owners(builder, s) # {}}
      IN  Exact # {} => {p \in Package : Claims(p, <<n, payload[n]>>)}
                          = UNION {Owners(builder, s) : s \in Exact}

(* UnclaimedAmbiguous: the other way round, a shipped file of which some   *)
(* package owned a copy goes unclaimed only if two owned copies with       *)
(* different names fit it equally well, better than all others and neither *)
(* of them exactly; no file is lost to the ranking itself (path_score,     *)
(* select_sources).                                                        *)
UnclaimedAmbiguous ==
    JustComposed => \A n \in DOMAIN payload :
      LET Owned == {s \in Candidates(builder, payload[n]) : Owners(builder, s) # {}}
          Fit(s) == SharedSuffix(Name(builder, s), n)
      IN  Owned # {} /\ (\A p \in Package : ~ Claims(p, <<n, payload[n]>>)) =>
            \E r, s \in Owned : /\ Name(builder, r) # Name(builder, s)
                                /\ n \notin {Name(builder, r), Name(builder, s)}
                                /\ Fit(r) = Fit(s)
                                /\ \A t \in Owned : Fit(t) <= Fit(s)

(* PayloadDescribed: the document describes something, and every package   *)
(* it lists, also when no package owns the payload (compose.py:207-215).   *)
PayloadDescribed ==
    JustComposed =>
      LET Roots == {x \in Element : <<DocumentId, "DESCRIBES", x>> \in document.relationships}
      IN  Roots # {} /\ document.packages \subseteq Roots

(* StatementSound: a statement that is written whole is closed, lists the  *)
(* payload, and is named by all of its content, what a hook added included *)
(* (generator.py:243-253).                                                 *)
StatementSound ==
    destination = "statement" => /\ Closed(document)
                                 /\ document.files = ComposedFiles(payload)
                                 /\ namespace = document

(* OccupiedUntouched: a run never writes into a directory that was not     *)
(* empty when it started (generator.py:223).                               *)
OccupiedUntouched == [][destination = "occupied" => UNCHANGED destination]_vars
-----------------------------------------------------------------------------
(* The inductive invariant behind the safety properties. *)

(* How far a run is, as sets of steps. *)
Composing == {"compose", "augment", "name", "validate", "open", "write", "done"}
Amending == Composing \ {"compose"}
Named == {"validate", "open", "write", "done"}
Validated == Named \ {"validate"}

(* What a step has established when the run has got past it. *)
StepsTaken ==
    /\ step \in Composing => DOMAIN payload # {}
    /\ step = "augment" => document = Composed(builder, payload)
    /\ step \in Amending => document.files = ComposedFiles(payload)
    /\ step \in Named => namespace = document
    /\ step \in Validated => Closed(document)
    /\ destination = "statement" => step = "done"
    /\ destination = "occupied" => step \in {"start", "failed"}

(* SbomInv: TypeOK and what has been established so far; every step        *)
(* preserves it.                                                           *)
SbomInv == TypeOK /\ StepsTaken
=============================================================================
