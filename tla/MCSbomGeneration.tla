-------------------------- MODULE MCSbomGeneration --------------------------
(***************************************************************************)
(* Scanner documents of two packages and three files, two of them at paths *)
(* that end alike, and payloads of up to two files.                        *)
(***************************************************************************)
EXTENDS SbomGeneration

CONSTANTS p1, p2, s1, s2, s3, h1, h2

Lib == <<"lib", "ext.so">>
UsrLib == <<"usr", "lib", "ext.so">>
Share == <<"share", "ext.so">>
Paths == {Lib, UsrLib, Share}

(* The second package depends on the first, which is the root of the scan. *)
Scan(eligible, name, content, owner) ==
    [packages |-> Package, eligible |-> eligible,
     files |-> [s \in FileId |-> <<name[s], content[s]>>],
     relationships |-> UNION {owner[s] \X {"CONTAINS"} \X {s} : s \in FileId} \cup
       {<<p1, "DEPENDENCY_OF", p2>>, <<DocumentId, "DESCRIBES", p1>>}]

(* The first file is in /usr/lib, the first two have one content, and the  *)
(* files of the second package may not have been analysed.                 *)
Scans ==
    {Scan(eligible, name, content, owner) :
       eligible \in {Package, {p1}},
       name \in {m \in [FileId -> Paths] : m[s1] = UsrLib},
       content \in {k \in [FileId -> Hash] : k[s1] = h1 /\ k[s2] = h1},
       owner \in [FileId -> SUBSET Package]}

(* Payloads with or without a file of each of two names. *)
Contents == UNION {[N -> Hash] : N \in SUBSET {Lib, Share}}
=============================================================================
