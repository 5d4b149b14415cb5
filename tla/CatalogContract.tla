-------------------------- MODULE CatalogContract --------------------------
(***************************************************************************)
(* What the catalogs workflow promises to a user of the artifacts          *)
(* repository, however many runs overlap, fail, wait or are run again: the *)
(* files change as if one run at a time had generated them, on its own and *)
(* in one step.  A publication replaces the files of all catalogs that     *)
(* upstream has in one revision, and only those.  They are of one commit   *)
(* of main and list what it maintains, each extension with an image of its *)
(* version that is in production, and not with an older one than before.   *)
(***************************************************************************)
EXTENDS Naturals

CONSTANTS Catalog,   \* the catalogs
          Ext,       \* the extensions
          NoVersion, \* for an extension a catalog's distribution lacks
          Source,    \* Source[k][c][e]: the version commit k maintains
          Base,      \* Base[u]: the catalogs of upstream revision u
          MaxMinute, \* the last minute
          NoFile     \* a file that does not exist

VARIABLES head,       \* the commit main is at
          upstream,   \* the revision the upstream catalogs are at
          production, \* the timestamped tags of the production repositories
          file        \* file[c]: the published file of catalog c

vars == <<head, upstream, production, file>>

InProduction(c, e, v, m) ==
    [catalog |-> c, ext |-> e, version |-> v, minute |-> m] \in production

(* What catalog c lists according to commit k, 0 for what it does not. *)
Maintained(k, c, image) ==
    \A e \in Ext : LET v == Source[k][c][e] IN
      IF v = NoVersion THEN image[e] = 0
      ELSE image[e] # 0 /\ InProduction(c, e, v, image[e])

NotOlder(k, c, image) ==
    \A e \in Ext : Source[file[c].commit][c][e] = Source[k][c][e] =>
      file[c].image[e] <= image[e]

Init == /\ head = 0 /\ upstream = 0 /\ production = {}
        /\ file = [c \in Catalog |-> NoFile]

(* Main and upstream move on, and images come to production. *)
World == /\ head' >= head /\ upstream' >= upstream
         /\ production \subseteq production'
         /\ UNCHANGED file

Publish ==
    /\ \E k \in 0..head, u \in 0..upstream, image \in [Catalog -> [Ext -> 0..MaxMinute]] :
         /\ \E c \in Catalog, e \in Ext : Source[k][c][e] # NoVersion
         /\ \A c \in Base[u] : /\ Maintained(k, c, image[c])
                               /\ file[c] # NoFile => NotOlder(k, c, image[c])
         /\ file' = [c \in Catalog |->
                       IF c \in Base[u]
                       THEN [commit |-> k, base |-> u, image |-> image[c]]
                       ELSE file[c]]
    /\ UNCHANGED <<head, upstream, production>>

Next == World \/ Publish

Spec == Init /\ [][Next]_vars
=============================================================================
