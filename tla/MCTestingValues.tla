-------------------------- MODULE MCTestingValues --------------------------
(***************************************************************************)
(* An extension that requires others, with a version in front of which     *)
(* there is an epoch on one of two distributions, and an image of the      *)
(* caller's whose tag moves from one distribution to the other.  Siblings  *)
(* have images in upstream's repositories; bakes push to those of a fork   *)
(* whose name has capitals, and to a local registry.  The image of one     *)
(* extension has capitals, too.                                            *)
(***************************************************************************)
EXTENDS TestingValues

CONSTANTS postgis, mobility, Mobility, plpgsql, upstream, fork, Fork, local, trixie, bookworm, pg18,
          pgTrixie, pgBookworm, s1, s2

Plain == <<"1", ".", "2", "-">>
Epoch == <<"1", ":", "2", "-">>
Letter == <<"1", ".", "2", ".", "-">>

T == <<trixie, pg18>>
B == <<bookworm, pg18>>

Metadata(name, create, required, versions) ==
    [name |-> name, sqlName |-> name, image |-> name, create |-> create,
     autoUpdate |-> FALSE, required |-> required, versions |-> versions]

Sibling(n) == [kind |-> "sibling", name |-> n]
OfBase(n) == [kind |-> "base-image", name |-> n]

Both(p, q) == [c \in {T, B} |-> IF c = T THEN p ELSE q]
OnlyB(p) == [c \in {B} |-> p]

Tree(required, other, third) ==
    [d \in Name |->
       CASE d = mobility -> Metadata(mobility, TRUE, required, Both(Plain, Plain))
         [] d = postgis -> other
         [] d = plpgsql -> third
         [] OTHER -> NoMetadata]

Postgis(create) == Metadata(postgis, create, <<>>, Both(Plain, Epoch))

SomeTrees ==
    {Tree(<<OfBase(plpgsql), Sibling(postgis)>>, Postgis(TRUE), Absent),
     Tree(<<Sibling(postgis), Sibling(plpgsql)>>, Postgis(FALSE), Absent),
     Tree(<<OfBase(None), Sibling(postgis)>>, Unparsable, NoMetadata),
     [Tree(<<>>, Metadata(postgis, FALSE, <<>>, OnlyB(Epoch)), NoMetadata)
        EXCEPT ![mobility].image = Mobility]}

SomeLower == [x \in Name \cup Registry |->
                CASE x = Mobility -> mobility [] x = Fork -> fork [] OTHER -> x]

In(owner, name, isTesting) ==
    [registry |-> owner, image |-> name, testing |-> isTesting]
Image(name, version, c) == Tagged(In(upstream, name, FALSE), version, c)
Of(base, sql, c) == [base |-> base, sql |-> sql, os |-> c[1], major |-> c[2]]

Mine == Tagged(In(fork, mobility, TRUE), <<"2">>, T)

SomeImages ==
    [r \in {Mine, Image(mobility, <<"1", ".", "2">>, T),
           Image(postgis, <<"1", ".", "2">>, T),
           Image(postgis, <<"1", "-", "2">>, B), Image(postgis, <<"1">>, B)} |->
       IF r.distribution = trixie THEN Of(pgTrixie, s1, T) ELSE Of(pgBookworm, s1, B)]

SomePushes ==
    {<<Mine, Of(pgBookworm, s2, B)>>, <<Mine, Of(pgTrixie, None, T)>>,
     <<Image(postgis, <<"1", "-", "2">>, B), Of(pgBookworm, s2, B)>>}

SomePackages == {Letter, Epoch}
=============================================================================
