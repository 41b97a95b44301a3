----------------------------- MODULE MCMapDrops -----------------------------
(* Values of the constants of MapDrops for model checking.                 *)
EXTENDS MapDrops, TLC

CONSTANTS p1, p2, p3, l1, l2

\* p1 and p2 share a party; p3 is served by p1's event loop.
MCLoopOf2 == p1 :> l1 @@ p2 :> l2
MCLoopOf3 == p1 :> l1 @@ p2 :> l2 @@ p3 :> l1
MCSameParty == {<<p1, p1>>, <<p2, p2>>, <<p1, p2>>, <<p2, p1>>}

\* Every kind of drop.
MCAllKinds == DropRec
=============================================================================
