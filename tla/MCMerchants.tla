------------------------------ MODULE MCMerchants ------------------------------
(* Instances of Merchants for TLC: o1 and o2 hire merchants, b1 and b2 buy.      *)
EXTENDS Merchants, TLC
CONSTANTS o1, o2, b1, b2

\* Owners do not differ from one another, nor do buyers.
Alike == Permutations(Owners) \cup Permutations(Buyers)

\* Either one merchant and its buyers, everything at once; or the merchants of two
\* owners, one operation at a time, and one unit of each owner.
Scope ==
  \/ /\ Len(shop) <= 1
     /\ \E x \in Owners : \A y \in Owners \ {x} :
          at[y] = None /\ y \notin ticket /\ pc[y].op = "idle" /\ bag[y] = Stock
  \/ /\ ~overlapped /\ \A x \in Buyers : at[x] = None /\ purse[x] = Coins /\ pc[x].op = "idle"
     /\ \A x \in Owners : bag[x] >= Stock - 1
================================================================================
