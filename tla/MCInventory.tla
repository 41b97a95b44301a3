---------------------------- MODULE MCInventory -----------------------------
(* Instances of Inventory for TLC.                                           *)
EXTENDS Inventory

CONSTANTS Stars, Medal, Other

MCSlotMax == [id \in Ids |-> IF id \in {Stars, Medal} THEN 1 ELSE 2]
MCMaxCharge == [id \in Ids |-> IF id = Medal THEN 1 ELSE 2]

Plain == [id: Ids, owner: {NoOwner}, until: {Forever}]

\* Two slots: many of one item, with name tags and expirations.  Three: a few of
\* a stackable item, stars and the medal.  Four: many of two stackable items,
\* nothing stored.
MCSetting == [size \in 2..4 |->
    CASE size = 2 -> [kinds |-> [id: Ids \ {Stars, Medal, Other}, owner: Owners, until: Deadlines],
                      storage |-> 1, amount |-> 5, stored |-> 1]
      [] size = 3 -> [kinds |-> {k \in Plain : k.id # Other}, storage |-> 1, amount |-> 2, stored |-> 2]
      [] size = 4 -> [kinds |-> {k \in Plain : k.id \notin {Stars, Medal}},
                      storage |-> 0, amount |-> 4, stored |-> 0]]

\* What comes after an unsound deal is looked at where nothing is stored.
Scope == unchecked => slotLimit = 3 /\ storage = <<>> /\ \A id \in Ids : due[id] <= MaxAmount
=============================================================================
