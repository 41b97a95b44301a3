----------------------------- MODULE Inventory ------------------------------
(***************************************************************************)
(* One inventory of a character (USE, SETUP or ETC), the account's storage *)
(* room and the items lying on the map: MapleInventory,                    *)
(* MapleInventoryManipulator, MapleStorage and the handlers that move      *)
(* items between them.                                                     *)
(*                                                                         *)
(* An inventory is a LinkedHashMap from slots to items; it is modelled by  *)
(* the sequence of its entries in insertion order, which ItemGather        *)
(* follows, while listById goes by slot.  A non-equip item whose SlotMax   *)
(* is 1 behaves like a piece of equipment.                                 *)
(*                                                                         *)
(* due[id] is how many there should be of an item: every call that creates *)
(* or destroys items books what its callers are told.  Where the code is   *)
(* known not to carry an operation through, the books are settled with     *)
(* what is there (Settle), and the comments name the case.                 *)
(***************************************************************************)
EXTENDS Integers, SequencesExt

CONSTANTS
    Ids,           \* item ids
    Rechargeable,  \* throwing stars and bullets: they do not stack
    OneOfAKind,    \* isPickupRestricted
    SlotMax,       \* getSlotMax of each id
    MaxCharge,     \* SlotMax and what the mastery skill adds
    Owners,        \* name tags
    NoOwner,       \* ""
    Deadlines,     \* expirations
    Forever,       \* -1
    Drops,         \* identities of items on the map
    Setting,       \* for each size of the inventory: the items there are and the bounds
    None           \* null

ASSUME InventoryAssumption ==
    /\ Ids \subseteq Nat
    /\ Rechargeable \subseteq Ids /\ OneOfAKind \subseteq Ids
    /\ SlotMax \in [Ids -> Nat \ {0}] /\ MaxCharge \in [Ids -> Nat]
    /\ \A id \in Ids : MaxCharge[id] >= SlotMax[id]
    /\ NoOwner \in Owners /\ Forever \in Deadlines
    /\ IsFiniteSet(Drops)
    /\ DOMAIN Setting \subseteq Nat
    /\ \A size \in DOMAIN Setting : Setting[size] \in
         [kinds: SUBSET [id: Ids, owner: Owners, until: Deadlines],
          storage: Nat, amount: Nat, stored: Nat]

\* What one may have only one of is counted by pieces, not by charges.
ASSUME OneAssumption == OneOfAKind \cap Rechargeable = {}

Item == [id: Ids, owner: Owners, until: Deadlines, q: Nat]

ASSUME NoneAssumption == None \notin Item

VARIABLES
    slotLimit,  \* MapleInventory.slotLimit
    inv, ground, storage, due,
    unchecked   \* history: a shop has taken an amount it should have refused

vars == <<slotLimit, inv, ground, storage, due, unchecked>>

Kinds == Setting[slotLimit].kinds
StorageSlots == Setting[slotLimit].storage  \* slots of the storage room
MaxAmount == Setting[slotLimit].amount      \* bound: how many of an id there are
MaxStored == Setting[slotLimit].stored      \* bound: length of the storage list, nulls included

Rech(it) == it.id \in Rechargeable

TypeOK ==
    /\ slotLimit \in DOMAIN Setting
    /\ \A n \in DOMAIN inv :
        /\ inv[n].pos \in 1..slotLimit
        /\ inv[n].it \in Item
        /\ ~unchecked =>
            /\ inv[n].it.q <= IF Rech(inv[n].it) THEN MaxCharge[inv[n].it.id]
                                                 ELSE SlotMax[inv[n].it.id]
            /\ inv[n].it.q = 0 => Rech(inv[n].it)
    /\ \A m, n \in DOMAIN inv : inv[m].pos = inv[n].pos => m = n
    /\ \A g \in Drops : ground[g] \in Item \cup {None}
    /\ \A n \in DOMAIN storage : storage[n] \in Item \cup {None}
    /\ due \in [Ids -> Nat]
    /\ unchecked \in BOOLEAN

-----------------------------------------------------------------------------
(* MapleInventory.                                                          *)

Least(a, b) == IF a < b THEN a ELSE b

Total(P) == MapThenSumSet(LAMBDA p : p[2], P)

Entries(s, id) == {e \in Range(s) : e.it.id = id}

\* countById
Held(s, id) == Total({<<e.pos, e.it.q>> : e \in Entries(s, id)})

Taken(s) == {s[n].pos : n \in DOMAIN s}
Free(s) == (1..slotLimit) \ Taken(s)

\* Something done for each slot of a set, in their order.
Upwards(op(_, _), base, slots) ==
    MapThenFoldSet(LAMBDA slot, r : op(r, slot), base, LAMBDA slot : slot,
                   LAMBDA some : Max(some), slots)

\* The entry in a slot; getItem(slot) is null where there is none.
EntryAt(s, slot) == CHOOSE n \in DOMAIN s : s[n].pos = slot
Full(s) == Len(s) >= slotLimit

\* listById: the slots that hold the id; it lists them in order.
SlotsOf(s, id) == {e.pos : e \in Entries(s, id)}

WithQuantity(s, slot, q) == [s EXCEPT ![EntryAt(s, slot)].it.q = q]

Without(s, slot) == RemoveAt(s, EntryAt(s, slot))

Put(s, slot, it) == Append(s, [pos |-> slot, it |-> it])

Mergeable(a, b) == a.id = b.id /\ ~Rech(a) /\ a.owner = b.owner /\ a.until = b.until

\* MapleInventory.move and swap.  A move of a stack onto itself goes through
\* the same assignments as one onto another stack.
MoveItem(s, src, dst) ==
    LET a == s[EntryAt(s, src)].it
        b == s[EntryAt(s, dst)].it
        max == SlotMax[a.id]
    IN  IF dst \notin Taken(s) THEN Put(Without(s, src), dst, a)
        ELSE IF ~Mergeable(a, b)
               THEN IF src = dst THEN Put(Without(s, src), src, a)
                    ELSE Put(Put(Without(Without(s, src), dst), src, b), dst, a)
        ELSE IF a.q + b.q > max
               THEN WithQuantity(WithQuantity(s, src, a.q + b.q - max), dst, max)
        ELSE Without(WithQuantity(s, dst, a.q + b.q), src)

-----------------------------------------------------------------------------
(* MapleInventoryManipulator.                                               *)

\* Mutant of RemoveFromSlot: a used-up set of stars always goes.
RemoveFromSlotEmpty(s, slot, q, consume) ==
    LET it == s[EntryAt(s, slot)].it
    IN  IF it.q <= q /\ ~consume THEN Without(s, slot)
        ELSE WithQuantity(s, slot, it.q - Least(q, it.q))

\* A rechargeable item that is used up stays in its slot, empty.
RemoveFromSlot(s, slot, q, consume) ==
    LET it == s[EntryAt(s, slot)].it
    IN  IF it.q <= q /\ ~(consume /\ Rech(it)) THEN Without(s, slot)
        ELSE WithQuantity(s, slot, it.q - Least(q, it.q))

\* removeById takes what there is even when that is not enough.
RemoveById(s, id, q, consume) ==
    LET Take(r, slot) ==
            LET has == r.inv[EntryAt(r.inv, slot)].it.q
            IN  IF r.done THEN r
                ELSE [inv |-> RemoveFromSlot(r.inv, slot, Least(r.left, has), consume),
                      left |-> r.left - Least(r.left, has),
                      done |-> r.left <= has]
    IN  Upwards(Take, [inv |-> s, left |-> q, done |-> FALSE], SlotsOf(s, id))

\* Fill the stacks in the slots given, in order, then new slots.
Stack(s, it, slots) ==
    LET max == SlotMax[it.id]
        FillUp(r, slot) ==
            LET has == r.inv[EntryAt(r.inv, slot)].it
                add == Least(r.left, max - has.q)
            IN  IF has.q < max
                  THEN [inv |-> WithQuantity(r.inv, slot, has.q + add), left |-> r.left - add]
                  ELSE r
        PutNew(r, slot) ==
            LET add == Least(r.left, max)
            IN  IF r.left = 0 THEN r
                ELSE [inv |-> Put(r.inv, slot, [it EXCEPT !.q = add]), left |-> r.left - add]
    IN  Upwards(PutNew, Upwards(FillUp, [inv |-> s, left |-> it.q], slots), Free(s))

\* The inventory after an addition, what is left over, and the result.
Added(r) == [inv |-> r.inv, left |-> r.left, ok |-> r.left = 0]
Refused(s, it) == [inv |-> s, left |-> it.q, ok |-> FALSE]
AddRechargeable(s, it) ==
    IF Full(s) THEN Refused(s, it)
    ELSE [inv |-> Put(s, Min(Free(s)), it), left |-> 0, ok |-> TRUE]

\* Mutant of HasTheOne: off by one.
HasMoreThanOne(s, id) == id \in OneOfAKind /\ Held(s, id) > 1

HasTheOne(s, id) == id \in OneOfAKind /\ Held(s, id) = 1

AddFromDrop(s, it) ==
    IF HasTheOne(s, it.id) \/ (it.q = 0 /\ ~Rech(it)) THEN Refused(s, it)
    ELSE IF Rech(it) THEN AddRechargeable(s, it)
    ELSE Added(Stack(s, it, {e.pos : e \in {x \in Range(s) : Mergeable(x.it, it)}}))

\* addId without an owner: any owner's stacks are filled, timed ones are not.
AddId(s, id, q) ==
    LET it == [id |-> id, owner |-> NoOwner, until |-> Forever, q |-> q]
    IN  IF HasTheOne(s, id) THEN Refused(s, it)
        ELSE IF Rech(it) THEN AddRechargeable(s, it)
        ELSE Added(Stack(s, it, {e.pos : e \in {x \in Entries(s, id) : x.it.until = Forever}}))

\* Mutant of CheckSpace: a stack that fills up exactly is forgotten.
CheckSpaceRoundedDown(s, id, q, owner) ==
    LET max == SlotMax[id]
        mine == {e \in Entries(s, id) : e.it.owner = owner}
        room == Total({<<e.pos, max - Least(e.it.q, max)>> : e \in mine})
        left == IF q > room THEN q - room ELSE 0
    IN  /\ ~HasTheOne(s, id)
        /\ IF id \in Rechargeable THEN ~Full(s)
           ELSE q > 0 /\ Len(s) + left \div max <= slotLimit

\* checkSpace counts every stack of the owner, timed or not.
CheckSpace(s, id, q, owner) ==
    LET max == SlotMax[id]
        mine == {e \in Entries(s, id) : e.it.owner = owner}
        room == Total({<<e.pos, max - Least(e.it.q, max)>> : e \in mine})
        left == IF q > room THEN q - room ELSE 0
    IN  /\ ~HasTheOne(s, id)
        /\ IF id \in Rechargeable THEN ~Full(s)
           ELSE q > 0 /\ Len(s) + (left + max - 1) \div max <= slotLimit

\* checkSpace takes a stack into account that the addition will not use.
OtherDeadline(s, id, owner, until) ==
    \E e \in Entries(s, id) :
        e.it.owner = owner /\ e.it.until # until /\ e.it.q < SlotMax[id]

-----------------------------------------------------------------------------
(* ItemSort and ItemGather.                                                 *)

\* Mutant of Sorted: the search starts one slot too late.
SortedSkipping(s) ==
    LET Step(r, k) ==
            LET gap == Min(Free(r))
                later == {p \in Taken(r) : p > gap + 1}
            IN  IF Full(r) \/ later = {} THEN r ELSE MoveItem(r, Min(later), gap)
    IN  Upwards(Step, s, 1..slotLimit)

\* The first item after the first gap moves into the gap, until there is none.
Sorted(s) ==
    LET Step(r, k) ==
            LET gap == Min(Free(r))
                later == {p \in Taken(r) : p > gap}
            IN  IF Full(r) \/ later = {} THEN r ELSE MoveItem(r, Min(later), gap)
    IN  Upwards(Step, s, 1..slotLimit)

\* sortItems: by id, otherwise in the order given.
LastById(items, some) == CHOOSE m \in some : \A n \in some :
    items[n].id < items[m].id \/ (items[n].id = items[m].id /\ n <= m)
ById(items) ==
    MapThenFoldSet(LAMBDA n, r : Append(r, items[n]), <<>>, LAMBDA n : n,
                   LAMBDA some : LastById(items, some), DOMAIN items)

\* Mutant of Gathered: the copies are put back in the order of the map.
GatheredUnsorted(s) ==
    LET copies == [n \in DOMAIN s |-> s[n].it]
        TakeCopy(r, it) == RemoveById(r, it.id, it.q, FALSE).inv
        PutBack(r, it) == AddFromDrop(r, it).inv
    IN  FoldLeft(PutBack, FoldLeft(TakeCopy, s, copies), copies)

\* Everything is copied, removed by id and added again; results are not looked at.
Gathered(s) ==
    LET copies == [n \in DOMAIN s |-> s[n].it]
        TakeCopy(r, it) == RemoveById(r, it.id, it.q, FALSE).inv
        PutBack(r, it) == AddFromDrop(r, it).inv
    IN  FoldLeft(PutBack, FoldLeft(TakeCopy, s, copies), ById(copies))

-----------------------------------------------------------------------------
(* The operations.                                                          *)

Present(list) == {n \in DOMAIN list : list[n] # None}

Amount(s, g, st, id) ==
    LET on == {d \in Drops : g[d] # None /\ g[d].id = id}
        in == {n \in Present(st) : st[n].id = id}
    IN  Held(s, id) + Total({<<d, g[d].q>> : d \in on}) + Total({<<n, st[n].q>> : n \in in})

\* lapse: the operation is one that is known not to be carried through.
Book(lapse, id, change) ==
    due' = IF lapse THEN [i \in Ids |-> Amount(inv', ground', storage', i)]
           ELSE [due EXCEPT ![id] = @ + change]

Keep == UNCHANGED due

Init ==
    /\ slotLimit \in DOMAIN Setting
    /\ inv = <<>>
    /\ ground = [g \in Drops |-> None]
    /\ storage = <<>>
    /\ due = [id \in Ids |-> 0]
    /\ unchecked = FALSE

\* A drop of a monster; the data of restricted items give one at a time.
Appear(g, it) ==
    /\ ground[g] = None
    /\ it.q > 0
    /\ Amount(inv, ground, storage, it.id) + it.q <= MaxAmount
    /\ it.id \in OneOfAKind => it.q = 1
    /\ it.id \in Rechargeable => it.q <= MaxCharge[it.id]
    /\ ground' = [ground EXCEPT ![g] = it]
    /\ Book(FALSE, it.id, it.q)
    /\ UNCHANGED <<inv, storage>>

Vanish(g) ==
    /\ ground[g] # None
    /\ ground' = [ground EXCEPT ![g] = None]
    /\ Book(FALSE, ground[g].id, -ground[g].q)
    /\ UNCHANGED <<inv, storage>>

\* Mutant of PickUp: a partial pickup takes the drop off the map.
PickUpWhole(g) ==
    LET it == ground[g]
    IN  /\ it # None
        /\ CheckSpace(inv, it.id, it.q, it.owner)
        /\ inv' = AddFromDrop(inv, it).inv
        /\ ground' = [ground EXCEPT ![g] = None]
        /\ Keep
        /\ UNCHANGED storage

\* PlayerPickup: what does not fit stays on the map.
PickUp(g) ==
    LET it == ground[g]
        r == AddFromDrop(inv, it)
    IN  /\ it # None
        /\ CheckSpace(inv, it.id, it.q, it.owner)
        /\ inv' = r.inv
        /\ ground' = [ground EXCEPT ![g] = IF r.ok THEN None ELSE [it EXCEPT !.q = r.left]]
        /\ Keep
        /\ UNCHANGED storage

\* Rechargeable items are dropped as a whole, whatever quantity is asked for.
Drop(slot, q, g) ==
    LET it == inv[EntryAt(inv, slot)].it
    IN  /\ slot \in Taken(inv)
        /\ ground[g] = None
        /\ q <= it.q
        /\ IF q < it.q /\ ~Rech(it)
             THEN /\ inv' = WithQuantity(inv, slot, it.q - q)
                  /\ ground' = [ground EXCEPT ![g] = [it EXCEPT !.q = q]]
             ELSE /\ inv' = Without(inv, slot)
                  /\ ground' = [ground EXCEPT ![g] = it]
        /\ Keep
        /\ UNCHANGED storage

\* Lapse: a stack moved onto itself doubles or goes.
ItemMove(src, dst) ==
    /\ src \in Taken(inv)
    /\ inv' = MoveItem(inv, src, dst)
    /\ UNCHANGED <<ground, storage>>
    /\ Book(src = dst, inv[EntryAt(inv, src)].it.id, 0)

ItemSort ==
    /\ inv' = Sorted(inv)
    /\ Keep
    /\ UNCHANGED <<ground, storage>>

HasEmpty == \E n \in DOMAIN inv : inv[n].it.q = 0

\* Lapse: an empty set of stars is not removed by removeById when another set
\* of the id lies before it, and is there twice afterwards.
ItemGather ==
    /\ inv' = Gathered(inv)
    /\ UNCHANGED <<ground, storage>>
    /\ Book(HasEmpty, CHOOSE id \in Ids : TRUE, 0)

\* A shop or a script that has asked checkSpace for an item without a name
\* tag.  Lapse: room is seen in a timed stack, and the rest is not given.
\* MapleShop.buy gives several of an item one may have only one of.
Grant(id, n) ==
    LET q == IF id \in Rechargeable THEN SlotMax[id] ELSE n
    IN  /\ CheckSpace(inv, id, n, NoOwner)
        /\ Amount(inv, ground, storage, id) + q <= MaxAmount
        /\ unchecked' = (unchecked \/ (id \in OneOfAKind /\ n > 1))
        /\ inv' = AddId(inv, id, q).inv
        /\ UNCHANGED <<ground, storage>>
        /\ Book(OtherDeadline(inv, id, NoOwner, Forever), id, q)

\* removeById for a script, a quest or an attack.  Lapse: there is less than
\* asked for; what there is goes and the caller is told that it failed.
TakeAway(id, q, consume) ==
    /\ inv' = RemoveById(inv, id, q, consume).inv
    /\ UNCHANGED <<ground, storage>>
    /\ Book(Held(inv, id) < q, id, -q)

\* removeFromSlot: a shop sale, or the use of an item.  MapleShop.sell lets a
\* negative amount pass, and as many are added to the stack, whatever its SlotMax.
Sell(slot, q) ==
    LET it == inv[EntryAt(inv, slot)].it
        sold == IF Rech(it) THEN it.q ELSE IF q = 0 THEN 1 ELSE q
    IN  /\ slot \in Taken(inv)
        /\ sold <= it.q
        /\ Amount(inv, ground, storage, it.id) - sold <= MaxAmount
        /\ unchecked' = (unchecked \/ sold < 0)
        /\ inv' = RemoveFromSlot(inv, slot, sold, FALSE)
        /\ Book(FALSE, it.id, -sold)
        /\ UNCHANGED <<ground, storage>>

Recharge(slot) ==
    LET it == inv[EntryAt(inv, slot)].it
        more == MaxCharge[it.id] - it.q
    IN  /\ slot \in Taken(inv)
        /\ Rech(it)
        /\ more > 0
        /\ Amount(inv, ground, storage, it.id) + more <= MaxAmount
        /\ inv' = WithQuantity(inv, slot, MaxCharge[it.id])
        /\ Book(FALSE, it.id, more)
        /\ UNCHANGED <<ground, storage>>

\* expirationTask, when the deadline has passed.
Expire(d) ==
    LET over(id) == {e \in Entries(inv, id) : e.it.until = d}
    IN  /\ d # Forever
        /\ inv' = Upwards(Without, inv, {e.pos : e \in {x \in Range(inv) : x.it.until = d}})
        /\ due' = [id \in Ids |-> due[id] - Total({<<e.pos, e.it.q>> : e \in over(id)})]
        /\ UNCHANGED <<ground, storage>>

Broken(list) == None \in Range(list)

\* Storage, case 5.  findById throws on a list with a null.
Store(slot, q) ==
    LET it == inv[EntryAt(inv, slot)].it
        put == IF Rech(it) THEN it.q ELSE q
    IN  /\ slot \in Taken(inv)
        /\ Len(storage) < StorageSlots
        /\ it.id \in OneOfAKind =>
               ~Broken(storage) /\ \A n \in DOMAIN storage : storage[n].id # it.id
        /\ put \in 1..it.q
        /\ inv' = RemoveFromSlot(inv, slot, put, FALSE)
        /\ storage' = Append(storage, [it EXCEPT !.q = put])
        /\ Keep
        /\ UNCHANGED ground

\* Mutant of TakeOut: an item that does not fit is not put back.
TakeOutForgets(n, inTime) ==
    LET it == storage[n]
        fits == inTime /\ CheckSpace(inv, it.id, it.q, it.owner)
    IN  /\ n \in Present(storage)
        /\ storage' = RemoveAt(storage, n)
        /\ inv' = IF fits THEN AddFromDrop(inv, it).inv ELSE inv
        /\ UNCHANGED ground
        /\ Book(FALSE, it.id, 0)

\* Storage, case 4.  inTime is canStorage.  Lapses: the list has a null, so
\* takeOut removes the item and throws; or room is seen in a stack with another
\* deadline and the rest is lost, addFromDrop's result being ignored.
TakeOut(n, inTime) ==
    LET it == storage[n]
        rest == RemoveAt(storage, n)
        fits == inTime /\ CheckSpace(inv, it.id, it.q, it.owner)
    IN  /\ n \in Present(storage)
        /\ IF Broken(rest) THEN storage' = rest /\ UNCHANGED inv
           ELSE IF fits THEN storage' = rest /\ inv' = AddFromDrop(inv, it).inv
           ELSE storage' = Append(rest, it) /\ UNCHANGED inv
        /\ UNCHANGED ground
        /\ Book(Broken(rest) \/ (fits /\ OtherDeadline(inv, it.id, it.owner, it.until)), it.id, 0)

\* Storage, case 4 for a slot that has nothing any more, too soon after the
\* last call: null is put back into the list.
TakeOutNothing ==
    /\ Len(storage) < MaxStored
    /\ storage' = Append(storage, None)
    /\ Keep
    /\ UNCHANGED <<inv, ground>>

\* Storage, case 6; the comparison throws on a null.
Arrange ==
    /\ ~Broken(storage)
    /\ storage' = ById(storage)
    /\ Keep
    /\ UNCHANGED <<inv, ground>>

Amounts == 1..MaxAmount
Of(k, q) == [id |-> k.id, owner |-> k.owner, until |-> k.until, q |-> q]

Operation ==
    \/ \E g \in Drops, k \in Kinds, q \in Amounts : Appear(g, Of(k, q))
    \/ \E g \in Drops : Vanish(g) \/ PickUp(g)
    \/ \E slot \in 1..slotLimit :
        \/ \E q \in 0..MaxAmount, g \in Drops : Drop(slot, q, g)
        \/ \E dst \in 1..slotLimit : ItemMove(slot, dst)
        \/ \E q \in Amounts : Store(slot, q)
        \/ Recharge(slot)
    \/ ItemSort \/ ItemGather \/ Arrange \/ TakeOutNothing
    \/ \E id \in {k.id : k \in Kinds}, n \in Amounts, consume \in BOOLEAN : TakeAway(id, n, consume)
    \/ \E d \in Deadlines : Expire(d)
    \/ \E n \in DOMAIN storage, inTime \in BOOLEAN : TakeOut(n, inTime)

Deal ==
    \/ \E slot \in 1..slotLimit, q \in -MaxAmount..MaxAmount : Sell(slot, q)
    \/ \E id \in {k.id : k \in Kinds}, n \in Amounts : Grant(id, n)

Next ==
    /\ \/ Deal
       \/ Operation /\ UNCHANGED unchecked
    /\ UNCHANGED slotLimit

Spec == Init /\ [][Next]_vars

-----------------------------------------------------------------------------
(* Properties.  They speak of inventories as long as every amount a shop     *)
(* has taken was a sound one (~unchecked).                                  *)

\* Outside the lapses named above, and until a shop takes a negative amount
\* (MapleShop.sell), no operation creates or destroys items it is not asked to: stacking, merging, sorting, gathering, partial pickups and
\* the way to and from the storage room keep every quantity.
Ledger == ~unchecked => \A id \in Ids : Amount(inv, ground, storage, id) = due[id]

\* Of an item one may have only one of there is never more than one in the
\* inventory, whichever of drops, grants, storage and gathering come together.
AtMostOne == ~unchecked => \A id \in OneOfAKind : Held(inv, id) <= 1

\* checkSpace and addFromDrop agree: an item for which there is space is taken
\* as a whole, one for which there is none is not, unless a stack with another
\* deadline is counted.
SpaceIsSpace == ~unchecked =>
    \A it \in {Of(k, q) : k \in Kinds, q \in 0..MaxAmount} :
        ~OtherDeadline(inv, it.id, it.owner, it.until) =>
            (CheckSpace(inv, it.id, it.q, it.owner) <=> AddFromDrop(inv, it).ok)

\* Each item with how many slots are in use up to its own.
Rank(s, slot) == Cardinality({p \in Taken(s) : p <= slot})
Ranked(s) == {<<Rank(s, e.pos), e.it>> : e \in Range(s)}

\* ItemSort closes every gap and keeps the items and their order; ItemGather
\* leaves items in the order of their ids, without gaps, and of each kind at
\* most one stack that is not full.
Tidies ==
    [][~unchecked =>
       /\ ItemSort => Taken(inv') = 1..Len(inv) /\ Ranked(inv') = Ranked(inv)
       /\ ItemGather /\ ~HasEmpty =>
            /\ Taken(inv') = 1..Len(inv')
            /\ \A a, b \in Range(inv') : a.pos < b.pos =>
                 /\ a.it.id <= b.it.id
                 /\ Mergeable(a.it, b.it) => SlotMax[a.it.id] \in {a.it.q, b.it.q}]_vars
=============================================================================
