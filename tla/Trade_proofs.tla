---------------------------- MODULE Trade_proofs ----------------------------
(***************************************************************************)
(* Theorems about Trade for any characters, items, trade objects, amounts,  *)
(* taxes and sizes of inventories and offers.                              *)
(*                                                                         *)
(* A handler is a composition of functions on a record of the state (Now), *)
(* so there is a lemma about what each of these functions does to such a   *)
(* record, and one for each handler about what it does to the variables.   *)
(***************************************************************************)
EXTENDS Trade, FiniteSetTheorems, SequenceTheorems, TLAPS

-----------------------------------------------------------------------------
(* What the functions on the record of the state do.                        *)

State == [inv: [Chars -> SUBSET Items], wallet: [Chars -> 0..MaxMeso],
          trade: [Chars -> Trades \cup {None}], obj: [Trades -> TradeObj], thrown: BOOLEAN]

\* Neither of two objects' offers matters: who they belong to, who confirmed.
SameBond(a, b) ==
    /\ a.owner = b.owner /\ a.partner = b.partner
    /\ a.locked = b.locked /\ a.exFrom = b.exFrom /\ a.seen = b.seen

Bounded(ob) == \A t \in Trades : Len(ob[t].items) <= OfferSlots

\* What is left of a record of the state when one of its fields is replaced.
LEMMA Replaced ==
    ASSUME NEW r \in State, NEW o
    PROVE  /\ [r EXCEPT !.inv = o] = [inv |-> o, wallet |-> r.wallet, trade |-> r.trade,
                                      obj |-> r.obj, thrown |-> r.thrown]
           /\ [r EXCEPT !.wallet = o] = [inv |-> r.inv, wallet |-> o, trade |-> r.trade,
                                         obj |-> r.obj, thrown |-> r.thrown]
           /\ [r EXCEPT !.trade = o] = [inv |-> r.inv, wallet |-> r.wallet, trade |-> o,
                                        obj |-> r.obj, thrown |-> r.thrown]
           /\ [r EXCEPT !.obj = o] = [inv |-> r.inv, wallet |-> r.wallet, trade |-> r.trade,
                                      obj |-> o, thrown |-> r.thrown]
<1>1. [r EXCEPT !.inv = o] = [inv |-> o, wallet |-> r.wallet, trade |-> r.trade,
                              obj |-> r.obj, thrown |-> r.thrown]
  BY DEF State
<1>2. [r EXCEPT !.wallet = o] = [inv |-> r.inv, wallet |-> o, trade |-> r.trade,
                                 obj |-> r.obj, thrown |-> r.thrown]
  BY DEF State
<1>3. [r EXCEPT !.trade = o] = [inv |-> r.inv, wallet |-> r.wallet, trade |-> o,
                                obj |-> r.obj, thrown |-> r.thrown]
  BY DEF State
<1>4. [r EXCEPT !.obj = o] = [inv |-> r.inv, wallet |-> r.wallet, trade |-> r.trade,
                              obj |-> o, thrown |-> r.thrown]
  BY DEF State
<1> QED BY <1>1, <1>2, <1>3, <1>4

LEMMA ObjReplaced ==
    ASSUME NEW r \in State, NEW o \in [Trades -> TradeObj]
    PROVE  [r EXCEPT !.obj = o] \in State
BY DEF State

LEMMA FreeSlotsInt ==
    ASSUME NEW s \in State, NEW c \in Chars, fill \in [Chars -> 0..Slots]
    PROVE  FreeSlots(s, c) \in Int
<1>1. s.inv[c] \in SUBSET Items
  BY DEF State
<1>2. Cardinality(s.inv[c]) \in Nat
  BY <1>1, FS_Subset, FS_CardinalityType, TradeAssumption
<1> QED BY <1>2, TradeAssumption DEF FreeSlots

\* What finds room is part of what is given, and all of it if there is room.
LEMMA FitsElems ==
    ASSUME NEW s \in State, NEW c \in Chars, NEW q \in Seq(Items), fill \in [Chars -> 0..Slots]
    PROVE  /\ Elems(q) \subseteq Items
           /\ Elems(Fits(s, c, q)) \subseteq Elems(q)
           /\ Len(q) <= FreeSlots(s, c) => Fits(s, c, q) = q
<1> DEFINE n == FreeSlots(s, c)
<1>1. n \in Int
  BY FreeSlotsInt
<1>2. Len(q) \in Nat /\ DOMAIN q = 1..Len(q) /\ \A k \in 1..Len(q) : q[k] \in Items
  BY LenProperties, ElementOfSeq
<1>3. CASE ~(Len(q) <= n)
  <2>1. \A k \in 1..n : q[k] \in Items
    BY <1>1, <1>2, <1>3
  <2>2. /\ SubSeq(q, 1, n) \in Seq(Items)
        /\ Len(SubSeq(q, 1, n)) = IF 1 <= n THEN n - 1 + 1 ELSE 0
        /\ \A k \in 1..(n - 1 + 1) : SubSeq(q, 1, n)[k] = q[1 + k - 1]
    BY <1>1, <2>1, SubSeqProperties
  <2>3. DOMAIN SubSeq(q, 1, n) = 1..Len(SubSeq(q, 1, n))
    BY <2>2, LenProperties
  <2>4. \A k \in DOMAIN SubSeq(q, 1, n) : k \in DOMAIN q /\ SubSeq(q, 1, n)[k] = q[k]
    BY <1>1, <1>2, <1>3, <2>2, <2>3
  <2> QED BY <1>2, <1>3, <2>4 DEF Elems, Fits
<1>4. CASE Len(q) <= n
  BY <1>2, <1>4 DEF Elems, Fits
<1> QED BY <1>3, <1>4

\* What the inventories become when c is given the items of a list, and the
\* wallets when he is given mesos.
Taken(s, c, q) == [s.inv EXCEPT ![c] = s.inv[c] \cup Elems(Fits(s, c, q))]
Credit(w, m) == IF w + m <= MaxMeso THEN w + m ELSE w
Paid(s, c, m) == [s.wallet EXCEPT ![c] = Credit(s.wallet[c], m)]

LEMMA AddFromDropEffect ==
    ASSUME NEW s \in State, NEW c \in Chars, NEW q \in Seq(Items), fill \in [Chars -> 0..Slots]
    PROVE  AddFromDrop(s, c, q) \in State /\
           AddFromDrop(s, c, q) =
             [inv |-> Taken(s, c, q), wallet |-> s.wallet, trade |-> s.trade, obj |-> s.obj,
              thrown |-> s.thrown]
<1>1. s.inv \in [Chars -> SUBSET Items] /\ Elems(Fits(s, c, q)) \in SUBSET Items
  BY FitsElems DEF State
<1>2. Taken(s, c, q) \in [Chars -> SUBSET Items]
  BY <1>1 DEF Taken
<1>3. AddFromDrop(s, c, q) = [s EXCEPT !.inv = Taken(s, c, q)]
  BY DEF AddFromDrop, Taken
<1>4. [s EXCEPT !.inv = Taken(s, c, q)] =
        [inv |-> Taken(s, c, q), wallet |-> s.wallet, trade |-> s.trade, obj |-> s.obj,
         thrown |-> s.thrown]
  BY Replaced
<1> QED BY <1>2, <1>3, <1>4 DEF State

LEMMA GainMesoEffect ==
    ASSUME NEW s \in State, NEW c \in Chars, NEW m \in 0..MaxMeso
    PROVE  GainMeso(s, c, m) \in State /\
           GainMeso(s, c, m) =
             [inv |-> s.inv, wallet |-> Paid(s, c, m), trade |-> s.trade, obj |-> s.obj,
              thrown |-> s.thrown]
<1>1. s.wallet \in [Chars -> 0..MaxMeso]
  BY DEF State
<1>2. Credit(s.wallet[c], m) \in 0..MaxMeso
  BY <1>1, TradeAssumption DEF Credit
<1>3. Paid(s, c, m) \in [Chars -> 0..MaxMeso]
  BY <1>1, <1>2 DEF Paid
<1>4. GainMeso(s, c, m) = [s EXCEPT !.wallet = Paid(s, c, m)]
  BY DEF GainMeso, Paid, Credit
<1>5. [s EXCEPT !.wallet = Paid(s, c, m)] =
        [inv |-> s.inv, wallet |-> Paid(s, c, m), trade |-> s.trade, obj |-> s.obj,
         thrown |-> s.thrown]
  BY Replaced
<1> QED BY <1>3, <1>4, <1>5 DEF State

LEMMA LeaveEffect ==
    ASSUME NEW s \in State, NEW c
    PROVE  Leave(s, c) \in State /\ Leave(s, c) = [s EXCEPT !.trade = [s.trade EXCEPT ![c] = None]]
BY DEF Leave, State

Emptied(o) == [o EXCEPT !.items = <<>>, !.meso = 0]

\* A function of a handler gives back or hands over belongings and takes characters
\* out of trades; it never touches who trades with whom.
Tame(s, r) ==
    /\ r \in State
    /\ Bounded(s.obj) => Bounded(r.obj)
    /\ \A c \in Chars : r.trade[c] \in {s.trade[c], None}
    /\ \A t \in Trades : SameBond(r.obj[t], s.obj[t])

LEMMA TameTransitive ==
    ASSUME NEW s, NEW r, NEW q, Tame(s, r), Tame(r, q)
    PROVE  Tame(s, q)
BY DEF Tame, SameBond

LEMMA LeaveTame ==
    ASSUME NEW s \in State, NEW c
    PROVE  Tame(s, Leave(s, c))
<1> DEFINE r == Leave(s, c)
<1>1. r \in State /\ r = [s EXCEPT !.trade = [s.trade EXCEPT ![c] = None]]
  BY LeaveEffect
<1>2. r.obj = s.obj /\ r.trade = [s.trade EXCEPT ![c] = None]
  BY <1>1 DEF State
<1>3. s.trade \in [Chars -> Trades \cup {None}]
  BY DEF State
<1> QED BY <1>1, <1>2, <1>3 DEF Tame, SameBond

LEMMA ThrowTame ==
    ASSUME NEW s \in State
    PROVE  Tame(s, Throw(s))
<1> DEFINE r == Throw(s)
<1>1. r \in State /\ r.obj = s.obj /\ r.trade = s.trade
  BY DEF State, Throw
<1> QED BY <1>1 DEF Tame, SameBond

LEMMA EmptiedType ==
    ASSUME NEW o \in TradeObj
    PROVE  Emptied(o) \in TradeObj /\ SameBond(Emptied(o), o) /\ Emptied(o).items = <<>>
           /\ Emptied(o).meso = 0 /\ Emptied(o).exMeso = o.exMeso
<1>1. 0 \in 0..MaxMeso /\ <<>> \in Seq(Items)
  BY TradeAssumption, EmptySeq
<1> QED BY <1>1 DEF Emptied, TradeObj, SameBond

\* An offer that is cleared after the belongings went where they should.
Cleared(r, t) == [r EXCEPT !.obj[t].items = <<>>, !.obj[t].meso = 0]

LEMMA UpdatedTwice ==
    ASSUME NEW f \in [Trades -> TradeObj], NEW t \in Trades, NEW a, NEW b
    PROVE  /\ [f EXCEPT ![t] = a][t] = a
           /\ [[f EXCEPT ![t] = a] EXCEPT ![t] = b] = [f EXCEPT ![t] = b]
OBVIOUS

LEMMA ClearedEffect ==
    ASSUME NEW r \in State, NEW t \in Trades
    PROVE  /\ Cleared(r, t) \in State
           /\ Cleared(r, t).obj = [r.obj EXCEPT ![t] = Emptied(r.obj[t])]
           /\ Cleared(r, t).inv = r.inv /\ Cleared(r, t).wallet = r.wallet
           /\ Cleared(r, t).trade = r.trade /\ Cleared(r, t).thrown = r.thrown
<1> DEFINE o1 == [r.obj[t] EXCEPT !.items = <<>>]
           o2 == [o1 EXCEPT !.meso = 0]
           f1 == [r.obj EXCEPT ![t] = o1]
           f2 == [r.obj EXCEPT ![t] = o2]
           r1 == [r EXCEPT !.obj = f1]
           fb == [r1.obj EXCEPT ![t] = [r1.obj[t] EXCEPT !.meso = 0]]
           r2 == [r1 EXCEPT !.obj = fb]
<1>1. Cleared(r, t) = r2
  BY DEF Cleared
<1>2. r.obj \in [Trades -> TradeObj] /\ r.obj[t] \in TradeObj
  BY DEF State
<1>3. o2 = Emptied(r.obj[t])
  BY <1>2 DEF Emptied, TradeObj
<1>4. o1 \in TradeObj
  BY <1>2, EmptySeq DEF TradeObj
<1>5. f1 \in [Trades -> TradeObj]
  BY <1>2, <1>4
<1> HIDE DEF f1
<1>6. r1 \in State /\ r1 = [inv |-> r.inv, wallet |-> r.wallet, trade |-> r.trade, obj |-> f1,
                            thrown |-> r.thrown]
  BY <1>5, ObjReplaced, Replaced
<1>7. f1[t] = o1 /\ [f1 EXCEPT ![t] = o2] = f2
  BY <1>2, UpdatedTwice DEF f1
<1>8. fb = f2
  BY <1>6, <1>7
<1>9. f2 \in [Trades -> TradeObj]
  BY <1>2, <1>3, EmptiedType
<1> HIDE DEF f2, r1, fb
<1>10. r2 \in State /\ r2 = [inv |-> r1.inv, wallet |-> r1.wallet, trade |-> r1.trade, obj |-> f2,
                             thrown |-> r1.thrown]
  BY <1>6, <1>8, <1>9, ObjReplaced, Replaced
<1> HIDE DEF r2
<1> QED BY <1>1, <1>3, <1>6, <1>10 DEF f2

Kept(s, c, check) == BothLocked(s, s.trade[c]) /\ ~check

LEMMA CancelEffect ==
    ASSUME NEW s \in State, NEW t \in Trades, NEW c \in Chars, NEW check \in BOOLEAN,
           fill \in [Chars -> 0..Slots], s.trade[c] # None
    PROVE  LET r == Cancel(s, t, c, check)
           IN  /\ r \in State
               /\ r.inv = IF Kept(s, c, check) THEN s.inv ELSE Taken(s, c, s.obj[t].items)
               /\ r.wallet = IF Kept(s, c, check) THEN s.wallet ELSE Paid(s, c, s.obj[t].meso)
               /\ r.trade = s.trade
               /\ r.obj = [s.obj EXCEPT ![t] = Emptied(s.obj[t])]
               /\ r.thrown = s.thrown
<1> DEFINE q == s.obj[t].items
           m == s.obj[t].meso
           s1 == AddFromDrop(s, c, q)
           given == IF Kept(s, c, check) THEN s ELSE GainMeso(s1, c, m)
<1>1. q \in Seq(Items) /\ m \in 0..MaxMeso
  BY DEF State, TradeObj
<1>2. s1 \in State /\ s1.wallet = s.wallet /\ s1.inv = Taken(s, c, q) /\ s1.trade = s.trade
      /\ s1.obj = s.obj /\ s1.thrown = s.thrown
  BY <1>1, AddFromDropEffect
<1> HIDE DEF s1, q, m
<1>3. Paid(s1, c, m) = Paid(s, c, m)
  BY <1>2 DEF Paid
<1>4. GainMeso(s1, c, m) \in State /\ GainMeso(s1, c, m) =
        [inv |-> s1.inv, wallet |-> Paid(s, c, m), trade |-> s1.trade, obj |-> s1.obj,
         thrown |-> s1.thrown]
  BY <1>1, <1>2, <1>3, GainMesoEffect
<1>6. Cancel(s, t, c, check) = Cleared(given, t)
  BY DEF Cancel, Cleared, Kept, s1, q, m
<1>7. CASE Kept(s, c, check)
  BY <1>6, <1>7, ClearedEffect
<1>8. CASE ~Kept(s, c, check)
  <2> DEFINE g == GainMeso(s1, c, m)
  <2>1. g \in State
    BY <1>4
  <2>2. g.inv = Taken(s, c, q) /\ g.wallet = Paid(s, c, m) /\ g.trade = s.trade
        /\ g.obj = s.obj /\ g.thrown = s.thrown
    BY <1>2, <1>4
  <2>3. Cancel(s, t, c, check) = Cleared(g, t)
    BY <1>6, <1>8
  <2> HIDE DEF g
  <2> QED BY <1>8, <2>1, <2>2, <2>3, ClearedEffect DEF q, m
<1> QED BY <1>7, <1>8

LEMMA CancelTame ==
    ASSUME NEW s \in State, NEW t \in Trades, NEW c \in Chars, NEW check \in BOOLEAN,
           fill \in [Chars -> 0..Slots]
    PROVE  Tame(s, Cancel(s, t, c, check))
<1>1. CASE s.trade[c] = None
  <2>1. Cancel(s, t, c, check) = Throw(s)
    BY <1>1 DEF Cancel
  <2> QED BY <2>1, ThrowTame
<1>2. CASE s.trade[c] # None
  <2> DEFINE r == Cancel(s, t, c, check)
  <2>1. s.obj \in [Trades -> TradeObj] /\ s.obj[t] \in TradeObj
    BY DEF State
  <2> HIDE DEF r
  <2>2. r \in State /\ r.trade = s.trade /\ r.obj = [s.obj EXCEPT ![t] = Emptied(s.obj[t])]
    BY <1>2, CancelEffect DEF r
  <2>3. SameBond(Emptied(s.obj[t]), s.obj[t]) /\ Len(Emptied(s.obj[t]).items) = 0
    BY <2>1, EmptiedType, EmptySeq
  <2>4. \A u \in Trades : SameBond(r.obj[u], s.obj[u])
    BY <2>1, <2>2, <2>3 DEF SameBond
  <2>5. Bounded(s.obj) => Bounded(r.obj)
    BY <2>1, <2>2, <2>3, TradeAssumption DEF Bounded
  <2> QED BY <2>2, <2>4, <2>5 DEF Tame, r
<1> QED BY <1>1, <1>2

\* The tax leaves an amount of mesos that a wallet can hold.
LEMMA TaxTaken ==
    ASSUME NEW x \in 0..MaxMeso
    PROVE  x - Tax[x] \in 0..MaxMeso
<1>1. MaxMeso \in Nat /\ Tax[x] \in 0..MaxMeso /\ Tax[x] <= x
  BY TradeAssumption
<1> QED BY <1>1

LEMMA CompleteEffect ==
    ASSUME NEW s \in State, NEW t \in Trades, fill \in [Chars -> 0..Slots],
           s.obj[t].owner \in Chars, s.obj[t].exFrom \in Trades \ {t},
           s.trade[s.obj[t].owner] # None, s.obj[s.trade[s.obj[t].owner]].partner # None
    PROVE  LET r == Complete(s, t)
               c == s.obj[t].owner
               from == s.obj[t].exFrom
           IN  /\ r \in State
               /\ r.inv = Taken(s, c, s.obj[from].items)
               /\ r.wallet = Paid(s, c, s.obj[t].exMeso - Tax[s.obj[t].exMeso])
               /\ r.trade = s.trade
               /\ r.obj = [s.obj EXCEPT ![from] = [s.obj[from] EXCEPT !.items = <<>>],
                                       ![t] = [s.obj[t] EXCEPT !.exMeso = 0]]
               /\ r.thrown = s.thrown
<1> DEFINE c == s.obj[t].owner
           from == s.obj[t].exFrom
           q == s.obj[from].items
           m == s.obj[t].exMeso - Tax[s.obj[t].exMeso]
           s1 == AddFromDrop(s, c, q)
           s2 == GainMeso(s1, c, m)
           o1 == [s.obj[from] EXCEPT !.items = <<>>]
           o2 == [s.obj[t] EXCEPT !.exMeso = 0]
           f1 == [s.obj EXCEPT ![from] = o1]
           f2 == [f1 EXCEPT ![t] = o2]
           r1 == [s2 EXCEPT !.obj = [s2.obj EXCEPT ![from] = [s2.obj[from] EXCEPT !.items = <<>>]]]
           r2 == [r1 EXCEPT !.obj = [r1.obj EXCEPT ![t] = [r1.obj[t] EXCEPT !.exMeso = 0]]]
<1>1. s.obj \in [Trades -> TradeObj] /\ s.obj[t] \in TradeObj /\ s.obj[from] \in TradeObj
  BY DEF State
<1>2. s.obj[t].exMeso \in 0..MaxMeso /\ q \in Seq(Items)
  BY <1>1 DEF TradeObj
<1>3. m \in 0..MaxMeso
  BY <1>2, TaxTaken
<1>4. Complete(s, t) = r2
  BY DEF Complete
<1>0. c \in Chars /\ from \in Trades \ {t} OBVIOUS
<1> HIDE DEF c, from
<1> HIDE DEF q, m
<1>5. s1 \in State /\ s1 =
        [inv |-> Taken(s, c, q), wallet |-> s.wallet, trade |-> s.trade, obj |-> s.obj,
         thrown |-> s.thrown]
  BY <1>0, <1>2, AddFromDropEffect
<1>6. Paid(s1, c, m) = Paid(s, c, m)
  BY <1>5 DEF Paid
<1>7. s2 \in State /\ s2 =
        [inv |-> s1.inv, wallet |-> Paid(s1, c, m), trade |-> s1.trade, obj |-> s1.obj,
         thrown |-> s1.thrown]
  BY <1>0, <1>3, <1>5, GainMesoEffect
<1> HIDE DEF s1, s2
<1>8. s2.obj = s.obj /\ s2.inv = Taken(s, c, q) /\ s2.wallet = Paid(s, c, m)
      /\ s2.trade = s.trade /\ s2.thrown = s.thrown
  BY <1>5, <1>6, <1>7
<1>9. o1 \in TradeObj /\ o2 \in TradeObj
  <2>1. <<>> \in Seq(Items) /\ 0 \in 0..MaxMeso
    BY EmptySeq, TradeAssumption
  <2> QED BY <1>1, <2>1 DEF TradeObj
<1>10. f1 \in [Trades -> TradeObj] /\ f1[t] = s.obj[t]
  BY <1>0, <1>1, <1>9
<1>11. f2 \in [Trades -> TradeObj]
  BY <1>9, <1>10
<1> HIDE DEF f1
<1>12. r1 = [s2 EXCEPT !.obj = f1]
  BY <1>8 DEF f1
<1> HIDE DEF r1
<1>13. r1 \in State /\ r1 = [inv |-> s2.inv, wallet |-> s2.wallet, trade |-> s2.trade, obj |-> f1,
                             thrown |-> s2.thrown]
  BY <1>7, <1>10, <1>12, ObjReplaced, Replaced
<1> HIDE DEF f2
<1>14. r2 = [r1 EXCEPT !.obj = f2]
  BY <1>10, <1>13 DEF f2
<1>15. r2 \in State /\ r2 = [inv |-> r1.inv, wallet |-> r1.wallet, trade |-> r1.trade, obj |-> f2,
                             thrown |-> r1.thrown]
  BY <1>11, <1>13, <1>14, ObjReplaced, Replaced
<1> HIDE DEF r2
<1> QED BY <1>4, <1>8, <1>13, <1>15 DEF f1, f2, q, m, c, from

LEMMA CompleteTame ==
    ASSUME NEW s \in State, NEW t \in Trades, fill \in [Chars -> 0..Slots],
           s.obj[t].owner \in Chars, s.obj[t].exFrom \in Trades \ {t}
    PROVE  Tame(s, Complete(s, t))
<1> DEFINE c == s.obj[t].owner
           from == s.obj[t].exFrom
           s1 == AddFromDrop(s, c, s.obj[from].items)
<1>1. s.obj \in [Trades -> TradeObj] /\ s.obj[t] \in TradeObj /\ s.obj[from] \in TradeObj
  BY DEF State
<1>2. s.obj[from].items \in Seq(Items)
  BY <1>1 DEF TradeObj
<1>3. CASE s.trade[c] = None
  <2>1. Complete(s, t) = Throw(s)
    BY <1>3 DEF Complete
  <2> QED BY <2>1, ThrowTame
<1>4. CASE s.trade[c] # None /\ s.obj[s.trade[c]].partner = None
  <2>1. Complete(s, t) = Throw(s1)
    BY <1>4 DEF Complete
  <2>2. s1 \in State /\ s1.obj = s.obj /\ s1.trade = s.trade
    BY <1>2, AddFromDropEffect
  <2> HIDE DEF s1
  <2>3. Tame(s1, Throw(s1))
    BY <2>2, ThrowTame
  <2> QED BY <2>1, <2>2, <2>3 DEF Tame
<1>5. CASE s.trade[c] # None /\ s.obj[s.trade[c]].partner # None
  <2> DEFINE r == Complete(s, t)
             o1 == [s.obj[from] EXCEPT !.items = <<>>]
             o2 == [s.obj[t] EXCEPT !.exMeso = 0]
  <2> HIDE DEF r, c, from
  <2>1. r \in State /\ r.trade = s.trade /\ r.obj = [s.obj EXCEPT ![from] = o1, ![t] = o2]
    <3>2. /\ Complete(s, t) \in State /\ Complete(s, t).trade = s.trade
          /\ Complete(s, t).obj = [s.obj EXCEPT ![from] = o1, ![t] = o2]
      BY <1>5, CompleteEffect DEF c, from
    <3> QED BY <3>2 DEF r
  <2>2. SameBond(o1, s.obj[from]) /\ o1.items = <<>> /\ SameBond(o2, s.obj[t]) /\ o2.items = s.obj[t].items
    BY <1>1 DEF SameBond, TradeObj
  <2> HIDE DEF o1, o2
  <2>3. \A u \in Trades : r.obj[u] = IF u = t THEN o2 ELSE IF u = from THEN o1 ELSE s.obj[u]
    BY <1>1, <2>1
  <2>4. \A u \in Trades : SameBond(r.obj[u], s.obj[u])
    BY <2>2, <2>3 DEF SameBond
  <2>5. Len(o1.items) = 0 /\ 0 <= OfferSlots
    BY <2>2, EmptySeq, TradeAssumption
  <2>6. Bounded(s.obj) => Bounded(r.obj)
    BY <2>2, <2>3, <2>5 DEF Bounded
  <2> QED BY <2>1, <2>4, <2>6 DEF Tame, r
<1> QED BY <1>3, <1>4, <1>5

-----------------------------------------------------------------------------
(* Who trades with whom, whatever has been given up.                        *)

\* A trade belongs to the character who is in it.  A partner's trade points
\* back to it and belongs to somebody else, and a confirmation has handed the
\* partner its list; nobody confirms a trade without a partner.
Bond(tr, ob, c) ==
    LET t == tr[c]
        p == ob[t].partner
    IN  /\ ob[t].owner = c
        /\ p = None => ~ob[t].locked
        /\ p # None => /\ ob[p].partner = t
                       /\ ob[p].owner \in Chars \ {c}
                       /\ ob[t].locked => ob[p].exFrom = t
                       /\ ob[p].locked => ob[t].exFrom = p

Wed(tr, ob) == \A c \in Chars : tr[c] # None => Bond(tr, ob, c)

LEMMA WedTame ==
    ASSUME NEW s \in State, NEW r, Tame(s, r), Wed(s.trade, s.obj)
    PROVE  Wed(r.trade, r.obj)
<1> SUFFICES ASSUME NEW c \in Chars, r.trade[c] # None
             PROVE  Bond(r.trade, r.obj, c)
  BY DEF Wed
<1> DEFINE t == s.trade[c]
           p == s.obj[t].partner
<1>1. r.trade[c] = t /\ t \in Trades
  BY DEF Tame, State
<1>2. Bond(s.trade, s.obj, c)
  BY <1>1, TradeAssumption DEF Wed
<1>3. SameBond(r.obj[t], s.obj[t])
  BY <1>1 DEF Tame
<1>4. p \in Trades \cup {None}
  BY <1>1 DEF State, TradeObj
<1>5. p # None => SameBond(r.obj[p], s.obj[p])
  BY <1>4 DEF Tame
<1> QED BY <1>1, <1>2, <1>3, <1>5 DEF Bond, SameBond

\* Objects that are still referred to stay as they are; the rest are blank.
LEMMA Collected ==
    ASSUME NEW s \in State, Becomes(s)
    PROVE  /\ \A c \in Chars : s.trade[c] # None =>
                 /\ obj'[s.trade[c]] = s.obj[s.trade[c]]
                 /\ s.obj[s.trade[c]].partner # None =>
                       obj'[s.obj[s.trade[c]].partner] = s.obj[s.obj[s.trade[c]].partner]
           /\ \A t \in Trades : obj'[t] \in {s.obj[t], NewTrade(None)}
<1>1. \A t \in Trades : obj'[t] = IF t \in Reached(s.trade, s.obj) THEN s.obj[t] ELSE NewTrade(None)
  BY DEF Becomes
<1>2. ASSUME NEW c \in Chars, s.trade[c] # None
      PROVE  /\ s.trade[c] \in Trades \cap Reached(s.trade, s.obj)
             /\ s.obj[s.trade[c]].partner \in Reached(s.trade, s.obj)
             /\ s.obj[s.trade[c]].partner \in Trades \cup {None}
  <2>1. s.trade[c] \in Trades
    BY <1>2 DEF State
  <2>2. s.obj[s.trade[c]] \in TradeObj
    BY <2>1 DEF State
  <2> QED BY <1>2, <2>1, <2>2 DEF Reached, TradeObj
<1> QED BY <1>1, <1>2

LEMMA NewTradeType ==
    ASSUME NEW c \in Chars \cup {None}
    PROVE  /\ NewTrade(c) \in TradeObj
           /\ NewTrade(c).owner = c /\ NewTrade(c).partner = None /\ NewTrade(c).items = <<>>
           /\ NewTrade(c).meso = 0 /\ ~NewTrade(c).locked
<1>1. 0 \in 0..MaxMeso
  BY TradeAssumption
<1>2. <<>> \in Seq(Items)
  BY EmptySeq
<1> QED BY <1>1, <1>2 DEF NewTrade, TradeObj

LEMMA BecomesSound ==
    ASSUME NEW s \in State, Becomes(s), Bounded(s.obj), Wed(s.trade, s.obj),
           fill' \in [Chars -> 0..Slots], abandoned' \in BOOLEAN
    PROVE  TypeOK' /\ Wed(trade, obj)'
<1>1. inv' \in [Chars -> SUBSET Items] /\ wallet' \in [Chars -> 0..MaxMeso]
      /\ trade' \in [Chars -> Trades \cup {None}]
  BY DEF Becomes, State
<1>2. \A t \in Trades : obj'[t] \in {s.obj[t], NewTrade(None)}
  BY Collected
<1>3. s.obj \in [Trades -> TradeObj] /\ NewTrade(None) \in TradeObj
  BY NewTradeType DEF State
<1>4. obj' \in [Trades -> TradeObj]
  BY <1>2, <1>3 DEF Becomes
<1>5. Bounded(obj)'
  <2>1. Len(NewTrade(None).items) = 0
    BY NewTradeType, EmptySeq
  <2> QED BY <1>2, <2>1, TradeAssumption DEF Bounded
<1>6. TypeOK'
  BY <1>1, <1>4, <1>5 DEF TypeOK, Bounded
<1>7. ASSUME NEW c \in Chars, trade'[c] # None
      PROVE  Bond(trade, obj, c)'
  <2>1. trade'[c] = s.trade[c] /\ Bond(s.trade, s.obj, c)
    BY <1>7 DEF Becomes, Wed
  <2>2. obj'[s.trade[c]] = s.obj[s.trade[c]]
        /\ (s.obj[s.trade[c]].partner # None =>
               obj'[s.obj[s.trade[c]].partner] = s.obj[s.obj[s.trade[c]].partner])
    BY <1>7, <2>1, Collected
  <2> QED BY <2>1, <2>2 DEF Bond
<1> QED BY <1>6, <1>7 DEF Wed

-----------------------------------------------------------------------------
(* The handlers keep the types and who trades with whom.                    *)

LEMMA NowState ==
    ASSUME TypeOK
    PROVE  /\ Now \in State /\ Bounded(Now.obj) /\ ~Now.thrown
           /\ Now.inv = inv /\ Now.wallet = wallet /\ Now.trade = trade /\ Now.obj = obj
BY DEF TypeOK, Now, State, Bounded

LEMMA TameStep ==
    ASSUME TypeOK, Wed(trade, obj), NEW r, Tame(Now, r), Becomes(r),
           fill' = fill, abandoned' \in BOOLEAN
    PROVE  TypeOK' /\ Wed(trade, obj)'
<1>1. Wed(r.trade, r.obj)
  BY NowState, WedTame
<1>2. r \in State /\ Bounded(r.obj)
  BY NowState DEF Tame
<1>3. fill' \in [Chars -> 0..Slots]
  BY DEF TypeOK
<1> QED BY <1>1, <1>2, <1>3, BecomesSound

LEMMA CancelTradeTame ==
    ASSUME NEW s \in State, Wed(s.trade, s.obj), fill \in [Chars -> 0..Slots],
           NEW c \in Chars, s.trade[c] # None
    PROVE  Tame(s, CancelTrade(s, s.trade[c], c))
<1> DEFINE t == s.trade[c]
           p == s.obj[t].partner
           o == s.obj[p].owner
           s1 == Cancel(s, t, c, FALSE)
           s2 == Cancel(s1, p, o, FALSE)
<1>1. t \in Trades /\ p \in Trades \cup {None}
  BY DEF State, TradeObj
<1>2. p # None => o \in Chars
  BY DEF Wed, Bond
<1>3. Tame(s, s1)
  BY <1>1, CancelTame
<1>4. s1 \in State
  BY <1>3 DEF Tame
<1> HIDE DEF s1
<1>5. Tame(s1, Leave(s1, c))
  BY <1>4, LeaveTame
<1>6. CASE p = None \/ s1.thrown
  <2>1. CancelTrade(s, t, c) \in {s1, Leave(s1, c)}
    BY <1>6 DEF CancelTrade, s1
  <2> QED BY <2>1, <1>3, <1>5, TameTransitive
<1>7. CASE p # None /\ ~s1.thrown
  <2>1. Tame(s1, s2) /\ s2 \in State
    BY <1>1, <1>2, <1>4, <1>7, CancelTame DEF Tame
  <2> HIDE DEF s2
  <2>2. Tame(s2, Leave(s2, o)) /\ Leave(s2, o) \in State
    BY <2>1, LeaveTame, LeaveEffect
  <2>3. Tame(Leave(s2, o), Leave(Leave(s2, o), c))
    BY <2>2, LeaveTame
  <2>4. CancelTrade(s, t, c) \in {s2, Leave(Leave(s2, o), c)}
    BY <1>7 DEF CancelTrade, s1, s2
  <2>5. Tame(s, s2)
    BY <1>3, <2>1, TameTransitive
  <2>6. Tame(s, Leave(s2, o))
    BY <2>2, <2>5, TameTransitive
  <2>7. Tame(s, Leave(Leave(s2, o), c))
    BY <2>3, <2>6, TameTransitive
  <2> QED BY <2>4, <2>5, <2>7
<1> QED BY <1>6, <1>7

LEMMA ExchangeTame ==
    ASSUME NEW s \in State, Wed(s.trade, s.obj), fill \in [Chars -> 0..Slots],
           NEW c \in Chars, s.trade[c] # None, NEW oneOfAKind \in BOOLEAN,
           s.obj[s.trade[c]].partner # None,
           s.obj[s.trade[c]].locked, s.obj[s.obj[s.trade[c]].partner].locked
    PROVE  Tame(s, Exchange(s, c, oneOfAKind))
<1> DEFINE t == s.trade[c]
           p == s.obj[t].partner
           o == s.obj[p].owner
           ok == Room(s, t) /\ Room(s, p) /\ ~oneOfAKind
           s1 == IF ok THEN Complete(s, t) ELSE Cancel(s, p, o, TRUE)
           s2 == IF ok THEN Complete(s1, p) ELSE Cancel(s1, t, c, TRUE)
<1>1. t \in Trades /\ p \in Trades
  BY DEF State, TradeObj
<1>2. /\ s.obj[t].owner = c /\ s.obj[p].owner \in Chars \ {c}
      /\ s.obj[t].exFrom = p /\ s.obj[p].exFrom = t
  BY DEF Wed, Bond
<1>3. t # p
  BY <1>2
<1>4. Tame(s, Complete(s, t)) /\ Tame(s, Cancel(s, p, o, TRUE))
  BY <1>1, <1>2, <1>3, CompleteTame, CancelTame
<1> HIDE DEF ok
<1>5. Tame(s, s1)
  BY <1>4
<1>6. s1 \in State /\ s1.obj[p].owner \in Chars /\ s1.obj[p].exFrom \in Trades \ {p}
  BY <1>1, <1>2, <1>3, <1>5 DEF Tame, SameBond
<1> HIDE DEF s1
<1>7. Tame(s1, Complete(s1, p)) /\ Tame(s1, Cancel(s1, t, c, TRUE))
  BY <1>1, <1>6, CompleteTame, CancelTame
<1>8. Tame(s1, s2) /\ s2 \in State
  BY <1>7 DEF Tame
<1> HIDE DEF s2
<1>9. Tame(s2, Leave(s2, o)) /\ Leave(s2, o) \in State
  BY <1>8, LeaveTame, LeaveEffect
<1>10. Tame(Leave(s2, o), Leave(Leave(s2, o), c))
  BY <1>9, LeaveTame
<1>11. Exchange(s, c, oneOfAKind) \in {s1, s2, Leave(Leave(s2, o), c)}
  BY DEF Exchange, s1, s2, ok
<1>12. Tame(s, s2)
  BY <1>5, <1>8, TameTransitive
<1>13. Tame(s, Leave(s2, o))
  BY <1>9, <1>12, TameTransitive
<1>14. Tame(s, Leave(Leave(s2, o), c))
  BY <1>10, <1>13, TameTransitive
<1> QED BY <1>5, <1>11, <1>12, <1>14

LEMMA ObjUpdated ==
    ASSUME NEW r \in State, NEW t \in Trades, NEW a \in TradeObj
    PROVE  LET q == [r EXCEPT !.obj = [r.obj EXCEPT ![t] = a]]
           IN  /\ q \in State /\ q.obj = [r.obj EXCEPT ![t] = a]
               /\ q.inv = r.inv /\ q.wallet = r.wallet /\ q.trade = r.trade /\ q.thrown = r.thrown
<1> DEFINE f == [r.obj EXCEPT ![t] = a]
<1>1. f \in [Trades -> TradeObj]
  BY DEF State
<1> HIDE DEF f
<1>2. [r EXCEPT !.obj = f] \in State
  BY <1>1, ObjReplaced
<1>3. [r EXCEPT !.obj = f] = [inv |-> r.inv, wallet |-> r.wallet, trade |-> r.trade, obj |-> f,
                              thrown |-> r.thrown]
  BY Replaced
<1> QED BY <1>2, <1>3 DEF f

\* The two objects after c's confirmation.
Confirming(s, t, p) ==
    [s.obj[t] EXCEPT !.locked = TRUE,
                     !.seen = [items |-> Elems(s.obj[p].items), meso |-> s.obj[p].meso]]
Shown(s, t, p) == [s.obj[p] EXCEPT !.exFrom = t, !.exMeso = s.obj[t].meso]

LEMMA ElemsType ==
    ASSUME NEW q \in Seq(Items)
    PROVE  Elems(q) \in SUBSET Items /\ Elems(q) = {q[k] : k \in 1..Len(q)}
BY LenProperties, ElementOfSeq DEF Elems

LEMMA ConfirmingType ==
    ASSUME NEW s \in State, NEW t \in Trades, NEW p \in Trades
    PROVE  LET a == Confirming(s, t, p)
               b == Shown(s, t, p)
           IN  /\ a \in TradeObj /\ b \in TradeObj
               /\ a.owner = s.obj[t].owner /\ a.partner = s.obj[t].partner /\ a.locked
               /\ a.items = s.obj[t].items /\ a.meso = s.obj[t].meso
               /\ a.exFrom = s.obj[t].exFrom /\ a.exMeso = s.obj[t].exMeso
               /\ a.seen.items = Elems(s.obj[p].items) /\ a.seen.meso = s.obj[p].meso
               /\ b.owner = s.obj[p].owner /\ b.partner = s.obj[p].partner
               /\ b.locked = s.obj[p].locked /\ b.exFrom = t /\ b.exMeso = s.obj[t].meso
               /\ b.items = s.obj[p].items /\ b.meso = s.obj[p].meso /\ b.seen = s.obj[p].seen
<1>1. s.obj[t] \in TradeObj /\ s.obj[p] \in TradeObj
  BY DEF State
<1>2. s.obj[p].items \in Seq(Items) /\ s.obj[p].meso \in 0..MaxMeso /\ s.obj[t].meso \in 0..MaxMeso
  BY <1>1 DEF TradeObj
<1>3. [items |-> Elems(s.obj[p].items), meso |-> s.obj[p].meso]
        \in [items: SUBSET Items, meso: 0..MaxMeso]
  BY <1>2, ElemsType
<1>4. Confirming(s, t, p) \in TradeObj /\ Shown(s, t, p) \in TradeObj
  BY <1>1, <1>2, <1>3 DEF Confirming, Shown, TradeObj
<1> QED BY <1>1, <1>4 DEF Confirming, Shown, TradeObj

LEMMA ConfirmedEffect ==
    ASSUME NEW s \in State, NEW c \in Chars, s.trade[c] \in Trades,
           s.obj[s.trade[c]].partner \in Trades \ {s.trade[c]}
    PROVE  LET r == Confirmed(s, c)
               t == s.trade[c]
               p == s.obj[t].partner
           IN  /\ r \in State
               /\ r.inv = s.inv /\ r.wallet = s.wallet /\ r.trade = s.trade /\ r.thrown = s.thrown
               /\ r.obj = [s.obj EXCEPT ![t] = Confirming(s, t, p), ![p] = Shown(s, t, p)]
<1> DEFINE t == s.trade[c]
           p == s.obj[t].partner
           sn == [items |-> Elems(s.obj[p].items), meso |-> s.obj[p].meso]
           a1 == [s.obj[t] EXCEPT !.locked = TRUE]
           r1 == [s EXCEPT !.obj = [s.obj EXCEPT ![t] = a1]]
           a2 == [r1.obj[t] EXCEPT !.seen = sn]
           r2 == [r1 EXCEPT !.obj = [r1.obj EXCEPT ![t] = a2]]
           b1 == [r2.obj[p] EXCEPT !.exFrom = t]
           r3 == [r2 EXCEPT !.obj = [r2.obj EXCEPT ![p] = b1]]
           b2 == [r3.obj[p] EXCEPT !.exMeso = s.obj[t].meso]
           r4 == [r3 EXCEPT !.obj = [r3.obj EXCEPT ![p] = b2]]
<1>1. Confirmed(s, c) = r4
  BY DEF Confirmed
<1>2. s.obj \in [Trades -> TradeObj] /\ s.obj[t] \in TradeObj /\ s.obj[p] \in TradeObj
  BY DEF State
<1>3. s.obj[p].items \in Seq(Items) /\ s.obj[p].meso \in 0..MaxMeso /\ s.obj[t].meso \in 0..MaxMeso
  BY <1>2 DEF TradeObj
<1>4. sn \in [items: SUBSET Items, meso: 0..MaxMeso]
  BY <1>3, ElemsType
<1> HIDE DEF sn
<1>5. a1 \in TradeObj
  BY <1>2 DEF TradeObj
<1> HIDE DEF a1
<1>6. /\ r1 \in State /\ r1.obj = [s.obj EXCEPT ![t] = a1]
      /\ r1.inv = s.inv /\ r1.wallet = s.wallet /\ r1.trade = s.trade /\ r1.thrown = s.thrown
  BY <1>5, ObjUpdated
<1> HIDE DEF r1
<1>7. r1.obj[t] = a1
  BY <1>2, <1>6
<1>8. a2 \in TradeObj
  BY <1>4, <1>5, <1>7 DEF TradeObj
<1> HIDE DEF a2
<1>9. /\ r2 \in State /\ r2.obj = [r1.obj EXCEPT ![t] = a2]
      /\ r2.inv = s.inv /\ r2.wallet = s.wallet /\ r2.trade = s.trade /\ r2.thrown = s.thrown
  BY <1>6, <1>8, ObjUpdated
<1> HIDE DEF r2
<1>10. r2.obj = [s.obj EXCEPT ![t] = a2] /\ r2.obj[p] = s.obj[p]
  BY <1>2, <1>6, <1>9
<1>11. b1 \in TradeObj
  BY <1>2, <1>10 DEF TradeObj
<1> HIDE DEF b1
<1>12. /\ r3 \in State /\ r3.obj = [r2.obj EXCEPT ![p] = b1]
       /\ r3.inv = s.inv /\ r3.wallet = s.wallet /\ r3.trade = s.trade /\ r3.thrown = s.thrown
  BY <1>9, <1>11, ObjUpdated
<1> HIDE DEF r3
<1>13. r3.obj[p] = b1
  BY <1>2, <1>10, <1>12
<1>14. b2 \in TradeObj
  BY <1>3, <1>11, <1>13 DEF TradeObj
<1> HIDE DEF b2
<1>15. /\ r4 \in State /\ r4.obj = [r3.obj EXCEPT ![p] = b2]
       /\ r4.inv = s.inv /\ r4.wallet = s.wallet /\ r4.trade = s.trade /\ r4.thrown = s.thrown
  BY <1>12, <1>14, ObjUpdated
<1> HIDE DEF r4
<1>16. r4.obj = [s.obj EXCEPT ![t] = a2, ![p] = b2]
  BY <1>2, <1>10, <1>12, <1>15
<1>17. a2 = Confirming(s, t, p)
  BY <1>2, <1>7 DEF Confirming, a1, a2, sn
<1>18. b2 = Shown(s, t, p)
  BY <1>2, <1>10, <1>13 DEF Shown, b1, b2
<1> QED BY <1>1, <1>15, <1>16, <1>17, <1>18

\* c's trade after an item is put into it.
Offering(s, t, i) ==
    [s.obj[t] EXCEPT !.items = IF s.obj[t].partner = None THEN s.obj[t].items
                               ELSE Append(s.obj[t].items, i)]

LEMMA AppendItem ==
    ASSUME NEW q \in Seq(Items), NEW i \in Items
    PROVE  /\ Append(q, i) \in Seq(Items) /\ Len(Append(q, i)) = Len(q) + 1
           /\ Elems(Append(q, i)) = Elems(q) \cup {i}
           /\ \A k \in 1..Len(q) : Append(q, i)[k] = q[k]
           /\ Append(q, i)[Len(q) + 1] = i
<1>1. Append(q, i) \in Seq(Items) /\ Len(Append(q, i)) = Len(q) + 1
      /\ \A k \in 1..(Len(q) + 1) : Append(q, i)[k] = IF k = Len(q) + 1 THEN i ELSE q[k]
  BY AppendProperties, LenProperties
<1>2. Elems(q) = {q[k] : k \in 1..Len(q)}
      /\ Elems(Append(q, i)) = {Append(q, i)[k] : k \in 1..(Len(q) + 1)}
  BY <1>1, ElemsType
<1>3. Len(q) \in Nat
  BY LenProperties
<1> HIDE DEF Elems
<1>4. Elems(Append(q, i)) = Elems(q) \cup {i}
  <2>1. \A k \in 1..Len(q) : k \in 1..(Len(q) + 1) /\ k # Len(q) + 1
    BY <1>3
  <2>2. Len(q) + 1 \in 1..(Len(q) + 1)
    BY <1>3
  <2>3. \A k \in 1..(Len(q) + 1) : k = Len(q) + 1 \/ k \in 1..Len(q)
    BY <1>3
  <2> QED BY <1>1, <1>2, <2>1, <2>2, <2>3
<1>5. \A k \in 1..Len(q) : Append(q, i)[k] = q[k]
  BY <1>1, <1>3
<1>6. Append(q, i)[Len(q) + 1] = i
  BY <1>1, <1>3
<1> QED BY <1>1, <1>4, <1>5, <1>6

LEMMA SetItemsEffect ==
    ASSUME NEW s \in State, NEW c \in Chars, NEW i \in Items, s.trade[c] \in Trades
    PROVE  LET r == SetItems(s, c, i)
               t == s.trade[c]
           IN  /\ r \in State
               /\ r.inv = [s.inv EXCEPT ![c] = s.inv[c] \ {i}]
               /\ r.wallet = s.wallet /\ r.trade = s.trade /\ r.thrown = s.thrown
               /\ r.obj = [s.obj EXCEPT ![t] = Offering(s, t, i)]
               /\ Offering(s, t, i) \in TradeObj
<1> DEFINE t == s.trade[c]
           iv == [s.inv EXCEPT ![c] = s.inv[c] \ {i}]
           r1 == [s EXCEPT !.inv = iv]
           q == r1.obj[t].items
           a == [r1.obj[t] EXCEPT !.items = IF s.obj[t].partner = None THEN q ELSE Append(q, i)]
           r2 == [r1 EXCEPT !.obj = [r1.obj EXCEPT ![t] = a]]
<1>1. SetItems(s, c, i) = r2
  BY DEF SetItems
<1>2. iv \in [Chars -> SUBSET Items]
  BY DEF State
<1> HIDE DEF iv
<1>3. r1 = [inv |-> iv, wallet |-> s.wallet, trade |-> s.trade, obj |-> s.obj, thrown |-> s.thrown]
  BY Replaced
<1>4. r1 \in State
  BY <1>2, <1>3 DEF State
<1> HIDE DEF r1
<1>5. r1.obj[t] = s.obj[t] /\ s.obj[t] \in TradeObj
  BY <1>3 DEF State
<1>6. q \in Seq(Items)
  BY <1>5 DEF TradeObj
<1>7. Append(q, i) \in Seq(Items)
  BY <1>6, AppendItem
<1>8. a \in TradeObj /\ a = Offering(s, t, i)
  BY <1>5, <1>6, <1>7 DEF TradeObj, Offering
<1> HIDE DEF a
<1>9. /\ r2 \in State /\ r2.obj = [r1.obj EXCEPT ![t] = a]
      /\ r2.inv = r1.inv /\ r2.wallet = r1.wallet /\ r2.trade = r1.trade /\ r2.thrown = r1.thrown
  BY <1>4, <1>8, ObjUpdated
<1> HIDE DEF r2
<1> QED BY <1>1, <1>3, <1>8, <1>9 DEF iv

\* What TypeOK and Wed say of the trade c is in.
LEMMA InTrade ==
    ASSUME TypeOK, Wed(trade, obj), NEW c \in Chars, trade[c] # None
    PROVE  LET t == trade[c]
               p == obj[t].partner
           IN  /\ t \in Trades /\ obj[t] \in TradeObj /\ obj[t].owner = c
               /\ p \in Trades \cup {None}
               /\ p = None => ~obj[t].locked
               /\ p # None => /\ p # t /\ obj[p] \in TradeObj /\ obj[p].partner = t
                              /\ obj[p].owner \in Chars \ {c}
                              /\ obj[t].locked => obj[p].exFrom = t
                              /\ obj[p].locked => obj[t].exFrom = p
<1> DEFINE t == trade[c]
           p == obj[t].partner
<1>1. t \in Trades /\ obj[t] \in TradeObj
  BY DEF TypeOK
<1>2. p \in Trades \cup {None}
  BY <1>1 DEF TradeObj
<1>3. Bond(trade, obj, c)
  BY DEF Wed
<1>4. p # None => obj[p] \in TradeObj
  BY <1>2 DEF TypeOK
<1> QED BY <1>1, <1>2, <1>3, <1>4 DEF Bond

\* Nothing but their own trades refers to the objects of two who trade.
LEMMA Strangers ==
    ASSUME TypeOK, Wed(trade, obj), NEW c \in Chars, NEW d \in Chars \ {c},
           trade[c] # None, trade[d] # None,
           obj[trade[c]].partner # None => d # obj[obj[trade[c]].partner].owner
    PROVE  /\ trade[d] # trade[c] /\ obj[trade[d]].partner # trade[c]
           /\ obj[trade[c]].partner # None => /\ trade[d] # obj[trade[c]].partner
                                              /\ obj[trade[d]].partner # obj[trade[c]].partner
<1> DEFINE t == trade[c]
           p == obj[t].partner
           u == trade[d]
           v == obj[u].partner
<1>1. /\ t \in Trades /\ obj[t].owner = c
      /\ p # None => p # t /\ obj[p].partner = t
  BY InTrade
<1>2. /\ u \in Trades /\ obj[u].owner = d
      /\ v # None => v # u /\ obj[v].partner = u
  BY InTrade
<1>3. t # None /\ u # None OBVIOUS
<1> QED BY <1>1, <1>2, <1>3

LEMMA startTradeSound ==
    ASSUME TypeOK, Wed(trade, obj), NEW c \in Chars, startTrade(c)
    PROVE  TypeOK' /\ Wed(trade, obj)'
<1>1. PICK t \in Unused : /\ trade' = [trade EXCEPT ![c] = t]
                          /\ obj' = [obj EXCEPT ![t] = NewTrade(c)]
  BY DEF startTrade
<1>2. t \in Trades /\ t \notin Reached(trade, obj)
  BY <1>1 DEF Unused
<1>3. NewTrade(c) \in TradeObj /\ NewTrade(c).owner = c /\ NewTrade(c).partner = None
      /\ NewTrade(c).items = <<>> /\ ~NewTrade(c).locked
  BY NewTradeType
<1>4. UNCHANGED <<inv, fill, wallet, abandoned>>
  BY DEF startTrade
<1>5. TypeOK'
  <2>1. \A u \in Trades : obj'[u] = IF u = t THEN NewTrade(c) ELSE obj[u]
    BY <1>1 DEF TypeOK
  <2>2. Len(NewTrade(c).items) = 0 /\ 0 <= OfferSlots
    BY <1>3, EmptySeq, TradeAssumption
  <2>3. \A u \in Trades : Len(obj'[u].items) <= OfferSlots
    BY <2>1, <2>2 DEF TypeOK
  <2>4. obj' \in [Trades -> TradeObj] /\ trade' \in [Chars -> Trades \cup {None}]
    BY <1>1, <1>2, <1>3 DEF TypeOK
  <2> QED BY <1>4, <2>3, <2>4 DEF TypeOK
<1>6. ASSUME NEW d \in Chars, trade'[d] # None
      PROVE  Bond(trade, obj, d)'
  <2>1. CASE d = c
    <3>1. trade'[d] = t /\ obj'[t] = NewTrade(c)
      BY <1>1, <1>2, <2>1 DEF TypeOK
    <3> QED BY <1>3, <2>1, <3>1 DEF Bond
  <2>2. CASE d # c
    <3>1. trade'[d] = trade[d] /\ trade[d] # None
      BY <1>1, <1>6, <2>2 DEF TypeOK
    <3>2. trade[d] \in Reached(trade, obj) /\ obj[trade[d]].partner \in Reached(trade, obj)
      BY <3>1 DEF Reached
    <3>3. obj'[trade[d]] = obj[trade[d]] /\ obj'[obj[trade[d]].partner] = obj[obj[trade[d]].partner]
      BY <1>1, <1>2, <3>2 DEF TypeOK
    <3>4. Bond(trade, obj, d)
      BY <3>1 DEF Wed
    <3> QED BY <3>1, <3>3, <3>4 DEF Bond
  <2> QED BY <2>1, <2>2
<1> QED BY <1>5, <1>6 DEF Wed

LEMMA inviteTradeSound ==
    ASSUME TypeOK, Wed(trade, obj), NEW c \in Chars, NEW d \in Chars, inviteTrade(c, d)
    PROVE  TypeOK' /\ Wed(trade, obj)'
<1> DEFINE s == trade[c]
           a(t) == [obj[s] EXCEPT !.partner = t]
           b == [NewTrade(d) EXCEPT !.partner = s]
<1>1. /\ UNCHANGED <<inv, fill, wallet, abandoned>>
      /\ c # d /\ s # None /\ obj[s].partner = None /\ trade[d] = None
  BY DEF inviteTrade
<1>2. /\ s \in Trades /\ obj[s] \in TradeObj /\ obj[s].owner = c /\ ~obj[s].locked
      /\ s \in Reached(trade, obj)
  BY <1>1, InTrade DEF Reached
<1>3. PICK t \in Unused : /\ trade' = [trade EXCEPT ![d] = t]
                          /\ obj' = [obj EXCEPT ![t] = b, ![s].partner = t]
  BY DEF inviteTrade
<1>4. t \in Trades /\ t \notin Reached(trade, obj) /\ t # s
  BY <1>2, <1>3 DEF Unused
<1>5. /\ NewTrade(d) \in TradeObj /\ NewTrade(d).owner = d /\ NewTrade(d).items = <<>>
      /\ ~NewTrade(d).locked
  BY NewTradeType
<1>6. b \in TradeObj /\ b.owner = d /\ b.partner = s /\ b.items = <<>> /\ ~b.locked
  BY <1>2, <1>5 DEF TradeObj
<1>7. /\ a(t) \in TradeObj /\ a(t).owner = c /\ a(t).partner = t /\ ~a(t).locked
      /\ a(t).items = obj[s].items
  BY <1>2, <1>4 DEF TradeObj
<1>8. \A u \in Trades : obj'[u] = IF u = s THEN a(t) ELSE IF u = t THEN b ELSE obj[u]
  BY <1>2, <1>3, <1>4 DEF TypeOK
<1> HIDE DEF a, b
<1>9. TypeOK'
  <2>1. Len(b.items) = 0 /\ 0 <= OfferSlots
    BY <1>6, EmptySeq, TradeAssumption
  <2>2. \A u \in Trades : Len(obj'[u].items) <= OfferSlots
    BY <1>2, <1>7, <1>8, <2>1 DEF TypeOK
  <2>3. obj' \in [Trades -> TradeObj]
    <3>1. obj' = [u \in Trades |-> obj'[u]]
      BY <1>3 DEF TypeOK
    <3> QED BY <1>6, <1>7, <1>8, <3>1 DEF TypeOK
  <2>4. trade' \in [Chars -> Trades \cup {None}]
    BY <1>3, <1>4 DEF TypeOK
  <2> QED BY <1>1, <2>2, <2>3, <2>4 DEF TypeOK
<1>10. ASSUME NEW e \in Chars, trade'[e] # None
       PROVE  Bond(trade, obj, e)'
  <2>1. s # None /\ t # None /\ obj'[s] = a(t) /\ obj'[t] = b
    BY <1>2, <1>4, <1>8, TradeAssumption
  <2>2. CASE e = c
    <3>1. trade'[e] = s
      BY <1>1, <1>3, <2>2 DEF TypeOK
    <3> QED BY <1>1, <1>6, <1>7, <2>1, <2>2, <3>1 DEF Bond
  <2>3. CASE e = d
    <3>1. trade'[e] = t
      BY <1>3, <2>3 DEF TypeOK
    <3> QED BY <1>1, <1>6, <1>7, <2>1, <2>3, <3>1 DEF Bond
  <2>4. CASE e # c /\ e # d
    <3>1. trade'[e] = trade[e] /\ trade[e] # None
      BY <1>3, <1>10, <2>4 DEF TypeOK
    <3>2. trade[e] \in Reached(trade, obj) /\ obj[trade[e]].partner \in Reached(trade, obj)
      BY <3>1 DEF Reached
    <3>3. trade[e] # s /\ obj[trade[e]].partner # s
      BY <1>1, <2>4, <3>1, Strangers
    <3>4. /\ trade[e] \in Trades
          /\ obj[trade[e]].partner \in Trades \cup {None}
      BY <3>1, InTrade
    <3>5. /\ obj'[trade[e]] = obj[trade[e]]
          /\ obj[trade[e]].partner # None =>
                obj'[obj[trade[e]].partner] = obj[obj[trade[e]].partner]
      BY <1>4, <1>8, <3>2, <3>3, <3>4
    <3>6. Bond(trade, obj, e)
      BY <3>1 DEF Wed
    <3> QED BY <3>1, <3>5, <3>6 DEF Bond
  <2> QED BY <2>2, <2>3, <2>4
<1> QED BY <1>9, <1>10 DEF Wed

LEMMA inviteShopkeeperSound ==
    ASSUME TypeOK, Wed(trade, obj), NEW c \in Chars, NEW d \in Chars, inviteShopkeeper(c, d)
    PROVE  TypeOK' /\ Wed(trade, obj)'
<1> DEFINE s1 == Cancel(Now, trade[c], c, FALSE)
<1>1. /\ trade[c] # None /\ Becomes(Leave(s1, c)) /\ fill' = fill
      /\ abandoned' = (abandoned \/ obj[trade[c]].partner # None)
  BY DEF inviteShopkeeper
<1>2. Tame(Now, s1)
  BY <1>1, NowState, InTrade, CancelTame DEF TypeOK
<1> HIDE DEF s1
<1>3. Tame(s1, Leave(s1, c))
  BY <1>2, LeaveTame DEF Tame
<1>4. Tame(Now, Leave(s1, c))
  BY <1>2, <1>3, TameTransitive
<1>5. abandoned' \in BOOLEAN
  BY <1>1
<1> QED BY <1>1, <1>4, <1>5, TameStep

LEMMA declineTradeSound ==
    ASSUME TypeOK, Wed(trade, obj), NEW c \in Chars, declineTrade(c)
    PROVE  TypeOK' /\ Wed(trade, obj)'
<1> DEFINE t == trade[c]
           p == obj[t].partner
           o == obj[p].owner
           s1 == Cancel(Now, trade[o], o, FALSE)
           s2 == Leave(s1, o)
           s3 == IF p = None THEN Now ELSE s2
           s4 == Cancel(s3, t, c, FALSE)
<1>1. t # None /\ UNCHANGED <<fill, abandoned>>
  BY DEF declineTrade
<1>2. fill \in [Chars -> 0..Slots] /\ abandoned' \in BOOLEAN
  BY <1>1 DEF TypeOK
<1>3. CASE p # None /\ trade[o] = None
  <2>1. UNCHANGED <<inv, wallet, trade, obj>>
    BY <1>3 DEF declineTrade
  <2>2. TypeOK'
    BY <1>1, <2>1 DEF TypeOK
  <2>3. Wed(trade, obj)'
    BY <2>1 DEF Wed, Bond
  <2> QED BY <2>2, <2>3
<1>4. CASE ~(p # None /\ trade[o] = None)
  <2>1. Becomes(Leave(s4, c))
    BY <1>4 DEF declineTrade
  <2>2. t \in Trades /\ (p # None => o \in Chars)
    BY <1>1, InTrade
  <2>3. Now \in State /\ Tame(Now, Now)
    BY NowState DEF Tame, SameBond
  <2>4. ASSUME p # None
        PROVE  Tame(Now, s2)
    <3>1. o \in Chars /\ trade[o] \in Trades
      BY <1>4, <2>2, <2>4 DEF TypeOK
    <3>2. Tame(Now, s1)
      BY <1>2, <2>3, <3>1, CancelTame
    <3> HIDE DEF s1
    <3>3. Tame(s1, s2)
      BY <3>2, LeaveTame DEF Tame
    <3> HIDE DEF s2
    <3> QED BY <3>2, <3>3, TameTransitive
  <2> HIDE DEF s2
  <2>5. Tame(Now, s3) /\ s3 \in State
    BY <2>3, <2>4 DEF Tame
  <2> HIDE DEF s3
  <2>6. Tame(s3, s4)
    BY <1>2, <2>2, <2>5, CancelTame
  <2> HIDE DEF s4
  <2>7. Tame(s4, Leave(s4, c))
    BY <2>6, LeaveTame DEF Tame
  <2>8. Tame(Now, s4)
    BY <2>5, <2>6, TameTransitive
  <2>9. Tame(Now, Leave(s4, c))
    BY <2>7, <2>8, TameTransitive
  <2> QED BY <1>1, <1>2, <2>1, <2>9, TameStep
<1> QED BY <1>3, <1>4

LEMMA cancelTradeSound ==
    ASSUME TypeOK, Wed(trade, obj), NEW c \in Chars, exitTrade(c) \/ leaveMap(c)
    PROVE  TypeOK' /\ Wed(trade, obj)'
<1>1. /\ trade[c] # None /\ Becomes(CancelTrade(Now, trade[c], c))
      /\ UNCHANGED <<fill, abandoned>>
  BY DEF exitTrade, leaveMap
<1>2. fill \in [Chars -> 0..Slots] /\ abandoned' \in BOOLEAN
  BY <1>1 DEF TypeOK
<1>3. Tame(Now, CancelTrade(Now, trade[c], c))
  BY <1>1, <1>2, NowState, CancelTradeTame
<1> QED BY <1>1, <1>2, <1>3, TameStep

LEMMA setItemsSound ==
    ASSUME TypeOK, Wed(trade, obj), NEW c \in Chars, NEW i \in Items, setItems(c, i)
    PROVE  TypeOK' /\ Wed(trade, obj)'
<1> DEFINE t == trade[c]
           r == SetItems(Now, c, i)
           a == Offering(Now, t, i)
<1>1. /\ t # None /\ Len(obj[t].items) < OfferSlots /\ Becomes(r)
      /\ UNCHANGED <<fill, abandoned>>
  BY DEF setItems
<1>2. t \in Trades /\ obj[t] \in TradeObj
  BY <1>1, InTrade
<1>3. /\ r \in State /\ r.trade = trade
      /\ r.obj = [obj EXCEPT ![t] = a] /\ a \in TradeObj
  <2>1. Now \in State /\ Now.trade = trade /\ Now.obj = obj
    BY NowState
  <2>2. /\ r \in State /\ r.trade = Now.trade
        /\ r.obj = [Now.obj EXCEPT ![Now.trade[c]] = Offering(Now, Now.trade[c], i)]
        /\ Offering(Now, Now.trade[c], i) \in TradeObj
    BY <1>2, <2>1, SetItemsEffect
  <2> QED BY <2>1, <2>2
<1> HIDE DEF r
<1>4. SameBond(a, obj[t])
  BY <1>2, NowState DEF SameBond, TradeObj, Offering
<1>5. obj[t].items \in Seq(Items) /\ Len(obj[t].items) \in Nat
  BY <1>2, LenProperties DEF TradeObj
<1>6. Len(a.items) <= OfferSlots
  <2>1. a.items = obj[t].items \/ a.items = Append(obj[t].items, i)
    BY <1>2, NowState DEF Offering, TradeObj
  <2>2. Len(Append(obj[t].items, i)) = Len(obj[t].items) + 1
    BY <1>5, AppendItem
  <2> QED BY <1>1, <1>5, <2>1, <2>2, TradeAssumption
<1> HIDE DEF a
<1>7. \A u \in Trades : r.obj[u] = IF u = t THEN a ELSE obj[u]
  BY <1>3 DEF TypeOK
<1>8. Bounded(r.obj)
  BY <1>6, <1>7 DEF Bounded, TypeOK
<1>9. \A u \in Trades : SameBond(r.obj[u], obj[u])
  BY <1>4, <1>7 DEF SameBond
<1>10. Tame(Now, r)
  BY <1>3, <1>8, <1>9, NowState DEF Tame
<1>11. abandoned' \in BOOLEAN
  BY <1>1 DEF TypeOK
<1> QED BY <1>1, <1>10, <1>11, TameStep

LEMMA setMesoSound ==
    ASSUME TypeOK, Wed(trade, obj), NEW c \in Chars, NEW m \in Amounts, setMeso(c, m)
    PROVE  TypeOK' /\ Wed(trade, obj)'
<1> DEFINE t == trade[c]
           a == [obj[t] EXCEPT !.meso = obj[t].meso + m]
<1>1. /\ t # None /\ obj[t].meso + m <= MaxMeso /\ wallet[c] >= m
      /\ wallet' = [wallet EXCEPT ![c] = wallet[c] - m]
      /\ obj' = [obj EXCEPT ![t] = a]
      /\ UNCHANGED <<inv, fill, trade, abandoned>>
  BY DEF setMeso
<1>2. t \in Trades /\ obj[t] \in TradeObj
  BY <1>1, InTrade
<1>3. obj[t].meso \in 0..MaxMeso /\ wallet[c] \in 0..MaxMeso /\ m \in 1..MaxMeso /\ MaxMeso \in Nat
  BY <1>2, TradeAssumption DEF TypeOK, TradeObj
<1>4. obj[t].meso + m \in 0..MaxMeso /\ wallet[c] - m \in 0..MaxMeso
  BY <1>1, <1>3
<1>5. a \in TradeObj /\ SameBond(a, obj[t]) /\ a.items = obj[t].items
  BY <1>2, <1>4 DEF TradeObj, SameBond
<1> HIDE DEF a
<1>6. wallet' \in [Chars -> 0..MaxMeso]
  BY <1>1, <1>4 DEF TypeOK
<1>7. obj' \in [Trades -> TradeObj] /\ \A u \in Trades : obj'[u] = IF u = t THEN a ELSE obj[u]
  BY <1>1, <1>5 DEF TypeOK
<1>8. \A u \in Trades : SameBond(obj'[u], obj[u]) /\ obj'[u].items = obj[u].items
  BY <1>5, <1>7 DEF SameBond
<1>9. TypeOK'
  BY <1>1, <1>6, <1>7, <1>8 DEF TypeOK
<1>10. ASSUME NEW d \in Chars, trade'[d] # None
       PROVE  Bond(trade, obj, d)'
  <2>1. trade'[d] = trade[d] /\ trade[d] \in Trades /\ obj[trade[d]].partner \in Trades \cup {None}
    BY <1>1, <1>10, InTrade
  <2>2. Bond(trade, obj, d)
    BY <1>10, <2>1 DEF Wed
  <2>3. /\ SameBond(obj'[trade[d]], obj[trade[d]])
        /\ obj[trade[d]].partner # None =>
              SameBond(obj'[obj[trade[d]].partner], obj[obj[trade[d]].partner])
    BY <1>8, <2>1
  <2> QED BY <2>1, <2>2, <2>3 DEF Bond, SameBond
<1> QED BY <1>9, <1>10 DEF Wed

LEMMA NowConfirming ==
    ASSUME TypeOK, NEW t \in Trades, NEW p \in Trades
    PROVE  LET a == Confirming(Now, t, p)
               b == Shown(Now, t, p)
           IN  /\ a \in TradeObj /\ b \in TradeObj
               /\ a.owner = obj[t].owner /\ a.partner = obj[t].partner /\ a.locked
               /\ a.items = obj[t].items /\ a.meso = obj[t].meso
               /\ a.exFrom = obj[t].exFrom /\ a.exMeso = obj[t].exMeso
               /\ a.seen.items = Elems(obj[p].items) /\ a.seen.meso = obj[p].meso
               /\ b.owner = obj[p].owner /\ b.partner = obj[p].partner
               /\ b.locked = obj[p].locked /\ b.exFrom = t /\ b.exMeso = obj[t].meso
               /\ b.items = obj[p].items /\ b.meso = obj[p].meso /\ b.seen = obj[p].seen
<1>1. Now \in State /\ Now.obj = obj
  BY NowState
<1> DEFINE n == Now
<1> HIDE DEF n
<1>2. n \in State /\ n.obj = obj
  BY <1>1 DEF n
<1> QED BY <1>2, ConfirmingType DEF n

LEMMA ConfirmedSound ==
    ASSUME TypeOK, Wed(trade, obj), NEW c \in Chars, trade[c] # None,
           obj[trade[c]].partner # None
    PROVE  LET s == Confirmed(Now, c)
               t == trade[c]
               p == obj[t].partner
           IN  /\ s \in State /\ Bounded(s.obj) /\ Wed(s.trade, s.obj)
               /\ s.inv = inv /\ s.wallet = wallet /\ s.trade = trade /\ ~s.thrown
               /\ \A u \in Trades : s.obj[u] = IF u = t THEN Confirming(Now, t, p)
                                               ELSE IF u = p THEN Shown(Now, t, p) ELSE obj[u]
<1> DEFINE s == Confirmed(Now, c)
           t == trade[c]
           p == obj[t].partner
           o == obj[p].owner
           a == Confirming(Now, t, p)
           b == Shown(Now, t, p)
<1>1. /\ t \in Trades /\ p \in Trades /\ p # t /\ o \in Chars \ {c} /\ obj[t].owner = c
      /\ obj[p].partner = t /\ (obj[p].locked => obj[t].exFrom = p)
  BY InTrade
<1>2. Now \in State /\ Now.inv = inv /\ Now.wallet = wallet /\ Now.trade = trade /\ Now.obj = obj
      /\ ~Now.thrown
  BY NowState
<1>3. /\ a \in TradeObj /\ b \in TradeObj
      /\ a.owner = c /\ a.partner = p /\ a.locked
      /\ a.items = obj[t].items /\ a.exFrom = obj[t].exFrom
      /\ b.owner = o /\ b.partner = t
      /\ b.locked = obj[p].locked /\ b.exFrom = t /\ b.items = obj[p].items
  BY <1>1, NowConfirming
<1>4. /\ Now.trade[c] \in Trades
      /\ Now.obj[Now.trade[c]].partner \in Trades \ {Now.trade[c]}
  BY <1>1, <1>2
<1>5. /\ s \in State
      /\ s.inv = Now.inv /\ s.wallet = Now.wallet /\ s.trade = Now.trade /\ s.thrown = Now.thrown
      /\ s.obj = [Now.obj EXCEPT ![Now.trade[c]] = Confirming(Now, Now.trade[c], Now.obj[Now.trade[c]].partner),
                                 ![Now.obj[Now.trade[c]].partner] =
                                    Shown(Now, Now.trade[c], Now.obj[Now.trade[c]].partner)]
  BY <1>2, <1>4, ConfirmedEffect
<1> HIDE DEF s
<1>6. s.obj = [obj EXCEPT ![t] = a, ![p] = b]
  BY <1>2, <1>5
<1> HIDE DEF a, b
<1>7. \A u \in Trades : s.obj[u] = IF u = t THEN a ELSE IF u = p THEN b ELSE obj[u]
  BY <1>1, <1>6 DEF TypeOK
<1>8. Bounded(s.obj)
  BY <1>1, <1>3, <1>7 DEF Bounded, TypeOK
<1>9. ASSUME NEW e \in Chars, trade[e] # None
      PROVE  Bond(trade, s.obj, e)
  <2>1. Bond(trade, obj, e) /\ trade[e] \in Trades /\ obj[trade[e]].partner \in Trades \cup {None}
    BY <1>9, InTrade DEF Wed
  <2>2. s.obj[t] = a /\ s.obj[p] = b
    BY <1>1, <1>7
  <2>3. CASE trade[e] = t
    <3>1. e = c
      BY <1>1, <2>1, <2>3 DEF Bond
    <3> QED BY <1>1, <1>3, <2>2, <2>3, <3>1 DEF Bond
  <2>4. CASE trade[e] = p
    <3>1. e = o
      BY <1>1, <2>1, <2>4 DEF Bond
    <3> QED BY <1>1, <1>3, <2>1, <2>2, <2>4, <3>1 DEF Bond
  <2>5. CASE trade[e] # t /\ trade[e] # p
    <3>1. obj[trade[e]].partner # t /\ obj[trade[e]].partner # p
      BY <1>1, <2>1, <2>5, TradeAssumption DEF Bond
    <3>2. /\ s.obj[trade[e]] = obj[trade[e]]
          /\ obj[trade[e]].partner # None =>
                s.obj[obj[trade[e]].partner] = obj[obj[trade[e]].partner]
      BY <1>7, <2>1, <2>5, <3>1
    <3> QED BY <2>1, <3>2 DEF Bond
  <2> QED BY <2>3, <2>4, <2>5
<1>10. Wed(s.trade, s.obj)
  BY <1>2, <1>5, <1>9 DEF Wed
<1> QED BY <1>2, <1>5, <1>7, <1>8, <1>10 DEF s, a, b

LEMMA completeTradeSound ==
    ASSUME TypeOK, Wed(trade, obj), NEW c \in Chars, completeTrade(c)
    PROVE  TypeOK' /\ Wed(trade, obj)'
<1> DEFINE t == trade[c]
           p == obj[t].partner
           s == Confirmed(Now, c)
<1>1. t # None /\ p # None /\ UNCHANGED <<fill, abandoned>>
  BY DEF completeTrade
<1>2. fill \in [Chars -> 0..Slots] /\ fill' \in [Chars -> 0..Slots] /\ abandoned' \in BOOLEAN
  BY <1>1 DEF TypeOK
<1>3. t \in Trades /\ p \in Trades /\ p # t
  BY <1>1, InTrade
<1>4. /\ s \in State /\ Bounded(s.obj) /\ Wed(s.trade, s.obj) /\ s.trade = trade
      /\ s.obj[t] = Confirming(Now, t, p) /\ s.obj[p] = Shown(Now, t, p)
  BY <1>1, <1>3, ConfirmedSound
<1> HIDE DEF s
<1>5. /\ s.obj[t].partner = p /\ s.obj[t].locked /\ s.obj[p].locked = obj[p].locked
  <2>1. /\ Confirming(Now, t, p).partner = obj[t].partner /\ Confirming(Now, t, p).locked
        /\ Shown(Now, t, p).locked = obj[p].locked
    BY <1>3, NowConfirming
  <2> QED BY <1>4, <2>1
<1>6. CASE ~obj[p].locked
  <2>1. Becomes(s)
    BY <1>6 DEF completeTrade, s
  <2> QED BY <1>2, <1>4, <2>1, BecomesSound
<1>7. CASE obj[p].locked
  <2>1. PICK one \in BOOLEAN : Becomes(Exchange(s, c, one))
    BY <1>7 DEF completeTrade, s
  <2> DEFINE r == Exchange(s, c, one)
  <2>2. Tame(s, r)
    BY <1>1, <1>2, <1>4, <1>5, <1>7, ExchangeTame
  <2> HIDE DEF r
  <2>3. r \in State /\ Bounded(r.obj) /\ Wed(r.trade, r.obj)
    BY <1>4, <2>2, WedTame DEF Tame
  <2> QED BY <1>2, <2>1, <2>3, BecomesSound DEF r
<1> QED BY <1>6, <1>7

LEMMA ElsewhereSound ==
    ASSUME TypeOK, Wed(trade, obj), NEW c \in Chars, Elsewhere(c)
    PROVE  TypeOK' /\ Wed(trade, obj)'
<1>1. UNCHANGED <<inv, trade, obj, abandoned>>
  BY DEF Elsewhere
<1>2. fill' \in [Chars -> 0..Slots] /\ wallet' \in [Chars -> 0..MaxMeso]
  BY DEF Elsewhere, TypeOK
<1>3. TypeOK'
  BY <1>1, <1>2 DEF TypeOK
<1>4. Wed(trade, obj)'
  BY <1>1 DEF Wed, Bond
<1> QED BY <1>3, <1>4

\* Every reachable state is well typed, and characters, trades and partners
\* point to each other as Bond says, whatever has been abandoned.
Sound == TypeOK /\ Wed(trade, obj)

LEMMA SoundInit == Init => Sound
<1> SUFFICES ASSUME Init
             PROVE  Sound
  OBVIOUS
<1>1. NewTrade(None) \in TradeObj /\ Len(NewTrade(None).items) = 0
  BY NewTradeType, EmptySeq
<1>2. 0 \in 0..Slots /\ 0 <= OfferSlots
  BY TradeAssumption
<1>3. TypeOK
  BY <1>1, <1>2 DEF Init, TypeOK
<1>4. Wed(trade, obj)
  BY DEF Init, Wed
<1> QED BY <1>3, <1>4 DEF Sound

LEMMA SoundNext == Sound /\ [Next]_vars => Sound'
<1> SUFFICES ASSUME TypeOK, Wed(trade, obj), [Next]_vars
             PROVE  TypeOK' /\ Wed(trade, obj)'
  BY DEF Sound
<1>1. CASE UNCHANGED vars
  BY <1>1 DEF vars, TypeOK, Wed, Bond
<1>2. ASSUME NEW c \in Chars, startTrade(c)
      PROVE  TypeOK' /\ Wed(trade, obj)'
  BY <1>2, startTradeSound
<1>3. ASSUME NEW c \in Chars, declineTrade(c)
      PROVE  TypeOK' /\ Wed(trade, obj)'
  BY <1>3, declineTradeSound
<1>4. ASSUME NEW c \in Chars, completeTrade(c)
      PROVE  TypeOK' /\ Wed(trade, obj)'
  BY <1>4, completeTradeSound
<1>5. ASSUME NEW c \in Chars, exitTrade(c) \/ leaveMap(c)
      PROVE  TypeOK' /\ Wed(trade, obj)'
  BY <1>5, cancelTradeSound
<1>6. ASSUME NEW c \in Chars, Elsewhere(c)
      PROVE  TypeOK' /\ Wed(trade, obj)'
  BY <1>6, ElsewhereSound
<1>7. ASSUME NEW c \in Chars, NEW d \in Chars, inviteTrade(c, d)
      PROVE  TypeOK' /\ Wed(trade, obj)'
  BY <1>7, inviteTradeSound
<1>8. ASSUME NEW c \in Chars, NEW d \in Chars, inviteShopkeeper(c, d)
      PROVE  TypeOK' /\ Wed(trade, obj)'
  BY <1>8, inviteShopkeeperSound
<1>9. ASSUME NEW c \in Chars, NEW i \in Items, setItems(c, i)
      PROVE  TypeOK' /\ Wed(trade, obj)'
  BY <1>9, setItemsSound
<1>10. ASSUME NEW c \in Chars, NEW m \in Amounts, setMeso(c, m)
       PROVE  TypeOK' /\ Wed(trade, obj)'
  BY <1>10, setMesoSound
<1> QED BY <1>1, <1>2, <1>3, <1>4, <1>5, <1>6, <1>7, <1>8, <1>9, <1>10 DEF Next

\* A trade never puts anything into a variable that the code's types exclude:
\* mesos stay between 0 and Integer.MAX_VALUE, an offer has at most 9 items,
\* and every trade object referred to exists.
THEOREM TypeCorrect == Spec => []TypeOK
<1>1. Spec => []Sound
  BY SoundInit, SoundNext, PTL DEF Spec
<1>2. Sound => TypeOK
  BY DEF Sound
<1> QED BY <1>1, <1>2, PTL

-----------------------------------------------------------------------------
(* How a trade ends, as long as nobody has abandoned one.                   *)

\* d gets back what he offered, gets what e offered, is not concerned.
Back(r, d) ==
    /\ r.inv[d] = inv[d] \cup Elems(Fits(Now, d, obj[trade[d]].items))
    /\ r.wallet[d] = Credit(wallet[d], obj[trade[d]].meso)

Receives(r, d, e) ==
    /\ Len(obj[trade[e]].items) <= FreeSlots(Now, d)
    /\ r.inv[d] = inv[d] \cup Elems(obj[trade[e]].items)
    /\ r.wallet[d] = wallet[d] + obj[trade[e]].meso - Tax[obj[trade[e]].meso]

Unconcerned(r, d) ==
    /\ r.inv[d] = inv[d] /\ r.wallet[d] = wallet[d] /\ r.trade[d] = trade[d]
    /\ trade[d] # None =>
          /\ r.obj[trade[d]] = obj[trade[d]]
          /\ obj[trade[d]].partner # None =>
                r.obj[obj[trade[d]].partner] = obj[obj[trade[d]].partner]

\* The two who leave when c's trade ends, or c alone.
Leaving(c) ==
    IF obj[trade[c]].partner = None THEN {c} ELSE {c, obj[obj[trade[c]].partner].owner}

Ended(r, c) ==
    /\ r \in State
    /\ \A d \in Leaving(c) : r.trade[d] = None
    /\ \A d \in Chars \ Leaving(c) : Unconcerned(r, d)
    /\ \/ \A d \in Leaving(c) : Back(r, d)
       \/ /\ obj[trade[c]].partner # None
          /\ LET o == obj[obj[trade[c]].partner].owner
             IN  Receives(r, c, o) /\ Receives(r, o, c)

\* Confirmations and amounts agree as long as both are in the trade.
Honest(tr, ob) ==
    \A c \in Chars :
        LET t == tr[c]
            p == ob[t].partner
        IN  t # None /\ p # None =>
              /\ tr[ob[p].owner] = p
              /\ ~(ob[t].locked /\ ob[p].locked)
              /\ ob[t].locked => /\ ob[p].exMeso = ob[t].meso
                                 /\ ob[t].seen.items \subseteq Elems(ob[p].items)
                                 /\ ob[t].seen.meso <= ob[p].meso

LEMMA FitsSame ==
    ASSUME NEW s, NEW r, NEW d, NEW q, s.inv[d] = r.inv[d]
    PROVE  Fits(s, d, q) = Fits(r, d, q) /\ FreeSlots(s, d) = FreeSlots(r, d)
BY DEF Fits, FreeSlots

OfferGone(s, t) == [s.obj EXCEPT ![t] = Emptied(s.obj[t])]

\* r is s after the offer of t has been given to c.
GaveBack(s, r, c, t) ==
    /\ r.inv = Taken(s, c, s.obj[t].items) /\ r.wallet = Paid(s, c, s.obj[t].meso)
    /\ r.obj = OfferGone(s, t)

LEMMA CancelGivesBack ==
    ASSUME NEW s \in State, NEW t \in Trades, NEW c \in Chars, NEW check \in BOOLEAN,
           fill \in [Chars -> 0..Slots], s.trade[c] # None, ~Kept(s, c, check),
           NEW r, r = Cancel(s, t, c, check)
    PROVE  r \in State /\ r.trade = s.trade /\ r.thrown = s.thrown /\ GaveBack(s, r, c, t)
BY CancelEffect DEF OfferGone, GaveBack

\* c and o trade with each other, by way of t and p.
Trading(c, t, p, o) ==
    /\ c \in Chars /\ o \in Chars /\ o # c /\ t \in Trades /\ p \in Trades /\ p # t
    /\ trade[c] = t /\ obj[t].partner = p /\ obj[t].owner = c
    /\ trade[o] = p /\ obj[p].partner = t /\ obj[p].owner = o

LEMMA HonestTrading ==
    ASSUME TypeOK, Wed(trade, obj), Honest(trade, obj), NEW c \in Chars,
           trade[c] # None, obj[trade[c]].partner # None
    PROVE  Trading(c, trade[c], obj[trade[c]].partner, obj[obj[trade[c]].partner].owner)
BY InTrade DEF Trading, Honest

\* What each of the two has in s: what he offered, or what the other offered;
\* everybody else has what he had.
BothBack(s, c, t, p, o) ==
    /\ s.inv[c] = inv[c] \cup Elems(Fits(Now, c, obj[t].items))
    /\ s.inv[o] = inv[o] \cup Elems(Fits(Now, o, obj[p].items))
    /\ s.wallet[c] = Credit(wallet[c], obj[t].meso)
    /\ s.wallet[o] = Credit(wallet[o], obj[p].meso)

BothServed(s, c, t, p, o) ==
    /\ Len(obj[p].items) <= FreeSlots(Now, c) /\ Len(obj[t].items) <= FreeSlots(Now, o)
    /\ s.inv[c] = inv[c] \cup Elems(obj[p].items)
    /\ s.inv[o] = inv[o] \cup Elems(obj[t].items)
    /\ s.wallet[c] = wallet[c] + obj[p].meso - Tax[obj[p].meso]
    /\ s.wallet[o] = wallet[o] + obj[t].meso - Tax[obj[t].meso]

OthersKeep(s, c, t, p, o) ==
    /\ \A d \in Chars \ {c, o} : s.inv[d] = inv[d] /\ s.wallet[d] = wallet[d] /\ s.trade[d] = trade[d]
    /\ \A w \in Trades \ {t, p} : s.obj[w] = obj[w]

\* Nobody has got anything yet in s, and what was offered is on the table.
AtStake(s, u, v) ==
    /\ s.inv = inv /\ s.wallet = wallet
    /\ s.obj[u].items = obj[u].items /\ s.obj[u].meso = obj[u].meso
    /\ s.obj[v].items = obj[v].items /\ s.obj[v].meso = obj[v].meso

\* Two offers given back one after the other; in between, somebody may leave.
LEMMA BackTwice ==
    ASSUME TypeOK, NEW x \in Chars, NEW y \in Chars, NEW u \in Trades, NEW v \in Trades,
           x # y, u # v, NEW s \in State, AtStake(s, u, v),
           NEW s1, GaveBack(s, s1, x, u),
           NEW m \in State, m.inv = s1.inv, m.wallet = s1.wallet, m.obj = s1.obj,
           NEW r, GaveBack(m, r, y, v)
    PROVE  /\ BothBack(r, x, u, v, y)
           /\ \A d \in Chars \ {x, y} : r.inv[d] = inv[d] /\ r.wallet[d] = wallet[d]
           /\ \A w \in Trades \ {u, v} : r.obj[w] = s.obj[w]
<1>1. Now.inv = inv /\ inv \in [Chars -> SUBSET Items] /\ wallet \in [Chars -> 0..MaxMeso]
  BY NowState DEF TypeOK
<1>2. /\ s1.inv = Taken(s, x, s.obj[u].items) /\ s1.wallet = Paid(s, x, s.obj[u].meso)
      /\ s1.obj = OfferGone(s, u)
  BY DEF GaveBack
<1>3. /\ r.inv = Taken(m, y, m.obj[v].items) /\ r.wallet = Paid(m, y, m.obj[v].meso)
      /\ r.obj = OfferGone(m, v)
  BY DEF GaveBack
<1>4. m.inv = s1.inv /\ m.wallet = s1.wallet /\ m.obj = s1.obj OBVIOUS
<1>5. s.obj \in [Trades -> TradeObj]
  BY DEF State
<1>6. m.obj[v] = s.obj[v] /\ \A w \in Trades \ {u, v} : r.obj[w] = s.obj[w]
  BY <1>2, <1>3, <1>4, <1>5 DEF OfferGone
<1>7. /\ m.inv[x] = inv[x] \cup Elems(Fits(s, x, obj[u].items))
      /\ \A d \in Chars \ {x} : m.inv[d] = inv[d]
  BY <1>1, <1>2, <1>4 DEF Taken, AtStake
<1>8. /\ m.wallet[x] = Credit(wallet[x], obj[u].meso)
      /\ \A d \in Chars \ {x} : m.wallet[d] = wallet[d]
  BY <1>1, <1>2, <1>4 DEF Paid, AtStake
<1>9. Fits(s, x, obj[u].items) = Fits(Now, x, obj[u].items)
      /\ Fits(m, y, obj[v].items) = Fits(Now, y, obj[v].items)
  BY <1>1, <1>7, FitsSame DEF AtStake
<1>10. m.inv \in [Chars -> SUBSET Items] /\ m.wallet \in [Chars -> 0..MaxMeso]
  BY DEF State
<1>11. /\ r.inv[y] = m.inv[y] \cup Elems(Fits(m, y, obj[v].items))
       /\ \A d \in Chars \ {y} : r.inv[d] = m.inv[d]
  BY <1>3, <1>6, <1>10 DEF Taken, AtStake
<1>12. /\ r.wallet[y] = Credit(m.wallet[y], obj[v].meso)
       /\ \A d \in Chars \ {y} : r.wallet[d] = m.wallet[d]
  BY <1>3, <1>6, <1>10 DEF Paid, AtStake
<1>13. BothBack(r, x, u, v, y)
  BY <1>7, <1>8, <1>9, <1>11, <1>12 DEF BothBack
<1>14. \A d \in Chars \ {x, y} : r.inv[d] = inv[d] /\ r.wallet[d] = wallet[d]
  BY <1>7, <1>8, <1>11, <1>12
<1> QED BY <1>6, <1>13, <1>14

LEMMA LeaveGives ==
    ASSUME NEW s \in State, NEW c \in Chars, NEW r, r = Leave(s, c)
    PROVE  /\ r \in State /\ r.inv = s.inv /\ r.wallet = s.wallet /\ r.obj = s.obj
           /\ r.trade[c] = None /\ \A d \in Chars \ {c} : r.trade[d] = s.trade[d]
           /\ r.thrown = s.thrown
<1>1. r \in State /\ r = [s EXCEPT !.trade = [s.trade EXCEPT ![c] = None]]
  BY LeaveEffect
<1>2. r = [inv |-> s.inv, wallet |-> s.wallet, trade |-> [s.trade EXCEPT ![c] = None],
           obj |-> s.obj, thrown |-> s.thrown]
  BY <1>1, Replaced
<1>3. s.trade \in [Chars -> Trades \cup {None}]
  BY DEF State
<1> QED BY <1>1, <1>2, <1>3

\* Whoever is not in the trade that ends keeps everything.
LEMMA OthersUnconcerned ==
    ASSUME TypeOK, Wed(trade, obj), NEW c \in Chars, trade[c] # None, NEW r,
           \A d \in Chars \ Leaving(c) :
              r.inv[d] = inv[d] /\ r.wallet[d] = wallet[d] /\ r.trade[d] = trade[d],
           \A w \in Trades : w # trade[c] /\ w # obj[trade[c]].partner => r.obj[w] = obj[w]
    PROVE  \A d \in Chars \ Leaving(c) : Unconcerned(r, d)
<1> SUFFICES ASSUME NEW d \in Chars \ Leaving(c), trade[d] # None
             PROVE  /\ r.obj[trade[d]] = obj[trade[d]]
                    /\ obj[trade[d]].partner # None =>
                          r.obj[obj[trade[d]].partner] = obj[obj[trade[d]].partner]
  BY DEF Unconcerned
<1> DEFINE t == trade[c]
           p == obj[t].partner
<1>1. d # c /\ (p # None => d # obj[p].owner)
  BY DEF Leaving
<1>2. /\ trade[d] # t /\ obj[trade[d]].partner # t
      /\ p # None => trade[d] # p /\ obj[trade[d]].partner # p
  BY <1>1, Strangers
<1>3. trade[d] \in Trades /\ obj[trade[d]].partner \in Trades \cup {None}
  BY InTrade
<1> QED BY <1>2, <1>3, TradeAssumption

\* The two values of Cancel's argument, named because the provers reason
\* about a Boolean argument more easily when it has a name.
Unchecked == FALSE
Checked == TRUE

\* A trade without a partner ends with everything given back.
LEMMA EndedAlone ==
    ASSUME TypeOK, Wed(trade, obj), NEW c \in Chars, trade[c] # None,
           obj[trade[c]].partner = None,
           NEW s1, s1 = Cancel(Now, trade[c], c, Unchecked), NEW r, r = Leave(s1, c)
    PROVE  Ended(r, c) /\ ~s1.thrown
<1> DEFINE t == trade[c]
           n == Now
<1>1. /\ t \in Trades /\ fill \in [Chars -> 0..Slots] /\ Unchecked \in BOOLEAN
  BY InTrade DEF TypeOK, Unchecked
<1> HIDE DEF n
<1>2. n \in State /\ n.inv = inv /\ n.wallet = wallet /\ n.trade = trade /\ n.obj = obj
      /\ ~n.thrown
  BY NowState DEF n
<1>3. ~Kept(n, c, Unchecked) /\ n.trade[c] # None
  BY <1>2 DEF Kept, BothLocked
<1>4. s1 \in State /\ s1.trade = n.trade /\ s1.thrown = n.thrown /\ GaveBack(n, s1, c, t)
  <2>1. s1 = Cancel(n, t, c, Unchecked)
    BY DEF n
  <2> QED BY <1>1, <1>2, <1>3, <2>1, CancelGivesBack
<1>6. /\ r \in State /\ r.inv = s1.inv /\ r.wallet = s1.wallet /\ r.obj = s1.obj
      /\ r.trade[c] = None /\ \A d \in Chars \ {c} : r.trade[d] = s1.trade[d]
  BY <1>4, LeaveGives
<1>7. inv \in [Chars -> SUBSET Items] /\ wallet \in [Chars -> 0..MaxMeso] /\ obj \in [Trades -> TradeObj]
  BY DEF TypeOK
<1>8. /\ r.inv[c] = inv[c] \cup Elems(Fits(n, c, obj[t].items))
      /\ \A d \in Chars \ {c} : r.inv[d] = inv[d]
  BY <1>2, <1>4, <1>6, <1>7 DEF Taken, GaveBack
<1>9. /\ r.wallet[c] = Credit(wallet[c], obj[t].meso)
      /\ \A d \in Chars \ {c} : r.wallet[d] = wallet[d]
  BY <1>2, <1>4, <1>6, <1>7 DEF Paid, GaveBack
<1>10. \A w \in Trades : w # t => r.obj[w] = obj[w]
  BY <1>2, <1>4, <1>6, <1>7 DEF OfferGone, GaveBack
<1>11. Leaving(c) = {c}
  BY DEF Leaving
<1>12. \A d \in Chars \ Leaving(c) : Unconcerned(r, d)
  BY <1>2, <1>4, <1>6, <1>8, <1>9, <1>10, <1>11, OthersUnconcerned
<1>13. Back(r, c)
  BY <1>8, <1>9 DEF Back, n
<1> QED BY <1>2, <1>4, <1>6, <1>11, <1>12, <1>13 DEF Ended

LEMMA NotKept ==
    ASSUME TypeOK, Wed(trade, obj), Honest(trade, obj), NEW c \in Chars, trade[c] # None,
           NEW s, s.trade[c] = trade[c], \A u \in Trades : SameBond(s.obj[u], obj[u]), NEW k
    PROVE  ~Kept(s, c, k)
<1> DEFINE t == trade[c]
           p == obj[t].partner
<1>1. t \in Trades /\ p \in Trades \cup {None}
  BY InTrade
<1>2. SameBond(s.obj[t], obj[t]) /\ (p # None => SameBond(s.obj[p], obj[p]))
  BY <1>1
<1>3. p # None => ~(obj[t].locked /\ obj[p].locked)
  BY DEF Honest
<1> QED BY <1>2, <1>3 DEF Kept, BothLocked, SameBond

\* The last steps of an end: both have got what is theirs, and leave.
LEMMA EndedTogether ==
    ASSUME TypeOK, Wed(trade, obj), NEW c, NEW t, NEW p, NEW o, Trading(c, t, p, o),
           NEW s \in State, OthersKeep(s, c, t, p, o),
           BothBack(s, c, t, p, o) \/ BothServed(s, c, t, p, o),
           NEW r, \/ r = Leave(Leave(s, o), c)
                  \/ r = Leave(s, c) /\ s.trade[o] = None
    PROVE  Ended(r, c)
<1>1. c \in Chars /\ o \in Chars /\ o # c
  BY DEF Trading
<1>2. /\ r \in State /\ r.inv = s.inv /\ r.wallet = s.wallet /\ r.obj = s.obj
      /\ r.trade[c] = None /\ r.trade[o] = None
      /\ \A d \in Chars \ {c, o} : r.trade[d] = s.trade[d]
  <2>1. CASE r = Leave(Leave(s, o), c)
    <3> DEFINE q == Leave(s, o)
    <3> HIDE DEF q
    <3>1. /\ q \in State /\ q.inv = s.inv /\ q.wallet = s.wallet /\ q.obj = s.obj
          /\ q.trade[o] = None /\ \A d \in Chars \ {o} : q.trade[d] = s.trade[d]
      BY <1>1, LeaveGives DEF q
    <3>2. r = Leave(q, c)
      BY <2>1 DEF q
    <3>3. /\ r \in State /\ r.inv = q.inv /\ r.wallet = q.wallet /\ r.obj = q.obj
          /\ r.trade[c] = None /\ \A d \in Chars \ {c} : r.trade[d] = q.trade[d]
      BY <1>1, <3>1, <3>2, LeaveGives
    <3> QED BY <1>1, <3>1, <3>3
  <2>2. CASE r = Leave(s, c) /\ s.trade[o] = None
    BY <1>1, <2>2, LeaveGives
  <2> QED BY <2>1, <2>2
<1>3. Leaving(c) = {c, o} /\ trade[c] # None
  BY TradeAssumption DEF Leaving, Trading
<1>4. /\ \A d \in Chars \ Leaving(c) :
            r.inv[d] = inv[d] /\ r.wallet[d] = wallet[d] /\ r.trade[d] = trade[d]
      /\ \A w \in Trades : w # t /\ w # p => r.obj[w] = obj[w]
  BY <1>2, <1>3 DEF OthersKeep
<1>5. \A d \in Chars \ Leaving(c) : Unconcerned(r, d)
  BY <1>1, <1>3, <1>4, OthersUnconcerned DEF Trading
<1>6. \/ Back(r, c) /\ Back(r, o)
      \/ Receives(r, c, o) /\ Receives(r, o, c)
  BY <1>2 DEF Back, Receives, BothBack, BothServed, Trading
<1>7. obj[trade[c]].partner # None /\ obj[obj[trade[c]].partner].owner = o
  BY TradeAssumption DEF Trading
<1> QED BY <1>2, <1>3, <1>5, <1>6, <1>7 DEF Ended

\* Both get back what they offered when one of them cancels.
LEMMA EndedByCancel ==
    ASSUME TypeOK, Wed(trade, obj), Honest(trade, obj), NEW c, NEW t, NEW p, NEW o,
           Trading(c, t, p, o),
           NEW s1, s1 = Cancel(Now, t, c, Unchecked),
           NEW s2, s2 = Cancel(s1, p, o, Unchecked),
           NEW r, r = Leave(Leave(s2, o), c)
    PROVE  Ended(r, c) /\ ~s1.thrown /\ ~s2.thrown
<1> DEFINE n == Now
<1> HIDE DEF n
<1>1. /\ c \in Chars /\ o \in Chars /\ t \in Trades /\ p \in Trades /\ p # t /\ o # c
      /\ trade[c] = t /\ trade[o] = p /\ t # None /\ p # None
      /\ fill \in [Chars -> 0..Slots] /\ Unchecked \in BOOLEAN
  BY TradeAssumption DEF Trading, TypeOK, Unchecked
<1>2. /\ n \in State /\ n.inv = inv /\ n.wallet = wallet /\ n.trade = trade /\ n.obj = obj
      /\ ~n.thrown
  BY NowState DEF n
<1>3. ~Kept(n, c, Unchecked)
  BY <1>1, <1>2, NotKept DEF SameBond
<1>4. s1 = Cancel(n, t, c, Unchecked)
  BY DEF n
<1>5. s1 \in State /\ s1.trade = n.trade /\ s1.thrown = n.thrown /\ GaveBack(n, s1, c, t)
  BY <1>1, <1>2, <1>3, <1>4, CancelGivesBack
<1>6. Tame(n, s1)
  BY <1>1, <1>2, <1>4, CancelTame
<1>7. ~Kept(s1, o, Unchecked) /\ s1.trade[o] # None
  <2>1. \A u \in Trades : SameBond(s1.obj[u], obj[u])
    BY <1>2, <1>6 DEF Tame
  <2>2. trade[o] # None /\ s1.trade[o] = trade[o]
    BY <1>1, <1>2, <1>5
  <2> QED BY <1>1, <2>1, <2>2, NotKept
<1>8. s2 \in State /\ s2.trade = s1.trade /\ s2.thrown = s1.thrown /\ GaveBack(s1, s2, o, p)
  BY <1>1, <1>5, <1>7, CancelGivesBack
<1>9. AtStake(n, t, p)
  BY <1>2 DEF AtStake
<1>10. /\ BothBack(s2, c, t, p, o)
       /\ \A d \in Chars \ {c, o} : s2.inv[d] = inv[d] /\ s2.wallet[d] = wallet[d]
       /\ \A w \in Trades \ {t, p} : s2.obj[w] = n.obj[w]
  BY <1>1, <1>2, <1>5, <1>8, <1>9, BackTwice
<1>11. OthersKeep(s2, c, t, p, o)
  BY <1>2, <1>5, <1>8, <1>10 DEF OthersKeep
<1>12. Ended(r, c)
  BY <1>8, <1>10, <1>11, EndedTogether
<1> QED BY <1>2, <1>5, <1>8, <1>12

\* The partner's part of a decline comes first.
LEMMA EndedByDecline ==
    ASSUME TypeOK, Wed(trade, obj), Honest(trade, obj), NEW c, NEW t, NEW p, NEW o,
           Trading(c, t, p, o),
           NEW s1, s1 = Cancel(Now, p, o, Unchecked),
           NEW s2, s2 = Leave(s1, o),
           NEW s3, s3 = Cancel(s2, t, c, Unchecked),
           NEW r, r = Leave(s3, c)
    PROVE  Ended(r, c)
<1> DEFINE n == Now
<1> HIDE DEF n
<1>1. /\ c \in Chars /\ o \in Chars /\ t \in Trades /\ p \in Trades /\ p # t /\ o # c
      /\ trade[c] = t /\ trade[o] = p /\ t # None /\ p # None
      /\ fill \in [Chars -> 0..Slots] /\ Unchecked \in BOOLEAN
  BY TradeAssumption DEF Trading, TypeOK, Unchecked
<1>2. /\ n \in State /\ n.inv = inv /\ n.wallet = wallet /\ n.trade = trade /\ n.obj = obj
  BY NowState DEF n
<1>3. ~Kept(n, o, Unchecked)
  BY <1>1, <1>2, NotKept DEF SameBond
<1>4. s1 = Cancel(n, p, o, Unchecked)
  BY DEF n
<1>5. s1 \in State /\ s1.trade = n.trade /\ GaveBack(n, s1, o, p)
  BY <1>1, <1>2, <1>3, <1>4, CancelGivesBack
<1>6. Tame(n, s1)
  BY <1>1, <1>2, <1>4, CancelTame
<1>7. /\ s2 \in State /\ s2.inv = s1.inv /\ s2.wallet = s1.wallet /\ s2.obj = s1.obj
      /\ s2.trade[o] = None /\ \A d \in Chars \ {o} : s2.trade[d] = s1.trade[d]
  BY <1>1, <1>5, LeaveGives
<1>8. ~Kept(s2, c, Unchecked) /\ s2.trade[c] # None
  <2>1. \A u \in Trades : SameBond(s2.obj[u], obj[u])
    BY <1>2, <1>6, <1>7 DEF Tame
  <2>2. trade[c] # None /\ s2.trade[c] = trade[c]
    BY <1>1, <1>2, <1>5, <1>7
  <2> QED BY <1>1, <2>1, <2>2, NotKept
<1>9. s3 \in State /\ s3.trade = s2.trade /\ GaveBack(s2, s3, c, t)
  BY <1>1, <1>7, <1>8, CancelGivesBack
<1>10. AtStake(n, p, t)
  BY <1>2 DEF AtStake
<1>11. /\ BothBack(s3, o, p, t, c)
       /\ \A d \in Chars \ {o, c} : s3.inv[d] = inv[d] /\ s3.wallet[d] = wallet[d]
       /\ \A w \in Trades \ {p, t} : s3.obj[w] = n.obj[w]
  BY <1>1, <1>2, <1>5, <1>7, <1>9, <1>10, BackTwice
<1>12. OthersKeep(s3, c, t, p, o) /\ BothBack(s3, c, t, p, o)
  BY <1>2, <1>5, <1>7, <1>9, <1>11 DEF OthersKeep, BothBack
<1>13. s3.trade[o] = None
  BY <1>7, <1>9
<1> QED BY <1>9, <1>12, <1>13, EndedTogether

\* r is s after the owner of t has been given what his partner offered.
Handed(s, from, t) ==
    [s.obj EXCEPT ![from] = [s.obj[from] EXCEPT !.items = <<>>],
                  ![t] = [s.obj[t] EXCEPT !.exMeso = 0]]

Serves(s, r, c, t, from) ==
    /\ r.inv = Taken(s, c, s.obj[from].items)
    /\ r.wallet = Paid(s, c, s.obj[t].exMeso - Tax[s.obj[t].exMeso])
    /\ r.obj = Handed(s, from, t)

LEMMA CompleteServes ==
    ASSUME NEW s \in State, NEW t \in Trades, NEW c \in Chars, NEW from \in Trades, from # t,
           fill \in [Chars -> 0..Slots], s.obj[t].owner = c, s.obj[t].exFrom = from,
           s.trade[c] # None, s.obj[s.trade[c]].partner # None,
           NEW r, r = Complete(s, t)
    PROVE  r \in State /\ r.trade = s.trade /\ r.thrown = s.thrown /\ Serves(s, r, c, t, from)
BY CompleteEffect DEF Serves, Handed

\* Both have confirmed: each knows whose items he gets and how many mesos.
OnTheTable(s, c, t, p, o) ==
    /\ s \in State /\ ~s.thrown /\ AtStake(s, t, p) /\ s.trade = trade
    /\ s.obj[t].owner = c /\ s.obj[t].partner = p /\ s.obj[t].exFrom = p
    /\ s.obj[t].exMeso = obj[p].meso
    /\ s.obj[p].owner = o /\ s.obj[p].partner = t /\ s.obj[p].exFrom = t
    /\ s.obj[p].exMeso = obj[t].meso
    /\ \A w \in Trades \ {t, p} : s.obj[w] = obj[w]

LEMMA ConfirmedTable ==
    ASSUME TypeOK, Wed(trade, obj), Honest(trade, obj), NEW c, NEW t, NEW p, NEW o,
           Trading(c, t, p, o), obj[p].locked, NEW s, s = Confirmed(Now, c)
    PROVE  OnTheTable(s, c, t, p, o)
<1>1. /\ c \in Chars /\ o \in Chars /\ t \in Trades /\ p \in Trades /\ p # t
      /\ trade[c] = t /\ trade[o] = p /\ t # None /\ p # None
      /\ obj[t].partner = p /\ obj[p].partner = t /\ obj[t].owner = c /\ obj[p].owner = o
  BY TradeAssumption DEF Trading
<1>2. obj[t].exFrom = p /\ obj[t].exMeso = obj[p].meso
  BY <1>1, InTrade DEF Honest
<1>3. /\ s \in State /\ s.inv = inv /\ s.wallet = wallet /\ s.trade = trade /\ ~s.thrown
      /\ \A u \in Trades : s.obj[u] = IF u = t THEN Confirming(Now, t, p)
                                      ELSE IF u = p THEN Shown(Now, t, p) ELSE obj[u]
  BY <1>1, ConfirmedSound
<1>4. s.obj[t] = Confirming(Now, t, p) /\ s.obj[p] = Shown(Now, t, p)
  BY <1>1, <1>3
<1> DEFINE a == Confirming(Now, t, p)
           b == Shown(Now, t, p)
<1> HIDE DEF a, b
<1>5. /\ a.owner = c /\ a.partner = p /\ a.items = obj[t].items /\ a.meso = obj[t].meso
      /\ a.exFrom = p /\ a.exMeso = obj[p].meso
      /\ b.owner = o /\ b.partner = t /\ b.exFrom = t /\ b.exMeso = obj[t].meso
      /\ b.items = obj[p].items /\ b.meso = obj[p].meso
  <2>1. /\ a.owner = obj[t].owner /\ a.partner = obj[t].partner
        /\ a.items = obj[t].items /\ a.meso = obj[t].meso
        /\ a.exFrom = obj[t].exFrom /\ a.exMeso = obj[t].exMeso
    BY <1>1, NowConfirming DEF a
  <2>2. /\ b.owner = obj[p].owner /\ b.partner = obj[p].partner
        /\ b.exFrom = t /\ b.exMeso = obj[t].meso
        /\ b.items = obj[p].items /\ b.meso = obj[p].meso
    BY <1>1, NowConfirming DEF b
  <2> QED BY <1>1, <1>2, <2>1, <2>2
<1>6. s.obj[t] = a /\ s.obj[p] = b
  BY <1>4 DEF a, b
<1>7. AtStake(s, t, p)
  BY <1>3, <1>5, <1>6 DEF AtStake
<1>8. \A w \in Trades \ {t, p} : s.obj[w] = obj[w]
  BY <1>3
<1> QED BY <1>3, <1>5, <1>6, <1>7, <1>8 DEF OnTheTable

\* Without room both offers are given back, the partner's first.
LEMMA EndedWithoutRoom ==
    ASSUME TypeOK, Wed(trade, obj), NEW c, NEW t, NEW p, NEW o, Trading(c, t, p, o),
           NEW s, OnTheTable(s, c, t, p, o),
           NEW s1, s1 = Cancel(s, p, o, Checked),
           NEW s2, s2 = Cancel(s1, t, c, Checked),
           NEW r, r = Leave(Leave(s2, o), c)
    PROVE  Ended(r, c) /\ ~s1.thrown /\ ~s2.thrown
<1>1. /\ c \in Chars /\ o \in Chars /\ t \in Trades /\ p \in Trades /\ p # t /\ o # c
      /\ trade[c] = t /\ trade[o] = p /\ t # None /\ p # None
      /\ fill \in [Chars -> 0..Slots] /\ Checked \in BOOLEAN
  BY TradeAssumption DEF Trading, TypeOK, Checked
<1>2. s \in State /\ s.trade = trade /\ ~s.thrown
  BY DEF OnTheTable
<1>3. ~Kept(s, o, Checked) /\ ~Kept(s1, c, Checked)
  BY DEF Kept, Checked
<1>4. s1 \in State /\ s1.trade = s.trade /\ s1.thrown = s.thrown /\ GaveBack(s, s1, o, p)
  BY <1>1, <1>2, <1>3, CancelGivesBack
<1>5. s2 \in State /\ s2.trade = s1.trade /\ s2.thrown = s1.thrown /\ GaveBack(s1, s2, c, t)
  BY <1>1, <1>2, <1>3, <1>4, CancelGivesBack
<1>6. AtStake(s, p, t)
  BY DEF AtStake, OnTheTable
<1>7. /\ BothBack(s2, o, p, t, c)
      /\ \A d \in Chars \ {o, c} : s2.inv[d] = inv[d] /\ s2.wallet[d] = wallet[d]
      /\ \A w \in Trades \ {p, t} : s2.obj[w] = s.obj[w]
  BY <1>1, <1>2, <1>4, <1>5, <1>6, BackTwice
<1>8. OthersKeep(s2, c, t, p, o) /\ BothBack(s2, c, t, p, o)
  BY <1>2, <1>4, <1>5, <1>7 DEF OthersKeep, BothBack, OnTheTable
<1>9. Ended(r, c)
  BY <1>5, <1>8, EndedTogether
<1> QED BY <1>2, <1>4, <1>5, <1>9

\* An amount that fits into a wallet before the tax fits after it.
LEMMA CreditTaxed ==
    ASSUME NEW w \in 0..MaxMeso, NEW m \in 0..MaxMeso, w + m <= MaxMeso
    PROVE  Credit(w, m - Tax[m]) = w + m - Tax[m]
<1>1. MaxMeso \in Nat /\ Tax[m] \in 0..MaxMeso /\ Tax[m] <= m
  BY TradeAssumption
<1> QED BY <1>1 DEF Credit

\* With room, each gets what the other offered.
LEMMA EndedByExchange ==
    ASSUME TypeOK, Wed(trade, obj), NEW c, NEW t, NEW p, NEW o, Trading(c, t, p, o),
           NEW s, OnTheTable(s, c, t, p, o), Room(s, t), Room(s, p),
           NEW s1, s1 = Complete(s, t),
           NEW s2, s2 = Complete(s1, p),
           NEW r, r = Leave(Leave(s2, o), c)
    PROVE  Ended(r, c) /\ ~s1.thrown /\ ~s2.thrown
<1>1. /\ c \in Chars /\ o \in Chars /\ t \in Trades /\ p \in Trades /\ p # t /\ o # c
      /\ trade[c] = t /\ trade[o] = p /\ t # None /\ p # None
      /\ fill \in [Chars -> 0..Slots]
  BY TradeAssumption DEF Trading, TypeOK
<1>2. /\ s \in State /\ s.trade = trade /\ ~s.thrown /\ s.inv = inv /\ s.wallet = wallet
      /\ s.obj[t].owner = c /\ s.obj[t].partner = p /\ s.obj[t].exFrom = p
      /\ s.obj[p].owner = o /\ s.obj[p].partner = t /\ s.obj[p].exFrom = t
      /\ s.obj[t].exMeso = obj[p].meso /\ s.obj[p].exMeso = obj[t].meso
      /\ s.obj[t].items = obj[t].items /\ s.obj[p].items = obj[p].items
  BY DEF OnTheTable, AtStake
<1>3. s1 \in State /\ s1.trade = s.trade /\ s1.thrown = s.thrown /\ Serves(s, s1, c, t, p)
  BY <1>1, <1>2, CompleteServes
<1>4. /\ s.obj \in [Trades -> TradeObj] /\ s.obj[t] \in TradeObj /\ s.obj[p] \in TradeObj
      /\ inv \in [Chars -> SUBSET Items] /\ wallet \in [Chars -> 0..MaxMeso]
      /\ obj[t].meso \in 0..MaxMeso /\ obj[p].meso \in 0..MaxMeso
  BY <1>1, <1>2 DEF State, TypeOK, TradeObj
<1>5. /\ s1.obj[p] = [s.obj[p] EXCEPT !.items = <<>>]
      /\ s1.obj[t] = [s.obj[t] EXCEPT !.exMeso = 0]
      /\ \A w \in Trades \ {t, p} : s1.obj[w] = s.obj[w]
  BY <1>1, <1>3, <1>4 DEF Serves, Handed
<1>6. /\ s1.obj[p].owner = o /\ s1.obj[p].partner = t /\ s1.obj[p].exFrom = t
      /\ s1.obj[p].exMeso = obj[t].meso /\ s1.obj[t].items = obj[t].items
  BY <1>2, <1>4, <1>5 DEF TradeObj
<1>7. s2 \in State /\ s2.trade = s1.trade /\ s2.thrown = s1.thrown /\ Serves(s1, s2, o, p, t)
  BY <1>1, <1>2, <1>3, <1>6, CompleteServes
<1>8. /\ s1.inv[c] = inv[c] \cup Elems(Fits(s, c, obj[p].items))
      /\ \A d \in Chars \ {c} : s1.inv[d] = inv[d]
  BY <1>1, <1>2, <1>3, <1>4 DEF Serves, Taken
<1>9. /\ s1.wallet[c] = Credit(wallet[c], obj[p].meso - Tax[obj[p].meso])
      /\ \A d \in Chars \ {c} : s1.wallet[d] = wallet[d]
  BY <1>1, <1>2, <1>3, <1>4 DEF Serves, Paid
<1>10. s1.inv \in [Chars -> SUBSET Items] /\ s1.wallet \in [Chars -> 0..MaxMeso]
       /\ s1.obj \in [Trades -> TradeObj]
  BY <1>3 DEF State
<1>11. /\ s2.inv[o] = s1.inv[o] \cup Elems(Fits(s1, o, obj[t].items))
       /\ \A d \in Chars \ {o} : s2.inv[d] = s1.inv[d]
  BY <1>1, <1>6, <1>7, <1>10 DEF Serves, Taken
<1>12. /\ s2.wallet[o] = Credit(s1.wallet[o], obj[t].meso - Tax[obj[t].meso])
       /\ \A d \in Chars \ {o} : s2.wallet[d] = s1.wallet[d]
  BY <1>1, <1>6, <1>7, <1>10 DEF Serves, Paid
<1>13. \A w \in Trades \ {t, p} : s2.obj[w] = s1.obj[w]
  BY <1>1, <1>7, <1>10 DEF Serves, Handed
<1>14. /\ Len(obj[p].items) <= FreeSlots(s, c) /\ wallet[c] + obj[p].meso <= MaxMeso
       /\ Len(obj[t].items) <= FreeSlots(s, o) /\ wallet[o] + obj[t].meso <= MaxMeso
  BY <1>2 DEF Room
<1>15. FreeSlots(s, c) = FreeSlots(Now, c) /\ FreeSlots(s, o) = FreeSlots(Now, o)
       /\ FreeSlots(s1, o) = FreeSlots(s, o)
  <2>1. s.inv[c] = Now.inv[c] /\ s.inv[o] = Now.inv[o] /\ s1.inv[o] = s.inv[o]
    BY <1>1, <1>2, <1>8, NowState
  <2> QED BY <2>1 DEF FreeSlots
<1>16. Fits(s, c, obj[p].items) = obj[p].items /\ Fits(s1, o, obj[t].items) = obj[t].items
  BY <1>14, <1>15 DEF Fits
<1>17. /\ Credit(wallet[c], obj[p].meso - Tax[obj[p].meso])
             = wallet[c] + obj[p].meso - Tax[obj[p].meso]
       /\ Credit(wallet[o], obj[t].meso - Tax[obj[t].meso])
             = wallet[o] + obj[t].meso - Tax[obj[t].meso]
  BY <1>1, <1>4, <1>14, CreditTaxed
<1>18. /\ s2.inv[c] = inv[c] \cup Elems(obj[p].items) /\ s2.inv[o] = inv[o] \cup Elems(obj[t].items)
  BY <1>1, <1>8, <1>11, <1>16
<1>19. /\ s2.wallet[c] = wallet[c] + obj[p].meso - Tax[obj[p].meso]
       /\ s2.wallet[o] = wallet[o] + obj[t].meso - Tax[obj[t].meso]
  BY <1>1, <1>9, <1>12, <1>17
<1>20. BothServed(s2, c, t, p, o)
  BY <1>14, <1>15, <1>18, <1>19 DEF BothServed
<1>21. \A d \in Chars \ {c, o} : s2.inv[d] = inv[d] /\ s2.wallet[d] = wallet[d] /\ s2.trade[d] = trade[d]
  BY <1>2, <1>3, <1>7, <1>8, <1>9, <1>11, <1>12
<1>22. \A w \in Trades \ {t, p} : s2.obj[w] = obj[w]
  BY <1>5, <1>13 DEF OnTheTable
<1>23. OthersKeep(s2, c, t, p, o)
  BY <1>21, <1>22 DEF OthersKeep
<1>24. Ended(r, c)
  BY <1>7, <1>20, <1>23, EndedTogether
<1> QED BY <1>2, <1>3, <1>7, <1>24

LEMMA EndedByComplete ==
    ASSUME TypeOK, Wed(trade, obj), Honest(trade, obj), NEW c, NEW t, NEW p, NEW o,
           Trading(c, t, p, o), obj[p].locked, NEW one \in BOOLEAN,
           NEW s, s = Confirmed(Now, c), NEW r, r = Exchange(s, c, one)
    PROVE  Ended(r, c)
<1>1. OnTheTable(s, c, t, p, o)
  BY ConfirmedTable
<1>2. s.trade[c] = t /\ s.obj[t].partner = p /\ s.obj[p].owner = o
  BY <1>1 DEF OnTheTable, Trading
<1> DEFINE ok == Room(s, t) /\ Room(s, p) /\ ~one
<1>3. CASE ok
  <2> DEFINE s1 == Complete(s, t)
             s2 == Complete(s1, p)
             e == Leave(Leave(s2, o), c)
  <2>1. Room(s, t) /\ Room(s, p)
    BY <1>3
  <2>2. r = IF s1.thrown THEN s1 ELSE IF s2.thrown THEN s2 ELSE e
    BY <1>2, <1>3 DEF Exchange
  <2>3. Ended(e, c) /\ ~s1.thrown /\ ~s2.thrown
    BY <1>1, <2>1, EndedByExchange
  <2> QED BY <2>2, <2>3
<1>4. CASE ~ok
  <2> DEFINE s1 == Cancel(s, p, o, Checked)
             s2 == Cancel(s1, t, c, Checked)
             e == Leave(Leave(s2, o), c)
  <2>1. r = IF s1.thrown THEN s1 ELSE IF s2.thrown THEN s2 ELSE e
    BY <1>2, <1>4 DEF Exchange, Checked
  <2>2. Ended(e, c) /\ ~s1.thrown /\ ~s2.thrown
    BY <1>1, EndedWithoutRoom
  <2> QED BY <2>1, <2>2
<1> QED BY <1>3, <1>4

\* However a trade with or without a partner ends, it ends as Ended says.
LEMMA HowItEnds ==
    ASSUME TypeOK, Wed(trade, obj), Honest(trade, obj), NEW c \in Chars, trade[c] # None
    PROVE  /\ Ended(CancelTrade(Now, trade[c], c), c)
           /\ declineTrade(c) => \E r : Ended(r, c) /\ Becomes(r)
           /\ obj[trade[c]].partner = None => Ended(Leave(Cancel(Now, trade[c], c, FALSE), c), c)
<1> DEFINE t == trade[c]
           p == obj[t].partner
           o == obj[p].owner
<1>1. Now.obj = obj /\ Now.trade = trade /\ ~Now.thrown /\ Now \in State
  BY NowState
<1>2. CASE p = None
  <2> DEFINE s1 == Cancel(Now, t, c, Unchecked)
             e == Leave(s1, c)
  <2>1. Ended(e, c) /\ ~s1.thrown
    BY <1>2, EndedAlone
  <2>2. CancelTrade(Now, t, c) = e
    BY <1>1, <1>2, <2>1 DEF CancelTrade, Unchecked
  <2>3. declineTrade(c) => Becomes(e)
    BY <1>2 DEF declineTrade, Unchecked
  <2>4. e = Leave(Cancel(Now, t, c, FALSE), c)
    BY DEF Unchecked
  <2> QED BY <2>1, <2>2, <2>3, <2>4
<1>3. CASE p # None
  <2>1. Trading(c, t, p, o)
    BY <1>3, HonestTrading
  <2>2. trade[o] = p
    BY <2>1 DEF Trading
  <2>3. Ended(CancelTrade(Now, t, c), c)
    <3> DEFINE s1 == Cancel(Now, t, c, Unchecked)
               s2 == Cancel(s1, p, o, Unchecked)
               e == Leave(Leave(s2, o), c)
    <3>1. Ended(e, c) /\ ~s1.thrown /\ ~s2.thrown
      BY <2>1, EndedByCancel
    <3>2. CancelTrade(Now, t, c) = e
      BY <1>1, <1>3, <3>1 DEF CancelTrade, Unchecked
    <3> QED BY <3>1, <3>2
  <2>4. ASSUME declineTrade(c)
        PROVE  \E r : Ended(r, c) /\ Becomes(r)
    <3> DEFINE s1 == Cancel(Now, p, o, Unchecked)
               s2 == Leave(s1, o)
               s3 == Cancel(s2, t, c, Unchecked)
               e == Leave(s3, c)
    <3>1. Ended(e, c)
      BY <2>1, EndedByDecline
    <3>2. Becomes(e)
      BY <1>3, <2>2, <2>4 DEF declineTrade, Unchecked
    <3> QED BY <3>1, <3>2
  <2> QED BY <1>3, <2>3, <2>4
<1> QED BY <1>2, <1>3

-----------------------------------------------------------------------------
(* An end keeps what the two halves of a trade say of each other, and every  *)
(* item in one place.                                                       *)

Distinct(q) == \A i, j \in DOMAIN q : q[i] = q[j] => i = j

\* An item is in one inventory or one offer, and there once.
Once ==
    \A c, d \in Chars :
        /\ inv[c] \cap Offered(d) = {}
        /\ c # d => inv[c] \cap inv[d] = {} /\ Offered(c) \cap Offered(d) = {}
        /\ trade[c] # None => Distinct(obj[trade[c]].items)

LEMMA EndedHonest ==
    ASSUME TypeOK, Wed(trade, obj), Honest(trade, obj), NEW c \in Chars, trade[c] # None,
           NEW r, Ended(r, c), Becomes(r)
    PROVE  Honest(trade, obj)'
<1> SUFFICES ASSUME NEW d \in Chars, trade'[d] # None, obj'[trade'[d]].partner # None
             PROVE  LET t == trade'[d]
                        p == obj'[t].partner
                    IN  /\ trade'[obj'[p].owner] = p
                        /\ ~(obj'[t].locked /\ obj'[p].locked)
                        /\ obj'[t].locked => /\ obj'[p].exMeso = obj'[t].meso
                                             /\ obj'[t].seen.items \subseteq Elems(obj'[p].items)
                                             /\ obj'[t].seen.meso <= obj'[p].meso
  BY DEF Honest
<1> DEFINE t == trade[d]
           p == obj[t].partner
           e == obj[p].owner
<1>1. r \in State /\ trade' = r.trade
  BY DEF Ended, Becomes
<1>2. d \in Chars \ Leaving(c) /\ Unconcerned(r, d)
  BY <1>1 DEF Ended
<1>3. trade'[d] = t /\ r.trade[d] = t /\ t # None
  BY <1>1, <1>2 DEF Unconcerned
<1>4. /\ r.obj[t] = obj[t]
      /\ p # None => r.obj[p] = obj[p]
  BY <1>2, <1>3 DEF Unconcerned
<1>5. /\ obj'[t] = r.obj[t]
      /\ r.obj[t].partner # None => obj'[r.obj[t].partner] = r.obj[r.obj[t].partner]
  BY <1>1, <1>3, Collected
<1>6. p # None /\ obj'[t] = obj[t] /\ obj'[p] = obj[p]
  BY <1>3, <1>4, <1>5
<1>7. Trading(d, t, p, e)
  BY <1>3, <1>6, HonestTrading
<1>8. e \notin Leaving(c)
  <2>1. CASE obj[trade[c]].partner = None
    BY <1>6, <1>7, <2>1, TradeAssumption DEF Leaving, Trading
  <2>2. CASE obj[trade[c]].partner # None
    <3>1. Trading(c, trade[c], obj[trade[c]].partner, obj[obj[trade[c]].partner].owner)
      BY <2>2, HonestTrading
    <3> QED BY <1>2, <1>7, <2>2, <3>1 DEF Leaving, Trading
  <2> QED BY <2>1, <2>2
<1>9. e \in Chars /\ trade[e] = p
  BY <1>7 DEF Trading
<1>10. trade'[e] = p
  BY <1>1, <1>8, <1>9 DEF Ended, Unconcerned
<1>11. /\ ~(obj[t].locked /\ obj[p].locked)
       /\ obj[t].locked => /\ obj[p].exMeso = obj[t].meso
                           /\ obj[t].seen.items \subseteq Elems(obj[p].items)
                           /\ obj[t].seen.meso <= obj[p].meso
  BY <1>3, <1>6 DEF Honest
<1> QED BY <1>3, <1>6, <1>10, <1>11

\* Items that are handed over or given back stay in one place: whoever is in L
\* gets at most what one of them, g of him, offered, and their offers are gone.
LEMMA OnceMoved ==
    ASSUME Once, NEW L, NEW g \in [Chars -> Chars],
           \A c, d \in Chars : g[c] = g[d] => c = d,
           \A d \in Chars \ L : g[d] = d,
           \A d \in Chars \cap L : trade'[d] = None /\ inv'[d] \subseteq inv[d] \cup Offered(g[d]),
           \A d \in Chars \ L :
              /\ inv'[d] = inv[d] /\ trade'[d] = trade[d]
              /\ trade[d] # None => obj'[trade[d]].items = obj[trade[d]].items
    PROVE  Once'
<1>1. \A d \in Chars : Offered(d)' = IF d \in L THEN {} ELSE Offered(d)
  BY DEF Offered
<1> SUFFICES ASSUME NEW c \in Chars, NEW d \in Chars
             PROVE  /\ inv'[c] \cap Offered(d)' = {}
                    /\ c # d => inv'[c] \cap inv'[d] = {} /\ Offered(c)' \cap Offered(d)' = {}
                    /\ trade'[c] # None => Distinct(obj'[trade'[c]].items)
  BY DEF Once
<1>2. \A e \in Chars : inv'[e] \subseteq inv[e] \cup (IF e \in L THEN Offered(g[e]) ELSE {})
  OBVIOUS
<1>3. inv'[c] \cap Offered(d)' = {}
  <2>1. CASE d \in L
    BY <1>1, <2>1
  <2>2. CASE d \notin L
    <3>1. g[c] # d \/ c \notin L
      BY <2>2
    <3>2. inv[c] \cap Offered(d) = {} /\ (c \in L => Offered(g[c]) \cap Offered(d) = {})
      BY <3>1 DEF Once
    <3> QED BY <1>1, <1>2, <2>2, <3>2
  <2> QED BY <2>1, <2>2
<1>4. ASSUME c # d
      PROVE  inv'[c] \cap inv'[d] = {} /\ Offered(c)' \cap Offered(d)' = {}
  <2>1. inv[c] \cap inv[d] = {} /\ Offered(c) \cap Offered(d) = {}
    BY <1>4 DEF Once
  <2>2. /\ inv[c] \cap Offered(g[d]) = {} /\ inv[d] \cap Offered(g[c]) = {}
        /\ Offered(g[c]) \cap Offered(g[d]) = {}
    BY <1>4 DEF Once
  <2> QED BY <1>1, <1>2, <2>1, <2>2
<1>5. ASSUME trade'[c] # None
      PROVE  Distinct(obj'[trade'[c]].items)
  BY <1>5 DEF Once
<1> QED BY <1>3, <1>4, <1>5

LEMMA OfferFits ==
    ASSUME TypeOK, NEW c \in Chars, NEW t \in Trades
    PROVE  Elems(Fits(Now, c, obj[t].items)) \subseteq Elems(obj[t].items)
<1>1. obj[t].items \in Seq(Items) /\ fill \in [Chars -> 0..Slots]
  BY DEF TypeOK, TradeObj
<1> QED BY <1>1, NowState, FitsElems

LEMMA EndedOnce ==
    ASSUME TypeOK, Wed(trade, obj), Honest(trade, obj), Once, NEW c \in Chars, trade[c] # None,
           NEW r, Ended(r, c), Becomes(r)
    PROVE  Once'
<1> DEFINE L == Leaving(c)
           o == obj[obj[trade[c]].partner].owner
<1>1. r \in State /\ trade' = r.trade /\ inv' = r.inv
  BY DEF Ended, Becomes
<1>2. \A d \in Chars \cap L : trade'[d] = None
  BY <1>1 DEF Ended
<1>3. ASSUME NEW d \in Chars \ L
      PROVE  /\ inv'[d] = inv[d] /\ trade'[d] = trade[d]
             /\ trade[d] # None => obj'[trade[d]].items = obj[trade[d]].items
  <2>1. Unconcerned(r, d)
    BY DEF Ended
  <2>2. r.inv[d] = inv[d] /\ r.trade[d] = trade[d] /\ (trade[d] # None => r.obj[trade[d]] = obj[trade[d]])
    BY <2>1 DEF Unconcerned
  <2>3. r.trade[d] # None => obj'[r.trade[d]] = r.obj[r.trade[d]]
    BY <1>1, Collected
  <2> QED BY <1>1, <2>2, <2>3
<1>4. ASSUME NEW d \in Chars \cap L
      PROVE  trade[d] # None /\ trade[d] \in Trades /\ Offered(d) = Elems(obj[trade[d]].items)
  <2>1. trade[d] # None
    <3>1. CASE obj[trade[c]].partner = None
      BY <3>1 DEF Leaving
    <3>2. CASE obj[trade[c]].partner # None
      BY <3>2, HonestTrading, TradeAssumption DEF Leaving, Trading
    <3> QED BY <3>1, <3>2
  <2> QED BY <2>1, InTrade DEF Offered
<1>5. CASE \A d \in L : Back(r, d)
  <2> DEFINE g == [d \in Chars |-> d]
  <2>1. g \in [Chars -> Chars] /\ \A d \in Chars : g[d] = d OBVIOUS
  <2> HIDE DEF g, L
  <2>2. ASSUME NEW d \in Chars \cap L
        PROVE  inv'[d] \subseteq inv[d] \cup Offered(g[d])
    <3>1. r.inv[d] = inv[d] \cup Elems(Fits(Now, d, obj[trade[d]].items))
      BY <1>5 DEF Back
    <3>2. Elems(Fits(Now, d, obj[trade[d]].items)) \subseteq Elems(obj[trade[d]].items)
      BY <1>4, OfferFits
    <3> QED BY <1>1, <1>4, <2>1, <3>1, <3>2
  <2> QED BY <1>2, <1>3, <2>1, <2>2, OnceMoved
<1>6. CASE obj[trade[c]].partner # None /\ Receives(r, c, o) /\ Receives(r, o, c)
  <2> DEFINE g == [d \in Chars |-> IF d = c THEN o ELSE IF d = o THEN c ELSE d]
  <2>1. o \in Chars \ {c} /\ L = {c, o}
    BY <1>6, InTrade DEF Leaving
  <2> HIDE DEF o, L
  <2>2. /\ g \in [Chars -> Chars] /\ g[c] = o /\ g[o] = c
        /\ \A d \in Chars \ L : g[d] = d
        /\ \A d, e \in Chars : g[d] = g[e] => d = e
    BY <2>1
  <2> HIDE DEF g
  <2>3. /\ r.inv[c] = inv[c] \cup Elems(obj[trade[o]].items)
        /\ r.inv[o] = inv[o] \cup Elems(obj[trade[c]].items)
    BY <1>6 DEF Receives
  <2>4. \A d \in Chars \cap L : inv'[d] \subseteq inv[d] \cup Offered(g[d])
    BY <1>1, <1>4, <2>1, <2>2, <2>3
  <2>5. /\ \A d, e \in Chars : g[d] = g[e] => d = e
        /\ g \in [Chars -> Chars] /\ \A d \in Chars \ L : g[d] = d
    BY <2>2
  <2>6. \A d \in Chars \cap L : trade'[d] = None /\ inv'[d] \subseteq inv[d] \cup Offered(g[d])
    BY <1>2, <2>4
  <2>7. \A d \in Chars \ L :
           /\ inv'[d] = inv[d] /\ trade'[d] = trade[d]
           /\ trade[d] # None => obj'[trade[d]].items = obj[trade[d]].items
    BY <1>3
  <2> QED BY <2>5, <2>6, <2>7, OnceMoved
<1>7. \/ \A d \in L : Back(r, d)
      \/ obj[trade[c]].partner # None /\ Receives(r, c, o) /\ Receives(r, o, c)
  BY DEF Ended
<1> QED BY <1>5, <1>6, <1>7

-----------------------------------------------------------------------------
(* The handlers that do not end a trade.                                    *)

LEMMA OnceStays ==
    ASSUME Once,
           \A d \in Chars : inv'[d] \subseteq inv[d] /\ Offered(d)' \subseteq Offered(d),
           \A d \in Chars : trade'[d] # None => Distinct(obj'[trade'[d]].items)
    PROVE  Once'
BY DEF Once

\* c's trade ends as Ended says.
EndingStep(c) == trade[c] # None /\ \E r : Ended(r, c) /\ Becomes(r)

\* Nobody leaves a trade, and nothing is taken or handed out.
Untouched ==
    \A d \in Chars : /\ inv'[d] = inv[d] /\ Offered(d) \subseteq Offered(d)'
                     /\ trade[d] # None => trade'[d] # None

\* What Honest says of c's trade.
HonestAt(tr, ob, c) ==
    LET t == tr[c]
        p == ob[t].partner
    IN  t # None /\ p # None =>
          /\ tr[ob[p].owner] = p
          /\ ~(ob[t].locked /\ ob[p].locked)
          /\ ob[t].locked => /\ ob[p].exMeso = ob[t].meso
                             /\ ob[t].seen.items \subseteq Elems(ob[p].items)
                             /\ ob[t].seen.meso <= ob[p].meso

LEMMA HonestEach == \A tr, ob : Honest(tr, ob) <=> \A c \in Chars : HonestAt(tr, ob, c)
BY DEF Honest, HonestAt

\* A trade whose two objects, owner and partner are not touched stays honest.
LEMMA HonestFrame ==
    ASSUME TypeOK, Wed(trade, obj), Honest(trade, obj), NEW d \in Chars,
           trade[d] # None, trade'[d] = trade[d], obj'[trade[d]] = obj[trade[d]],
           LET p == obj[trade[d]].partner
           IN  p # None => obj'[p] = obj[p] /\ trade'[obj[p].owner] = trade[obj[p].owner]
    PROVE  HonestAt(trade, obj, d)'
<1>1. HonestAt(trade, obj, d)
  BY HonestEach
<1> QED BY <1>1 DEF HonestAt

LEMMA startTradeHonest ==
    ASSUME TypeOK, Wed(trade, obj), Honest(trade, obj), Once, NEW c \in Chars, startTrade(c)
    PROVE  Honest(trade, obj)' /\ Once' /\ Untouched
<1>1. PICK t \in Unused : /\ trade' = [trade EXCEPT ![c] = t]
                          /\ obj' = [obj EXCEPT ![t] = NewTrade(c)]
  BY DEF startTrade
<1>2. t \in Trades /\ t \notin Reached(trade, obj) /\ trade[c] = None /\ inv' = inv
  BY <1>1 DEF Unused, startTrade
<1>3. NewTrade(c).partner = None /\ NewTrade(c).items = <<>>
  BY NewTradeType
<1>4. trade'[c] = t /\ obj'[t] = NewTrade(c) /\ \A d \in Chars \ {c} : trade'[d] = trade[d]
  BY <1>1, <1>2 DEF TypeOK
<1>5. ASSUME NEW d \in Chars \ {c}, trade[d] # None
      PROVE  /\ obj'[trade[d]] = obj[trade[d]]
             /\ obj[trade[d]].partner # None =>
                   obj'[obj[trade[d]].partner] = obj[obj[trade[d]].partner]
  <2>1. trade[d] \in Reached(trade, obj) /\ obj[trade[d]].partner \in Reached(trade, obj)
    BY <1>5 DEF Reached
  <2> QED BY <1>1, <1>2, <2>1 DEF TypeOK
<1>6. \A d \in Chars : HonestAt(trade, obj, d)'
  <2>1. HonestAt(trade, obj, c)'
    BY <1>3, <1>4 DEF HonestAt
  <2>2. ASSUME NEW d \in Chars \ {c}, trade[d] # None
        PROVE  HonestAt(trade, obj, d)'
    <3>1. obj[trade[d]].partner # None =>
             Trading(d, trade[d], obj[trade[d]].partner, obj[obj[trade[d]].partner].owner)
      BY <2>2, HonestTrading
    <3>2. obj[trade[d]].partner # None => obj[obj[trade[d]].partner].owner \in Chars \ {c}
      BY <1>2, <3>1, TradeAssumption DEF Trading
    <3> QED BY <1>4, <1>5, <2>2, <3>2, HonestFrame
  <2>3. ASSUME NEW d \in Chars \ {c}, trade[d] = None
        PROVE  HonestAt(trade, obj, d)'
    BY <1>4, <2>3 DEF HonestAt
  <2> QED BY <2>1, <2>2, <2>3
<1>7. Once'
  <2>1. Elems(<<>>) = {} /\ Distinct(<<>>)
    BY DEF Elems, Distinct
  <2>2. \A d \in Chars : Offered(d)' \subseteq Offered(d)
    BY <1>3, <1>4, <1>5, <2>1 DEF Offered
  <2>3. \A d \in Chars : trade'[d] # None => Distinct(obj'[trade'[d]].items)
    BY <1>3, <1>4, <1>5, <2>1 DEF Once
  <2> QED BY <1>2, <2>2, <2>3, OnceStays
<1>8. \A d \in Chars : Offered(d) \subseteq Offered(d)'
  BY <1>2, <1>4, <1>5 DEF Offered
<1> QED BY <1>2, <1>4, <1>6, <1>7, <1>8, HonestEach, TradeAssumption DEF Untouched

LEMMA inviteTradeHonest ==
    ASSUME TypeOK, Wed(trade, obj), Honest(trade, obj), Once, NEW c \in Chars, NEW d \in Chars,
           inviteTrade(c, d)
    PROVE  Honest(trade, obj)' /\ Once' /\ Untouched
<1> DEFINE s == trade[c]
           a(t) == [obj[s] EXCEPT !.partner = t]
           b == [NewTrade(d) EXCEPT !.partner = s]
<1>1. inv' = inv /\ c # d /\ s # None /\ obj[s].partner = None /\ trade[d] = None
  BY DEF inviteTrade
<1>2. /\ s \in Trades /\ obj[s] \in TradeObj /\ obj[s].owner = c /\ ~obj[s].locked
      /\ s \in Reached(trade, obj)
  BY <1>1, InTrade DEF Reached
<1>3. PICK t \in Unused : /\ trade' = [trade EXCEPT ![d] = t]
                          /\ obj' = [obj EXCEPT ![t] = b, ![s].partner = t]
  BY DEF inviteTrade
<1>4. t \in Trades /\ t \notin Reached(trade, obj) /\ t # s
  BY <1>2, <1>3 DEF Unused
<1>5. /\ b.owner = d /\ b.partner = s /\ b.items = <<>> /\ ~b.locked
  BY NewTradeType DEF TradeObj
<1>6. a(t).owner = c /\ a(t).partner = t /\ ~a(t).locked /\ a(t).items = obj[s].items
  BY <1>2, <1>4 DEF TradeObj
<1>7. obj'[s] = a(t) /\ obj'[t] = b /\ \A u \in Trades \ {s, t} : obj'[u] = obj[u]
  BY <1>2, <1>3, <1>4 DEF TypeOK
<1>8. /\ trade'[c] = s /\ trade'[d] = t
      /\ \A e \in Chars \ {d} : trade'[e] = trade[e]
  BY <1>1, <1>3 DEF TypeOK
<1> HIDE DEF a, b
<1>9. ASSUME NEW e \in Chars \ {c, d}, trade[e] # None
      PROVE  /\ trade'[e] = trade[e] /\ obj'[trade[e]] = obj[trade[e]]
             /\ obj[trade[e]].partner # None =>
                   obj'[obj[trade[e]].partner] = obj[obj[trade[e]].partner]
  <2>1. trade[e] \in Reached(trade, obj) /\ obj[trade[e]].partner \in Reached(trade, obj)
    BY <1>9 DEF Reached
  <2>2. trade[e] # s /\ obj[trade[e]].partner # s
    BY <1>1, <1>9, Strangers
  <2>3. trade[e] \in Trades /\ obj[trade[e]].partner \in Trades \cup {None}
    BY <1>9, InTrade
  <2> QED BY <1>4, <1>7, <1>8, <2>1, <2>2, <2>3
<1>10. HonestAt(trade, obj, c)' /\ HonestAt(trade, obj, d)'
  BY <1>5, <1>6, <1>7, <1>8 DEF HonestAt
<1>11. ASSUME NEW e \in Chars \ {c, d}
       PROVE  HonestAt(trade, obj, e)'
  <2>1. CASE trade[e] = None
    BY <1>8, <2>1 DEF HonestAt
  <2>2. CASE trade[e] # None
    <3>1. obj[trade[e]].partner # None =>
             Trading(e, trade[e], obj[trade[e]].partner, obj[obj[trade[e]].partner].owner)
      BY <2>2, HonestTrading
    <3>2. obj[trade[e]].partner # None => obj[obj[trade[e]].partner].owner \in Chars \ {d}
      BY <1>1, <3>1, TradeAssumption DEF Trading
    <3> QED BY <1>8, <1>9, <2>2, <3>2, HonestFrame
  <2> QED BY <2>1, <2>2
<1>12. Once'
  <2>1. Elems(<<>>) = {} /\ Distinct(<<>>)
    BY DEF Elems, Distinct
  <2>2. ASSUME NEW e \in Chars
        PROVE  /\ Offered(e)' \subseteq Offered(e)
               /\ trade'[e] # None => Distinct(obj'[trade'[e]].items)
    <3>1. CASE e = c
      BY <1>1, <1>6, <1>7, <1>8, <3>1 DEF Offered, Once
    <3>2. CASE e = d
      BY <1>5, <1>7, <1>8, <2>1, <3>2 DEF Offered
    <3>3. CASE e # c /\ e # d
      BY <1>8, <1>9, <3>3 DEF Offered, Once
    <3> QED BY <3>1, <3>2, <3>3
  <2> QED BY <1>1, <2>2, OnceStays
<1>13. Untouched
  <2> SUFFICES ASSUME NEW e \in Chars
               PROVE  /\ Offered(e) \subseteq Offered(e)'
                      /\ trade[e] # None => trade'[e] # None
    BY <1>1 DEF Untouched
  <2>1. CASE e = c
    BY <1>1, <1>6, <1>7, <1>8, <2>1 DEF Offered
  <2>2. CASE e = d
    BY <1>1, <2>2 DEF Offered
  <2>3. CASE e # c /\ e # d
    BY <1>8, <1>9, <2>3 DEF Offered
  <2> QED BY <2>1, <2>2, <2>3
<1> QED BY <1>10, <1>11, <1>12, <1>13, HonestEach

\* What is added to an offer that is not confirmed contradicts nobody.
LEMMA AddedHonest ==
    ASSUME TypeOK, Wed(trade, obj), Honest(trade, obj), NEW c \in Chars, trade[c] # None,
           ~obj[trade[c]].locked, trade' = trade, NEW a \in TradeObj, obj'[trade[c]] = a,
           a.owner = c, a.partner = obj[trade[c]].partner, ~a.locked,
           a.exMeso = obj[trade[c]].exMeso, obj[trade[c]].meso <= a.meso,
           Elems(obj[trade[c]].items) \subseteq Elems(a.items),
           \A e \in Chars : trade[e] # None =>
              /\ e # c => obj'[trade[e]] = obj[trade[e]]
              /\ obj[trade[e]].partner \notin {None, trade[c]} =>
                    obj'[obj[trade[e]].partner] = obj[obj[trade[e]].partner]
    PROVE  Honest(trade, obj)'
<1> DEFINE t == trade[c]
<1> SUFFICES ASSUME NEW d \in Chars, trade[d] # None, obj'[trade[d]].partner # None
             PROVE  HonestAt(trade, obj, d)'
  BY HonestEach DEF HonestAt
<1> DEFINE u == trade[d]
           v == obj[u].partner
           e == obj[v].owner
<1>1. v # None
  BY DEF t
<1>2. Trading(d, u, v, e)
  BY <1>1, HonestTrading
<1>3. HonestAt(trade, obj, d)
  BY HonestEach
<1>4. CASE d = c
  <2>1. obj'[u] = a /\ obj'[v] = obj[v] /\ a.partner = v
    BY <1>1, <1>2, <1>4 DEF Trading
  <2> QED BY <1>2, <2>1 DEF HonestAt, Trading
<1>5. CASE d # c /\ v = t
  <2>1. obj'[u] = obj[u] /\ obj'[v] = a /\ e = c
    BY <1>2, <1>5, InTrade DEF Trading
  <2>2. obj[u].seen.meso \in Int /\ obj[t].meso \in Int /\ a.meso \in Int
    BY <1>2, <1>5 DEF Trading, TypeOK, TradeObj
  <2>3. obj[u].seen.meso <= obj[t].meso => obj[u].seen.meso <= a.meso
    BY <2>2
  <2> QED BY <1>1, <1>2, <1>3, <1>5, <2>1, <2>3 DEF HonestAt, Trading
<1>6. CASE d # c /\ v # t
  <2>1. obj'[u] = obj[u] /\ obj'[v] = obj[v]
    BY <1>1, <1>6
  <2> QED BY <1>3, <2>1 DEF HonestAt
<1> QED BY <1>4, <1>5, <1>6

LEMMA setItemsHonest ==
    ASSUME TypeOK, Wed(trade, obj), Honest(trade, obj), Once, NEW c \in Chars, NEW i \in Items,
           setItems(c, i)
    PROVE  /\ Honest(trade, obj)' /\ Once'
           /\ \A d \in Chars : trade[d] # None => trade'[d] # None
           /\ \A d \in Chars : inv[d] \ {i} \subseteq inv'[d] /\ Offered(d) \subseteq Offered(d)'
           /\ obj[trade[c]].partner # None => i \in Offered(c)'
<1> DEFINE t == trade[c]
           r == SetItems(Now, c, i)
           a == Offering(Now, t, i)
<1>1. t # None /\ ~obj[t].locked /\ i \in inv[c] /\ Becomes(r)
  BY DEF setItems
<1>2. t \in Trades /\ obj[t] \in TradeObj /\ obj[t].owner = c
  BY <1>1, InTrade
<1>3. /\ r \in State /\ r.trade = trade /\ r.inv = [inv EXCEPT ![c] = inv[c] \ {i}]
      /\ r.obj = [obj EXCEPT ![t] = a] /\ a \in TradeObj
  <2>1. Now \in State /\ Now.trade = trade /\ Now.obj = obj /\ Now.inv = inv
    BY NowState
  <2>2. /\ r \in State /\ r.trade = Now.trade
        /\ r.inv = [Now.inv EXCEPT ![c] = Now.inv[c] \ {i}]
        /\ r.obj = [Now.obj EXCEPT ![Now.trade[c]] = Offering(Now, Now.trade[c], i)]
        /\ Offering(Now, Now.trade[c], i) \in TradeObj
    BY <1>2, <2>1, SetItemsEffect
  <2> QED BY <2>1, <2>2
<1> HIDE DEF r
<1>4. obj[t].items \in Seq(Items) /\ obj[t].meso \in 0..MaxMeso
  BY <1>2 DEF TradeObj
<1>5. /\ a.owner = c /\ a.partner = obj[t].partner /\ ~a.locked /\ a.exMeso = obj[t].exMeso
      /\ a.meso = obj[t].meso
      /\ a.items = obj[t].items \/ a.items = Append(obj[t].items, i)
  BY <1>1, <1>2, NowState DEF TradeObj, Offering
<1> HIDE DEF a
<1>6. i \notin Elems(obj[t].items) /\ Distinct(obj[t].items)
  BY <1>1, <1>2 DEF Once, Offered
<1>7. /\ Elems(obj[t].items) \subseteq Elems(a.items)
      /\ Elems(a.items) \subseteq Elems(obj[t].items) \cup {i}
      /\ Distinct(a.items)
  <2> DEFINE q == obj[t].items
             q1 == Append(q, i)
  <2>1. /\ q1 \in Seq(Items) /\ Len(q1) = Len(q) + 1 /\ Elems(q1) = Elems(q) \cup {i}
        /\ \A k \in 1..Len(q) : q1[k] = q[k]
        /\ q1[Len(q) + 1] = i
    BY <1>4, AppendItem
  <2>2. DOMAIN q = 1..Len(q) /\ DOMAIN q1 = 1..(Len(q) + 1) /\ Len(q) \in Nat
    BY <1>4, <2>1, LenProperties
  <2> HIDE DEF q, q1
  <2>3. \A k \in 1..Len(q) : q[k] # i
    BY <1>6, <2>2 DEF Elems, q
  <2>4. \A k \in DOMAIN q1 : k \in 1..Len(q) \/ k = Len(q) + 1
    BY <2>2
  <2>5. Distinct(q)
    BY <1>6 DEF q
  <2>6. Distinct(q1)
    BY <2>1, <2>2, <2>3, <2>4, <2>5 DEF Distinct
  <2> QED BY <1>5, <1>6, <2>1, <2>6 DEF q, q1
<1>8. trade' = trade /\ inv' = r.inv
  BY <1>1, <1>3 DEF Becomes
<1>9. \A u \in Trades : r.obj[u] = IF u = t THEN a ELSE obj[u]
  BY <1>3 DEF TypeOK
<1>10. r.obj[t] = a /\ obj'[t] = a
  BY <1>1, <1>2, <1>3, <1>9, Collected
<1>11. ASSUME NEW e \in Chars, trade[e] # None
       PROVE  /\ e # c => obj'[trade[e]] = obj[trade[e]]
              /\ obj[trade[e]].partner \notin {None, t} =>
                    obj'[obj[trade[e]].partner] = obj[obj[trade[e]].partner]
  <2>1. /\ trade[e] \in Trades /\ obj[trade[e]].owner = e
        /\ obj[trade[e]].partner \in Trades \cup {None}
    BY <1>11, InTrade
  <2>2. trade[e] = t <=> e = c
    BY <1>2, <2>1
  <2>3. r.obj[trade[e]].partner = obj[trade[e]].partner
    BY <1>5, <1>9, <2>1
  <2>4. /\ obj'[trade[e]] = r.obj[trade[e]]
        /\ obj[trade[e]].partner # None =>
              obj'[obj[trade[e]].partner] = r.obj[obj[trade[e]].partner]
    <3>1. \A d \in Chars : r.trade[d] # None =>
             /\ obj'[r.trade[d]] = r.obj[r.trade[d]]
             /\ r.obj[r.trade[d]].partner # None =>
                   obj'[r.obj[r.trade[d]].partner] = r.obj[r.obj[r.trade[d]].partner]
      BY <1>1, <1>3, Collected
    <3> HIDE DEF t
    <3> QED BY <1>3, <1>11, <2>3, <3>1
  <2> QED BY <1>9, <2>1, <2>2, <2>4
<1>12. Honest(trade, obj)'
  <2>1. obj[t].meso <= a.meso
    BY <1>4, <1>5
  <2> QED BY <1>1, <1>3, <1>5, <1>7, <1>8, <1>10, <1>11, <2>1, AddedHonest
<1>13. inv' = [inv EXCEPT ![c] = inv[c] \ {i}]
  BY <1>3, <1>8
<1>14. /\ inv'[c] = inv[c] \ {i} /\ \A d \in Chars \ {c} : inv'[d] = inv[d]
       /\ \A d \in Chars : inv'[d] \subseteq inv[d]
  BY <1>13 DEF TypeOK
<1>15. Offered(c)' \subseteq Offered(c) \cup {i}
  BY <1>1, <1>7, <1>8, <1>10 DEF Offered
<1>16. \A d \in Chars \ {c} : Offered(d)' = Offered(d)
  BY <1>8, <1>11 DEF Offered
<1>17. \A d \in Chars : trade'[d] # None => Distinct(obj'[trade'[d]].items)
  BY <1>7, <1>8, <1>10, <1>11 DEF Once
<1>18. \A d \in Chars : d # c => i \notin inv[d]
  BY <1>1 DEF Once
<1>19. \A d \in Chars : i \notin Offered(d)
  BY <1>1 DEF Once
<1>20. Once'
  <2> HIDE DEF t, a, r
  <2> SUFFICES ASSUME NEW d \in Chars, NEW e \in Chars
               PROVE  /\ inv'[d] \cap Offered(e)' = {}
                      /\ d # e => inv'[d] \cap inv'[e] = {} /\ Offered(d)' \cap Offered(e)' = {}
    BY <1>17 DEF Once
  <2>1. /\ inv[d] \cap Offered(e) = {}
        /\ d # e => inv[d] \cap inv[e] = {} /\ Offered(d) \cap Offered(e) = {}
    BY DEF Once
  <2>2. /\ i \notin inv'[d] /\ inv'[d] \subseteq inv[d] /\ inv'[e] \subseteq inv[e]
    BY <1>14, <1>18
  <2>3. Offered(e)' \subseteq Offered(e) \cup {i} /\ Offered(d)' \subseteq Offered(d) \cup {i}
    BY <1>15, <1>16
  <2>4. d # e => Offered(d)' = Offered(d) \/ Offered(e)' = Offered(e)
    BY <1>16
  <2> QED BY <1>19, <2>1, <2>2, <2>3, <2>4
<1>21. \A d \in Chars : inv[d] \ {i} \subseteq inv'[d] /\ Offered(d) \subseteq Offered(d)'
  BY <1>1, <1>7, <1>8, <1>10, <1>14, <1>16 DEF Offered
<1>22. ASSUME obj[t].partner # None
       PROVE  i \in Offered(c)'
  <2>1. a.items = Append(obj[t].items, i)
    BY <1>2, <1>22, NowState DEF TradeObj, Offering, a
  <2>2. i \in Elems(Append(obj[t].items, i))
    BY <1>4, AppendItem
  <2> QED BY <1>1, <1>8, <1>10, <2>1, <2>2 DEF Offered
<1> QED BY <1>8, <1>12, <1>20, <1>21, <1>22

LEMMA setMesoHonest ==
    ASSUME TypeOK, Wed(trade, obj), Honest(trade, obj), Once, NEW c \in Chars, NEW m \in Amounts,
           setMeso(c, m)
    PROVE  Honest(trade, obj)' /\ Once' /\ Untouched
<1> DEFINE t == trade[c]
           a == [obj[t] EXCEPT !.meso = obj[t].meso + m]
<1>1. /\ t # None /\ ~obj[t].locked /\ obj[t].meso + m <= MaxMeso
      /\ obj' = [obj EXCEPT ![t] = a]
      /\ UNCHANGED <<inv, trade>>
  BY DEF setMeso
<1>2. t \in Trades /\ obj[t] \in TradeObj /\ obj[t].owner = c
  BY <1>1, InTrade
<1>3. obj[t].meso \in 0..MaxMeso /\ m \in 1..MaxMeso /\ MaxMeso \in Nat
  BY <1>2, TradeAssumption DEF TradeObj
<1>4. obj[t].meso + m \in 0..MaxMeso /\ obj[t].meso <= obj[t].meso + m
  BY <1>1, <1>3
<1>5. /\ a \in TradeObj /\ a.owner = c /\ a.partner = obj[t].partner /\ ~a.locked
      /\ a.exMeso = obj[t].exMeso /\ a.meso = obj[t].meso + m /\ a.items = obj[t].items
  BY <1>1, <1>2, <1>4 DEF TradeObj
<1> HIDE DEF a
<1>6. \A u \in Trades : obj'[u] = IF u = t THEN a ELSE obj[u]
  BY <1>1 DEF TypeOK
<1>7. ASSUME NEW e \in Chars, trade[e] # None
      PROVE  /\ e # c => obj'[trade[e]] = obj[trade[e]]
             /\ obj[trade[e]].partner \notin {None, t} =>
                   obj'[obj[trade[e]].partner] = obj[obj[trade[e]].partner]
  BY <1>2, <1>6, <1>7, InTrade
<1>8. obj'[t] = a
  BY <1>2, <1>6
<1>9. Honest(trade, obj)'
  BY <1>1, <1>4, <1>5, <1>7, <1>8, AddedHonest
<1>10. \A d \in Chars : trade[d] # None => obj'[trade[d]].items = obj[trade[d]].items
  BY <1>5, <1>7, <1>8
<1>11. Once'
  BY <1>1, <1>10, OnceStays DEF Offered, Once
<1>12. Untouched
  BY <1>1, <1>10 DEF Offered, Untouched
<1> QED BY <1>9, <1>11, <1>12

\* The first of the two to confirm.
LEMMA confirmHonest ==
    ASSUME TypeOK, Wed(trade, obj), Honest(trade, obj), Once, NEW c \in Chars, trade[c] # None,
           obj[trade[c]].partner # None, ~obj[obj[trade[c]].partner].locked,
           Becomes(Confirmed(Now, c))
    PROVE  Honest(trade, obj)' /\ Once' /\ Untouched
<1> DEFINE t == trade[c]
           p == obj[t].partner
           o == obj[p].owner
           s == Confirmed(Now, c)
           a == Confirming(Now, t, p)
           b == Shown(Now, t, p)
<1>1. Trading(c, t, p, o)
  BY HonestTrading
<1>2. /\ s \in State /\ s.inv = inv /\ s.trade = trade
      /\ \A u \in Trades : s.obj[u] = IF u = t THEN a ELSE IF u = p THEN b ELSE obj[u]
  BY ConfirmedSound
<1>3. t \in Trades /\ p \in Trades
  BY <1>1 DEF Trading
<1>4. /\ a.owner = c /\ a.partner = p /\ a.items = obj[t].items /\ a.meso = obj[t].meso
      /\ a.seen.items = Elems(obj[p].items) /\ a.seen.meso = obj[p].meso
      /\ b.owner = o /\ b.partner = t /\ ~b.locked /\ b.exMeso = obj[t].meso
      /\ b.items = obj[p].items /\ b.meso = obj[p].meso
  <2>1. /\ a.owner = obj[t].owner /\ a.partner = obj[t].partner
        /\ a.items = obj[t].items /\ a.meso = obj[t].meso
        /\ a.seen.items = Elems(obj[p].items) /\ a.seen.meso = obj[p].meso
    BY <1>3, NowConfirming
  <2>2. /\ b.owner = obj[p].owner /\ b.partner = obj[p].partner /\ b.locked = obj[p].locked
        /\ b.exMeso = obj[t].meso /\ b.items = obj[p].items /\ b.meso = obj[p].meso
    BY <1>3, NowConfirming
  <2> HIDE DEF a, b
  <2> QED BY <1>1, <2>1, <2>2 DEF Trading
<1> HIDE DEF a, b
<1>5. Becomes(s) OBVIOUS
<1> HIDE DEF s
<1>6. trade' = trade /\ inv' = inv
  BY <1>2, <1>5 DEF Becomes
<1>7. s.obj[t] = a /\ s.obj[p] = b
  BY <1>1, <1>2 DEF Trading
<1>8. \A d \in Chars : s.trade[d] # None =>
         /\ obj'[s.trade[d]] = s.obj[s.trade[d]]
         /\ s.obj[s.trade[d]].partner # None =>
               obj'[s.obj[s.trade[d]].partner] = s.obj[s.obj[s.trade[d]].partner]
  BY <1>2, <1>5, Collected
<1>9. obj'[t] = a /\ obj'[p] = b
  <2>1. s.trade[c] = t /\ s.trade[c] # None /\ s.obj[s.trade[c]].partner = p /\ p # None
    BY <1>2, <1>4, <1>7
  <2>2. /\ obj'[s.trade[c]] = s.obj[s.trade[c]]
        /\ obj'[s.obj[s.trade[c]].partner] = s.obj[s.obj[s.trade[c]].partner]
    BY <1>8, <2>1
  <2> HIDE DEF t, p
  <2> QED BY <1>7, <2>1, <2>2
<1>10. ASSUME NEW e \in Chars \ {c, o}, trade[e] # None
       PROVE  /\ obj'[trade[e]] = obj[trade[e]]
              /\ obj[trade[e]].partner # None =>
                    obj'[obj[trade[e]].partner] = obj[obj[trade[e]].partner]
  <2>1. /\ trade[e] # t /\ obj[trade[e]].partner # t
        /\ trade[e] # p /\ obj[trade[e]].partner # p
    BY <1>1, <1>10, Strangers
  <2>2. trade[e] \in Trades /\ obj[trade[e]].partner \in Trades \cup {None}
    BY <1>10, InTrade
  <2>3. s.trade[e] = trade[e] /\ s.obj[trade[e]] = obj[trade[e]]
    BY <1>2, <2>1, <2>2
  <2>4. obj[trade[e]].partner # None => s.obj[obj[trade[e]].partner] = obj[obj[trade[e]].partner]
    BY <1>2, <2>1, <2>2
  <2> HIDE DEF t, p, o
  <2> QED BY <1>8, <1>10, <2>3, <2>4
<1>11. HonestAt(trade, obj, c)'
  <2>1. trade'[c] = t /\ trade'[o] = p
    BY <1>1, <1>6 DEF Trading
  <2>2. obj[p].meso <= obj[p].meso
    BY <1>3 DEF TypeOK, TradeObj
  <2> HIDE DEF t, p, o
  <2> QED BY <1>4, <1>9, <2>1, <2>2 DEF HonestAt
<1>12. ASSUME NEW e \in Chars, e = o
       PROVE  HonestAt(trade, obj, e)'
  <2>1. trade'[c] = t /\ trade'[e] = p
    BY <1>1, <1>6, <1>12 DEF Trading
  <2> HIDE DEF t, p, o
  <2> QED BY <1>4, <1>9, <2>1 DEF HonestAt
<1>13. ASSUME NEW e \in Chars \ {c, o}
       PROVE  HonestAt(trade, obj, e)'
  <2>1. CASE trade[e] = None
    BY <1>6, <2>1 DEF HonestAt
  <2>2. CASE trade[e] # None
    BY <1>6, <1>10, <2>2, HonestFrame
  <2> QED BY <2>1, <2>2
<1>14. \A d \in Chars : trade[d] # None => obj'[trade[d]].items = obj[trade[d]].items
  <2> SUFFICES ASSUME NEW d \in Chars, trade[d] # None
               PROVE  obj'[trade[d]].items = obj[trade[d]].items
    OBVIOUS
  <2> HIDE DEF t, p, o
  <2>1. d = c \/ d = o \/ d \in Chars \ {c, o} OBVIOUS
  <2>2. trade[c] = t /\ trade[o] = p
    BY <1>1 DEF Trading
  <2> QED BY <1>4, <1>9, <1>10, <2>1, <2>2
<1>15. Once'
  BY <1>6, <1>14, OnceStays DEF Offered, Once
<1>16. \A d \in Chars : HonestAt(trade, obj, d)'
  BY <1>11, <1>12, <1>13
<1>17. Untouched
  BY <1>6, <1>14 DEF Offered, Untouched
<1> QED BY <1>15, <1>16, <1>17, HonestEach

LEMMA completeTradeHonest ==
    ASSUME TypeOK, Wed(trade, obj), Honest(trade, obj), Once, NEW c \in Chars, completeTrade(c)
    PROVE  /\ Honest(trade, obj)' /\ Once'
           /\ Untouched \/ EndingStep(c)
<1> DEFINE t == trade[c]
           p == obj[t].partner
           o == obj[p].owner
           s == Confirmed(Now, c)
<1>1. t # None /\ p # None
  BY DEF completeTrade
<1>2. CASE ~obj[p].locked
  <2>1. Becomes(s)
    BY <1>2 DEF completeTrade
  <2> QED BY <1>1, <1>2, <2>1, confirmHonest
<1>3. CASE obj[p].locked
  <2>1. Trading(c, t, p, o)
    BY <1>1, HonestTrading
  <2>2. PICK one \in BOOLEAN : Becomes(Exchange(s, c, one))
    BY <1>3 DEF completeTrade
  <2> DEFINE r == Exchange(s, c, one)
  <2>3. Ended(r, c)
    BY <1>3, <2>1, EndedByComplete
  <2> HIDE DEF r
  <2>4. Becomes(r)
    BY <2>2 DEF r
  <2> QED BY <1>1, <2>3, <2>4, EndedHonest, EndedOnce DEF EndingStep
<1> QED BY <1>2, <1>3

-----------------------------------------------------------------------------
(* Every step ends one trade as Ended says, or ends none.                   *)

LEMMA endingHonest ==
    ASSUME TypeOK, Wed(trade, obj), Honest(trade, obj), Once, NEW c \in Chars, ~abandoned',
           \/ exitTrade(c) \/ leaveMap(c) \/ declineTrade(c)
           \/ \E d \in Chars : inviteShopkeeper(c, d)
    PROVE  Honest(trade, obj)' /\ Once' /\ EndingStep(c)
<1>1. trade[c] # None
  BY DEF exitTrade, leaveMap, declineTrade, inviteShopkeeper
<1>2. EndingStep(c)
  <2>1. CASE exitTrade(c) \/ leaveMap(c)
    <3> DEFINE r == CancelTrade(Now, trade[c], c)
    <3>1. Ended(r, c)
      BY <1>1, HowItEnds
    <3>2. Becomes(r)
      BY <2>1 DEF exitTrade, leaveMap
    <3> QED BY <1>1, <3>1, <3>2 DEF EndingStep
  <2>2. CASE declineTrade(c)
    BY <1>1, <2>2, HowItEnds DEF EndingStep
  <2>3. CASE \E d \in Chars : inviteShopkeeper(c, d)
    <3> DEFINE r == Leave(Cancel(Now, trade[c], c, FALSE), c)
    <3>1. Becomes(r) /\ obj[trade[c]].partner = None
      BY <2>3 DEF inviteShopkeeper
    <3>2. Ended(r, c)
      BY <1>1, <3>1, HowItEnds
    <3> QED BY <1>1, <3>1, <3>2 DEF EndingStep
  <2> QED BY <2>1, <2>2, <2>3
<1> QED BY <1>1, <1>2, EndedHonest, EndedOnce DEF EndingStep

LEMMA ElsewhereHonest ==
    ASSUME TypeOK, Honest(trade, obj), Once, NEW c \in Chars, Elsewhere(c)
    PROVE  Honest(trade, obj)' /\ Once' /\ Untouched
<1>1. UNCHANGED <<inv, trade, obj>>
  BY DEF Elsewhere
<1>2. Honest(trade, obj)'
  BY <1>1 DEF Honest
<1>3. Once'
  BY <1>1 DEF Once, Offered
<1>4. Untouched
  BY <1>1 DEF Untouched, Offered
<1> QED BY <1>2, <1>3, <1>4

\* What the code keeps until somebody invites a shopkeeper and leaves his partner behind.
Agreed == Sound /\ (~abandoned => Honest(trade, obj) /\ Once)

LEMMA AgreedInit == Init => Agreed
<1> SUFFICES ASSUME Init
             PROVE  Agreed
  OBVIOUS
<1>1. \A c \in Chars : trade[c] = None /\ Offered(c) = {}
  BY DEF Init, Offered
<1>2. Once
  BY <1>1 DEF Init, Once
<1>3. Honest(trade, obj)
  BY <1>1 DEF Honest
<1> QED BY <1>2, <1>3, SoundInit DEF Agreed

\* c puts i into a trade that has no partner, where it is lost.
Wasted(i) == \E c \in Chars : trade[c] # None /\ i \in inv[c] /\ obj[trade[c]].partner = None

\* Either one trade ends, or nobody leaves one and everything stays placed.
Effect ==
    \/ \E c \in Chars : EndingStep(c)
    \/ /\ \A c \in Chars : trade[c] # None => trade'[c] # None
       /\ \A i \in Placed : i \in Placed' \/ Wasted(i)

LEMMA UntouchedEffect == Untouched => Effect
<1> SUFFICES ASSUME Untouched
             PROVE  Effect
  OBVIOUS
<1>1. \A c \in Chars : inv[c] \cup Offered(c) \subseteq inv'[c] \cup Offered(c)'
  BY DEF Untouched
<1>2. Placed \subseteq Placed'
  BY <1>1 DEF Placed
<1> QED BY <1>2 DEF Untouched, Effect

LEMMA setItemsEffect ==
    ASSUME TypeOK, Wed(trade, obj), Honest(trade, obj), Once, NEW c \in Chars, NEW i \in Items,
           setItems(c, i)
    PROVE  Effect
<1>1. trade[c] # None /\ i \in inv[c]
  BY DEF setItems
<1>2. \A d \in Chars : trade[d] # None => trade'[d] # None
  BY setItemsHonest
<1>3. \A d \in Chars : inv[d] \ {i} \subseteq inv'[d] /\ Offered(d) \subseteq Offered(d)'
  BY setItemsHonest
<1>4. obj[trade[c]].partner # None => i \in Offered(c)'
  BY setItemsHonest
<1>5. ASSUME NEW j \in Placed, j # i
      PROVE  j \in Placed'
  BY <1>3, <1>5 DEF Placed
<1>6. i \in Placed' \/ Wasted(i)
  BY <1>1, <1>4 DEF Placed, Wasted
<1> QED BY <1>2, <1>5, <1>6 DEF Effect

LEMMA StepHonest ==
    ASSUME TypeOK, Wed(trade, obj), Honest(trade, obj), Once, Next, ~abandoned'
    PROVE  Honest(trade, obj)' /\ Once' /\ Effect
<1>1. ASSUME NEW c \in Chars, startTrade(c)
      PROVE  Honest(trade, obj)' /\ Once' /\ Effect
  BY <1>1, startTradeHonest, UntouchedEffect
<1>2. ASSUME NEW c \in Chars, \/ exitTrade(c) \/ leaveMap(c) \/ declineTrade(c)
                              \/ \E d \in Chars : inviteShopkeeper(c, d)
      PROVE  Honest(trade, obj)' /\ Once' /\ Effect
  BY <1>2, endingHonest DEF Effect
<1>3. ASSUME NEW c \in Chars, completeTrade(c)
      PROVE  Honest(trade, obj)' /\ Once' /\ Effect
  BY <1>3, completeTradeHonest, UntouchedEffect DEF Effect
<1>4. ASSUME NEW c \in Chars, Elsewhere(c)
      PROVE  Honest(trade, obj)' /\ Once' /\ Effect
  BY <1>4, ElsewhereHonest, UntouchedEffect
<1>5. ASSUME NEW c \in Chars, NEW d \in Chars, inviteTrade(c, d)
      PROVE  Honest(trade, obj)' /\ Once' /\ Effect
  BY <1>5, inviteTradeHonest, UntouchedEffect
<1>6. ASSUME NEW c \in Chars, NEW i \in Items, setItems(c, i)
      PROVE  Honest(trade, obj)' /\ Once' /\ Effect
  BY <1>6, setItemsHonest, setItemsEffect
<1>7. ASSUME NEW c \in Chars, NEW m \in Amounts, setMeso(c, m)
      PROVE  Honest(trade, obj)' /\ Once' /\ Effect
  BY <1>7, setMesoHonest, UntouchedEffect
<1> QED BY <1>1, <1>2, <1>3, <1>4, <1>5, <1>6, <1>7 DEF Next

LEMMA AbandonedForever == Next => (abandoned => abandoned')
BY DEF Next, startTrade, inviteTrade, inviteShopkeeper, declineTrade, setItems, setMeso,
       completeTrade, exitTrade, leaveMap, Elsewhere

LEMMA AgreedNext == Agreed /\ [Next]_vars => Agreed'
<1> SUFFICES ASSUME Agreed, [Next]_vars
             PROVE  Agreed'
  OBVIOUS
<1>1. Sound'
  BY SoundNext DEF Agreed
<1>2. CASE UNCHANGED vars
  BY <1>1, <1>2 DEF Agreed, Honest, Once, Offered, vars
<1>3. CASE Next
  <2>1. ASSUME ~abandoned'
        PROVE  Honest(trade, obj)' /\ Once'
    BY <1>3, <2>1, AbandonedForever, StepHonest DEF Agreed, Sound
  <2> QED BY <1>1, <2>1 DEF Agreed
<1> QED BY <1>2, <1>3

LEMMA AlwaysAgreed == Spec => []Agreed
BY AgreedInit, AgreedNext, PTL DEF Spec

-----------------------------------------------------------------------------
(* The theorems.                                                            *)

\* An invariant of Agreed is one of the specification; so is what every step
\* from such a state does.
LEMMA AgreedWhy ==
    Agreed /\ ~abandoned => TypeOK /\ Wed(trade, obj) /\ Honest(trade, obj) /\ Once
BY DEF Agreed, Sound

\* Two who trade point to each other's current trade, so whoever cancels,
\* declines, leaves or completes takes both out: the partner is never left with
\* a trade that nobody else is in.
THEOREM MutualHolds == Spec => []Mutual
<1>1. Agreed => Mutual
  <2> SUFFICES ASSUME Agreed, ~abandoned, NEW c \in Chars, trade[c] # None
               PROVE  LET p == obj[trade[c]].partner
                      IN  /\ obj[trade[c]].owner = c
                          /\ p # None => /\ obj[p].partner = trade[c]
                                         /\ obj[p].owner # c
                                         /\ trade[obj[p].owner] = p
    BY DEF Mutual
  <2>1. TypeOK /\ Wed(trade, obj) /\ Honest(trade, obj)
    BY AgreedWhy
  <2>2. obj[trade[c]].owner = c
    BY <2>1, InTrade
  <2>3. obj[trade[c]].partner # None =>
          Trading(c, trade[c], obj[trade[c]].partner, obj[obj[trade[c]].partner].owner)
    BY <2>1, HonestTrading
  <2> QED BY <2>2, <2>3 DEF Trading
<1> QED BY <1>1, AlwaysAgreed, PTL

LEMMA DistinctLength ==
    ASSUME NEW q \in Seq(Items), Distinct(q)
    PROVE  Cardinality(Elems(q)) = Len(q)
<1>1. q \in [1..Len(q) -> Elems(q)] /\ Len(q) \in Nat /\ DOMAIN q = 1..Len(q)
  BY LenProperties DEF Elems
<1>2. \A e \in Elems(q) : \E k \in 1..Len(q) : q[k] = e
  BY <1>1 DEF Elems
<1>3. \A j, k \in 1..Len(q) : q[j] = q[k] => j = k
  BY <1>1 DEF Distinct
<1>4. q \in Bijection(1..Len(q), Elems(q))
  BY <1>1, <1>2, <1>3 DEF Bijection, Injection, Surjection, IsInjective
<1>5. ExistsBijection(1..Len(q), Elems(q))
  BY <1>4 DEF ExistsBijection
<1> QED BY <1>1, <1>5, FS_CountingElements

\* An item is in one inventory or in one offer, and there once, however offers,
\* exchanges and cancellations follow each other: trading duplicates nothing.
THEOREM OneForEach == Spec => []OnePlace
<1>1. Agreed => OnePlace
  <2> SUFFICES ASSUME Agreed, ~abandoned, NEW c \in Chars, NEW d \in Chars
               PROVE  /\ inv[c] \cap Offered(d) = {}
                      /\ c # d => inv[c] \cap inv[d] = {} /\ Offered(c) \cap Offered(d) = {}
                      /\ trade[c] # None => Cardinality(Offered(c)) = Len(obj[trade[c]].items)
    BY DEF OnePlace
  <2>1. TypeOK /\ Once
    BY AgreedWhy
  <2>2. ASSUME trade[c] # None
        PROVE  Cardinality(Offered(c)) = Len(obj[trade[c]].items)
    <3>1. obj[trade[c]].items \in Seq(Items)
      BY <2>1, <2>2 DEF TypeOK, TradeObj
    <3>2. Distinct(obj[trade[c]].items)
      BY <2>1, <2>2 DEF Once
    <3> QED BY <2>2, <3>1, <3>2, DistinctLength DEF Offered
  <2> QED BY <2>1, <2>2 DEF Once
<1> QED BY <1>1, AlwaysAgreed, PTL

\* What a character saw of the partner's offer when he confirmed is still
\* offered: once confirmed, the other's offer only grows.
THEOREM ShownOfferStands == Spec => []OfferStands
<1>1. Agreed => OfferStands
  <2> SUFFICES ASSUME Agreed, ~abandoned, NEW c \in Chars, trade[c] # None, obj[trade[c]].locked
               PROVE  LET t == trade[c]
                          p == obj[t].partner
                      IN  /\ obj[t].seen.items \subseteq Elems(obj[p].items)
                          /\ obj[t].seen.meso <= obj[p].meso
    BY DEF OfferStands
  <2>1. TypeOK /\ Wed(trade, obj) /\ Honest(trade, obj)
    BY AgreedWhy
  <2>2. obj[trade[c]].partner # None
    BY <2>1, InTrade
  <2> QED BY <2>1, <2>2 DEF Honest
<1> QED BY <1>1, AlwaysAgreed, PTL

LEMMA BackIsGotBack ==
    ASSUME TypeOK, NEW c \in Chars, trade[c] # None, NEW r, Back(r, c), Becomes(r)
    PROVE  GotBack(c, trade[c])
<1> DEFINE a == obj[trade[c]]
<1>1. a \in TradeObj /\ fill \in [Chars -> 0..Slots]
  BY DEF TypeOK
<1>2. a.items \in Seq(Items) /\ a.meso \in 0..MaxMeso
  BY <1>1 DEF TradeObj
<1>3. /\ Now \in State /\ Now.inv = inv /\ Now.wallet = wallet
      /\ inv \in [Chars -> SUBSET Items] /\ wallet \in [Chars -> 0..MaxMeso]
  BY NowState DEF TypeOK
<1> HIDE DEF a
<1>4. GainMeso(Now, c, a.meso).wallet = Paid(Now, c, a.meso)
  BY <1>2, <1>3, GainMesoEffect
<1>5. AddFromDrop(Now, c, a.items).inv = Taken(Now, c, a.items)
  BY <1>1, <1>2, <1>3, AddFromDropEffect
<1>6. Paid(Now, c, a.meso)[c] = Credit(wallet[c], a.meso)
  BY <1>3 DEF Paid
<1>7. Taken(Now, c, a.items)[c] = inv[c] \cup Elems(Fits(Now, c, a.items))
  BY <1>3 DEF Taken
<1>8. /\ inv'[c] = inv[c] \cup Elems(Fits(Now, c, a.items))
      /\ wallet'[c] = Credit(wallet[c], a.meso)
  BY DEF Back, Becomes, a
<1> QED BY <1>4, <1>5, <1>6, <1>7, <1>8 DEF GotBack, a

LEMMA EndIsAllOrNothing ==
    ASSUME TypeOK, Wed(trade, obj), Honest(trade, obj), NEW e \in Chars, EndingStep(e),
           NEW c \in Chars, trade[c] # None, obj[trade[c]].partner # None, trade'[c] = None
    PROVE  LET t == trade[c]
               p == obj[t].partner
               o == obj[p].owner
           IN  (GotBack(c, t) /\ GotBack(o, p)) \/ (GotOther(c, p) /\ GotOther(o, t))
<1> DEFINE t == trade[c]
           p == obj[t].partner
           o == obj[p].owner
<1>1. PICK r : Ended(r, e) /\ Becomes(r)
  BY DEF EndingStep
<1>2. Trading(c, t, p, o)
  BY HonestTrading
<1>3. /\ c \in Chars /\ o \in Chars /\ o # c /\ trade[c] = t /\ trade[o] = p
      /\ obj[t].partner = p /\ obj[p].partner = t /\ obj[t].owner = c
      /\ t # None /\ p # None
  BY <1>2, TradeAssumption DEF Trading
<1>4. c \in Leaving(e)
  BY <1>1 DEF Ended, Unconcerned, Becomes
<1>5. e = c \/ e = o
  <2>1. CASE obj[trade[e]].partner = None
    BY <1>4, <2>1 DEF Leaving
  <2>2. CASE obj[trade[e]].partner # None
    <3> DEFINE x == obj[obj[trade[e]].partner].owner
    <3>1. Trading(e, trade[e], obj[trade[e]].partner, x)
      BY <2>2, HonestTrading DEF EndingStep
    <3>2. c = e \/ c = x
      BY <1>4, <2>2 DEF Leaving
    <3>3. ASSUME c = x
          PROVE  e = o
      BY <1>3, <3>1, <3>3 DEF Trading
    <3> QED BY <3>2, <3>3
  <2> QED BY <2>1, <2>2
<1>6. Leaving(e) = {c, o}
  <2>1. CASE e = c
    BY <1>3, <2>1 DEF Leaving
  <2>2. CASE e = o
    <3>1. obj[trade[o]].partner = t
      BY <1>3
    <3> QED BY <1>3, <2>2, <3>1 DEF Leaving
  <2> QED BY <1>5, <2>1, <2>2
<1>7. CASE Back(r, c) /\ Back(r, o)
  BY <1>1, <1>3, <1>7, BackIsGotBack
<1>8. CASE Receives(r, c, o) /\ Receives(r, o, c)
  <2>1. inv' = r.inv /\ wallet' = r.wallet
    BY <1>1 DEF Becomes
  <2>2. GotOther(c, p) /\ GotOther(o, t)
    BY <1>3, <1>8, <2>1 DEF Receives, GotOther
  <2> QED BY <2>2
<1>9. \/ Back(r, c) /\ Back(r, o)
      \/ Receives(r, c, o) /\ Receives(r, o, c)
  <2>1. \/ \A d \in {c, o} : Back(r, d)
        \/ Receives(r, e, obj[obj[trade[e]].partner].owner)
           /\ Receives(r, obj[obj[trade[e]].partner].owner, e)
    BY <1>1, <1>6 DEF Ended
  <2>2. e = c => obj[obj[trade[e]].partner].owner = o OBVIOUS
  <2>3. e = o => obj[obj[trade[e]].partner].owner = c
    BY <1>3
  <2> QED BY <1>5, <2>1, <2>2, <2>3
<1> QED BY <1>7, <1>8, <1>9

\* When a trade between two ends, by whichever handler, either both get
\* everything the other offered, mesos less the tax, or both get back theirs.
THEOREM TradeIsAllOrNothing == Spec => AllOrNothing
<1> DEFINE A == \A c \in Chars :
                    LET t == trade[c]
                        p == obj[t].partner
                        o == obj[p].owner
                    IN  t # None /\ p # None /\ trade'[c] = None /\ ~abandoned' =>
                            \/ GotBack(c, t) /\ GotBack(o, p)
                            \/ GotOther(c, p) /\ GotOther(o, t)
<1>1. Agreed /\ [Next]_vars => [A]_vars
  <2> SUFFICES ASSUME Agreed, Next, NEW c \in Chars, trade[c] # None,
                      obj[trade[c]].partner # None, trade'[c] = None, ~abandoned'
               PROVE  LET t == trade[c]
                          p == obj[t].partner
                          o == obj[p].owner
                      IN  (GotBack(c, t) /\ GotBack(o, p)) \/ (GotOther(c, p) /\ GotOther(o, t))
    OBVIOUS
  <2>1. TypeOK /\ Wed(trade, obj) /\ Honest(trade, obj) /\ Once
    BY AbandonedForever, AgreedWhy
  <2>2. PICK e \in Chars : EndingStep(e)
    BY <2>1, StepHonest DEF Effect
  <2> QED BY <2>1, <2>2, EndIsAllOrNothing
<1>2. Spec => [][A]_vars
  BY <1>1, AlwaysAgreed, PTL DEF Spec
<1> QED BY <1>2 DEF AllOrNothing

LEMMA EndLosesWithoutRoom ==
    ASSUME TypeOK, Wed(trade, obj), Honest(trade, obj), NEW e \in Chars, EndingStep(e),
           NEW i \in Placed, i \notin Placed'
    PROVE  \E c \in Chars : /\ trade[c] # None /\ i \in Offered(c)
                            /\ FreeSlots(Now, c) < Len(obj[trade[c]].items)
<1>1. PICK r : Ended(r, e) /\ Becomes(r)
  BY DEF EndingStep
<1>2. r \in State /\ inv' = r.inv /\ trade' = r.trade /\ trade[e] # None
  BY <1>1 DEF Ended, Becomes, EndingStep
<1>3. \A d \in Chars : i \notin inv'[d] /\ i \notin Offered(d)'
  BY DEF Placed
<1>4. ASSUME NEW d \in Chars
      PROVE  inv[d] \subseteq inv'[d]
  <2>1. \A x : Unconcerned(r, d) \/ Back(r, d) \/ Receives(r, d, x) => inv[d] \subseteq r.inv[d]
    BY DEF Unconcerned, Back, Receives
  <2>2. /\ d \notin Leaving(e) => Unconcerned(r, d)
        /\ d \in Leaving(e) => \/ Back(r, d)
                              \/ \E x : Receives(r, d, x)
    BY <1>1, <1>2 DEF Ended, Leaving
  <2> QED BY <1>2, <2>1, <2>2
<1>5. PICK c \in Chars : i \in Offered(c)
  BY <1>3, <1>4 DEF Placed
<1>6. trade[c] # None /\ i \in Elems(obj[trade[c]].items)
  BY <1>5 DEF Offered
<1>7. c \in Leaving(e)
  <2>1. SUFFICES ASSUME c \notin Leaving(e)
                 PROVE  FALSE
    OBVIOUS
  <2>2. r.trade[c] = trade[c] /\ r.obj[trade[c]] = obj[trade[c]]
    BY <1>1, <1>6, <2>1 DEF Ended, Unconcerned
  <2>3. obj'[trade[c]] = obj[trade[c]]
    <3>1. r.trade[c] # None => obj'[r.trade[c]] = r.obj[r.trade[c]]
      BY <1>1, <1>2, Collected
    <3> QED BY <1>6, <2>2, <3>1
  <2> QED BY <1>2, <1>3, <1>6, <2>2, <2>3 DEF Offered
<1>8. CASE \A d \in Leaving(e) : Back(r, d)
  <2>1. r.inv[c] = inv[c] \cup Elems(Fits(Now, c, obj[trade[c]].items))
    BY <1>7, <1>8 DEF Back
  <2>2. obj[trade[c]].items \in Seq(Items) /\ fill \in [Chars -> 0..Slots]
    BY <1>6 DEF TypeOK, TradeObj
  <2>3. /\ FreeSlots(Now, c) \in Int /\ Len(obj[trade[c]].items) \in Int
        /\ Len(obj[trade[c]].items) <= FreeSlots(Now, c) =>
              Fits(Now, c, obj[trade[c]].items) = obj[trade[c]].items
    BY <2>2, NowState, FreeSlotsInt, FitsElems, LenProperties
  <2>4. ~(Len(obj[trade[c]].items) <= FreeSlots(Now, c))
    BY <1>2, <1>3, <1>6, <2>1, <2>3
  <2> QED BY <1>5, <1>6, <2>3, <2>4
<1>9. CASE /\ obj[trade[e]].partner # None
           /\ LET o == obj[obj[trade[e]].partner].owner
              IN  Receives(r, e, o) /\ Receives(r, o, e)
  <2> DEFINE o == obj[obj[trade[e]].partner].owner
  <2>1. (c = e \/ c = o) /\ o \in Chars
    BY <1>2, <1>7, <1>9, InTrade DEF Leaving
  <2>2. /\ r.inv[e] = inv[e] \cup Elems(obj[trade[o]].items)
        /\ r.inv[o] = inv[o] \cup Elems(obj[trade[e]].items)
    BY <1>9 DEF Receives
  <2> HIDE DEF o
  <2> QED BY <1>2, <1>3, <1>6, <2>1, <2>2
<1> QED BY <1>1, <1>8, <1>9 DEF Ended

\* An item disappears only when it is put into a trade that has no partner yet,
\* or when a trade is given up and its owner's inventory has filled up meanwhile.
THEOREM OnlyLosses == Spec => LostOnlyWithoutRoom
<1> DEFINE A == ~abandoned' => \A i \in Placed : i \notin Placed' =>
                  \E c \in Chars :
                      /\ trade[c] # None
                      /\ \/ i \in inv[c] /\ obj[trade[c]].partner = None
                         \/ i \in Offered(c) /\ FreeSlots(Now, c) < Len(obj[trade[c]].items)
<1>1. Agreed /\ [Next]_vars => [A]_vars
  <2> SUFFICES ASSUME Agreed, Next, ~abandoned', NEW i \in Placed, i \notin Placed'
               PROVE  \E c \in Chars :
                        /\ trade[c] # None
                        /\ \/ i \in inv[c] /\ obj[trade[c]].partner = None
                           \/ i \in Offered(c) /\ FreeSlots(Now, c) < Len(obj[trade[c]].items)
    OBVIOUS
  <2>1. TypeOK /\ Wed(trade, obj) /\ Honest(trade, obj) /\ Once
    BY AbandonedForever, AgreedWhy
  <2>2. Effect
    BY <2>1, StepHonest
  <2>3. ASSUME NEW e \in Chars, EndingStep(e)
        PROVE  \E c \in Chars : /\ trade[c] # None /\ i \in Offered(c)
                                /\ FreeSlots(Now, c) < Len(obj[trade[c]].items)
    BY <2>1, <2>3, EndLosesWithoutRoom
  <2> QED BY <2>2, <2>3 DEF Effect, Wasted
<1>2. Spec => [][A]_vars
  BY <1>1, AlwaysAgreed, PTL DEF Spec
<1> QED BY <1>2 DEF LostOnlyWithoutRoom
=============================================================================
