------------------------------- MODULE Trade --------------------------------
(***************************************************************************)
(* Trades between two characters: MapleTrade, the trade cases of           *)
(* PlayerInteractionHandler and the cancellation on a change of map.       *)
(*                                                                         *)
(* A MapleTrade object belongs to one character and points to the trade    *)
(* object of the partner; a character points to the trade it is in.  The   *)
(* offered items and mesos have left the character's inventory and wallet. *)
(* exchangeItems is the partner's own list, shared, while exchangeMeso is a *)
(* copy.  A handler runs to its end or to the exception it throws, after   *)
(* which its earlier effects stay; handlers are atomic, as they are when   *)
(* one event loop serves both traders' connections.                        *)
(***************************************************************************)
EXTENDS Integers, Sequences, FiniteSets

CONSTANTS
    Chars,        \* characters on one map
    Items,        \* items, of one inventory type, that do not stack
    Trades,       \* identities of trade objects
    MaxMeso,      \* Integer.MAX_VALUE
    Amounts,      \* amounts of mesos that are offered
    Tax,          \* GameConstants.getTaxAmount
    Slots,        \* slots of an inventory
    OfferSlots,   \* 9
    Shopkeepers,  \* characters who may have a shop open when they are invited
    None          \* null

ASSUME TradeAssumption ==
    /\ MaxMeso \in Nat /\ Slots \in Nat /\ OfferSlots \in Nat
    /\ IsFiniteSet(Items)
    /\ Amounts \subseteq 1..MaxMeso
    /\ Tax \in [0..MaxMeso -> 0..MaxMeso]
    /\ \A m \in 0..MaxMeso : Tax[m] <= m
    /\ Shopkeepers \subseteq Chars
    /\ None \notin Chars \cup Items \cup Trades

VARIABLES
    inv,       \* the items each character holds
    fill,      \* slots each character's other belongings occupy
    wallet,    \* mesos
    trade,     \* MapleCharacter.trade
    obj,       \* the trade objects
    abandoned  \* somebody gave up a trade without telling the partner's

vars == <<inv, fill, wallet, trade, obj, abandoned>>

TradeObj == [owner: Chars \cup {None}, partner: Trades \cup {None},
             items: Seq(Items), meso: 0..MaxMeso, locked: BOOLEAN,
             exFrom: Trades \cup {None},  \* whose items exchangeItems is
             exMeso: 0..MaxMeso,
             seen: [items: SUBSET Items, meso: 0..MaxMeso]]

NewTrade(c) ==
    [owner |-> c, partner |-> None, items |-> <<>>, meso |-> 0, locked |-> FALSE,
     exFrom |-> None, exMeso |-> 0, seen |-> [items |-> {}, meso |-> 0]]

Elems(q) == {q[n] : n \in DOMAIN q}

TypeOK ==
    /\ inv \in [Chars -> SUBSET Items]
    /\ fill \in [Chars -> 0..Slots]
    /\ wallet \in [Chars -> 0..MaxMeso]
    /\ trade \in [Chars -> Trades \cup {None}]
    /\ obj \in [Trades -> TradeObj]
    /\ \A t \in Trades : Len(obj[t].items) <= OfferSlots
    /\ abandoned \in BOOLEAN

\* The trade objects that characters and their trades refer to, and the rest.
Reached(tr, ob) ==
    LET live == {tr[c] : c \in Chars} \ {None}
    IN  live \cup {ob[t].partner : t \in live}
Unused == Trades \ Reached(trade, obj)

\* What a handler computes: the state it leaves, and whether it has thrown.
\* Objects that nothing refers to any more are collected.
Now == [inv |-> inv, wallet |-> wallet, trade |-> trade, obj |-> obj, thrown |-> FALSE]

Becomes(s) ==
    /\ inv' = s.inv
    /\ wallet' = s.wallet
    /\ trade' = s.trade
    /\ obj' = [t \in Trades |-> IF t \in Reached(s.trade, s.obj) THEN s.obj[t]
                                ELSE NewTrade(None)]

Throw(s) == [s EXCEPT !.thrown = TRUE]

\* setTrade(null)
Leave(s, c) == [s EXCEPT !.trade[c] = None]

-----------------------------------------------------------------------------
(* Inventory and wallet, as the trade uses them.                            *)

FreeSlots(s, c) == Slots - fill[c] - Cardinality(s.inv[c])

Fits(s, c, q) == IF Len(q) <= FreeSlots(s, c) THEN q ELSE SubSeq(q, 1, FreeSlots(s, c))

\* addFromDrop of each item of the list; its result is not looked at.
AddFromDrop(s, c, q) == [s EXCEPT !.inv[c] = @ \cup Elems(Fits(s, c, q))]

\* A gain that would exceed Integer.MAX_VALUE does nothing.
GainMeso(s, c, m) ==
    [s EXCEPT !.wallet[c] = IF @ + m <= MaxMeso THEN @ + m ELSE @]

-----------------------------------------------------------------------------
(* MapleTrade                                                               *)

\* Mutant of BothLocked: one confirmation is enough to keep the offer.
OneLocked(s, t) == s.obj[t].locked

BothLocked(s, t) ==
    s.obj[t].locked /\ s.obj[t].partner # None /\ s.obj[s.obj[t].partner].locked

\* t.cancel(client of c, _, check): the trade that decides whether there is
\* anything to give back is the one c is in now.
Cancel(s, t, c, check) ==
    LET dropped == BothLocked(s, s.trade[c]) /\ ~check
        given == IF dropped THEN s
                 ELSE GainMeso(AddFromDrop(s, c, s.obj[t].items), c, s.obj[t].meso)
    IN  IF s.trade[c] = None THEN Throw(s)
        ELSE [given EXCEPT !.obj[t].items = <<>>, !.obj[t].meso = 0]

\* Mutant of CancelTrade: the partner stays in the trade.
CancelTradeAlone(s, t, c) ==
    LET s1 == Cancel(s, t, c, FALSE)
    IN  IF s1.thrown THEN s1 ELSE Leave(s1, c)

CancelTrade(s, t, c) ==
    LET p == s.obj[t].partner
        s1 == Cancel(s, t, c, FALSE)
        s2 == Cancel(s1, p, s.obj[p].owner, FALSE)
    IN  IF s1.thrown THEN s1
        ELSE IF p = None THEN Leave(s1, c)
        ELSE IF s2.thrown THEN s2
        ELSE Leave(Leave(s2, s.obj[p].owner), c)

\* Mutant of Room: the last slot is counted twice.
RoomForOneMore(s, t) ==
    LET c == s.obj[t].owner
    IN  /\ s.wallet[c] + s.obj[t].exMeso <= MaxMeso
        /\ Len(s.obj[s.obj[t].exFrom].items) <= FreeSlots(s, c) + 1

\* check(): room for the other's mesos and items.
Room(s, t) ==
    LET c == s.obj[t].owner
    IN  /\ s.wallet[c] + s.obj[t].exMeso <= MaxMeso
        /\ Len(s.obj[s.obj[t].exFrom].items) <= FreeSlots(s, c)

\* CompleteTrade(): the log lines between giving the items and clearing the
\* list need the partner of the trade the owner is in now.
Complete(s, t) ==
    LET c == s.obj[t].owner
        from == s.obj[t].exFrom
        s1 == AddFromDrop(s, c, s.obj[from].items)
        s2 == GainMeso(s1, c, s.obj[t].exMeso - Tax[s.obj[t].exMeso])
    IN  IF s.trade[c] = None THEN Throw(s)
        ELSE IF s.obj[s.trade[c]].partner = None THEN Throw(s1)
        ELSE [s2 EXCEPT !.obj[from].items = <<>>, !.obj[t].exMeso = 0]

\* Mutant of SetItems: the item is offered and kept.
SetItemsKept(s, c, i) ==
    [s EXCEPT !.obj[s.trade[c]].items =
        IF s.obj[s.trade[c]].partner = None THEN @ ELSE Append(@, i)]

\* setItems has taken the item from the inventory when addItem finds that
\* there is no partner to show it to.
SetItems(s, c, i) ==
    LET t == s.trade[c]
    IN  [s EXCEPT !.inv[c] = @ \ {i},
                  !.obj[t].items = IF s.obj[t].partner = None THEN @ ELSE Append(@, i)]

\* completeTrade(c) up to the exchange.
Confirmed(s, c) ==
    LET t == s.trade[c]
        p == s.obj[t].partner
    IN  [s EXCEPT !.obj[t].locked = TRUE,
                  !.obj[t].seen = [items |-> Elems(s.obj[p].items), meso |-> s.obj[p].meso],
                  !.obj[p].exFrom = t,
                  !.obj[p].exMeso = s.obj[t].meso]

\* Both have confirmed: exchange or, without room, give everything back.  The
\* check also refuses items the receiver may own only once ("one of a kind").
Exchange(s, c, oneOfAKind) ==
    LET t == s.trade[c]
        p == s.obj[t].partner
        o == s.obj[p].owner
        s1 == IF Room(s, t) /\ Room(s, p) /\ ~oneOfAKind
                THEN Complete(s, t)
                ELSE Cancel(s, p, o, TRUE)
        s2 == IF Room(s, t) /\ Room(s, p) /\ ~oneOfAKind
                THEN Complete(s1, p)
                ELSE Cancel(s1, t, c, TRUE)
    IN  IF s1.thrown THEN s1
        ELSE IF s2.thrown THEN s2
        ELSE Leave(Leave(s2, o), c)

-----------------------------------------------------------------------------
(* The handlers.                                                            *)

Init ==
    /\ inv \in [Chars -> SUBSET Items]
    /\ \A c, d \in Chars : c # d => inv[c] \cap inv[d] = {}
    /\ \A c \in Chars : Cardinality(inv[c]) <= Slots
    /\ fill = [c \in Chars |-> 0]
    /\ wallet \in [Chars -> 0..MaxMeso]
    /\ trade = [c \in Chars |-> None]
    /\ obj = [t \in Trades |-> NewTrade(None)]
    /\ abandoned = FALSE

startTrade(c) ==
    /\ trade[c] = None
    /\ \E t \in Unused :
        /\ trade' = [trade EXCEPT ![c] = t]
        /\ obj' = [obj EXCEPT ![t] = NewTrade(c)]
    /\ UNCHANGED <<inv, fill, wallet, abandoned>>

inviteTrade(c, d) ==
    /\ c # d
    /\ trade[c] # None
    /\ obj[trade[c]].partner = None
    /\ trade[d] = None
    /\ \E t \in Unused :
        /\ trade' = [trade EXCEPT ![d] = t]
        /\ obj' = [obj EXCEPT ![t] = [NewTrade(d) EXCEPT !.partner = trade[c]],
                              ![trade[c]].partner = t]
    /\ UNCHANGED <<inv, fill, wallet, abandoned>>

\* The invited character has a shop open: the inviter's trade is given up,
\* whatever partner it has.
inviteShopkeeper(c, d) ==
    /\ d \in Shopkeepers
    /\ trade[c] # None
    /\ abandoned' = (abandoned \/ obj[trade[c]].partner # None)
    /\ Becomes(Leave(Cancel(Now, trade[c], c, FALSE), c))
    /\ UNCHANGED fill

declineTrade(c) ==
    LET t == trade[c]
        p == obj[t].partner
        o == obj[p].owner
        s1 == Cancel(Now, trade[o], o, FALSE)
        s2 == Leave(s1, o)
        s3 == IF p = None THEN Now ELSE s2
    IN  /\ trade[c] # None
        /\ IF p # None /\ trade[o] = None
             THEN UNCHANGED <<inv, wallet, trade, obj>>
             ELSE Becomes(Leave(Cancel(s3, t, c, FALSE), c))
        /\ UNCHANGED <<fill, abandoned>>

\* Mutant of setItems: the number of offers is not bounded.
setItemsUnbounded(c, i) ==
    /\ trade[c] # None
    /\ i \in inv[c]
    /\ ~obj[trade[c]].locked
    /\ Becomes(SetItems(Now, c, i))
    /\ UNCHANGED <<fill, abandoned>>

\* Cases 14 and 15 of PlayerInteraction.
setItems(c, i) ==
    /\ trade[c] # None
    /\ i \in inv[c]
    /\ Len(obj[trade[c]].items) < OfferSlots
    /\ ~obj[trade[c]].locked
    /\ Becomes(SetItems(Now, c, i))
    /\ UNCHANGED <<fill, abandoned>>

\* Mutant of setMeso: the amount replaces the earlier one, locked or not.
setMesoAgain(c, m) ==
    LET t == trade[c]
    IN  /\ t # None
        /\ obj[t].partner # None
        /\ wallet[c] + obj[t].meso \in m..MaxMeso
        /\ wallet' = [wallet EXCEPT ![c] = @ + obj[t].meso - m]
        /\ obj' = [obj EXCEPT ![t].meso = m]
        /\ UNCHANGED <<inv, fill, trade, abandoned>>

setMeso(c, m) ==
    LET t == trade[c]
    IN  /\ t # None
        /\ ~obj[t].locked
        /\ obj[t].partner # None
        /\ obj[t].meso + m <= MaxMeso
        /\ wallet[c] >= m
        /\ wallet' = [wallet EXCEPT ![c] = @ - m]
        /\ obj' = [obj EXCEPT ![t].meso = @ + m]
        /\ UNCHANGED <<inv, fill, trade, abandoned>>

completeTrade(c) ==
    LET t == trade[c]
        p == obj[t].partner
    IN  /\ t # None
        /\ p # None
        /\ ~obj[t].locked
        /\ IF obj[p].locked
             THEN \E oneOfAKind \in BOOLEAN :
                    /\ oneOfAKind => obj[t].items # <<>> \/ obj[p].items # <<>>
                    /\ Becomes(Exchange(Confirmed(Now, c), c, oneOfAKind))
             ELSE Becomes(Confirmed(Now, c))
        /\ UNCHANGED <<fill, abandoned>>

\* Case 10: the second cancelTrade finds no trade and throws, or is the only one.
exitTrade(c) ==
    /\ trade[c] # None
    /\ Becomes(CancelTrade(Now, trade[c], c))
    /\ UNCHANGED <<fill, abandoned>>

\* changeMap, leaveMap and changeRemoval.
leaveMap(c) ==
    /\ trade[c] # None
    /\ ~BothLocked(Now, trade[c])
    /\ Becomes(CancelTrade(Now, trade[c], c))
    /\ UNCHANGED <<fill, abandoned>>

\* Anything else that brings or takes belongings and mesos.
Elsewhere(c) ==
    \/ /\ \E n \in 0..Slots : n + Cardinality(inv[c]) <= Slots /\ fill' = [fill EXCEPT ![c] = n]
       /\ UNCHANGED <<inv, wallet, trade, obj, abandoned>>
    \/ /\ \E m \in 0..MaxMeso : wallet' = [wallet EXCEPT ![c] = m]
       /\ UNCHANGED <<inv, fill, trade, obj, abandoned>>

Next ==
    \E c \in Chars :
        \/ startTrade(c) \/ declineTrade(c) \/ completeTrade(c)
        \/ exitTrade(c) \/ leaveMap(c) \/ Elsewhere(c)
        \/ \E d \in Chars : inviteTrade(c, d) \/ inviteShopkeeper(c, d)
        \/ \E i \in Items : setItems(c, i)
        \/ \E m \in Amounts : setMeso(c, m)

Spec == Init /\ [][Next]_vars

-----------------------------------------------------------------------------
(* Properties.  Once somebody has invited a shopkeeper while having a        *)
(* partner, that partner is left with a dead trade and the handlers promise  *)
(* nothing about it; the properties speak of what happens until then.        *)

Offered(c) == IF trade[c] = None THEN {} ELSE Elems(obj[trade[c]].items)

\* Two characters who trade point to each other's current trade: whoever
\* cancels, declines, leaves or completes takes both out (MapleTrade.partner).
Mutual ==
    ~abandoned => \A c \in Chars :
        LET p == obj[trade[c]].partner
        IN  trade[c] # None =>
                /\ obj[trade[c]].owner = c
                /\ p # None => /\ obj[p].partner = trade[c]
                               /\ obj[p].owner # c
                               /\ trade[obj[p].owner] = p

\* An item is in one inventory or in one offer, and there once, however
\* offers, exchanges and cancellations follow each other.
OnePlace ==
    ~abandoned => \A c, d \in Chars :
        /\ inv[c] \cap Offered(d) = {}
        /\ c # d => inv[c] \cap inv[d] = {} /\ Offered(c) \cap Offered(d) = {}
        /\ trade[c] # None => Cardinality(Offered(c)) = Len(obj[trade[c]].items)

\* What a character saw of the partner's offer when he confirmed is still
\* offered as long as the trade lasts: the other may add to it, never take away.
OfferStands ==
    ~abandoned => \A c \in Chars :
        LET t == trade[c]
            p == obj[t].partner
        IN  t # None /\ obj[t].locked =>
                /\ obj[t].seen.items \subseteq Elems(obj[p].items)
                /\ obj[t].seen.meso <= obj[p].meso

GotBack(c, t) ==
    /\ wallet'[c] = GainMeso(Now, c, obj[t].meso).wallet[c]
    /\ inv'[c] = AddFromDrop(Now, c, obj[t].items).inv[c]

GotOther(c, p) ==
    /\ wallet'[c] = wallet[c] + obj[p].meso - Tax[obj[p].meso]
    /\ inv'[c] = inv[c] \cup Elems(obj[p].items)

\* When a trade between two ends, either both get everything the other
\* offered, mesos less the tax, or both get back what they offered.
AllOrNothing ==
    [][\A c \in Chars :
          LET t == trade[c]
              p == obj[t].partner
              o == obj[p].owner
          IN  t # None /\ p # None /\ trade'[c] = None /\ ~abandoned' =>
                  \/ GotBack(c, t) /\ GotBack(o, p)
                  \/ GotOther(c, p) /\ GotOther(o, t)]_vars

Placed == UNION {inv[c] \cup Offered(c) : c \in Chars}

\* An item disappears only when it is put into a trade that has no partner
\* yet, or when the trade is given up and its owner's inventory has filled up
\* meanwhile (addFromDrop's result is not looked at).
LostOnlyWithoutRoom ==
    [][~abandoned' => \A i \in Placed : i \notin Placed' =>
          \E c \in Chars :
              /\ trade[c] # None
              /\ \/ i \in inv[c] /\ obj[trade[c]].partner = None
                 \/ i \in Offered(c) /\ FreeSlots(Now, c) < Len(obj[trade[c]].items)]_vars
=============================================================================
