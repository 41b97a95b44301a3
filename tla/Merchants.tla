------------------------------- MODULE Merchants -------------------------------
(* Hired merchants: a stall that goes on selling while its owner is away      *)
(* (server.shops.HiredMerchant and AbstractPlayerStore, the packets of        *)
(* PlayerInteractionHandler and HiredMerchantHandler).  Its owner's loop, the *)
(* loops of its visitors, the alarm that closes it after three days and the   *)
(* console's "close every merchant" all work on one object that has no lock:  *)
(* a handler is split at each of its reads and writes of that object.         *)
(* A unit of goods sells for one meso; below 100000 mesos there is no tax.    *)
EXTENDS Integers, Sequences, FiniteSets, SequencesExt

CONSTANTS
  Owners,       \* accounts that may hire a merchant
  Buyers,       \* characters that only visit
  Console,      \* the console's thread
  None,
  Stock,        \* units each owner has at first
  Coins,        \* mesos each buyer has at first
  Overlap,      \* whether two threads may be busy with one merchant at once
  MaxShops,     \* bound: merchants ever hired
  MaxListings   \* bound: goods ever put up for sale

ASSUME BoundsAssumption == {Stock, Coins, MaxShops, MaxListings} \subseteq Nat /\ Overlap \in BOOLEAN
\* Who is who: a thread is the loop of one player, an alarm, or the console's.
ASSUME ThreadsAssumption ==
  /\ Owners \cap Buyers = {} /\ (Owners \cup Buyers) \cap (1 .. MaxShops) = {}
  /\ Console \notin Owners \cup Buyers \cup (1 .. MaxShops)
  /\ None \notin Nat
\* Goods and mesos are counted over finitely many players.
ASSUME AccountsAssumption ==
  IsFiniteSet(Owners) /\ IsFiniteSet(Buyers) /\ None \notin [goods : Int, meso : Int]

VARIABLES
  shop,      \* the merchants hired so far
  left,      \* bundles left of every good ever put up
  index,     \* ChannelServer.merchants: store id -> merchant
  nextId,    \* ChannelServer.running_MerchantID
  at,        \* MapleCharacter.playerShop
  ticket,    \* owners whose client shows the box that asks for a title
  bag, purse,
  package,   \* the row of hiredmerch and its items, per account
  pc,        \* what each thread is in the middle of
  overlapped,\* history: two threads have been busy with one merchant at once
  lapses     \* history: what has happened that loses goods

vars == <<shop, left, index, nextId, at, ticket, bag, purse, package, pc, overlapped, lapses>>

Players == Owners \cup Buyers
Shops == 1 .. MaxShops
Alarms == Shops              \* the thread that runs the alarm of a merchant
Threads == Players \cup Alarms \cup {Console}
Hired == DOMAIN shop

Idle == [op |-> "idle", s |-> 0, l |-> 0, n |-> 0, v |-> 0]
In(op, s, l, n, v) == [op |-> op, s |-> s, l |-> l, n |-> n, v |-> v]
Free(t) == pc[t] = Idle
Go(t, p) == pc' = [pc EXCEPT ![t] = p]
Done(t) == Go(t, Idle)

\* An operation of t on merchant s begins: does it overlap another's?
Begins(t, s) ==
  LET together == \E u \in Threads \ {t} :
                    pc[u].s = s \/ (pc[u].op = "ask" /\ u = shop[s].owner)
  IN  (together => Overlap) /\ overlapped' = (overlapped \/ together)

Sum(f, S) == FoldSet(LAMBDA x, acc : f[x] + acc, 0, S)
Holding(s) == Sum(left, {l \in ToSet(shop[s].items) : left[l] > 0})
Owns(o) == at[o] # None /\ shop[at[o]].owner = o
HasMerchant(o) == \E i \in DOMAIN index : shop[index[i]].owner = o
Unlocked == pc[Console].op = "idle"     \* nobody holds merchLock for writing

Init ==
  /\ shop = <<>> /\ left = <<>> /\ index = <<>> /\ nextId = 0
  /\ at = [p \in Players |-> None]
  /\ ticket = {}
  /\ bag = [p \in Players |-> IF p \in Owners THEN Stock ELSE 0]
  /\ purse = [p \in Players |-> IF p \in Buyers THEN Coins ELSE 0]
  /\ package = [o \in Owners |-> None]
  /\ pc = [t \in Threads |-> Idle]
  /\ overlapped = FALSE
  /\ lapses = {}

Goods == <<shop, left, bag>>
Register == <<index, nextId>>
Rest == <<ticket, package, lapses>>
-------------------------------------------------------------------------------
(* Hiring: UseHiredMerchant looks for an unclaimed package, then for a        *)
(* merchant that still stands, and only then lets the client ask for a title. *)

AskPackage(o) ==
  /\ Free(o) /\ at[o] = None
  /\ package[o] = None
  /\ Go(o, In("ask", 0, 0, 0, 0))
  /\ LET closing == \E u \in Threads : pc[u].s # 0 /\ shop[pc[u].s].owner = o
     IN  (closing => Overlap) /\ overlapped' = (overlapped \/ closing)
  /\ UNCHANGED <<Goods, Register, Rest, at, purse>>

\* Mutant of AskMerchant: whether a merchant still stands is not asked.
AskNobody(o) ==
  /\ pc[o].op = "ask" /\ Unlocked
  /\ ticket' = ticket \cup {o}
  /\ Done(o)
  /\ UNCHANGED <<Goods, Register, at, purse, package, overlapped, lapses>>

AskMerchant(o) ==
  /\ pc[o].op = "ask" /\ Unlocked
  /\ ticket' = IF HasMerchant(o) THEN ticket ELSE ticket \cup {o}
  /\ Done(o)
  /\ UNCHANGED <<Goods, Register, at, purse, package, overlapped, lapses>>

\* Mutant of Create: no alarm is scheduled.
CreateSilent(o) ==
  /\ Free(o) /\ at[o] = None /\ o \in ticket /\ Len(shop) < MaxShops
  /\ shop' = Append(shop,
       [owner |-> o, items |-> <<>>, meso |-> 0, open |-> FALSE, avail |-> FALSE,
        can |-> TRUE, onMap |-> TRUE, alarm |-> "off", storeid |-> 0, visitors |-> {}])
  /\ at' = [at EXCEPT ![o] = Len(shop')]
  /\ ticket' = ticket \ {o}
  /\ UNCHANGED <<left, bag, Register, purse, package, pc, overlapped, lapses>>

Create(o) ==
  /\ Free(o) /\ at[o] = None /\ o \in ticket /\ Len(shop) < MaxShops
  /\ shop' = Append(shop,
       [owner |-> o, items |-> <<>>, meso |-> 0, open |-> FALSE, avail |-> FALSE,
        can |-> TRUE, onMap |-> TRUE, alarm |-> "set", storeid |-> 0, visitors |-> {}])
  /\ at' = [at EXCEPT ![o] = Len(shop')]
  /\ ticket' = ticket \ {o}
  /\ UNCHANGED <<left, bag, Register, purse, package, pc, overlapped, lapses>>

\* Mutant of Open: running_MerchantID is never incremented.
OpenSameId(o) ==
  /\ Free(o) /\ Owns(o) /\ ~shop[at[o]].avail /\ Unlocked
  /\ shop' = [shop EXCEPT ![at[o]] = [@ EXCEPT !.storeid = nextId, !.open = TRUE,
                                              !.avail = TRUE, !.can = TRUE]]
  /\ index' = [i \in DOMAIN index \cup {nextId} |->
                 IF i = nextId THEN at[o] ELSE index[i]]
  /\ nextId' = nextId
  /\ at' = [at EXCEPT ![o] = None]
  /\ UNCHANGED <<left, bag, purse, Rest, pc, overlapped>>

Open(o) ==
  /\ Free(o) /\ Owns(o) /\ ~shop[at[o]].avail /\ Unlocked
  /\ shop' = [shop EXCEPT ![at[o]] = [@ EXCEPT !.storeid = nextId, !.open = TRUE,
                                              !.avail = TRUE, !.can = TRUE]]
  /\ index' = [i \in DOMAIN index \cup {nextId} |->
                 IF i = nextId THEN at[o] ELSE index[i]]
  /\ nextId' = nextId + 1
  /\ at' = [at EXCEPT ![o] = None]
  /\ UNCHANGED <<left, bag, purse, Rest, pc, overlapped>>

-------------------------------------------------------------------------------
(* What the owner does inside: put goods up, take them back, empty the till.  *)

Evict(s, sh) == [sh EXCEPT ![s].visitors = {}]
EvictedFrom(s) == [p \in Players |-> IF p \in shop[s].visitors THEN None ELSE at[p]]

Enter(o, s) ==
  /\ Free(o) /\ at[o] = None
  /\ shop[s].owner = o /\ shop[s].onMap
  /\ shop' = Evict(s, [shop EXCEPT ![s].open = FALSE])
  /\ at' = [EvictedFrom(s) EXCEPT ![o] = s]
  /\ Begins(o, s)
  /\ UNCHANGED <<left, bag, Register, purse, Rest, pc>>

Doing(op, s) == {t \in Threads : pc[t].op = op /\ pc[t].s = s}
Stored(s) == Doing("saved", s) \cup Doing("cleared", s) # {}

Put(o, n) ==
  /\ Free(o) /\ Owns(o) /\ bag[o] >= n /\ Len(left) < MaxListings
  /\ left' = Append(left, n)
  /\ shop' = [shop EXCEPT ![at[o]].items = Append(@, Len(left'))]
  /\ bag' = [bag EXCEPT ![o] = @ - n]
  /\ Begins(o, at[o])
  /\ lapses' = IF shop[at[o]].can /\ ~Stored(at[o]) THEN lapses
               ELSE lapses \cup {"put into a closed merchant"}
  /\ UNCHANGED <<Register, at, purse, ticket, package, pc>>

TakeBack(o, i) ==
  LET s == at[o] IN
  /\ Free(o) /\ Owns(o) /\ shop[s].can /\ i \in DOMAIN shop[s].items
  /\ left[shop[s].items[i]] > 0
  /\ bag' = [bag EXCEPT ![o] = @ + left[shop[s].items[i]]]
  /\ Begins(o, s)
  /\ Go(o, In("takeback", s, shop[s].items[i], i, 0))
  /\ UNCHANGED <<shop, left, Register, at, purse, Rest>>

TakenBack(o) ==
  LET p == pc[o] IN
  /\ p.op = "takeback"
  /\ left' = [left EXCEPT ![p.l] = 0]
  /\ shop' = IF p.n \in DOMAIN shop[p.s].items
             THEN [shop EXCEPT ![p.s].items = RemoveAt(@, p.n)] ELSE shop
  /\ Done(o)
  /\ UNCHANGED <<bag, Register, at, purse, Rest, overlapped>>

\* The loop that drops sold-out goods skips the one after each it drops.
Tidied(items) ==
  LET Look(i, r) ==
        IF left[items[i]] = 0 /\ ~r.skip THEN [kept |-> r.kept, skip |-> TRUE]
        ELSE [kept |-> Append(r.kept, items[i]), skip |-> FALSE]
  IN  MapThenFoldSet(LAMBDA i, r : Look(i, r), [kept |-> <<>>, skip |-> FALSE], LAMBDA i : i,
                     LAMBDA some : Max(some), DOMAIN items).kept

Withdraw(o) ==
  LET s == at[o] IN
  /\ Free(o) /\ Owns(o) /\ shop[s].can
  /\ shop' = [shop EXCEPT ![s].items = Tidied(@)]
  /\ purse' = [purse EXCEPT ![o] = @ + shop[s].meso]
  /\ Begins(o, s)
  /\ Go(o, In("withdraw", s, 0, 0, 0))
  /\ UNCHANGED <<left, bag, Register, at, Rest>>

Withdrawn(o) ==
  /\ pc[o].op = "withdraw"
  /\ shop' = [shop EXCEPT ![pc[o].s].meso = 0]
  /\ Done(o)
  /\ UNCHANGED <<left, bag, Register, at, purse, Rest, overlapped>>

Reopen(o) ==
  /\ Free(o) /\ Owns(o) /\ shop[at[o]].avail
  /\ shop' = [shop EXCEPT ![at[o]].open = TRUE]
  /\ at' = [at EXCEPT ![o] = None]
  /\ UNCHANGED <<left, bag, Register, purse, Rest, pc, overlapped>>

-------------------------------------------------------------------------------
(* Visiting and buying.  The check of the door and the step inside are apart, *)
(* and so are the checks of a purchase and what it writes.                    *)

Knock(b, s) ==
  /\ Free(b) /\ at[b] = None
  /\ shop[s].onMap /\ shop[s].open /\ shop[s].avail
  /\ Go(b, In("enter", 0, 0, s, 0))
  /\ UNCHANGED <<Goods, Register, at, purse, Rest, overlapped>>

StepIn(b) ==
  /\ pc[b].op = "enter"
  /\ at' = [at EXCEPT ![b] = pc[b].n]
  /\ shop' = [shop EXCEPT ![pc[b].n].visitors = @ \cup {b}]
  /\ Done(b)
  /\ UNCHANGED <<left, bag, Register, purse, Rest, overlapped>>

Buy(b, i, n) ==
  LET s == at[b]  l == shop[s].items[i] IN
  /\ Free(b) /\ s # None /\ shop[s].can
  /\ i \in DOMAIN shop[s].items
  /\ left[l] >= n /\ purse[b] >= n
  /\ Begins(b, s)
  /\ Go(b, In("checked", s, i, n, 0))
  /\ UNCHANGED <<Goods, Register, at, purse, Rest>>

\* HiredMerchant.buy looks the good up again, by its place in the list; it
\* stops when the list has become shorter, nothing is left or the bag is full.
Handed(b) ==
  LET p == pc[b]  items == shop[p.s].items IN
  /\ p.op = "checked"
  /\ \/ /\ p.l \in DOMAIN items /\ left[items[p.l]] > 0
        /\ bag' = [bag EXCEPT ![b] = @ + p.n]
        /\ Go(b, In("handed", p.s, items[p.l], p.n, left[items[p.l]]))
     \/ Done(b) /\ UNCHANGED bag
  /\ UNCHANGED <<shop, left, Register, at, purse, Rest, overlapped>>

\* Mutant of CountDown: the bundles left are not reduced.
CountNothing(b) ==
  LET p == pc[b] IN
  /\ p.op = "handed"
  /\ left' = [left EXCEPT ![p.l] = p.v]
  /\ Go(b, In("counted", p.s, p.l, p.n, shop[p.s].meso))
  /\ UNCHANGED <<shop, bag, Register, at, purse, Rest, overlapped>>

CountDown(b) ==
  LET p == pc[b] IN
  /\ p.op = "handed"
  /\ left' = [left EXCEPT ![p.l] = p.v - p.n]
  /\ Go(b, In("counted", p.s, p.l, p.n, shop[p.s].meso))
  /\ UNCHANGED <<shop, bag, Register, at, purse, Rest, overlapped>>

\* Mutant of Paid: the buyer is not charged.
PaidNothing(b) ==
  LET p == pc[b] IN
  /\ p.op = "counted"
  /\ shop' = [shop EXCEPT ![p.s].meso = p.v + p.n]
  /\ Done(b)
  /\ UNCHANGED <<left, bag, Register, at, purse, Rest, overlapped>>

Paid(b) ==
  LET p == pc[b] IN
  /\ p.op = "counted"
  /\ shop' = [shop EXCEPT ![p.s].meso = p.v + p.n]
  /\ purse' = [purse EXCEPT ![b] = @ - p.n]
  /\ Done(b)
  /\ UNCHANGED <<left, bag, Register, at, Rest, overlapped>>

-------------------------------------------------------------------------------
(* Closing: closeShop(saveItems, remove), on whatever thread.  The package in *)
(* the database replaces any other of the account.                            *)

Silenced(sh, s) == [sh EXCEPT ![s].alarm = IF @ = "set" THEN "off" ELSE @]

\* saveItems reads the till and the goods and replaces the account's rows.
Save(t) ==
  LET s == pc[t].s  o == shop[s].owner IN
  /\ pc[t].op = "close"
  /\ package' = [package EXCEPT ![o] = [goods |-> Holding(s), meso |-> shop[s].meso]]
  /\ lapses' = IF package[o] = None \/ package[o] = [goods |-> 0, meso |-> 0] THEN lapses
               ELSE lapses \cup {"package replaced"}
  /\ Go(t, [pc[t] EXCEPT !.op = "saved"])
  /\ UNCHANGED <<Goods, Register, at, ticket, purse, overlapped>>

Clear(t) ==
  /\ pc[t].op = "saved"
  /\ shop' = [shop EXCEPT ![pc[t].s].items = <<>>]
  /\ Go(t, [pc[t] EXCEPT !.op = "cleared"])
  /\ UNCHANGED <<left, bag, Register, at, purse, Rest, overlapped>>

\* v = 1: closeShop's remove.  The index is asked by store id, which is 0 until
\* the merchant is opened.
Unregister(t) ==
  LET s == pc[t].s IN
  /\ pc[t].op = "cleared"
  /\ t = Console \/ Unlocked
  /\ index' = IF t = Console THEN [i \in {j \in DOMAIN index : index[j] # s} |-> index[i]]
              ELSE IF pc[t].v = 1
                   THEN [i \in DOMAIN index \ {shop[s].storeid} |-> index[i]]
                   ELSE index
  /\ lapses' = IF index' = index \/ s \in {index[i] : i \in DOMAIN index \ DOMAIN index'} THEN lapses
               ELSE lapses \cup {"another struck off"}
  /\ shop' = [shop EXCEPT ![s].can = FALSE, ![s].onMap = FALSE]
  /\ Done(t)
  /\ UNCHANGED <<left, bag, nextId, at, purse, ticket, package, overlapped>>

\* Mutant of Closes: the goods are cleared before they are saved.
ClosesEmptied(t, s, remove, sh) ==
  /\ shop' = Silenced([sh EXCEPT ![s].items = <<>>], s)
  /\ Begins(t, s)
  /\ lapses' = IF at[shop[s].owner] = s /\ t # shop[s].owner
               THEN lapses \cup {"closed around its owner"} ELSE lapses
  /\ Go(t, In("close", s, 0, 0, remove))

Closes(t, s, remove, sh) ==
  /\ shop' = Silenced(sh, s)
  /\ Begins(t, s)
  /\ lapses' = IF at[shop[s].owner] = s /\ t # shop[s].owner
               THEN lapses \cup {"closed around its owner"} ELSE lapses
  /\ Go(t, In("close", s, 0, 0, remove))

Close(o) ==
  LET s == at[o] IN
  /\ Free(o) /\ Owns(o) /\ shop[s].avail
  /\ at' = [EvictedFrom(s) EXCEPT ![o] = None]
  /\ Closes(o, s, 1, Evict(s, shop))
  /\ UNCHANGED <<left, bag, Register, purse, ticket, package>>

Ring(s) ==
  /\ Free(s) /\ shop[s].alarm = "set"
  /\ at' = EvictedFrom(s)
  /\ Closes(s, s, 1, Evict(s, [shop EXCEPT ![s].alarm = "rung"]))
  /\ UNCHANGED <<left, bag, Register, purse, ticket, package>>

\* ChannelServer.closeAllMerchants: one after another, under merchLock.
CloseAll ==
  /\ Free(Console)
  /\ \E i \in DOMAIN index : Closes(Console, index[i], 0, shop)
  /\ UNCHANGED <<left, bag, Register, at, purse, ticket, package>>

\* A merchant not yet opened is closed without being saved.
Leave(p) ==
  LET s == at[p] IN
  /\ Free(p) /\ s # None
  /\ at' = [at EXCEPT ![p] = None]
  /\ IF shop[s].avail
     THEN /\ shop' = [shop EXCEPT ![s].visitors = @ \ {p}]
          /\ UNCHANGED lapses
     ELSE /\ shop' = [Silenced(shop, s) EXCEPT ![s].can = FALSE, ![s].onMap = FALSE]
          /\ lapses' = IF Holding(s) = 0 THEN lapses
                       ELSE lapses \cup {"left before it was opened"}
  /\ UNCHANGED <<left, bag, Register, ticket, purse, package, pc, overlapped>>

\* MapleClient.removalTask: the owner's client goes away.
Disconnect(o) ==
  LET s == at[o] IN
  /\ Free(o) /\ Owns(o)
  /\ at' = [at EXCEPT ![o] = None]
  /\ IF shop[s].avail
     THEN shop' = [shop EXCEPT ![s].open = TRUE] /\ UNCHANGED <<pc, overlapped, lapses>>
     ELSE Closes(o, s, 1, shop)
  /\ UNCHANGED <<left, bag, Register, purse, ticket, package>>

-------------------------------------------------------------------------------
(* Fetching the package: loaded, its row deleted, then handed over.           *)

Load(o) ==
  /\ Free(o) /\ at[o] = None /\ package[o] # None
  /\ Unlocked /\ ~HasMerchant(o)
  /\ Go(o, In("load", 0, package[o].goods, package[o].meso, 0))
  /\ UNCHANGED <<Goods, Register, at, purse, Rest, overlapped>>

Claim(o) ==
  LET p == pc[o] IN
  /\ p.op = "load"
  /\ package' = [package EXCEPT ![o] = None]
  /\ bag' = [bag EXCEPT ![o] = @ + p.l]
  /\ purse' = [purse EXCEPT ![o] = @ + p.n]
  /\ Done(o)
  /\ UNCHANGED <<shop, left, Register, at, ticket, lapses, overlapped>>

Owner(o) ==
  \/ AskPackage(o) \/ AskMerchant(o) \/ Create(o) \/ Open(o) \/ Reopen(o)
  \/ TakenBack(o) \/ Withdraw(o) \/ Withdrawn(o) \/ Close(o) \/ Disconnect(o)
  \/ Load(o) \/ Claim(o)
  \/ \E s \in Hired : Enter(o, s)
  \/ \E n \in 1 .. Stock : Put(o, n)
  \/ \E i \in 1 .. MaxListings : TakeBack(o, i)

Buyer(b) ==
  \/ StepIn(b) \/ Handed(b) \/ CountDown(b) \/ Paid(b)
  \/ \E s \in Hired : Knock(b, s)
  \/ \E i \in 1 .. MaxListings, n \in 1 .. Coins : Buy(b, i, n)

Closing(t) == Save(t) \/ Clear(t) \/ Unregister(t)

Next ==
  \/ \E o \in Owners : Owner(o)
  \/ \E b \in Buyers : Buyer(b)
  \/ \E p \in Players : Leave(p)
  \/ \E t \in Threads : Closing(t)
  \/ \E s \in Hired : Ring(s)
  \/ CloseAll

Spec == Init /\ [][Next]_vars
\* What the scheduling gives: a handler that began ends, alarms ring.
FairSpec ==
  /\ Spec
  /\ \A t \in Threads : WF_vars(Closing(t))
  /\ \A s \in Shops : WF_vars(s \in Hired /\ Ring(s))

-------------------------------------------------------------------------------
Merchant == [owner : Owners, items : Seq(1 .. MaxListings), meso : Nat,
             open : BOOLEAN, avail : BOOLEAN, can : BOOLEAN, onMap : BOOLEAN,
             alarm : {"set", "off", "rung"}, storeid : Nat, visitors : SUBSET Players]

Steps == {"idle", "ask", "takeback", "withdraw", "enter", "checked", "handed",
          "counted", "close", "saved", "cleared", "load"}

TypeOK ==
  /\ shop \in Seq(Merchant) /\ left \in Seq(Int)
  /\ DOMAIN index \subseteq 0 .. nextId /\ \A i \in DOMAIN index : index[i] \in Hired
  /\ at \in [Players -> Hired \cup {None}]
  /\ ticket \subseteq Owners
  /\ bag \in [Players -> Nat] /\ purse \in [Players -> Nat]
  /\ \A t \in Threads : pc[t].op \in Steps /\ pc[t].s \in Hired \cup {0}

InHand(s) == Sum([t \in Threads |-> pc[t].n], Doing("handed", s))
           + Sum([t \in Threads |-> IF pc[t].l = 0 THEN 0 ELSE left[pc[t].l]], Doing("takeback", s))

\* Goods and mesos that a merchant holds and somebody can still get at.
OnSale(s) == IF shop[s].can /\ ~Stored(s) THEN Holding(s) - InHand(s) ELSE 0
Till(s) == IF shop[s].can /\ ~Stored(s) /\ Doing("withdraw", s) = {} THEN shop[s].meso ELSE 0
Unclaimed(field) == Sum([o \in Owners |-> IF package[o] = None THEN 0 ELSE package[o][field]], Owners)
AllGoods == Sum(bag, Players) + Sum([s \in Hired |-> OnSale(s)], Hired) + Unclaimed("goods")
AllMesos == Sum(purse, Players) + Sum([s \in Hired |-> Till(s)], Hired) + Unclaimed("meso")

-------------------------------------------------------------------------------
(* Kept.  However the threads interleave, a unit of goods is lost only when   *)
(* an unopened merchant is left, goods are put into one that is closing, or a *)
(* package is replaced (HiredMerchant.buy and closeShop have no lock).  As    *)
(* long as no two threads are busy with one merchant at a time, none appears  *)
(* either, and the mesos are conserved too: what a buyer pays arrives in the  *)
(* till, and the till reaches its owner once.                                 *)
Kept ==
  lapses = {} =>
    /\ AllGoods >= Stock * Cardinality(Owners)
    /\ ~overlapped => /\ AllGoods = Stock * Cardinality(Owners)
                      /\ AllMesos = Coins * Cardinality(Buyers)

(* Safekeeping.  A package that still holds something is replaced, and goods  *)
(* end in a closed merchant, only if two threads were busy with it at once,   *)
(* it was closed while its owner was inside, or it had been struck off the    *)
(* channel's list by another's closing: UseHiredMerchant's two questions are  *)
(* enough otherwise.                                                          *)
Safekeeping ==
  lapses \cap {"package replaced", "put into a closed merchant"} # {} =>
    \/ overlapped
    \/ lapses \cap {"closed around its owner", "another struck off"} # {}

(* Listed.  A merchant that is selling is in the channel's list, where        *)
(* hasMerchant and the console look for it, unless a merchant that was never  *)
(* opened has been closed: its store id is still 0, the id of the first one.  *)
Listed ==
  \A s \in Hired :
    shop[s].avail /\ shop[s].can /\ ~Stored(s) /\ (\A i \in DOMAIN index : index[i] # s)
      => \/ "closed around its owner" \in lapses
         \/ \E r \in Hired : ~shop[r].avail /\ ~shop[r].can

(* Retires.  Every merchant leaves the map, at the latest when its alarm has  *)
(* rung (the EtcTimer task of HiredMerchant's constructor).                   *)
Retires == \A s \in Shops : (s \in Hired /\ shop[s].onMap) ~> (s \in Hired /\ ~shop[s].onMap)
===============================================================================
