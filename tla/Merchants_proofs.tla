--------------------------- MODULE Merchants_proofs ---------------------------
(***************************************************************************)
(* Theorems about Merchants for any owners, buyers, bounds and with or     *)
(* without overlapping operations: Listed, Safekeeping and Kept.           *)
(*                                                                         *)
(* The invariant of the first two comes in two halves.  Orderly holds      *)
(* always: what is in the list, who is inside a merchant and which still   *)
(* stand.  Careful holds as long as no two threads have been busy with one *)
(* merchant and none was closed around its owner or struck off by another: *)
(* then an owner has one merchant that trades or one package, not both.    *)
(* Most operations only Work or Shut; the rest are taken one by one.       *)
(*                                                                         *)
(* The invariant of Kept is an account of the goods, KInv: for every good  *)
(* that was put up, how many of its units are still to be had (Covered).   *)
(* A buyer may write back a count that he read long before; what keeps the *)
(* account is that no such count leaves less than is still to be had and   *)
(* what the others were handed.  Each operation is shown to move units     *)
(* between bags, goods and packages without losing one, by the sums over   *)
(* players and goods.                                                      *)
(***************************************************************************)
EXTENDS Merchants, SequenceTheorems, FiniteSetTheorems, WellFoundedInduction, TLAPS

USE BoundsAssumption, ThreadsAssumption

-----------------------------------------------------------------------------
(* The inductive invariant.                                                 *)

\* The steps of closing a merchant.
Shutting == {"close", "saved", "cleared"}
\* What a thread is in the middle of at a merchant it does not close.
Busy == {"takeback", "withdraw", "checked", "handed", "counted"}
\* Thread t is closing merchant s.
Shuts(t, s) == pc[t].op \in Shutting /\ pc[t].s = s
\* A merchant has been closed while its owner was inside.
Around == "closed around its owner" \in lapses
\* Closing one merchant has taken another off the list.
Struck == "another struck off" \in lapses
\* What loses a package or goods for good.
Lost == {"package replaced", "put into a closed merchant"}
\* The fields of a merchant.
Fields == {"owner", "items", "meso", "open", "avail", "can", "onMap", "alarm",
           "storeid", "visitors"}

\* What the proofs need of the types of a merchant.
ShopAt(s) ==
    /\ DOMAIN shop[s] = Fields
    /\ shop[s].owner \in Owners
    /\ shop[s].avail \in BOOLEAN /\ shop[s].can \in BOOLEAN /\ shop[s].onMap \in BOOLEAN
    /\ shop[s].storeid \in Nat
    /\ shop[s].visitors \subseteq Buyers

\* Merchants are numbered in the order of their hiring.
Listing == shop = [s \in Hired |-> shop[s]] /\ \E n \in 0 .. MaxShops : Hired = 1 .. n

\* What the proofs need of the types of what a thread is doing.
PcAt(t) ==
    /\ pc[t] = In(pc[t].op, pc[t].s, pc[t].l, pc[t].n, pc[t].v)
    /\ pc[t].s \in Hired \cup {0}
    /\ pc[t].op \in Shutting \cup Busy => pc[t].s \in Hired
    /\ pc[t].op \in Shutting /\ t # Console => pc[t].v = 1
    /\ pc[t].op \in {"idle", "ask", "enter", "load"} => pc[t].s = 0
    /\ pc[t].op = "enter" => t \in Buyers /\ pc[t].n \in Hired /\ shop[pc[t].n].avail
    /\ pc[t].op = "ask" => t \in Owners /\ at[t] = None

\* What the proofs need of the types.
Types ==
    /\ Listing /\ \A s \in Hired : ShopAt(s)
    /\ DOMAIN pc = Threads /\ \A t \in Threads : PcAt(t)
    /\ at \in [Players -> Hired \cup {None}]
    /\ nextId \in Nat /\ ticket \subseteq Owners /\ DOMAIN package = Owners
    /\ overlapped \in BOOLEAN

\* The list leads to merchants that were opened, by the ids they got.
Indexed ==
    /\ DOMAIN index \subseteq Nat
    /\ \A i \in DOMAIN index :
         index[i] \in Hired /\ shop[index[i]].avail /\ shop[index[i]].storeid = i
    /\ \A s \in Hired : shop[s].avail => shop[s].storeid < nextId
    /\ \A s, r \in Hired :
         shop[s].avail /\ shop[r].avail /\ shop[s].storeid = shop[r].storeid => s = r

\* Only its owner is in a merchant not yet opened, and nobody else closes it.
Inside == \A p \in Players :
    at[p] # None /\ ~shop[at[p]].avail =>
      /\ p = shop[at[p]].owner
      /\ shop[at[p]].can \/ Around
      /\ (\E t \in Threads : Shuts(t, at[p])) => Around

\* A merchant not yet opened has its owner inside, or he is closing it.
Unopened == \A s \in Hired :
    ~shop[s].avail /\ shop[s].onMap => at[shop[s].owner] = s \/ Shuts(shop[s].owner, s)

\* The list leads to s by its store id.
InIndex(s) == shop[s].storeid \in DOMAIN index /\ index[shop[s].storeid] = s
\* Why a merchant that sells may be missing from the list.
Excuse == Around \/ \E r \in Hired : ~shop[r].avail /\ ~shop[r].can
\* A merchant that sells is in the list.
Selling == \A s \in Hired : shop[s].avail /\ shop[s].can => InIndex(s) \/ Excuse

\* What holds always.
Orderly == Types /\ Indexed /\ Inside /\ Unopened /\ Selling

\* No two threads are busy with one merchant.
Alone == \A t, u \in Threads : t # u /\ pc[t].s # 0 => pc[t].s # pc[u].s

\* Who is being asked for a title has no package and nobody is at a merchant of his.
Asking == \A o \in Owners : pc[o].op = "ask" =>
    package[o] = None /\ \A t \in Threads : pc[t].s # 0 => shop[pc[t].s].owner # o

\* A merchant that trades is listed and on the map, and stands for its owner's package.
TradingAt(s) ==
    /\ shop[s].avail /\ shop[s].can => InIndex(s)
    /\ shop[s].onMap = shop[s].can
    /\ shop[s].alarm = "set" => shop[s].can
    /\ shop[s].can /\ package[shop[s].owner] # None =>
         \E t \in Threads : Shuts(t, s) /\ pc[t].op # "close"
    /\ shop[s].can => shop[s].owner \notin ticket

\* An owner has at most one merchant that trades.
OneEach == \A s, r \in Hired :
    shop[s].can /\ shop[r].can /\ shop[s].owner = shop[r].owner => s = r

\* What is listed, entered or being closed still trades.
Standing ==
    /\ \A i \in DOMAIN index : shop[index[i]].can
    /\ \A o \in Owners : Owns(o) => shop[at[o]].can
    /\ \A t \in Threads, s \in Hired :
         Shuts(t, s) => shop[s].can /\ shop[s].alarm # "set" /\ at[shop[s].owner] # s

\* What holds while two threads have not met, and none was closed or struck off by another.
Careful ==
    /\ Alone /\ Asking /\ (\A s \in Hired : TradingAt(s)) /\ OneEach /\ Standing
    /\ \A o \in ticket : package[o] = None
    /\ lapses \cap Lost = {}

\* Two threads have not met, and no merchant was closed or struck off by another.
Nice == ~overlapped /\ ~Around /\ ~Struck

\* The invariant of Listed and Safekeeping.
IInv == Orderly /\ (Nice => Careful)

-----------------------------------------------------------------------------
(* What most operations do to the merchants, the threads and the players.    *)

\* The merchants are the same but for their goods, tills, doors and visitors.
SameAt(s) ==
    /\ DOMAIN shop'[s] = Fields
    /\ shop'[s].owner = shop[s].owner /\ shop'[s].avail = shop[s].avail
    /\ shop'[s].can = shop[s].can /\ shop'[s].onMap = shop[s].onMap
    /\ shop'[s].storeid = shop[s].storeid
    /\ shop'[s].visitors \subseteq Buyers

\* The merchants are the same but for goods, tills, doors and visitors.
SameShops ==
    /\ DOMAIN shop' = Hired /\ shop' = [s \in Hired |-> shop'[s]]
    /\ \A s \in Hired : SameAt(s)

\* Nobody else goes on.
Only(t) == DOMAIN pc' = Threads /\ \A u \in Threads \ {t} : pc'[u] = pc[u]

\* Nobody else is at s, or the two overlap.
Joins(t, s) ==
    ~overlapped' => \A u \in Threads \ {t} :
        pc[u].s # s /\ ~(pc[u].op = "ask" /\ u = shop[s].owner)

\* Players leave only merchants that were opened, and t may enter one.
Visits(t) ==
    /\ at' \in [Players -> Hired \cup {None}]
    /\ \A q \in Players :
         \/ at'[q] = at[q]
         \/ at'[q] = None /\ shop[at[q]].avail
         \/ /\ q = t /\ at'[q] \in Hired /\ shop[at'[q]].avail /\ pc[t].op # "ask"
            /\ \/ q \in Buyers
               \/ /\ shop[at'[q]].owner = q /\ shop[at'[q]].onMap /\ at[q] = None
                  /\ Joins(t, at'[q])

\* What has happened stays so.
History ==
    /\ overlapped' \in BOOLEAN /\ (overlapped => overlapped')
    /\ (Around => Around') /\ (Struck => Struck')

\* t begins, goes on with or ends something that does not close a merchant.
Work(t) ==
    /\ SameShops /\ (\A s \in Hired : shop'[s].alarm = shop[s].alarm)
    /\ Only(t) /\ PcAt(t)'
    /\ pc[t].op \notin Shutting /\ pc'[t].op \notin Shutting \cup {"ask"}
    /\ pc'[t].s \in {0, pc[t].s} \/ Joins(t, pc'[t].s)
    /\ Visits(t) /\ History
    /\ index' = index /\ nextId' = nextId /\ ticket' = ticket
    /\ DOMAIN package' = Owners /\ \A o \in Owners : package'[o] \in {package[o], None}

\* t begins to close s.
Shut(t, s) ==
    /\ SameShops /\ (\A r \in Hired : shop'[r].alarm = shop[r].alarm \/ shop'[r].alarm # "set")
    /\ shop'[s].alarm # "set"
    /\ Only(t) /\ PcAt(t)' /\ pc[t] = Idle /\ Shuts(t, s)' /\ s \in Hired /\ Joins(t, s)
    /\ shop[s].alarm = "set" \/ (Owns(t) /\ at[t] = s) \/ \E i \in DOMAIN index : index[i] = s
    /\ at[shop[s].owner] = s /\ t # shop[s].owner => Around'
    /\ at' \in [Players -> Hired \cup {None}]
    /\ \A q \in Players :
         at'[q] = at[q] \/ (at'[q] = None /\ (shop[at[q]].avail \/ q = t))
    /\ t \in Owners => at[t] = s /\ at'[t] = None /\ shop[s].owner = t
    /\ History
    /\ index' = index /\ nextId' = nextId /\ ticket' = ticket /\ package' = package

-----------------------------------------------------------------------------
\* Work keeps what holds always.
LEMMA WorkIsOrderly ==
    ASSUME Orderly, NEW t \in Threads, Work(t)
    PROVE  Orderly'
<1> USE DEF Orderly, Work, SameShops, SameAt
<1>1. Types'
  <2>1. Listing' /\ \A s \in Hired' : ShopAt(s)'  BY DEF Types, Listing, ShopAt, Hired
  <2>2. ASSUME NEW u \in Threads \ {t} PROVE PcAt(u)'
    BY DEF Types, PcAt, Only, Hired, Visits, In, Players
  <2> QED BY <2>1, <2>2 DEF Types, Only, Visits, History, Hired
<1>2. Indexed'  BY DEF Indexed, Hired
<1>3. Inside'
  <2> SUFFICES ASSUME NEW p \in Players, at'[p] # None, ~shop'[at'[p]].avail
               PROVE  /\ p = shop'[at'[p]].owner
                      /\ shop'[at'[p]].can \/ Around'
                      /\ (\E u \in Threads : Shuts(u, at[p])') => Around'
    BY DEF Inside, Shuts
  <2>1. at'[p] = at[p] /\ at[p] \in Hired  BY DEF Types, Visits
  <2>2. ~shop[at[p]].avail /\ p = shop[at[p]].owner /\ (shop[at[p]].can \/ Around)
    BY <2>1 DEF Inside
  <2>3. ASSUME NEW u \in Threads, Shuts(u, at[p])' PROVE Shuts(u, at[p])
    BY <2>1, <2>3 DEF Shuts, Only
  <2> QED BY <2>1, <2>2, <2>3 DEF Inside, History
<1>4. Unopened'
  <2> SUFFICES ASSUME NEW s \in Hired, ~shop[s].avail, shop[s].onMap
               PROVE  at'[shop[s].owner] = s \/ Shuts(shop[s].owner, s)'
    BY DEF Unopened, Hired, Shuts
  <2>1. shop[s].owner \in Owners /\ s # None  BY DEF Types, ShopAt, Listing
  <2>2. CASE at[shop[s].owner] = s
    BY <2>1, <2>2 DEF Visits, Players
  <2>3. CASE Shuts(shop[s].owner, s)
    BY <2>1, <2>3 DEF Shuts, Only, Threads, Players
  <2> QED BY <2>2, <2>3 DEF Unopened
<1>5. Selling'  BY DEF Selling, Excuse, InIndex, Hired, History
<1> QED BY <1>1, <1>2, <1>3, <1>4, <1>5

\* Work in which two threads do not meet keeps owners to one merchant or one package.
LEMMA WorkIsCareful ==
    ASSUME Orderly, Careful, NEW t \in Threads, Work(t), ~overlapped', lapses' \cap Lost = {}
    PROVE  Careful'
<1> USE DEF Work, SameShops, SameAt, Orderly
<1>1. Alone'  BY DEF Careful, Alone, Only, Joins, Types, PcAt
<1>2. Asking'
  <2> SUFFICES ASSUME NEW o \in Owners, pc'[o].op = "ask"
               PROVE  package'[o] = None
                      /\ \A u \in Threads : pc'[u].s # 0 => shop'[pc'[u].s].owner # o
    BY DEF Asking
  <2>1. o \in Threads /\ o # t /\ pc[o].op = "ask" /\ pc[o] = pc'[o]
    BY DEF Threads, Players, Only
  <2>2. package[o] = None /\ \A u \in Threads : pc[u].s # 0 => shop[pc[u].s].owner # o
    BY <2>1 DEF Careful, Asking
  <2>3. ASSUME NEW u \in Threads, pc'[u].s # 0 PROVE shop'[pc'[u].s].owner # o
    <3>1. pc'[u].s \in Hired  BY <2>3 DEF Types, PcAt, Only, Hired
    <3>2. CASE pc'[u].s = pc[u].s
      BY <3>1, <3>2, <2>2, <2>3
    <3>3. CASE pc'[u].s # pc[u].s
      BY <3>1, <3>3, <2>1, <2>3 DEF Only, Joins
    <3> QED BY <3>2, <3>3
  <2> QED BY <2>2, <2>3
<1>3. ASSUME NEW s \in Hired PROVE TradingAt(s)'
  <2>1. TradingAt(s) /\ shop[s].owner \in Owners  BY DEF Careful, Types, ShopAt
  <2>2. ASSUME NEW u \in Threads, Shuts(u, s), pc[u].op # "close"
        PROVE  Shuts(u, s)' /\ pc'[u].op # "close"
    BY <2>2 DEF Only, Shuts
  <2> QED BY <2>1, <2>2 DEF TradingAt, InIndex
<1>4. OneEach'  BY DEF Careful, OneEach, Hired
<1>5. Standing'
  <2>1. \A i \in DOMAIN index' : shop'[index'[i]].can  BY DEF Careful, Standing, Indexed
  <2>2. ASSUME NEW o \in Owners, Owns(o)' PROVE shop'[at'[o]].can
    <3>1. at'[o] # None /\ o \in Players /\ shop'[at'[o]].owner = o /\ o \notin Buyers
      BY <2>2 DEF Owns, Players
    <3>2. at'[o] \in Hired  BY <3>1 DEF Visits
    <3>3. CASE at'[o] = at[o]
      BY <3>1, <3>2, <3>3 DEF Careful, Standing, Owns
    <3>4. CASE at'[o] # at[o]
      <4>1. shop[at'[o]].onMap  BY <3>1, <3>4 DEF Visits
      <4> QED BY <3>2, <4>1 DEF Careful, TradingAt
    <3> QED BY <3>3, <3>4
  <2>3. ASSUME NEW u \in Threads, NEW s \in Hired, Shuts(u, s)'
        PROVE  shop'[s].can /\ shop'[s].alarm # "set" /\ at'[shop'[s].owner] # s
    <3>1. Shuts(u, s)  BY <2>3 DEF Only, Shuts
    <3>2. shop[s].owner \in Players /\ s # None  BY DEF Types, ShopAt, Players, Listing
    <3>3. shop[s].owner \notin Buyers /\ u # t  BY <3>1 DEF Types, ShopAt, Shuts
    <3>4. at'[shop[s].owner] # s
      <4>1. at[shop[s].owner] # s  BY <3>1 DEF Careful, Standing
      <4>2. ASSUME at'[shop[s].owner] = s PROVE Joins(t, s)
        BY <3>2, <3>3, <4>1, <4>2 DEF Visits
      <4>3. ~Joins(t, s)  BY <3>1, <3>3 DEF Joins, Shuts
      <4> QED BY <4>2, <4>3
    <3> QED BY <3>1, <3>4 DEF Careful, Standing
  <2> QED BY <2>1, <2>2, <2>3 DEF Standing, Hired
<1>6. \A o \in ticket' : package'[o] = None  BY DEF Careful, Types
<1>7. \A s \in Hired' : TradingAt(s)'  BY <1>3 DEF Hired
<1> HIDE DEF Work
<1> QED BY <1>1, <1>2, <1>4, <1>5, <1>6, <1>7 DEF Careful


-----------------------------------------------------------------------------
\* Beginning to close a merchant keeps what holds always.
LEMMA ShutIsOrderly ==
    ASSUME Orderly, NEW t \in Threads, NEW s \in Hired, Shut(t, s)
    PROVE  Orderly'
<1> USE DEF Orderly, Shut, SameShops, SameAt
<1>1. Types'
  <2>1. Listing' /\ \A r \in Hired' : ShopAt(r)'  BY DEF Types, Listing, ShopAt, Hired
  <2>2. ASSUME NEW u \in Threads \ {t} PROVE PcAt(u)'
    <3>1. pc[u].op = "ask" => at'[u] = None  BY DEF Types, PcAt, Players
    <3> QED BY <3>1 DEF Types, PcAt, Only, Hired, In
  <2> QED BY <2>1, <2>2 DEF Types, Only, History, Hired
<1>2. Indexed'  BY DEF Indexed, Hired
<1>3. Inside'
  <2> SUFFICES ASSUME NEW p \in Players, at'[p] # None, ~shop'[at'[p]].avail
               PROVE  /\ p = shop'[at'[p]].owner
                      /\ shop'[at'[p]].can \/ Around'
                      /\ (\E u \in Threads : Shuts(u, at[p])') => Around'
    BY DEF Inside, Shuts
  <2>1. at'[p] = at[p] /\ at[p] \in Hired  BY DEF Types
  <2>2. ~shop[at[p]].avail /\ p = shop[at[p]].owner /\ (shop[at[p]].can \/ Around)
    BY <2>1 DEF Inside
  <2>3. ASSUME NEW u \in Threads, Shuts(u, at[p])' PROVE Around'
    <3>1. CASE u # t
      BY <2>1, <2>2, <2>3, <3>1 DEF Shuts, Only, Inside, History
    <3>2. CASE u = t
      <4>1. at[p] = s  BY <2>3, <3>2 DEF Shuts
      <4>2. t # p  BY <2>1, <2>2, <4>1 DEF Types, ShopAt
      <4> QED BY <4>1, <4>2, <2>2
    <3> QED BY <3>1, <3>2
  <2> QED BY <2>1, <2>2, <2>3 DEF History
<1>4. Unopened'
  <2> SUFFICES ASSUME NEW r \in Hired, ~shop[r].avail, shop[r].onMap
               PROVE  at'[shop[r].owner] = r \/ Shuts(shop[r].owner, r)'
    BY DEF Unopened, Hired, Shuts
  <2>1. shop[r].owner \in Owners /\ r # None  BY DEF Types, ShopAt, Listing
  <2>2. CASE at[shop[r].owner] = r
    <3>1. CASE shop[r].owner # t
      BY <2>1, <2>2, <3>1 DEF Players
    <3>2. CASE shop[r].owner = t
      BY <2>1, <2>2, <3>2 DEF Shuts, Types, Indexed, Players
    <3> QED BY <3>1, <3>2
  <2>3. CASE Shuts(shop[r].owner, r)
    BY <2>1, <2>3 DEF Shuts, Only, Threads, Players, Shutting, Idle
  <2> QED BY <2>2, <2>3 DEF Unopened
<1>5. Selling'  BY DEF Selling, Excuse, InIndex, Hired, History
<1> QED BY <1>1, <1>2, <1>3, <1>4, <1>5

\* So does it keep owners to one merchant or one package.
LEMMA ShutIsCareful ==
    ASSUME Orderly, Careful, NEW t \in Threads, NEW s \in Hired, Shut(t, s), Nice',
           lapses' \cap Lost = {}
    PROVE  Careful'
<1> USE DEF Shut, SameShops, SameAt, Orderly
<1>0. s # 0 /\ pc[t].s = 0 /\ pc'[t].s = s /\ pc[t].op = "idle" /\ pc'[t].op \in Shutting
  BY DEF Idle, Shuts, Types, Listing
<1>1. Alone'  BY <1>0 DEF Careful, Alone, Only, Joins, Nice
<1>2. Asking'
  <2> SUFFICES ASSUME NEW o \in Owners, pc'[o].op = "ask"
               PROVE  package'[o] = None
                      /\ \A u \in Threads : pc'[u].s # 0 => shop'[pc'[u].s].owner # o
    BY DEF Asking
  <2>1. o \in Threads /\ o # t /\ pc[o].op = "ask" /\ pc[o] = pc'[o]
    BY <1>0 DEF Threads, Players, Only, Shutting
  <2>2. package[o] = None /\ \A u \in Threads : pc[u].s # 0 => shop[pc[u].s].owner # o
    BY <2>1 DEF Careful, Asking
  <2>3. ASSUME NEW u \in Threads, pc'[u].s # 0 PROVE shop'[pc'[u].s].owner # o
    <3>1. CASE u # t
      BY <3>1, <2>2, <2>3 DEF Only, Types, PcAt
    <3>2. CASE u = t
      BY <3>2, <1>0, <2>1 DEF Joins, Nice
    <3> QED BY <3>1, <3>2
  <2> QED BY <2>2, <2>3
<1>3. \A r \in Hired' : TradingAt(r)'
  <2> SUFFICES ASSUME NEW r \in Hired PROVE TradingAt(r)'
    BY DEF Hired
  <2>1. TradingAt(r) /\ shop[r].owner \in Owners  BY DEF Careful, Types, ShopAt
  <2>2. ASSUME NEW u \in Threads, Shuts(u, r), pc[u].op # "close"
        PROVE  Shuts(u, r)' /\ pc'[u].op # "close"
    BY <2>2, <1>0 DEF Only, Shuts, Shutting
  <2> QED BY <2>1, <2>2 DEF TradingAt, InIndex
<1>4. OneEach'  BY DEF Careful, OneEach, Hired
<1>5. Standing'
  <2>1. \A i \in DOMAIN index' : shop'[index'[i]].can  BY DEF Careful, Standing, Indexed
  <2>2. ASSUME NEW o \in Owners, Owns(o)' PROVE shop'[at'[o]].can
    BY <2>2 DEF Careful, Standing, Owns, Players, Types
  <2>3. ASSUME NEW u \in Threads, NEW r \in Hired, Shuts(u, r)'
        PROVE  shop'[r].can /\ shop'[r].alarm # "set" /\ at'[shop'[r].owner] # r
    <3>1. shop[r].owner \in Owners /\ shop[r].owner \in Players /\ r # None
      BY DEF Types, ShopAt, Players, Listing
    <3>2. CASE u # t
      <4>1. Shuts(u, r)  BY <2>3, <3>2 DEF Only, Shuts
      <4> QED BY <4>1, <3>1 DEF Careful, Standing
    <3>3. CASE u = t
      <4>1. r = s  BY <2>3, <3>3, <1>0 DEF Shuts
      <4>2. shop[s].can
        <5>1. CASE shop[s].alarm = "set"
          BY <5>1 DEF Careful, TradingAt
        <5>2. CASE Owns(t) /\ at[t] = s
          BY <5>2, <3>1, <4>1 DEF Careful, Standing, Owns
        <5>3. CASE \E i \in DOMAIN index : index[i] = s
          BY <5>3 DEF Careful, Standing
        <5> QED BY <5>1, <5>2, <5>3
      <4>3. at'[shop[s].owner] # s  BY <4>1, <3>1 DEF Nice
      <4> QED BY <4>1, <4>2, <4>3
    <3> QED BY <3>2, <3>3
  <2> QED BY <2>1, <2>2, <2>3 DEF Standing, Hired
<1>6. \A o \in ticket' : package'[o] = None  BY DEF Careful, Types
<1> HIDE DEF Shut
<1> QED BY <1>1, <1>2, <1>3, <1>4, <1>5, <1>6 DEF Careful


-----------------------------------------------------------------------------
(* Which operations Work.                                                    *)

\* What of the merchants does not concern the list or the doors may be anything.
LEMMA Minor ==
    ASSUME Types, NEW s \in Hired, NEW v,
           \/ shop' = [shop EXCEPT ![s].items = v]
           \/ shop' = [shop EXCEPT ![s].meso = v]
           \/ shop' = [shop EXCEPT ![s].open = v]
    PROVE  SameShops /\ \A r \in Hired : shop'[r].alarm = shop[r].alarm
<1> DEFINE m == shop[s]
<1>1. \E n \in {[m EXCEPT !.items = v], [m EXCEPT !.meso = v], [m EXCEPT !.open = v]} :
        shop' = [shop EXCEPT ![s] = n]
  OBVIOUS
<1>2. PICK n \in {[m EXCEPT !.items = v], [m EXCEPT !.meso = v], [m EXCEPT !.open = v]} :
        shop' = [shop EXCEPT ![s] = n]
  BY <1>1
<1>3. /\ DOMAIN m = Fields /\ m.visitors \subseteq Buyers
      /\ DOMAIN shop = Hired /\ shop = [r \in Hired |-> shop[r]]
      /\ \A r \in Hired : ShopAt(r)
  BY DEF Types, ShopAt, Listing, Hired
<1>4. /\ DOMAIN n = Fields /\ n.owner = m.owner /\ n.avail = m.avail /\ n.can = m.can
      /\ n.onMap = m.onMap /\ n.storeid = m.storeid /\ n.visitors = m.visitors
      /\ n.alarm = m.alarm
  BY <1>3 DEF Fields
<1>5. /\ DOMAIN shop' = Hired /\ shop'[s] = n /\ shop' = [r \in Hired |-> shop'[r]]
      /\ \A r \in Hired \ {s} : shop'[r] = shop[r]
  BY <1>2, <1>3
<1> HIDE DEF m
<1>6. ASSUME NEW r \in Hired \ {s} PROVE SameAt(r) /\ shop'[r].alarm = shop[r].alarm
  BY <1>3, <1>5 DEF SameAt, ShopAt
<1>7. SameAt(s) /\ shop'[s].alarm = shop[s].alarm  BY <1>3, <1>4, <1>5 DEF SameAt, m
<1> QED BY <1>5, <1>6, <1>7 DEF SameShops

\* No merchant changes.
LEMMA Unchanged ==
    ASSUME Types, shop' = shop
    PROVE  SameShops /\ \A r \in Hired : shop'[r].alarm = shop[r].alarm
BY DEF Types, Listing, ShopAt, SameShops, SameAt

\* A thread goes on.
LEMMA Going ==
    ASSUME Types, NEW t \in Threads, NEW p, Go(t, p)
    PROVE  Only(t) /\ pc'[t] = p
BY DEF Types, Go, Only

\* A thread begins at a merchant, and meets others there only if that is noted.
LEMMA Joining ==
    ASSUME Types, NEW t \in Threads, NEW s, Begins(t, s)
    PROVE  Joins(t, s) /\ overlapped' \in BOOLEAN /\ (overlapped => overlapped')
BY DEF Types, Begins, Joins

\* Nobody moves.
LEMMA Staying ==
    ASSUME Types, NEW t \in Threads, at' = at, SameShops
    PROVE  Visits(t)
BY DEF Types, Visits, SameShops, Hired

\* Who owns the merchant he is in.
LEMMA OwnsOne ==
    ASSUME Types, NEW o \in Owners, Owns(o)
    PROVE  at[o] \in Hired /\ shop[at[o]].owner = o /\ o \in Players /\ o \in Threads
BY DEF Types, Owns, Players, Threads

\* A step of t that ends its operation, or goes on to another of its parts at s.
LEMMA Working ==
    ASSUME Types, NEW t \in Threads, NEW p, SameShops, Only(t), pc'[t] = p,
           \A s \in Hired : shop'[s].alarm = shop[s].alarm,
           pc[t].op \notin Shutting,
           \/ p = Idle
           \/ /\ p = In(p.op, p.s, p.l, p.n, p.v) /\ p.op \in Busy /\ p.s \in Hired
              /\ p.s = pc[t].s \/ Joins(t, p.s),
           Visits(t), index' = index, nextId' = nextId, ticket' = ticket,
           overlapped' \in BOOLEAN, overlapped => overlapped', lapses \subseteq lapses',
           DOMAIN package' = Owners,
           \A o \in Owners : package'[o] \in {package[o], None}
    PROVE  Work(t)
<1>1. PcAt(t)' /\ p.op \notin Shutting \cup {"ask"}
  BY DEF PcAt, Idle, In, Shutting, Busy, SameShops, Hired
<1>2. p.s \in {0, pc[t].s} \/ Joins(t, p.s)  BY DEF Idle, In
<1>3. History  BY DEF History, Around, Struck
<1> QED BY <1>1, <1>2, <1>3 DEF Work

\* No package changes.
LEMMA PackagesStay ==
    ASSUME Types, package' = package
    PROVE  DOMAIN package' = Owners /\ \A o \in Owners : package'[o] \in {package[o], None}
BY DEF Types

\* What an owner does inside, or with his package, is work.
LEMMA OwnerWorks ==
    ASSUME Orderly, NEW o \in Owners,
           \/ TakenBack(o) \/ Withdraw(o) \/ Withdrawn(o) \/ Reopen(o) \/ Claim(o)
           \/ \E n \in 1 .. Stock : Put(o, n)
           \/ \E i \in 1 .. MaxListings : TakeBack(o, i)
    PROVE  Work(o)
<1>0. o \in Threads /\ o \in Players /\ Types /\ PcAt(o) /\ overlapped \in BOOLEAN
  BY DEF Threads, Players, Orderly, Types
<1>1. CASE TakenBack(o)
  <2>1. pc[o].op = "takeback" /\ pc[o].s \in Hired  BY <1>0, <1>1 DEF PcAt, TakenBack, Busy
  <2>2. SameShops /\ \A s \in Hired : shop'[s].alarm = shop[s].alarm
    <3>1. CASE pc[o].n \in DOMAIN shop[pc[o].s].items
      BY <1>0, <1>1, <2>1, <3>1, Minor DEF TakenBack
    <3>2. CASE pc[o].n \notin DOMAIN shop[pc[o].s].items
      BY <1>0, <1>1, <3>2, Unchanged DEF TakenBack
    <3> QED BY <3>1, <3>2
  <2>3. Only(o) /\ pc'[o] = Idle  BY <1>0, <1>1, Going DEF TakenBack, Done
  <2> QED
    BY <1>0, <1>1, <2>1, <2>2, <2>3, Working, Staying, PackagesStay
    DEF TakenBack, Shutting, Register, Rest
<1>2. CASE Withdraw(o)
  <2> DEFINE s == at[o]  p == In("withdraw", s, 0, 0, 0)
  <2>1. s \in Hired  BY <1>0, <1>2, OwnsOne DEF Withdraw
  <2>2. SameShops /\ \A r \in Hired : shop'[r].alarm = shop[r].alarm
    BY <1>0, <1>2, <2>1, Minor DEF Withdraw
  <2>3. Only(o) /\ pc'[o] = p  BY <1>0, <1>2, Going DEF Withdraw
  <2>4. Joins(o, s) /\ overlapped' \in BOOLEAN /\ (overlapped => overlapped')
    BY <1>0, <1>2, Joining DEF Withdraw
  <2>5. p = In(p.op, p.s, p.l, p.n, p.v) /\ p.op \in Busy /\ p.s = s  BY DEF In, Busy
  <2> HIDE DEF p
  <2> QED
    BY <1>0, <1>2, <2>1, <2>2, <2>3, <2>4, <2>5, Working, Staying, PackagesStay
    DEF Withdraw, Shutting, Register, Rest, Free, Idle
<1>3. CASE Withdrawn(o)
  <2>1. pc[o].op = "withdraw" /\ pc[o].s \in Hired  BY <1>0, <1>3 DEF PcAt, Withdrawn, Busy
  <2>2. SameShops /\ \A s \in Hired : shop'[s].alarm = shop[s].alarm
    BY <1>0, <1>3, <2>1, Minor DEF Withdrawn
  <2>3. Only(o) /\ pc'[o] = Idle  BY <1>0, <1>3, Going DEF Withdrawn, Done
  <2> QED
    BY <1>0, <1>3, <2>1, <2>2, <2>3, Working, Staying, PackagesStay
    DEF Withdrawn, Shutting, Register, Rest
<1>4. CASE Reopen(o)
  <2>1. at[o] \in Hired  BY <1>0, <1>4, OwnsOne DEF Reopen
  <2>2. SameShops /\ \A s \in Hired : shop'[s].alarm = shop[s].alarm
    BY <1>0, <1>4, <2>1, Minor DEF Reopen
  <2>3. Only(o) /\ pc'[o] = Idle  BY <1>0, <1>4 DEF Reopen, Only, Free, Types
  <2>4. Visits(o)  BY <1>0, <1>4, <2>2 DEF Reopen, Visits, Types, SameShops, Hired
  <2> QED
    BY <1>0, <1>4, <2>2, <2>3, <2>4, Working, PackagesStay
    DEF Reopen, Free, Idle, Shutting, Register, Rest
<1>5. CASE Claim(o)
  <2>1. SameShops /\ \A s \in Hired : shop'[s].alarm = shop[s].alarm
    BY <1>0, <1>5, Unchanged DEF Claim
  <2>2. Only(o) /\ pc'[o] = Idle  BY <1>0, <1>5, Going DEF Claim, Done
  <2>3. DOMAIN package' = Owners /\ \A r \in Owners : package'[r] \in {package[r], None}
    BY <1>0, <1>5 DEF Claim, Types
  <2> QED BY <1>0, <1>5, <2>1, <2>2, <2>3, Working, Staying DEF Claim, Shutting, Register
<1>6. ASSUME NEW n \in 1 .. Stock, Put(o, n) PROVE Work(o)
  <2>1. at[o] \in Hired  BY <1>0, <1>6, OwnsOne DEF Put
  <2>2. SameShops /\ \A s \in Hired : shop'[s].alarm = shop[s].alarm
    BY <1>0, <1>6, <2>1, Minor DEF Put
  <2>3. Only(o) /\ pc'[o] = Idle  BY <1>0, <1>6 DEF Put, Only, Free, Types
  <2>4. overlapped' \in BOOLEAN /\ (overlapped => overlapped')
    BY <1>0, <1>6, Joining DEF Put
  <2> DEFINE safe == shop[at[o]].can /\ ~Stored(at[o])
  <2>a. lapses' = IF safe THEN lapses ELSE lapses \cup {"put into a closed merchant"}
    BY <1>6 DEF Put
  <2>b. pc[o] = Idle
    BY <1>6 DEF Put, Free
  <2> HIDE DEF safe
  <2>c. lapses \subseteq lapses'
    BY <2>a
  <2>d. pc[o].op = "idle"
    BY <2>b DEF Idle
  <2>5. lapses \subseteq lapses' /\ pc[o].op \notin Shutting  BY <2>c, <2>d DEF Shutting
  <2>6. at' = at /\ index' = index /\ nextId' = nextId /\ ticket' = ticket /\ package' = package
    BY <1>6 DEF Put, Register
  <2> QED BY <1>0, <2>2, <2>3, <2>4, <2>5, <2>6, Working, Staying, PackagesStay
<1>7. ASSUME NEW i \in 1 .. MaxListings, TakeBack(o, i) PROVE Work(o)
  <2> DEFINE s == at[o]  p == In("takeback", s, shop[s].items[i], i, 0)
  <2>1. s \in Hired  BY <1>0, <1>7, OwnsOne DEF TakeBack
  <2>2. SameShops /\ \A r \in Hired : shop'[r].alarm = shop[r].alarm
    BY <1>0, <1>7, Unchanged DEF TakeBack
  <2>3. Only(o) /\ pc'[o] = p  BY <1>0, <1>7, Going DEF TakeBack
  <2>4. Joins(o, s) /\ overlapped' \in BOOLEAN /\ (overlapped => overlapped')
    BY <1>0, <1>7, Joining DEF TakeBack
  <2>5. p = In(p.op, p.s, p.l, p.n, p.v) /\ p.op \in Busy /\ p.s = s  BY DEF In, Busy
  <2> HIDE DEF p
  <2> QED
    BY <1>0, <1>7, <2>1, <2>2, <2>3, <2>4, <2>5, Working, Staying, PackagesStay
    DEF TakeBack, Shutting, Register, Rest, Free, Idle
<1> QED BY <1>1, <1>2, <1>3, <1>4, <1>5, <1>6, <1>7

\* What a buyer does is work.
LEMMA BuyerWorks ==
    ASSUME Orderly, NEW b \in Buyers,
           \/ Handed(b) \/ CountDown(b) \/ Paid(b)
           \/ \E s \in Hired : Knock(b, s)
           \/ \E i \in 1 .. MaxListings, n \in 1 .. Coins : Buy(b, i, n)
    PROVE  Work(b)
<1>0. b \in Threads /\ b \in Players /\ Types /\ PcAt(b) /\ overlapped \in BOOLEAN
  BY DEF Threads, Players, Orderly, Types
<1> DEFINE p == pc'[b]
<1>1. CASE Handed(b)
  <2>1. pc[b].op = "checked" /\ pc[b].s \in Hired  BY <1>0, <1>1 DEF PcAt, Handed, Busy
  <2>2. SameShops /\ \A r \in Hired : shop'[r].alarm = shop[r].alarm
    BY <1>0, <1>1, Unchanged DEF Handed
  <2>3. /\ Only(b)
        /\ \/ p = Idle
           \/ p = In(p.op, p.s, p.l, p.n, p.v) /\ p.op \in Busy /\ p.s = pc[b].s
    BY <1>0, <1>1, Going DEF Handed, Done, In, Busy
  <2> HIDE DEF p
  <2> QED
    BY <1>0, <1>1, <2>1, <2>2, <2>3, Working, Staying, PackagesStay
    DEF Handed, Shutting, Register, Rest, p
<1>2. CASE CountDown(b)
  <2>1. pc[b].op = "handed" /\ pc[b].s \in Hired  BY <1>0, <1>2 DEF PcAt, CountDown, Busy
  <2>2. SameShops /\ \A r \in Hired : shop'[r].alarm = shop[r].alarm
    BY <1>0, <1>2, Unchanged DEF CountDown
  <2>3. Only(b) /\ p = In(p.op, p.s, p.l, p.n, p.v) /\ p.op \in Busy /\ p.s = pc[b].s
    BY <1>0, <1>2, Going DEF CountDown, In, Busy
  <2> HIDE DEF p
  <2> QED
    BY <1>0, <1>2, <2>1, <2>2, <2>3, Working, Staying, PackagesStay
    DEF CountDown, Shutting, Register, Rest, p
<1>3. CASE Paid(b)
  <2>1. pc[b].op = "counted" /\ pc[b].s \in Hired  BY <1>0, <1>3 DEF PcAt, Paid, Busy
  <2>2. SameShops /\ \A r \in Hired : shop'[r].alarm = shop[r].alarm
    BY <1>0, <1>3, <2>1, Minor DEF Paid
  <2>3. Only(b) /\ p = Idle  BY <1>0, <1>3, Going DEF Paid, Done
  <2> HIDE DEF p
  <2> QED
    BY <1>0, <1>3, <2>1, <2>2, <2>3, Working, Staying, PackagesStay
    DEF Paid, Shutting, Register, Rest, p
<1>4. ASSUME NEW s \in Hired, Knock(b, s) PROVE Work(b)
  <2>1. SameShops /\ \A r \in Hired : shop'[r].alarm = shop[r].alarm
    BY <1>0, <1>4, Unchanged DEF Knock, Goods
  <2>2. Only(b) /\ p = In("enter", 0, 0, s, 0)  BY <1>0, <1>4, Going DEF Knock
  <2>3. ShopAt(s)  BY <1>0 DEF Types
  <2>4. PcAt(b)'
    BY <1>4, <2>1, <2>2, <2>3 DEF PcAt, In, Knock, SameShops, SameAt, Hired, Shutting, Busy, ShopAt
  <2>5. pc[b].op = "idle" /\ p.op = "enter" /\ p.s = 0
    BY <1>4, <2>2 DEF Knock, Free, Idle, In
  <2>6. /\ at' = at /\ index' = index /\ nextId' = nextId /\ ticket' = ticket
        /\ package' = package /\ overlapped' = overlapped /\ lapses' = lapses
    BY <1>4 DEF Knock, Register, Rest
  <2> HIDE DEF p
  <2>7. History /\ Visits(b)  BY <1>0, <2>1, <2>6, Staying DEF History, Around, Struck
  <2> QED BY <1>0, <2>1, <2>2, <2>4, <2>5, <2>6, <2>7, PackagesStay DEF Work, p, Shutting
<1>5. ASSUME NEW i \in 1 .. MaxListings, NEW n \in 1 .. Coins, Buy(b, i, n) PROVE Work(b)
  <2>1. at[b] \in Hired  BY <1>0, <1>5 DEF Buy, Types
  <2>2. SameShops /\ \A r \in Hired : shop'[r].alarm = shop[r].alarm
    BY <1>0, <1>5, Unchanged DEF Buy, Goods
  <2>3. Only(b) /\ p = In("checked", at[b], i, n, 0)  BY <1>0, <1>5, Going DEF Buy
  <2>4. Joins(b, at[b]) /\ overlapped' \in BOOLEAN /\ (overlapped => overlapped')
    BY <1>0, <1>5, Joining DEF Buy
  <2>5. p = In(p.op, p.s, p.l, p.n, p.v) /\ p.op \in Busy /\ p.s = at[b]
    BY <2>3 DEF In, Busy
  <2> HIDE DEF p
  <2> QED
    BY <1>0, <1>5, <2>1, <2>2, <2>3, <2>4, <2>5, Working, Staying, PackagesStay
    DEF Buy, Shutting, Register, Rest, p, Free, Idle
<1> QED BY <1>1, <1>2, <1>3, <1>4, <1>5

\* Reading a package is work.
LEMMA LoadWorks ==
    ASSUME Orderly, NEW o \in Owners, Load(o)
    PROVE  Work(o)
<1>0. o \in Threads /\ o \in Players /\ Types /\ PcAt(o) /\ overlapped \in BOOLEAN
  BY DEF Threads, Players, Orderly, Types
<1>1. SameShops /\ \A r \in Hired : shop'[r].alarm = shop[r].alarm
  BY <1>0, Unchanged DEF Load, Goods
<1>2. Only(o) /\ pc'[o] = In("load", 0, package[o].goods, package[o].meso, 0)
  BY <1>0, Going DEF Load
<1>3. PcAt(o)'  BY <1>2 DEF PcAt, In, Shutting, Busy
<1>4. pc[o].op = "idle" /\ pc'[o].op = "load" /\ pc'[o].s = 0
  BY <1>2 DEF Load, Free, Idle, In
<1>5. /\ at' = at /\ index' = index /\ nextId' = nextId /\ ticket' = ticket
      /\ package' = package /\ overlapped' = overlapped /\ lapses' = lapses
  BY DEF Load, Register, Rest
<1>6. History /\ Visits(o)  BY <1>0, <1>1, <1>5, Staying DEF History, Around, Struck
<1> QED BY <1>0, <1>1, <1>2, <1>3, <1>4, <1>5, <1>6, PackagesStay DEF Work, Shutting


-----------------------------------------------------------------------------
(* Which operations Shut.                                                    *)

\* Closes on merchants whose doors may have been shut and visitors put out.
LEMMA ClosingBegins ==
    ASSUME Types, NEW t \in Threads, NEW s \in Hired, NEW remove, NEW sh,
           t # Console => remove = 1,
           Closes(t, s, remove, sh),
           DOMAIN sh = Hired, sh = [r \in Hired |-> sh[r]],
           \A r \in Hired \ {s} : sh[r] = shop[r],
           sh[s] \in {shop[s], [shop[s] EXCEPT !.visitors = {}],
                      [[shop[s] EXCEPT !.alarm = "rung"] EXCEPT !.visitors = {}]}
    PROVE  /\ SameShops /\ (\A r \in Hired : shop'[r].alarm = shop[r].alarm \/ shop'[r].alarm # "set")
           /\ shop'[s].alarm # "set"
           /\ Only(t) /\ Shuts(t, s)' /\ PcAt(t)' /\ Joins(t, s) /\ History
           /\ at[shop[s].owner] = s /\ t # shop[s].owner => Around'
<1>1. Only(t) /\ pc'[t] = In("close", s, 0, 0, remove)  BY Going DEF Closes
<1>2. shop' = [sh EXCEPT ![s].alarm = IF @ = "set" THEN "off" ELSE @]
  BY DEF Closes, Silenced
<1> DEFINE m == sh[s]  n == [m EXCEPT !.alarm = IF @ = "set" THEN "off" ELSE @]
<1>3. shop' = [sh EXCEPT ![s] = n]  BY <1>2
<1>4. /\ DOMAIN shop[s] = Fields /\ shop[s].visitors \subseteq Buyers
      /\ \A r \in Hired : ShopAt(r)
  BY DEF Types, ShopAt
<1>5. /\ DOMAIN m = Fields /\ m.owner = shop[s].owner /\ m.avail = shop[s].avail
      /\ m.can = shop[s].can /\ m.onMap = shop[s].onMap /\ m.storeid = shop[s].storeid
      /\ m.visitors \subseteq Buyers
  BY <1>4 DEF Fields
<1>6. /\ DOMAIN n = Fields /\ n.owner = m.owner /\ n.avail = m.avail
      /\ n.can = m.can /\ n.onMap = m.onMap /\ n.storeid = m.storeid
      /\ n.visitors = m.visitors /\ n.alarm # "set"
  <2> HIDE DEF m
  <2> QED BY <1>5 DEF Fields
<1>7. /\ DOMAIN shop' = Hired /\ shop'[s] = n /\ shop' = [r \in Hired |-> shop'[r]]
      /\ \A r \in Hired \ {s} : shop'[r] = shop[r]
  <2> HIDE DEF m, n
  <2> QED BY <1>3
<1> HIDE DEF m, n
<1>8. SameShops /\ (\A r \in Hired : shop'[r].alarm = shop[r].alarm \/ shop'[r].alarm # "set")
  <2>1. ASSUME NEW r \in Hired \ {s} PROVE SameAt(r) /\ shop'[r].alarm = shop[r].alarm
    BY <1>4, <1>7 DEF SameAt, ShopAt
  <2>2. SameAt(s) /\ shop'[s].alarm # "set"  BY <1>5, <1>6, <1>7 DEF SameAt
  <2> QED BY <1>7, <2>1, <2>2 DEF SameShops
<1>9. Shuts(t, s)' /\ PcAt(t)'  BY <1>1, <1>7 DEF Shuts, Shutting, Busy, PcAt, In, Hired
<1>10. Joins(t, s) /\ overlapped' \in BOOLEAN /\ (overlapped => overlapped')
  BY Joining DEF Closes
<1>11. History /\ (at[shop[s].owner] = s /\ t # shop[s].owner => Around')
  BY <1>10 DEF Closes, History, Around, Struck
<1> QED BY <1>1, <1>6, <1>7, <1>8, <1>9, <1>10, <1>11

\* Who is put out of a merchant was visiting it, and the visitors are buyers.
LEMMA Evicting ==
    ASSUME Types, Inside, NEW s \in Hired, NEW q \in Players,
           EvictedFrom(s)[q] # at[q]
    PROVE  q \in Buyers /\ EvictedFrom(s)[q] = None /\ (at[q] # None => shop[at[q]].avail)
BY DEF Types, ShopAt, EvictedFrom, Inside

\* Each of the ways a merchant begins to be closed is one.
LEMMA Shuttings ==
    ASSUME Orderly, NEW t \in Threads,
           \/ t \in Owners /\ Close(t)
           \/ t \in Owners /\ Disconnect(t) /\ ~shop[at[t]].avail
           \/ t \in Hired /\ Ring(t)
           \/ t = Console /\ CloseAll
    PROVE  \E s \in Hired : Shut(t, s)
<1>0. Types /\ Inside  BY DEF Orderly
<1>1. CASE t \in Owners /\ Close(t)
  <2>1. PICK s \in Hired : s = at[t] /\ shop[s].owner = t /\ t \in Players /\ s # None
    BY <1>0, <1>1, OwnsOne DEF Close, Types, Listing
  <2> DEFINE sh == Evict(s, shop)
  <2>2. Closes(t, s, 1, sh) /\ at' = [EvictedFrom(s) EXCEPT ![t] = None] /\ pc[t] = Idle
        /\ Owns(t)
    BY <1>1, <2>1 DEF Close, Free
  <2>3. /\ DOMAIN sh = Hired /\ sh = [r \in Hired |-> sh[r]]
        /\ \A r \in Hired \ {s} : sh[r] = shop[r]
        /\ sh[s] = [shop[s] EXCEPT !.visitors = {}]
    BY <1>0, <2>1 DEF Evict, Types, Listing
  <2> HIDE DEF sh
  <2>4. /\ SameShops /\ (\A r \in Hired : shop'[r].alarm = shop[r].alarm \/ shop'[r].alarm # "set")
        /\ shop'[s].alarm # "set"
        /\ Only(t) /\ Shuts(t, s)' /\ PcAt(t)' /\ Joins(t, s) /\ History
        /\ at[shop[s].owner] = s /\ t # shop[s].owner => Around'
    BY <1>0, <2>1, <2>2, <2>3, ClosingBegins
  <2>5. at' \in [Players -> Hired \cup {None}] /\ at'[t] = None
    BY <1>0, <2>1, <2>2 DEF Types, EvictedFrom
  <2>6. ASSUME NEW q \in Players
        PROVE  at'[q] = at[q] \/ (at'[q] = None /\ (shop[at[q]].avail \/ q = t))
    <3>1. q # t => at'[q] = EvictedFrom(s)[q]  BY <2>2 DEF EvictedFrom
    <3>2. EvictedFrom(s)[q] \in {at[q], None}  BY DEF EvictedFrom
    <3> QED BY <1>0, <2>1, <2>5, <3>1, <3>2, Evicting
  <2>7. index' = index /\ nextId' = nextId /\ ticket' = ticket /\ package' = package
    BY <1>1 DEF Close, Register
  <2> QED BY <2>1, <2>2, <2>4, <2>5, <2>6, <2>7 DEF Shut
<1>2. CASE t \in Owners /\ Disconnect(t) /\ ~shop[at[t]].avail
  <2>1. PICK s \in Hired : s = at[t] /\ shop[s].owner = t /\ t \in Players /\ s # None
    BY <1>0, <1>2, OwnsOne DEF Disconnect, Types, Listing
  <2>2. Closes(t, s, 1, shop) /\ at' = [at EXCEPT ![t] = None] /\ pc[t] = Idle /\ Owns(t)
    BY <1>2, <2>1 DEF Disconnect, Free
  <2>3. /\ DOMAIN shop = Hired /\ shop = [r \in Hired |-> shop[r]]
    BY <1>0 DEF Types, Listing
  <2>4. /\ SameShops /\ (\A r \in Hired : shop'[r].alarm = shop[r].alarm \/ shop'[r].alarm # "set")
        /\ shop'[s].alarm # "set"
        /\ Only(t) /\ Shuts(t, s)' /\ PcAt(t)' /\ Joins(t, s) /\ History
        /\ at[shop[s].owner] = s /\ t # shop[s].owner => Around'
    BY <1>0, <2>1, <2>2, <2>3, ClosingBegins
  <2>5. /\ at' \in [Players -> Hired \cup {None}] /\ at'[t] = None
        /\ \A q \in Players : q # t => at'[q] = at[q]
    BY <1>0, <2>1, <2>2 DEF Types
  <2>7. index' = index /\ nextId' = nextId /\ ticket' = ticket /\ package' = package
    BY <1>2 DEF Disconnect, Register
  <2> QED BY <2>1, <2>2, <2>4, <2>5, <2>7 DEF Shut
<1>3. CASE t \in Hired /\ Ring(t)
  <2> DEFINE s == t  sh == Evict(s, [shop EXCEPT ![s].alarm = "rung"])
  <2>1. s \in Hired /\ t \notin Owners /\ t # Console  BY <1>0, <1>3 DEF Types, Listing
  <2>2. Closes(t, s, 1, sh) /\ at' = EvictedFrom(s) /\ pc[t] = Idle /\ shop[s].alarm = "set"
    BY <1>3 DEF Ring, Free
  <2>3. /\ DOMAIN sh = Hired /\ sh = [r \in Hired |-> sh[r]]
        /\ \A r \in Hired \ {s} : sh[r] = shop[r]
        /\ sh[s] = [[shop[s] EXCEPT !.alarm = "rung"] EXCEPT !.visitors = {}]
    BY <1>0, <2>1 DEF Evict, Types, Listing
  <2> HIDE DEF sh, s
  <2>4. /\ SameShops /\ (\A r \in Hired : shop'[r].alarm = shop[r].alarm \/ shop'[r].alarm # "set")
        /\ shop'[s].alarm # "set"
        /\ Only(t) /\ Shuts(t, s)' /\ PcAt(t)' /\ Joins(t, s) /\ History
        /\ at[shop[s].owner] = s /\ t # shop[s].owner => Around'
    BY <1>0, <2>1, <2>2, <2>3, ClosingBegins
  <2>5. at' \in [Players -> Hired \cup {None}]  BY <1>0, <2>1, <2>2 DEF Types, EvictedFrom
  <2>6. ASSUME NEW q \in Players
        PROVE  at'[q] = at[q] \/ (at'[q] = None /\ shop[at[q]].avail)
    <3>1. EvictedFrom(s)[q] \in {at[q], None}  BY DEF EvictedFrom
    <3> QED BY <1>0, <2>1, <2>2, <3>1, Evicting
  <2>7. index' = index /\ nextId' = nextId /\ ticket' = ticket /\ package' = package
    BY <1>3 DEF Ring, Register
  <2> QED BY <2>1, <2>2, <2>4, <2>5, <2>6, <2>7 DEF Shut
<1>4. CASE t = Console /\ CloseAll
  <2>1. PICK i \in DOMAIN index : Closes(t, index[i], 0, shop)
    BY <1>4 DEF CloseAll
  <2>2. PICK s \in Hired : s = index[i] /\ t \notin Owners /\ Closes(t, s, 0, shop)
    BY <1>4, <2>1 DEF Orderly, Indexed
  <2>3. /\ DOMAIN shop = Hired /\ shop = [r \in Hired |-> shop[r]]
    BY <1>0 DEF Types, Listing
  <2>4. /\ SameShops /\ (\A r \in Hired : shop'[r].alarm = shop[r].alarm \/ shop'[r].alarm # "set")
        /\ shop'[s].alarm # "set"
        /\ Only(t) /\ Shuts(t, s)' /\ PcAt(t)' /\ Joins(t, s) /\ History
        /\ at[shop[s].owner] = s /\ t # shop[s].owner => Around'
    BY <1>0, <1>4, <2>1, <2>2, <2>3, ClosingBegins
  <2>5. at' \in [Players -> Hired \cup {None}] /\ at' = at /\ pc[t] = Idle
    BY <1>0, <1>4 DEF Types, CloseAll, Free
  <2>7. index' = index /\ nextId' = nextId /\ ticket' = ticket /\ package' = package
    BY <1>4 DEF CloseAll, Register
  <2> QED BY <2>2, <2>4, <2>5, <2>7 DEF Shut
<1> QED BY <1>1, <1>2, <1>3, <1>4

-----------------------------------------------------------------------------
(* Whoever leaves a merchant that was opened Works.                          *)

\* A merchant whose doors or visitors change is the same.
LEMMA Opening ==
    ASSUME Types, NEW s \in Hired, NEW n,
           shop' = [shop EXCEPT ![s] = n],
           DOMAIN n = Fields, n.owner = shop[s].owner, n.avail = shop[s].avail,
           n.can = shop[s].can, n.onMap = shop[s].onMap, n.storeid = shop[s].storeid,
           n.visitors \subseteq Buyers, n.alarm = shop[s].alarm
    PROVE  SameShops /\ \A r \in Hired : shop'[r].alarm = shop[r].alarm
<1>1. /\ DOMAIN shop' = Hired /\ shop'[s] = n /\ shop' = [r \in Hired |-> shop'[r]]
      /\ \A r \in Hired \ {s} : shop'[r] = shop[r]
  BY DEF Types, Listing
<1>2. ASSUME NEW r \in Hired \ {s} PROVE SameAt(r) /\ shop'[r].alarm = shop[r].alarm
  BY <1>1 DEF SameAt, Types, ShopAt
<1>3. SameAt(s)  BY <1>1 DEF SameAt
<1> QED BY <1>1, <1>2, <1>3 DEF SameShops

\* Leaving a merchant that was opened is work.
LEMMA LeavingWorks ==
    ASSUME Orderly, NEW p \in Players, at[p] # None, shop[at[p]].avail,
           Leave(p) \/ (p \in Owners /\ Disconnect(p))
    PROVE  Work(p)
<1>0. p \in Threads /\ Types /\ PcAt(p) /\ overlapped \in BOOLEAN
  BY DEF Threads, Players, Orderly, Types
<1>1. PICK s \in Hired : s = at[p]
  BY <1>0 DEF Types
<1>2. DOMAIN shop[s] = Fields /\ shop[s].visitors \subseteq Buyers
  BY <1>0 DEF Types, ShopAt
<1>3. /\ at' = [at EXCEPT ![p] = None] /\ pc[p] = Idle /\ pc' = pc /\ lapses' = lapses
      /\ index' = index /\ nextId' = nextId /\ ticket' = ticket /\ package' = package
      /\ overlapped' = overlapped
  BY DEF Leave, Disconnect, Free, Register
<1>4. SameShops /\ \A r \in Hired : shop'[r].alarm = shop[r].alarm
  <2>1. CASE Leave(p)
    <3>1. shop' = [shop EXCEPT ![s].visitors = @ \ {p}]  BY <1>1, <2>1 DEF Leave
    <3> DEFINE n == [shop[s] EXCEPT !.visitors = @ \ {p}]
    <3>2. shop' = [shop EXCEPT ![s] = n]  BY <3>1
    <3>3. /\ DOMAIN n = Fields /\ n.owner = shop[s].owner /\ n.avail = shop[s].avail
          /\ n.can = shop[s].can /\ n.onMap = shop[s].onMap /\ n.storeid = shop[s].storeid
          /\ n.visitors \subseteq Buyers /\ n.alarm = shop[s].alarm
      BY <1>2 DEF Fields
    <3> HIDE DEF n
    <3> QED BY <1>0, <3>2, <3>3, Opening
  <2>2. CASE Disconnect(p)
    BY <1>0, <1>1, <2>2, Minor DEF Disconnect
  <2> QED BY <2>1, <2>2
<1>5. Only(p) /\ pc'[p] = Idle  BY <1>0, <1>3 DEF Only, Types
<1>6. Visits(p)  BY <1>0, <1>1, <1>3, <1>4 DEF Visits, Types, SameShops, Hired
<1>7. pc[p].op = "idle"  BY <1>3 DEF Idle
<1> QED BY <1>0, <1>3, <1>4, <1>5, <1>6, <1>7, Working, PackagesStay DEF Shutting

-----------------------------------------------------------------------------
(* The parts of a closing: the goods are saved, then cleared.                *)

\* Thread t goes on with closing a merchant.
Advance(t) ==
    /\ SameShops /\ (\A s \in Hired : shop'[s].alarm = shop[s].alarm)
    /\ Only(t) /\ PcAt(t)' /\ pc[t].op \in {"close", "saved"}
    /\ pc'[t].s = pc[t].s /\ pc'[t].op \in Shutting \ {"close"}
    /\ at' = at /\ index' = index /\ nextId' = nextId /\ ticket' = ticket
    /\ overlapped' = overlapped /\ (Around' <=> Around) /\ (Struck' <=> Struck)
    /\ DOMAIN package' = Owners
    /\ \A o \in Owners : package'[o] = package[o] \/ o = shop[pc[t].s].owner

\* Saving and clearing are steps of closing.
LEMMA Advancing ==
    ASSUME Types, NEW t \in Threads, Save(t) \/ Clear(t)
    PROVE  Advance(t)
<1>1. pc[t].op \in {"close", "saved"} /\ pc[t].s \in Hired /\ PcAt(t)
  BY DEF Save, Clear, Types, PcAt, Shutting
<1> DEFINE s == pc[t].s
<1>2. SameShops /\ \A r \in Hired : shop'[r].alarm = shop[r].alarm
  <2>1. CASE Save(t)
    BY <2>1, Unchanged DEF Save, Goods
  <2>2. CASE Clear(t)
    BY <1>1, <2>2, Minor DEF Clear
  <2> QED BY <2>1, <2>2
<1>3. \E op \in Shutting \ {"close"} : pc' = [pc EXCEPT ![t] = [pc[t] EXCEPT !.op = op]]
  BY DEF Save, Clear, Go, Shutting
<1>4. PICK op \in Shutting \ {"close"} : pc' = [pc EXCEPT ![t] = [pc[t] EXCEPT !.op = op]]
  BY <1>3
<1>5. pc'[t] = In(op, pc[t].s, pc[t].l, pc[t].n, pc[t].v)  BY <1>1, <1>4 DEF Types, PcAt, In
<1>6. Only(t)  BY <1>4 DEF Only, Types
<1>7. PcAt(t)'  BY <1>1, <1>2, <1>5 DEF PcAt, In, SameShops, Hired, Shutting
<1>8. pc'[t].s = pc[t].s /\ pc'[t].op \in Shutting \ {"close"}  BY <1>5 DEF In
<1>9. /\ at' = at /\ index' = index /\ nextId' = nextId /\ ticket' = ticket
      /\ overlapped' = overlapped /\ (Around' <=> Around) /\ (Struck' <=> Struck)
  BY DEF Save, Clear, Register, Rest, Around, Struck
<1>10. /\ DOMAIN package' = Owners
       /\ \A o \in Owners : package'[o] = package[o] \/ o = shop[pc[t].s].owner
  BY DEF Save, Clear, Rest, Types
<1> QED BY <1>1, <1>2, <1>6, <1>7, <1>8, <1>9, <1>10 DEF Advance

\* Going on with closing keeps what holds always.
LEMMA AdvanceIsOrderly ==
    ASSUME Orderly, NEW t \in Threads, Advance(t)
    PROVE  Orderly'
<1> USE DEF Orderly, Advance, SameShops, SameAt
<1>0. ASSUME NEW u \in Threads, NEW s PROVE Shuts(u, s)' <=> Shuts(u, s)
  BY DEF Shuts, Only, Shutting
<1>1. Types'
  <2>1. Listing' /\ \A r \in Hired' : ShopAt(r)'  BY DEF Types, Listing, ShopAt, Hired
  <2>2. ASSUME NEW u \in Threads \ {t} PROVE PcAt(u)'
    BY DEF Types, PcAt, Only, Hired, In
  <2> QED BY <2>1, <2>2 DEF Types, Only, Hired
<1>2. Indexed'  BY DEF Indexed, Hired
<1>3. Inside'
  <2> SUFFICES ASSUME NEW p \in Players, at[p] # None, ~shop'[at[p]].avail
               PROVE  /\ p = shop'[at[p]].owner
                      /\ shop'[at[p]].can \/ Around
                      /\ (\E u \in Threads : Shuts(u, at[p])') => Around
    BY DEF Inside, Shuts
  <2>1. at[p] \in Hired  BY DEF Types
  <2> QED BY <1>0, <2>1 DEF Inside
<1>4. Unopened'
  <2> SUFFICES ASSUME NEW s \in Hired, ~shop[s].avail, shop[s].onMap
               PROVE  at[shop[s].owner] = s \/ Shuts(shop[s].owner, s)'
    BY DEF Unopened, Hired, Shuts
  <2>1. shop[s].owner \in Threads  BY DEF Types, ShopAt, Threads, Players
  <2> QED BY <1>0, <2>1 DEF Unopened
<1>5. Selling'  BY DEF Selling, Excuse, InIndex, Hired
<1> QED BY <1>1, <1>2, <1>3, <1>4, <1>5

\* So does it keep owners to one merchant or one package.
LEMMA AdvanceIsCareful ==
    ASSUME Orderly, Careful, NEW t \in Threads, Advance(t), lapses' \cap Lost = {}
    PROVE  Careful'
<1> USE DEF Advance, SameShops, SameAt, Orderly
<1>0. ASSUME NEW u \in Threads, NEW s PROVE Shuts(u, s)' <=> Shuts(u, s)
  BY DEF Shuts, Only, Shutting
<1> DEFINE s == pc[t].s
<1>1. s \in Hired /\ Shuts(t, s) /\ Shuts(t, s)' /\ s # 0 /\ shop[s].can
  BY DEF Types, PcAt, Shuts, Shutting, Careful, Standing, Listing
<1>2. Alone'  BY DEF Careful, Alone, Only
<1>3. Asking'
  <2> SUFFICES ASSUME NEW o \in Owners, pc'[o].op = "ask"
               PROVE  package'[o] = None
                      /\ \A u \in Threads : pc'[u].s # 0 => shop'[pc'[u].s].owner # o
    BY DEF Asking
  <2>1. o \in Threads /\ o # t /\ pc[o].op = "ask"  BY DEF Threads, Players, Only, Shutting
  <2>2. package[o] = None /\ \A u \in Threads : pc[u].s # 0 => shop[pc[u].s].owner # o
    BY <2>1 DEF Careful, Asking
  <2>3. \A u \in Threads : pc'[u].s = pc[u].s /\ pc[u].s \in Hired \cup {0}
    BY DEF Only, Types, PcAt
  <2> QED BY <1>1, <2>2, <2>3
<1>4. \A r \in Hired' : TradingAt(r)'
  <2> SUFFICES ASSUME NEW r \in Hired PROVE TradingAt(r)'
    BY DEF Hired
  <2>1. TradingAt(r) /\ shop[r].owner \in Owners  BY DEF Careful, Types, ShopAt
  <2>2. ASSUME NEW u \in Threads, Shuts(u, r), pc[u].op # "close"
        PROVE  Shuts(u, r)' /\ pc'[u].op # "close"
    BY <2>2, <1>0 DEF Only, Shutting
  <2>3. ASSUME shop[r].can, package'[shop[r].owner] # None
        PROVE  \E u \in Threads : Shuts(u, r)' /\ pc'[u].op # "close"
    <3>1. CASE package'[shop[r].owner] = package[shop[r].owner]
      BY <2>1, <2>2, <2>3, <3>1 DEF TradingAt
    <3>2. CASE shop[r].owner = shop[s].owner
      BY <1>1, <2>3, <3>2 DEF Careful, OneEach
    <3> QED BY <2>1, <3>1, <3>2
  <2> QED BY <2>1, <2>3 DEF TradingAt, InIndex
<1>5. OneEach'  BY DEF Careful, OneEach, Hired
<1>6. Standing'
  <2>1. \A i \in DOMAIN index' : shop'[index'[i]].can  BY DEF Careful, Standing, Indexed
  <2>2. ASSUME NEW o \in Owners, Owns(o)' PROVE shop'[at'[o]].can
    BY <2>2 DEF Careful, Standing, Owns, Players, Types
  <2>3. ASSUME NEW u \in Threads, NEW r \in Hired, Shuts(u, r)'
        PROVE  shop'[r].can /\ shop'[r].alarm # "set" /\ at'[shop'[r].owner] # r
    BY <1>0, <2>3 DEF Careful, Standing
  <2> QED BY <2>1, <2>2, <2>3 DEF Standing, Hired
<1>7. \A o \in ticket' : package'[o] = None  BY <1>1 DEF Careful, TradingAt, Types
<1> HIDE DEF Advance
<1> QED BY <1>2, <1>3, <1>4, <1>5, <1>6, <1>7 DEF Careful

-----------------------------------------------------------------------------
(* A merchant stops trading and leaves the map.                              *)

\* Of the merchants only s changes.
OnlyShop(s) ==
    /\ DOMAIN shop' = Hired /\ shop' = [r \in Hired |-> shop'[r]]
    /\ \A r \in Hired \ {s} : shop'[r] = shop[r]

\* Merchant s is closed for good.
GoneAt(s) ==
    /\ OnlyShop(s)
    /\ DOMAIN shop'[s] = Fields /\ ~shop'[s].can /\ ~shop'[s].onMap
    /\ shop'[s].owner = shop[s].owner /\ shop'[s].avail = shop[s].avail
    /\ shop'[s].storeid = shop[s].storeid /\ shop'[s].visitors = shop[s].visitors
    /\ shop'[s].can = FALSE /\ shop'[s].onMap = FALSE
    /\ shop'[s].alarm = shop[s].alarm \/ shop'[s].alarm # "set"

\* Closing a merchant for good, its alarm put off.
LEMMA Gone ==
    ASSUME Types, NEW s \in Hired, NEW v, v = shop[s].alarm \/ v # "set",
           shop' = [shop EXCEPT ![s] =
                     [[[shop[s] EXCEPT !.alarm = v] EXCEPT !.can = FALSE] EXCEPT !.onMap = FALSE]]
    PROVE  GoneAt(s)
<1> DEFINE n == [[[shop[s] EXCEPT !.alarm = v] EXCEPT !.can = FALSE] EXCEPT !.onMap = FALSE]
<1>1. DOMAIN shop = Hired /\ shop = [r \in Hired |-> shop[r]] /\ DOMAIN shop[s] = Fields
  BY DEF Types, Listing, ShopAt
<1>2. /\ DOMAIN n = Fields /\ n.can = FALSE /\ n.onMap = FALSE
      /\ n.owner = shop[s].owner /\ n.avail = shop[s].avail
      /\ n.storeid = shop[s].storeid /\ n.visitors = shop[s].visitors /\ n.alarm = v
  BY <1>1 DEF Fields
<1> HIDE DEF n
<1>3. shop' = [shop EXCEPT ![s] = n]  BY DEF n
<1>4. OnlyShop(s) /\ shop'[s] = n  BY <1>1, <1>3 DEF OnlyShop
<1> QED BY <1>2, <1>4 DEF GoneAt

\* A record does not change when a field gets the value it has.
LEMMA SameField ==
    ASSUME Types, NEW s \in Hired,
           shop' = [shop EXCEPT ![s].can = FALSE, ![s].onMap = FALSE]
    PROVE  GoneAt(s)
<1> DEFINE n == [[shop[s] EXCEPT !.can = FALSE] EXCEPT !.onMap = FALSE]
<1>1. DOMAIN shop = Hired /\ shop = [r \in Hired |-> shop[r]] /\ DOMAIN shop[s] = Fields
  BY DEF Types, Listing, ShopAt
<1>2. /\ DOMAIN n = Fields /\ n.can = FALSE /\ n.onMap = FALSE
      /\ n.owner = shop[s].owner /\ n.avail = shop[s].avail
      /\ n.storeid = shop[s].storeid /\ n.visitors = shop[s].visitors
      /\ n.alarm = shop[s].alarm
  BY <1>1 DEF Fields
<1>3. shop' = [shop EXCEPT ![s] = n]  BY <1>1
<1> HIDE DEF n
<1>4. OnlyShop(s) /\ shop'[s] = n  BY <1>1, <1>3 DEF OnlyShop
<1> QED BY <1>2, <1>4 DEF GoneAt

\* A merchant closed for good keeps its types.
LEMMA GoneTypes ==
    ASSUME Types, NEW s \in Hired, GoneAt(s)
    PROVE  Listing' /\ \A r \in Hired' : ShopAt(r)'
BY DEF Types, Listing, ShopAt, Hired, GoneAt, OnlyShop

\* Striking a merchant off keeps what holds always.
LEMMA UnregisterIsOrderly ==
    ASSUME Orderly, NEW t \in Threads, Unregister(t)
    PROVE  Orderly'
<1>1. PICK s \in Hired : s = pc[t].s /\ pc[t].op = "cleared" /\ (t # Console => pc[t].v = 1)
  BY DEF Orderly, Types, PcAt, Unregister, Shutting
<1>2. Types /\ GoneAt(s)  BY <1>1, SameField DEF Unregister, Orderly
<1>3. Only(t) /\ pc'[t] = Idle  BY <1>2, Going DEF Unregister, Done
<1>4. /\ at' = at /\ nextId' = nextId /\ ticket' = ticket /\ package' = package
      /\ overlapped' = overlapped /\ lapses \subseteq lapses'
  BY DEF Unregister
<1>5. /\ DOMAIN index' \subseteq DOMAIN index
      /\ \A i \in DOMAIN index' : index'[i] = index[i] /\ index[i] # s
      /\ shop[s].avail => \A i \in DOMAIN index : i \in DOMAIN index' \/ index[i] = s
  <2>1. \A i \in DOMAIN index : /\ index[i] \in Hired /\ shop[index[i]].avail
                               /\ shop[index[i]].storeid = i
    BY DEF Orderly, Indexed
  <2>2. \A r \in Hired : shop[s].avail /\ shop[r].avail
                        /\ shop[s].storeid = shop[r].storeid => s = r
    BY DEF Orderly, Indexed
  <2>3. CASE t = Console
    <3>1. index' = [i \in {j \in DOMAIN index : index[j] # s} |-> index[i]]
      BY <1>1, <2>3 DEF Unregister
    <3> QED BY <3>1
  <2>4. CASE t # Console
    <3>1. index' = [i \in DOMAIN index \ {shop[s].storeid} |-> index[i]]
      BY <1>1, <2>4 DEF Unregister
    <3> QED BY <2>1, <2>2, <3>1
  <2> QED BY <2>3, <2>4
<1> USE DEF GoneAt, OnlyShop
<1>6. Types'
  <2>1. Listing' /\ \A r \in Hired' : ShopAt(r)'  BY <1>2, GoneTypes
  <2>2. ASSUME NEW u \in Threads \ {t} PROVE PcAt(u)'
    BY <1>2, <1>3, <1>4 DEF Types, PcAt, Only, Hired, In
  <2>3. PcAt(t)'  BY <1>2, <1>3 DEF PcAt, Idle, In, Shutting, Busy
  <2> QED BY <1>2, <1>3, <1>4, <2>1, <2>2, <2>3 DEF Types, Only, Hired
<1>7. Indexed'  BY <1>2, <1>4, <1>5 DEF Indexed, Hired, Orderly
<1>8. Inside'
  <2> SUFFICES ASSUME NEW p \in Players, at[p] # None, ~shop'[at[p]].avail
               PROVE  /\ p = shop'[at[p]].owner
                      /\ shop'[at[p]].can \/ Around'
                      /\ (\E u \in Threads : Shuts(u, at[p])') => Around'
    BY <1>4 DEF Inside, Shuts
  <2>1. at[p] \in Hired /\ ~shop[at[p]].avail  BY <1>2 DEF Types
  <2>2. /\ p = shop[at[p]].owner
        /\ shop[at[p]].can \/ Around
        /\ (\E u \in Threads : Shuts(u, at[p])) => Around
    BY <2>1 DEF Inside, Orderly
  <2>3. Around => Around'  BY <1>4 DEF Around
  <2>4. \A u \in Threads : Shuts(u, at[p])' => Shuts(u, at[p])
    BY <1>3, <1>4 DEF Shuts, Only, Shutting, Idle
  <2>5. at[p] = s => Around  BY <1>1, <2>2 DEF Shuts, Shutting
  <2> QED BY <1>2, <2>1, <2>2, <2>3, <2>4, <2>5
<1>9. Unopened'
  <2> SUFFICES ASSUME NEW r \in Hired, ~shop'[r].avail, shop'[r].onMap
               PROVE  at[shop'[r].owner] = r \/ Shuts(shop[r].owner, r)'
    BY <1>2, <1>4 DEF Unopened, Hired, Shuts
  <2>1. r # s /\ shop'[r] = shop[r] /\ shop[r].owner \in Threads
    BY <1>2 DEF Types, ShopAt, Threads, Players
  <2>2. at[shop[r].owner] = r \/ Shuts(shop[r].owner, r)  BY <2>1 DEF Unopened, Orderly
  <2>3. Shuts(shop[r].owner, r) => Shuts(shop[r].owner, r)'
    BY <1>1, <1>3, <2>1 DEF Shuts, Only
  <2> QED BY <2>1, <2>2, <2>3
<1>10. Selling'
  <2>1. ASSUME NEW r \in Hired, shop'[r].avail, shop'[r].can PROVE InIndex(r)' \/ Excuse'
    <3>1. r # s /\ shop'[r] = shop[r]  BY <1>2, <2>1
    <3>2. CASE Excuse
      <4>1. CASE Around
        BY <4>1, <1>4 DEF Excuse, Around
      <4>2. ASSUME NEW q \in Hired, ~shop[q].avail, ~shop[q].can PROVE Excuse'
        BY <1>2, <4>2 DEF Excuse, Hired
      <4> QED BY <3>2, <4>1, <4>2 DEF Excuse
    <3>3. CASE InIndex(r)
      <4>1. CASE ~shop[s].avail
        BY <1>2, <4>1 DEF Excuse, Hired
      <4>2. CASE shop[s].avail
        BY <1>5, <3>1, <3>3, <4>2 DEF InIndex
      <4> QED BY <4>1, <4>2 DEF Types, ShopAt
    <3> QED BY <2>1, <3>1, <3>2, <3>3 DEF Selling, Orderly
  <2> QED BY <1>2, <2>1 DEF Selling, Hired
<1> QED BY <1>6, <1>7, <1>8, <1>9, <1>10 DEF Orderly

\* What is left when s, which nobody trades at any more, is gone.
LEMMA GoneIsCareful ==
    ASSUME Orderly, Careful, Orderly', NEW s \in Hired, GoneAt(s), Nice',
           shop[s].alarm # "set" \/ shop'[s].alarm # "set",
           \A u \in Threads : pc'[u] = pc[u] \/ pc'[u] = Idle,
           \A u \in Threads : ~Shuts(u, s)',
           \A u \in Threads, r \in Hired \ {s} : Shuts(u, r)' <=> Shuts(u, r),
           \A o \in Owners : at'[o] = at[o] \/ at'[o] = None,
           \A o \in Owners : shop[s].owner = o => at'[o] # s,
           \A r \in Hired \ {s} : InIndex(r) /\ shop[r].avail => InIndex(r)',
           \A i \in DOMAIN index' : i \in DOMAIN index /\ index'[i] = index[i] /\ index[i] # s,
           ticket' = ticket, package' = package, lapses' \cap Lost = {}
    PROVE  Careful'
<1> USE DEF GoneAt, OnlyShop
<1>0. /\ \A t \in Threads : pc[t].s \in Hired \cup {0} /\ pc'[t].s \in {0, pc[t].s}
      /\ \A r \in Hired : shop[r].owner \in Owners
  BY DEF Orderly, Types, PcAt, ShopAt, Idle
<1>1. Alone'  BY <1>0 DEF Careful, Alone
<1>2. Asking'
  <2> SUFFICES ASSUME NEW o \in Owners, pc'[o].op = "ask"
               PROVE  package'[o] = None
                      /\ \A u \in Threads : pc'[u].s # 0 => shop'[pc'[u].s].owner # o
    BY DEF Asking
  <2>1. o \in Threads /\ pc[o].op = "ask"  BY DEF Threads, Players, Idle
  <2>2. package[o] = None /\ \A u \in Threads : pc[u].s # 0 => shop[pc[u].s].owner # o
    BY <2>1 DEF Careful, Asking
  <2> QED BY <1>0, <2>2
<1>3. \A r \in Hired' : TradingAt(r)'
  <2> SUFFICES ASSUME NEW r \in Hired PROVE TradingAt(r)'
    BY DEF Hired
  <2>1. TradingAt(r)  BY DEF Careful
  <2>2. CASE r = s
    BY <2>1, <2>2 DEF TradingAt
  <2>3. CASE r # s
    <3>1. shop'[r] = shop[r]  BY <2>3
    <3>2. ASSUME NEW u \in Threads, Shuts(u, r), pc[u].op # "close"
          PROVE  Shuts(u, r)' /\ pc'[u].op # "close"
      BY <2>3, <3>2, <1>0 DEF Idle
    <3> QED BY <2>1, <2>3, <3>1, <3>2 DEF TradingAt
  <2> QED BY <2>2, <2>3
<1>4. OneEach'  BY DEF Careful, OneEach, Hired
<1>5. Standing'
  <2>1. \A i \in DOMAIN index' : shop'[index'[i]].can
    BY DEF Careful, Standing, Indexed, Orderly
  <2>2. ASSUME NEW o \in Owners, Owns(o)' PROVE shop'[at'[o]].can
    <3>1. at[o] \in Hired /\ at'[o] = at[o]  BY <2>2 DEF Owns, Orderly, Types, Players
    <3>2. at[o] # s  BY <2>2, <3>1 DEF Owns
    <3> QED BY <2>2, <3>1, <3>2 DEF Owns, Careful, Standing, Orderly, Types, Players
  <2>3. ASSUME NEW u \in Threads, NEW r \in Hired, Shuts(u, r)'
        PROVE  shop'[r].can /\ shop'[r].alarm # "set" /\ at'[shop'[r].owner] # r
    <3>1. r # s /\ Shuts(u, r) /\ shop'[r] = shop[r] /\ shop[r].owner \in Owners /\ r # None
      BY <2>3, <1>0 DEF Orderly, Types, Listing
    <3> QED BY <3>1 DEF Careful, Standing
  <2> QED BY <2>1, <2>2, <2>3 DEF Standing, Hired
<1> QED BY <1>1, <1>2, <1>3, <1>4, <1>5 DEF Careful

\* So does it keep owners to one merchant or one package.
LEMMA UnregisterIsCareful ==
    ASSUME Orderly, Careful, Orderly', NEW t \in Threads, Unregister(t), Nice'
    PROVE  Careful'
<1>1. PICK s \in Hired : s = pc[t].s /\ pc[t].op = "cleared" /\ (t # Console => pc[t].v = 1)
  BY DEF Orderly, Types, PcAt, Unregister, Shutting
<1>2. Types /\ GoneAt(s) /\ Shuts(t, s)
  BY <1>1, SameField DEF Unregister, Orderly, Shuts, Shutting
<1>3. Only(t) /\ pc'[t] = Idle  BY <1>2, Going DEF Unregister, Done
<1>4. shop[s].alarm # "set" /\ at[shop[s].owner] # s  BY <1>2 DEF Careful, Standing
<1>5. s # 0  BY <1>2 DEF Types, Listing
<1>6. \A u \in Threads : pc'[u] = pc[u] \/ pc'[u] = Idle  BY <1>3 DEF Only
<1>7. /\ \A u \in Threads : ~Shuts(u, s)'
      /\ \A u \in Threads, r \in Hired \ {s} : Shuts(u, r)' <=> Shuts(u, r)
  BY <1>1, <1>3, <1>5 DEF Only, Shuts, Idle, Shutting, Careful, Alone
<1>8. \A i \in DOMAIN index : /\ index[i] \in Hired /\ shop[index[i]].avail
                             /\ shop[index[i]].storeid = i
  BY DEF Orderly, Indexed
<1>9. index' = index \/ s \in {index[i] : i \in DOMAIN index \ DOMAIN index'}
  BY <1>1 DEF Unregister, Nice, Struck
<1>10. /\ \A r \in Hired \ {s} : InIndex(r) /\ shop[r].avail => InIndex(r)'
       /\ \A i \in DOMAIN index' : i \in DOMAIN index /\ index'[i] = index[i] /\ index[i] # s
  <2>1. CASE t = Console
    <3>1. index' = [i \in {j \in DOMAIN index : index[j] # s} |-> index[i]]
      BY <1>1, <2>1 DEF Unregister
    <3> QED BY <1>2, <3>1 DEF InIndex, GoneAt, OnlyShop
  <2>2. CASE t # Console
    <3>1. index' = [i \in DOMAIN index \ {shop[s].storeid} |-> index[i]]
      BY <1>1, <2>2 DEF Unregister
    <3>2. ASSUME NEW r \in Hired \ {s}, InIndex(r) PROVE InIndex(r)'
      BY <1>2, <1>9, <3>1, <3>2 DEF InIndex, GoneAt, OnlyShop
    <3> QED BY <1>8, <3>1, <3>2
  <2> QED BY <2>1, <2>2
<1>11. at' = at /\ ticket' = ticket /\ package' = package  BY DEF Unregister
<1>12. lapses' \cap Lost = {}  BY <1>1 DEF Unregister, Careful, Lost
<1> QED BY <1>2, <1>4, <1>6, <1>7, <1>10, <1>11, <1>12, GoneIsCareful

\* An owner leaves the merchant he has not opened.
LEMMA LeftEarly ==
    ASSUME Orderly, NEW p \in Players, Leave(p), ~shop[at[p]].avail
    PROVE  \E s \in Hired :
             /\ GoneAt(s) /\ s = at[p] /\ s # None /\ shop[s].owner = p /\ ~shop[s].avail
             /\ shop'[s].alarm # "set"
             /\ at' = [at EXCEPT ![p] = None] /\ pc[p] = Idle /\ pc' = pc
             /\ index' = index /\ nextId' = nextId /\ ticket' = ticket /\ package' = package
             /\ overlapped' = overlapped
             /\ lapses' \in {lapses, lapses \cup {"left before it was opened"}}
<1>1. PICK s \in Hired : s = at[p] /\ s # None
  BY DEF Orderly, Types, Leave
<1>2. Types /\ shop[s].owner = p /\ ~shop[s].avail  BY <1>1 DEF Orderly, Inside
<1>3. shop' = [Silenced(shop, s) EXCEPT ![s].can = FALSE, ![s].onMap = FALSE]
  BY <1>1, <1>2 DEF Leave
<1> DEFINE v == IF shop[s].alarm = "set" THEN "off" ELSE shop[s].alarm
           n == [[[shop[s] EXCEPT !.alarm = v] EXCEPT !.can = FALSE] EXCEPT !.onMap = FALSE]
<1>4. DOMAIN shop = Hired /\ shop = [r \in Hired |-> shop[r]] /\ DOMAIN shop[s] = Fields
  BY <1>2 DEF Types, Listing, ShopAt
<1>5. shop' = [shop EXCEPT ![s] = n]
  <2>1. Silenced(shop, s) = [shop EXCEPT ![s] = [shop[s] EXCEPT !.alarm = v]]
    BY <1>4 DEF Silenced
  <2> QED BY <1>3, <1>4, <2>1
<1>6. v # "set" OBVIOUS
<1> HIDE DEF v
<1>7. GoneAt(s)  BY <1>2, <1>5, <1>6, Gone
<1>8. n.alarm = v  BY <1>4 DEF Fields
<1>9. shop'[s].alarm # "set"
  <2> HIDE DEF n
  <2> QED BY <1>4, <1>5, <1>6, <1>8
<1>10. /\ at' = [at EXCEPT ![p] = None] /\ pc[p] = Idle /\ pc' = pc
       /\ index' = index /\ nextId' = nextId /\ ticket' = ticket /\ package' = package
       /\ overlapped' = overlapped
  BY DEF Leave, Free, Register
<1>11. lapses' \in {lapses, lapses \cup {"left before it was opened"}}
  BY <1>1, <1>2 DEF Leave
<1> QED BY <1>1, <1>2, <1>7, <1>9, <1>10, <1>11

\* Leaving a merchant not yet opened keeps what holds always.
LEMMA LeftEarlyIsOrderly ==
    ASSUME Orderly, NEW p \in Players, Leave(p), ~shop[at[p]].avail
    PROVE  Orderly'
<1>1. PICK s \in Hired :
        /\ GoneAt(s) /\ s = at[p] /\ s # None /\ shop[s].owner = p /\ ~shop[s].avail
        /\ shop'[s].alarm # "set"
        /\ at' = [at EXCEPT ![p] = None] /\ pc[p] = Idle /\ pc' = pc
        /\ index' = index /\ nextId' = nextId /\ ticket' = ticket /\ package' = package
        /\ overlapped' = overlapped
        /\ lapses' \in {lapses, lapses \cup {"left before it was opened"}}
  BY LeftEarly
<1> USE DEF GoneAt, OnlyShop
<1>2. Types  BY DEF Orderly
<1>3. Around' <=> Around  BY <1>1 DEF Around
<1>4. \A q \in Players : at'[q] = IF q = p THEN None ELSE at[q]  BY <1>1, <1>2 DEF Types
<1>5. Types'
  <2>1. Listing' /\ \A r \in Hired' : ShopAt(r)'  BY <1>1, <1>2, GoneTypes
  <2>2. ASSUME NEW u \in Threads PROVE PcAt(u)'
    BY <1>1, <1>2, <1>4 DEF Types, PcAt, Hired, Players
  <2>3. at' \in [Players -> Hired' \cup {None}]  BY <1>1, <1>2 DEF Types, Hired
  <2> QED BY <1>1, <1>2, <2>1, <2>2, <2>3 DEF Types
<1>6. Indexed'
  <2>1. DOMAIN shop' = Hired /\ \A r \in Hired :
          shop'[r].avail = shop[r].avail /\ shop'[r].storeid = shop[r].storeid
    BY <1>1
  <2> HIDE DEF GoneAt
  <2> QED BY <1>1, <2>1 DEF Indexed, Hired, Orderly
<1>7. Inside'
  <2> SUFFICES ASSUME NEW q \in Players, at'[q] # None, ~shop'[at'[q]].avail
               PROVE  /\ q = shop'[at'[q]].owner
                      /\ shop'[at'[q]].can \/ Around'
                      /\ (\E u \in Threads : Shuts(u, at[q])') => Around'
    BY DEF Inside, Shuts
  <2>1. q # p /\ at'[q] = at[q] /\ at[q] \in Hired  BY <1>2, <1>4 DEF Types
  <2>2. at[q] # s
    <3>1. ASSUME at[q] = s PROVE q = shop[s].owner
      BY <1>1, <2>1, <3>1 DEF Inside, Orderly
    <3> QED BY <1>1, <2>1, <3>1
  <2>3. shop'[at[q]] = shop[at[q]]  BY <1>1, <2>1, <2>2
  <2>4. \A u \in Threads : Shuts(u, at[q])' <=> Shuts(u, at[q])  BY <1>1, <2>1 DEF Shuts
  <2> QED BY <1>3, <2>1, <2>3, <2>4 DEF Inside, Orderly
<1>8. Unopened'
  <2> SUFFICES ASSUME NEW r \in Hired, ~shop'[r].avail, shop'[r].onMap
               PROVE  at'[shop'[r].owner] = r \/ Shuts(shop[r].owner, r)'
    BY <1>1 DEF Unopened, Hired, Shuts
  <2>1. r # s /\ shop'[r] = shop[r] /\ shop[r].owner \in Players
    BY <1>1, <1>2 DEF Types, ShopAt, Players
  <2>2. at[shop[r].owner] = r \/ Shuts(shop[r].owner, r)  BY <2>1 DEF Unopened, Orderly
  <2>3. Shuts(shop[r].owner, r) => Shuts(shop[r].owner, r)'  BY <1>1, <2>1 DEF Shuts
  <2>4. at[shop[r].owner] = r => at'[shop[r].owner] = r  BY <1>1, <1>4, <2>1
  <2> QED BY <2>1, <2>2, <2>3, <2>4
<1>9. Selling'  BY <1>1, <1>2 DEF Selling, Excuse, Hired
<1> QED BY <1>5, <1>6, <1>7, <1>8, <1>9 DEF Orderly

\* So does it keep owners to one merchant or one package.
LEMMA LeftEarlyIsCareful ==
    ASSUME Orderly, Careful, NEW p \in Players, Leave(p), ~shop[at[p]].avail, Nice'
    PROVE  Careful'
<1>1. PICK s \in Hired :
        /\ GoneAt(s) /\ s = at[p] /\ s # None /\ shop[s].owner = p /\ ~shop[s].avail
        /\ shop'[s].alarm # "set"
        /\ at' = [at EXCEPT ![p] = None] /\ pc[p] = Idle /\ pc' = pc
        /\ index' = index /\ nextId' = nextId /\ ticket' = ticket /\ package' = package
        /\ overlapped' = overlapped
        /\ lapses' \in {lapses, lapses \cup {"left before it was opened"}}
  BY LeftEarly
<1>2. Types /\ Orderly'  BY LeftEarlyIsOrderly DEF Orderly
<1>3. /\ \A u \in Threads : ~Shuts(u, s)'
      /\ \A u \in Threads, r \in Hired \ {s} : Shuts(u, r)' <=> Shuts(u, r)
  <2>1. ~Around  BY <1>1 DEF Nice, Around
  <2>2. \A u \in Threads : ~Shuts(u, s)  BY <1>1, <2>1 DEF Inside, Orderly
  <2> QED BY <1>1, <2>2 DEF Shuts
<1>4. \A q \in Players : at'[q] = IF q = p THEN None ELSE at[q]  BY <1>1, <1>2 DEF Types
<1>5. \A r \in Hired \ {s} : InIndex(r) => InIndex(r)'
  BY <1>1 DEF InIndex, GoneAt, OnlyShop
<1>6. \A i \in DOMAIN index' : i \in DOMAIN index /\ index'[i] = index[i] /\ index[i] # s
  BY <1>1 DEF Orderly, Indexed
<1>7. lapses' \cap Lost = {}  BY <1>1 DEF Careful, Lost
<1>8. /\ \A o \in Owners : at'[o] = at[o] \/ at'[o] = None
      /\ \A o \in Owners : shop[s].owner = o => at'[o] # s
  BY <1>1, <1>4 DEF Players
<1> QED BY <1>1, <1>2, <1>3, <1>5, <1>6, <1>7, <1>8, GoneIsCareful

-----------------------------------------------------------------------------
(* The two questions before a merchant is hired.                             *)

\* Owner o asks whether he may hire a merchant.
Asks(o) ==
    /\ shop' = shop /\ at' = at /\ index' = index /\ nextId' = nextId
    /\ package' = package /\ lapses' = lapses /\ ticket' \subseteq Owners
    /\ overlapped' \in BOOLEAN /\ (overlapped => overlapped')
    /\ Only(o) /\ pc[o].op \in {"idle", "ask"} /\ pc[o].s = 0 /\ at[o] = None
    /\ \/ pc'[o] = Idle
       \/ pc'[o] = In("ask", 0, 0, 0, 0) /\ ticket' = ticket

\* Both questions are of this kind.
LEMMA Asking1 ==
    ASSUME Types, NEW o \in Owners, AskPackage(o) \/ AskMerchant(o)
    PROVE  Asks(o) /\ o \in Threads /\ o \in Players
<1>1. o \in Threads /\ o \in Players /\ PcAt(o)  BY DEF Threads, Players, Types
<1>2. CASE AskPackage(o)
  <2>1. Only(o) /\ pc'[o] = In("ask", 0, 0, 0, 0)  BY <1>1, <1>2, Going DEF AskPackage
  <2>2. pc[o].op = "idle" /\ pc[o].s = 0  BY <1>2 DEF AskPackage, Free, Idle
  <2>3. overlapped' \in BOOLEAN /\ (overlapped => overlapped')
    BY <1>2 DEF AskPackage, Types
  <2> QED BY <1>1, <1>2, <2>1, <2>2, <2>3 DEF Asks, AskPackage, Goods, Register, Rest, Types
<1>3. CASE AskMerchant(o)
  <2>1. Only(o) /\ pc'[o] = Idle  BY <1>1, <1>3, Going DEF AskMerchant, Done
  <2>2. pc[o].op = "ask" /\ pc[o].s = 0 /\ at[o] = None  BY <1>1, <1>3 DEF AskMerchant, PcAt
  <2> QED BY <1>1, <1>3, <2>1, <2>2 DEF Asks, AskMerchant, Goods, Register, Types
<1> QED BY <1>2, <1>3

\* Asking changes nobody's part at a merchant.
LEMMA AsksAlike ==
    ASSUME Types, NEW o \in Owners, Asks(o), NEW u \in Threads, NEW s
    PROVE  pc'[u].s = pc[u].s /\ (Shuts(u, s)' <=> Shuts(u, s))
           /\ (Shuts(u, s) => pc'[u] = pc[u])
BY DEF Asks, Shuts, Only, Idle, In, Shutting

\* Asking keeps what holds always.
LEMMA AsksIsOrderly ==
    ASSUME Orderly, NEW o \in Owners, Asks(o)
    PROVE  Orderly'
<1>0. Types /\ o \in Threads  BY DEF Orderly, Threads, Players
<1>1. Types'
  <2>1. Listing' /\ \A r \in Hired' : ShopAt(r)'
    BY <1>0 DEF Types, Listing, ShopAt, Hired, Asks
  <2>2. ASSUME NEW u \in Threads \ {o} PROVE PcAt(u)'
    BY <1>0 DEF Types, PcAt, Only, Hired, In, Asks
  <2>3. PcAt(o)'  BY DEF PcAt, Idle, In, Shutting, Busy, Asks
  <2> QED BY <1>0, <2>1, <2>2, <2>3 DEF Types, Only, Hired, Asks
<1>2. Indexed'  BY DEF Indexed, Hired, Orderly, Asks
<1>3. Inside'
  <2> SUFFICES ASSUME NEW p \in Players, at[p] # None, ~shop[at[p]].avail
               PROVE  /\ p = shop[at[p]].owner
                      /\ shop[at[p]].can \/ Around
                      /\ (\E u \in Threads : Shuts(u, at[p])') => Around
    BY DEF Inside, Shuts, Asks, Around
  <2> QED BY <1>0, AsksAlike DEF Inside, Orderly, Asks
<1>4. Unopened'
  <2> SUFFICES ASSUME NEW r \in Hired, ~shop[r].avail, shop[r].onMap
               PROVE  at[shop[r].owner] = r \/ Shuts(shop[r].owner, r)'
    BY DEF Unopened, Hired, Shuts, Asks
  <2>1. shop[r].owner \in Threads  BY <1>0 DEF Types, ShopAt, Threads, Players
  <2>2. shop'[r] = shop[r]  BY DEF Asks
  <2>3. PICK q \in Threads : q = shop[r].owner
    BY <2>1
  <2>4. Shuts(q, r)' <=> Shuts(q, r)  BY <1>0, AsksAlike
  <2> QED BY <2>2, <2>3, <2>4 DEF Unopened, Orderly
<1>5. Selling'  BY DEF Selling, Excuse, InIndex, Hired, Orderly, Asks, Around
<1> QED BY <1>1, <1>2, <1>3, <1>4, <1>5 DEF Orderly

\* Neither question changes what the owners' merchants have.
LEMMA AsksIsCareful ==
    ASSUME Orderly, Careful, NEW o \in Owners, Asks(o),
           \A r \in Hired : shop[r].can => shop[r].owner \notin ticket'
    PROVE  /\ Alone' /\ (\A r \in Hired' : TradingAt(r)') /\ OneEach' /\ Standing'
           /\ lapses' \cap Lost = {}
<1>0. Types  BY DEF Orderly
<1>1. Alone'  BY <1>0, AsksAlike DEF Careful, Alone
<1>2. \A r \in Hired' : TradingAt(r)'
  <2> SUFFICES ASSUME NEW r \in Hired PROVE TradingAt(r)'
    BY DEF Hired, Asks
  <2>1. TradingAt(r)  BY DEF Careful
  <2>2. ASSUME NEW u \in Threads, Shuts(u, r), pc[u].op # "close"
        PROVE  Shuts(u, r)' /\ pc'[u].op # "close"
    BY <1>0, <2>2, AsksAlike
  <2> QED BY <2>1, <2>2 DEF TradingAt, InIndex, Asks
<1>3. OneEach'  BY DEF Careful, OneEach, Hired, Asks
<1>4. Standing'
  <2>1. \A u \in Threads, s \in Hired : Shuts(u, s)' <=> Shuts(u, s)  BY <1>0, AsksAlike
  <2>2. \A q \in Owners : Owns(q)' <=> Owns(q)  BY DEF Owns, Asks
  <2> QED BY <2>1, <2>2 DEF Careful, Standing, Hired, Asks
<1> QED BY <1>1, <1>2, <1>3, <1>4 DEF Careful, Asks

\* The question for a package keeps owners to one merchant or one package.
LEMMA AskPackageIsCareful ==
    ASSUME Orderly, Careful, NEW o \in Owners, AskPackage(o), Nice'
    PROVE  Careful'
<1>1. Types /\ Asks(o) /\ o \in Threads  BY Asking1 DEF Orderly
<1>2. ticket' = ticket /\ package[o] = None /\ package' = package /\ shop' = shop
  BY DEF AskPackage, Rest, Goods
<1>3. \A u \in Threads : pc[u].s # 0 => shop[pc[u].s].owner # o  BY DEF AskPackage, Nice
<1>4. Alone' /\ (\A r \in Hired' : TradingAt(r)') /\ OneEach' /\ Standing' /\ lapses' \cap Lost = {}
  BY <1>1, <1>2, AsksIsCareful DEF Careful, TradingAt
<1>5. Asking'
  <2> SUFFICES ASSUME NEW q \in Owners, pc'[q].op = "ask"
               PROVE  package[q] = None
                      /\ \A u \in Threads : pc'[u].s # 0 => shop[pc'[u].s].owner # q
    BY <1>2 DEF Asking
  <2>1. \A u \in Threads : pc'[u].s = pc[u].s  BY <1>1, AsksAlike
  <2>2. CASE q = o
    BY <1>2, <1>3, <2>1, <2>2
  <2>3. CASE q # o
    <3>1. q \in Threads /\ pc[q].op = "ask"  BY <1>1, <2>3 DEF Asks, Only, Threads, Players
    <3> QED BY <2>1, <3>1 DEF Careful, Asking
  <2> QED BY <2>2, <2>3
<1> QED BY <1>2, <1>4, <1>5 DEF Careful

\* So does the question for a merchant.
LEMMA AskMerchantIsCareful ==
    ASSUME Orderly, Careful, NEW o \in Owners, AskMerchant(o), Nice
    PROVE  Careful'
<1>1. Types /\ Asks(o) /\ o \in Threads  BY Asking1 DEF Orderly
<1>2. /\ pc[o].op = "ask" /\ package' = package /\ shop' = shop
      /\ ticket' = IF HasMerchant(o) THEN ticket ELSE ticket \cup {o}
  BY DEF AskMerchant, Goods
<1>3. package[o] = None  BY <1>2 DEF Careful, Asking
<1>4. ASSUME NEW r \in Hired, shop[r].can, shop[r].owner = o PROVE HasMerchant(o)
  <2>1. TradingAt(r)  BY DEF Careful
  <2>2. CASE shop[r].avail
    BY <1>4, <2>1, <2>2 DEF TradingAt, InIndex, HasMerchant
  <2>3. CASE ~shop[r].avail
    <3>1. at[o] = r \/ Shuts(o, r)  BY <1>4, <2>1, <2>3 DEF TradingAt, Unopened, Orderly
    <3>2. r # None /\ ~Shuts(o, r)  BY <1>1, <1>2 DEF Types, Listing, Shuts, Shutting
    <3> QED BY <1>1, <3>1, <3>2 DEF Asks
  <2> QED BY <2>2, <2>3
<1>5. Alone' /\ (\A r \in Hired' : TradingAt(r)') /\ OneEach' /\ Standing' /\ lapses' \cap Lost = {}
  <2>1. \A r \in Hired : shop[r].can => shop[r].owner \notin ticket'
    BY <1>2, <1>4 DEF Careful, TradingAt
  <2> QED BY <1>1, <2>1, AsksIsCareful
<1>6. Asking'
  <2> SUFFICES ASSUME NEW q \in Owners, pc'[q].op = "ask"
               PROVE  package[q] = None
                      /\ \A u \in Threads : pc'[u].s # 0 => shop[pc'[u].s].owner # q
    BY <1>2 DEF Asking
  <2>1. \A u \in Threads : pc'[u].s = pc[u].s  BY <1>1, AsksAlike
  <2>2. q \in Threads /\ pc[q].op = "ask"  BY <1>1, <1>2 DEF Asks, Only, Threads, Players
  <2> QED BY <2>1, <2>2 DEF Careful, Asking
<1>7. \A q \in ticket' : package'[q] = None  BY <1>2, <1>3 DEF Careful
<1> QED BY <1>5, <1>6, <1>7 DEF Careful

-----------------------------------------------------------------------------
(* Visitors step in, and owners go into merchants that were opened.          *)

\* Stepping inside is work.
LEMMA StepInWorks ==
    ASSUME Orderly, NEW b \in Buyers, StepIn(b)
    PROVE  Work(b)
<1>0. b \in Threads /\ b \in Players /\ Types /\ PcAt(b) /\ overlapped \in BOOLEAN
  BY DEF Threads, Players, Orderly, Types
<1>1. PICK s \in Hired : s = pc[b].n /\ shop[s].avail /\ pc[b].op = "enter"
  BY <1>0 DEF PcAt, StepIn
<1>2. /\ at' = [at EXCEPT ![b] = s] /\ pc' = [pc EXCEPT ![b] = Idle] /\ lapses' = lapses
      /\ index' = index /\ nextId' = nextId /\ ticket' = ticket /\ package' = package
      /\ overlapped' = overlapped
  BY <1>1 DEF StepIn, Done, Go, Register, Rest
<1>3. SameShops /\ \A r \in Hired : shop'[r].alarm = shop[r].alarm
  <2> DEFINE n == [shop[s] EXCEPT !.visitors = @ \cup {b}]
  <2>1. shop' = [shop EXCEPT ![s] = n]  BY <1>1 DEF StepIn
  <2>2. /\ DOMAIN n = Fields /\ n.owner = shop[s].owner /\ n.avail = shop[s].avail
        /\ n.can = shop[s].can /\ n.onMap = shop[s].onMap /\ n.storeid = shop[s].storeid
        /\ n.visitors \subseteq Buyers /\ n.alarm = shop[s].alarm
    <3>1. DOMAIN shop[s] = Fields /\ shop[s].visitors \subseteq Buyers
      BY <1>0 DEF Types, ShopAt
    <3> QED BY <3>1 DEF Fields
  <2> HIDE DEF n
  <2> QED BY <1>0, <2>1, <2>2, Opening
<1>4. Only(b) /\ pc'[b] = Idle  BY <1>0, <1>2 DEF Only, Types
<1>5. Visits(b)  BY <1>0, <1>1, <1>2 DEF Visits, Types
<1> QED BY <1>0, <1>1, <1>2, <1>3, <1>4, <1>5, Working, PackagesStay DEF Shutting

\* An owner who enters does work.
LEMMA EnterWorks ==
    ASSUME Orderly, NEW o \in Owners, NEW s \in Hired, Enter(o, s)
    PROVE  Work(o)
<1>0. o \in Threads /\ o \in Players /\ Types /\ PcAt(o) /\ overlapped \in BOOLEAN
  BY DEF Threads, Players, Orderly, Types
<1>1. /\ pc[o] = Idle /\ at[o] = None /\ shop[s].owner = o /\ shop[s].onMap
      /\ at' = [EvictedFrom(s) EXCEPT ![o] = s] /\ pc' = pc /\ lapses' = lapses
      /\ index' = index /\ nextId' = nextId /\ ticket' = ticket /\ package' = package
  BY DEF Enter, Free, Register, Rest
<1>2. pc[o].op = "idle"  BY <1>1 DEF Idle
<1>3. Joins(o, s) /\ overlapped' \in BOOLEAN /\ (overlapped => overlapped')
  BY <1>0, Joining DEF Enter
<1>4. shop[s].avail
  <2>1. s # None /\ ~Shuts(o, s)  BY <1>0, <1>2 DEF Types, Listing, Shuts, Shutting
  <2> QED BY <1>1, <2>1 DEF Unopened, Orderly
<1>5. SameShops /\ \A r \in Hired : shop'[r].alarm = shop[r].alarm
  <2> DEFINE n == [[shop[s] EXCEPT !.open = FALSE] EXCEPT !.visitors = {}]
  <2>1. shop' = [shop EXCEPT ![s] = n]  BY <1>0 DEF Enter, Evict, Types, Listing
  <2>2. /\ DOMAIN n = Fields /\ n.owner = shop[s].owner /\ n.avail = shop[s].avail
        /\ n.can = shop[s].can /\ n.onMap = shop[s].onMap /\ n.storeid = shop[s].storeid
        /\ n.visitors \subseteq Buyers /\ n.alarm = shop[s].alarm
    <3>1. DOMAIN shop[s] = Fields  BY <1>0 DEF Types, ShopAt
    <3> QED BY <3>1 DEF Fields
  <2> HIDE DEF n
  <2> QED BY <1>0, <2>1, <2>2, Opening
<1>6. Only(o) /\ pc'[o] = Idle  BY <1>0, <1>1 DEF Only, Types
<1>7. Visits(o)
  <2>1. at' \in [Players -> Hired \cup {None}] /\ at'[o] = s
    BY <1>0, <1>1 DEF Types, EvictedFrom
  <2>2. ASSUME NEW q \in Players, q # o
        PROVE  at'[q] = at[q] \/ (at'[q] = None /\ shop[at[q]].avail)
    <3>1. at'[q] = EvictedFrom(s)[q]  BY <1>1, <2>2 DEF EvictedFrom
    <3>2. Inside  BY DEF Orderly
    <3> QED BY <1>0, <3>1, <3>2, Evicting
  <2> QED BY <1>1, <1>2, <1>3, <1>4, <2>1, <2>2 DEF Visits
<1> QED BY <1>0, <1>1, <1>2, <1>3, <1>5, <1>6, <1>7, Working, PackagesStay DEF Shutting

-----------------------------------------------------------------------------
(* A merchant is opened: it gets the next id and a place in the list.        *)

\* Owner o opens merchant s.
Opens(o, s) ==
    /\ s \in Hired /\ s = at[o] /\ s # None /\ shop[s].owner = o /\ ~shop[s].avail
    /\ o \in Threads /\ o \in Players
    /\ OnlyShop(s) /\ DOMAIN shop'[s] = Fields
    /\ shop'[s].owner = o /\ shop'[s].avail = TRUE /\ shop'[s].can = TRUE
    /\ shop'[s].onMap = shop[s].onMap /\ shop'[s].storeid = nextId
    /\ shop'[s].visitors = shop[s].visitors /\ shop'[s].alarm = shop[s].alarm
    /\ DOMAIN index' = DOMAIN index \cup {nextId} /\ index'[nextId] = s
    /\ \A i \in DOMAIN index \ {nextId} : index'[i] = index[i]
    /\ nextId' = nextId + 1
    /\ at' = [at EXCEPT ![o] = None] /\ pc[o] = Idle /\ pc' = pc
    /\ ticket' = ticket /\ package' = package /\ overlapped' = overlapped
    /\ lapses' = lapses

\* Open is such a step.
LEMMA OpenOpens ==
    ASSUME Orderly, NEW o \in Owners, Open(o)
    PROVE  \E s \in Hired : Opens(o, s)
<1>0. Types  BY DEF Orderly
<1>1. PICK s \in Hired : s = at[o] /\ shop[s].owner = o /\ o \in Players /\ o \in Threads /\ s # None
  BY <1>0, OwnsOne DEF Open, Owns
<1> DEFINE n == [[[[shop[s] EXCEPT !.storeid = nextId] EXCEPT !.open = TRUE]
                    EXCEPT !.avail = TRUE] EXCEPT !.can = TRUE]
<1>2. DOMAIN shop = Hired /\ shop = [r \in Hired |-> shop[r]] /\ DOMAIN shop[s] = Fields
  BY <1>0 DEF Types, Listing, ShopAt
<1>3. shop' = [shop EXCEPT ![s] = n]
  <2>1. shop' = [shop EXCEPT ![s] = [shop[s] EXCEPT !.storeid = nextId, !.open = TRUE,
                                                   !.avail = TRUE, !.can = TRUE]]
    BY <1>1 DEF Open
  <2> QED BY <2>1
<1>4. /\ DOMAIN n = Fields /\ n.owner = shop[s].owner /\ n.avail = TRUE /\ n.can = TRUE
      /\ n.onMap = shop[s].onMap /\ n.storeid = nextId
      /\ n.visitors = shop[s].visitors /\ n.alarm = shop[s].alarm
  BY <1>2 DEF Fields
<1> HIDE DEF n
<1>5. OnlyShop(s) /\ shop'[s] = n  BY <1>2, <1>3 DEF OnlyShop
<1>6. /\ DOMAIN index' = DOMAIN index \cup {nextId} /\ index'[nextId] = s
      /\ \A i \in DOMAIN index \ {nextId} : index'[i] = index[i]
  BY <1>1 DEF Open
<1>7. /\ ~shop[s].avail /\ nextId' = nextId + 1
      /\ at' = [at EXCEPT ![o] = None] /\ pc[o] = Idle /\ pc' = pc
      /\ ticket' = ticket /\ package' = package /\ overlapped' = overlapped
      /\ lapses' = lapses
  BY <1>1 DEF Open, Free, Rest
<1> QED BY <1>1, <1>4, <1>5, <1>6, <1>7 DEF Opens

\* Opening a merchant keeps what holds always.
LEMMA OpensIsOrderly ==
    ASSUME Orderly, NEW o \in Owners, NEW s \in Hired, Opens(o, s)
    PROVE  Orderly'
<1> USE DEF Opens, OnlyShop
<1>1. Types  BY DEF Orderly
<1>2. Around' <=> Around  BY DEF Around
<1>3. \A q \in Players : at'[q] = IF q = o THEN None ELSE at[q]  BY <1>1 DEF Types
<1>4. \A i \in DOMAIN index : /\ i # nextId /\ i \in Nat /\ index'[i] = index[i]
                             /\ index[i] \in Hired \ {s} /\ shop[index[i]].avail
                             /\ shop[index[i]].storeid = i
  BY DEF Orderly, Indexed
<1>5. Types'
  <2>1. Listing' /\ \A r \in Hired' : ShopAt(r)'
    <3>1. Listing'  BY <1>1 DEF Types, Listing, Hired
    <3>2. \A r \in Hired : ShopAt(r) /\ nextId \in Nat  BY <1>1 DEF Types
    <3>3. ShopAt(s)'  BY <3>2 DEF ShopAt
    <3>4. \A r \in Hired \ {s} : ShopAt(r)'  BY <3>2 DEF ShopAt
    <3> QED BY <3>1, <3>3, <3>4 DEF Hired
  <2>2. ASSUME NEW u \in Threads PROVE PcAt(u)'
    BY <1>1, <1>3 DEF Types, PcAt, Hired, Players
  <2>3. at' \in [Players -> Hired' \cup {None}]  BY <1>1 DEF Types, Hired
  <2>4. nextId' \in Nat  BY <1>1 DEF Types
  <2> QED BY <1>1, <2>1, <2>2, <2>3, <2>4 DEF Types
<1>6. Indexed'
  <2>1. DOMAIN index' \subseteq Nat  BY <1>1, <1>4 DEF Types
  <2>2. ASSUME NEW i \in DOMAIN index'
        PROVE  index'[i] \in Hired /\ shop'[index'[i]].avail /\ shop'[index'[i]].storeid = i
    BY <1>4, <2>2
  <2>3. \A r \in Hired : shop[r].avail => shop[r].storeid < nextId  BY DEF Orderly, Indexed
  <2>4. nextId \in Nat /\ \A r \in Hired : shop[r].storeid \in Nat
    BY <1>1 DEF Types, ShopAt
  <2>5. \A r \in Hired : shop'[r].avail => shop'[r].storeid < nextId'  BY <2>3, <2>4
  <2>6. ASSUME NEW q \in Hired, NEW r \in Hired, shop'[q].avail, shop'[r].avail,
               shop'[q].storeid = shop'[r].storeid
        PROVE  q = r
    <3>1. CASE q # s /\ r # s
      BY <2>6, <3>1 DEF Orderly, Indexed
    <3>2. CASE q = s \/ r = s
      BY <2>3, <2>4, <2>6, <3>2
    <3> QED BY <3>1, <3>2
  <2> QED BY <2>1, <2>2, <2>5, <2>6 DEF Indexed, Hired
<1>7. Inside'
  <2> SUFFICES ASSUME NEW q \in Players, at'[q] # None, ~shop'[at'[q]].avail
               PROVE  /\ q = shop'[at'[q]].owner
                      /\ shop'[at'[q]].can \/ Around'
                      /\ (\E u \in Threads : Shuts(u, at[q])') => Around'
    BY DEF Inside, Shuts
  <2>1. at'[q] = at[q] /\ at[q] \in Hired \ {s}  BY <1>1, <1>3 DEF Types
  <2>2. shop'[at[q]] = shop[at[q]]  BY <2>1
  <2>3. \A u \in Threads : Shuts(u, at[q])' <=> Shuts(u, at[q])  BY <2>1 DEF Shuts
  <2> QED BY <1>2, <2>1, <2>2, <2>3 DEF Inside, Orderly
<1>8. Unopened'
  <2> SUFFICES ASSUME NEW r \in Hired, ~shop'[r].avail, shop'[r].onMap
               PROVE  at'[shop'[r].owner] = r \/ Shuts(shop[r].owner, r)'
    BY DEF Unopened, Hired, Shuts
  <2>1. r # s /\ shop'[r] = shop[r] /\ shop[r].owner \in Players
    BY <1>1 DEF Types, ShopAt, Players
  <2>2. at[shop[r].owner] = r \/ Shuts(shop[r].owner, r)  BY <2>1 DEF Unopened, Orderly
  <2>3. Shuts(shop[r].owner, r) => Shuts(shop[r].owner, r)'  BY <2>1 DEF Shuts
  <2>4. at[shop[r].owner] = r => at'[shop[r].owner] = r  BY <1>3, <2>1
  <2> QED BY <2>1, <2>2, <2>3, <2>4
<1>9. Selling'
  <2>1. ASSUME NEW r \in Hired, shop'[r].avail, shop'[r].can PROVE InIndex(r)' \/ Excuse'
    <3>1. CASE r = s
      BY <3>1 DEF InIndex
    <3>2. CASE r # s
      <4>1. InIndex(r) => InIndex(r)'  BY <1>4, <3>2 DEF InIndex
      <4>2. Excuse => Excuse'
        <5>1. shop[s].can \/ Around  BY DEF Inside, Orderly
        <5> QED BY <1>2, <5>1 DEF Excuse, Hired
      <4> QED BY <2>1, <3>2, <4>1, <4>2 DEF Selling, Orderly
    <3> QED BY <3>1, <3>2
  <2> QED BY <2>1 DEF Selling, Hired
<1> QED BY <1>5, <1>6, <1>7, <1>8, <1>9 DEF Orderly

\* So does it keep owners to one merchant or one package.
LEMMA OpensIsCareful ==
    ASSUME Orderly, Careful, NEW o \in Owners, NEW s \in Hired, Opens(o, s)
    PROVE  Careful'
<1> USE DEF Opens, OnlyShop
<1>1. Types  BY DEF Orderly
<1>2. shop[s].can  BY DEF Careful, Standing, Owns
<1>3. \A q \in Players : at'[q] = IF q = o THEN None ELSE at[q]  BY <1>1 DEF Types
<1>4. \A i \in DOMAIN index : /\ i # nextId /\ index'[i] = index[i] /\ index[i] \in Hired
  BY DEF Orderly, Indexed
<1>5. \A r \in Hired : /\ shop'[r].owner = shop[r].owner /\ (shop'[r].can <=> shop[r].can)
                      /\ shop'[r].alarm = shop[r].alarm /\ shop[r].owner \in Players
  BY <1>1, <1>2 DEF Types, ShopAt, Players
<1>6. \A u \in Threads, r \in Hired : Shuts(u, r)' <=> Shuts(u, r)  BY DEF Shuts
<1>7. Alone'  BY DEF Careful, Alone
<1>8. Asking'  BY <1>1, <1>5 DEF Careful, Asking, Types, PcAt
<1>9. \A r \in Hired' : TradingAt(r)'
  <2> SUFFICES ASSUME NEW r \in Hired PROVE TradingAt(r)'
    BY DEF Hired
  <2>1. TradingAt(r)  BY DEF Careful
  <2>2. shop'[r].avail /\ shop'[r].can => InIndex(r)'  BY <1>4, <2>1 DEF TradingAt, InIndex
  <2>3. shop'[r].onMap = shop'[r].can
    <3>1. CASE r = s
      BY <1>1, <1>2, <2>1, <3>1 DEF TradingAt, Types, ShopAt
    <3>2. CASE r # s
      BY <2>1, <3>2 DEF TradingAt
    <3> QED BY <3>1, <3>2
  <2> QED BY <1>5, <1>6, <2>1, <2>2, <2>3 DEF TradingAt
<1>10. OneEach'  BY <1>5 DEF Careful, OneEach, Hired
<1>11. Standing'
  <2>1. \A i \in DOMAIN index' : shop'[index'[i]].can  BY <1>4, <1>5 DEF Careful, Standing
  <2>2. ASSUME NEW q \in Owners, Owns(q)' PROVE shop'[at'[q]].can
    <3>1. q # o /\ at'[q] = at[q] /\ at[q] \in Hired
      BY <1>1, <1>3, <2>2 DEF Owns, Types, Players
    <3> QED BY <1>5, <2>2, <3>1 DEF Owns, Careful, Standing
  <2>3. ASSUME NEW u \in Threads, NEW r \in Hired, Shuts(u, r)'
        PROVE  shop'[r].can /\ shop'[r].alarm # "set" /\ at'[shop'[r].owner] # r
    <3>1. shop[r].can /\ shop[r].alarm # "set" /\ at[shop[r].owner] # r /\ r # None
      BY <1>1, <1>6, <2>3 DEF Careful, Standing, Types, Listing
    <3> QED BY <1>3, <1>5, <3>1
  <2> QED BY <2>1, <2>2, <2>3 DEF Standing, Hired
<1>12. (\A q \in ticket' : package'[q] = None) /\ lapses' \cap Lost = {}  BY DEF Careful
<1> HIDE DEF Opens
<1> QED BY <1>7, <1>8, <1>9, <1>10, <1>11, <1>12 DEF Careful

-----------------------------------------------------------------------------
(* A merchant is hired: it comes after those there were.                     *)

\* Owner o hires merchant s.
Creates(o, s) ==
    /\ s \notin Hired /\ s \in Nat \ {0} /\ s \in 1 .. MaxShops /\ Hired = 1 .. (s - 1)
    /\ o \in Threads /\ o \in Players /\ o \in ticket /\ at[o] = None
    /\ DOMAIN shop' = 1 .. s /\ shop' = [r \in 1 .. s |-> shop'[r]]
    /\ \A r \in Hired : shop'[r] = shop[r]
    /\ shop'[s] = [owner |-> o, items |-> <<>>, meso |-> 0, open |-> FALSE, avail |-> FALSE,
                   can |-> TRUE, onMap |-> TRUE, alarm |-> "set", storeid |-> 0, visitors |-> {}]
    /\ at' = [at EXCEPT ![o] = s] /\ pc[o] = Idle /\ pc' = pc
    /\ index' = index /\ nextId' = nextId /\ ticket' = ticket \ {o} /\ package' = package
    /\ overlapped' = overlapped /\ lapses' = lapses

\* Create is such a step.
LEMMA CreateCreates ==
    ASSUME Types, NEW o \in Owners, Create(o)
    PROVE  \E s \in 1 .. MaxShops : Creates(o, s)
<1>1. PICK n \in 0 .. MaxShops : Hired = 1 .. n
  BY DEF Types, Listing
<1> DEFINE S == {shop[r] : r \in Hired}
           m == [owner |-> o, items |-> <<>>, meso |-> 0, open |-> FALSE, avail |-> FALSE,
                 can |-> TRUE, onMap |-> TRUE, alarm |-> "set", storeid |-> 0, visitors |-> {}]
           T == S \cup {m}
<1>2. shop \in [1 .. n -> T] /\ n \in Nat  BY <1>1 DEF Types, Listing, Hired
<1> HIDE DEF S, m, T
<1>3. shop \in Seq(T) /\ m \in T  BY <1>2, SeqDef DEF T
<1>4. Len(shop) = n  BY <1>1, <1>2, <1>3, LenProperties DEF Hired
<1>5. shop' = Append(shop, m) /\ n < MaxShops  BY <1>4 DEF Create, m
<1>6. /\ Append(shop, m) \in Seq(T) /\ Len(Append(shop, m)) = n + 1
      /\ \A r \in 1 .. n : Append(shop, m)[r] = shop[r]
      /\ Append(shop, m)[n + 1] = m
  BY <1>3, <1>4, AppendProperties
<1>7. DOMAIN shop' = 1 .. (n + 1) /\ shop' = [r \in 1 .. (n + 1) |-> shop'[r]] /\ Len(shop') = n + 1
  BY <1>5, <1>6, LenProperties
<1>8. PICK s \in 1 .. MaxShops : s = n + 1
  BY <1>2, <1>5
<1>9. s \notin Hired /\ s \in Nat \ {0} /\ Hired = 1 .. (s - 1)  BY <1>1, <1>2, <1>8
<1>10. /\ at[o] = None /\ o \in ticket /\ at' = [at EXCEPT ![o] = s] /\ pc[o] = Idle /\ pc' = pc
       /\ index' = index /\ nextId' = nextId /\ ticket' = ticket \ {o} /\ package' = package
       /\ overlapped' = overlapped /\ lapses' = lapses
  BY <1>7, <1>8 DEF Create, Free, Register
<1>11. o \in Threads /\ o \in Players  BY DEF Threads, Players
<1> QED BY <1>1, <1>5, <1>6, <1>7, <1>8, <1>9, <1>10, <1>11 DEF Creates, m

\* Hiring a merchant keeps what holds always.
LEMMA CreatesIsOrderly ==
    ASSUME Orderly, NEW o \in Owners, NEW s \in 1 .. MaxShops, Creates(o, s)
    PROVE  Orderly'
<1> USE DEF Creates
<1>1. Types  BY DEF Orderly
<1>2. Around' <=> Around  BY DEF Around
<1>3. \A q \in Players : at'[q] = IF q = o THEN s ELSE at[q]  BY <1>1 DEF Types
<1>4. DOMAIN shop' = Hired \cup {s} /\ \A u \in Threads : pc[u].s # s
  BY <1>1 DEF Types, PcAt
<1>5. Types'
  <2>1. Listing'  BY DEF Listing, Hired
  <2>2. ASSUME NEW r \in Hired' PROVE ShopAt(r)'
    <3>1. CASE r = s
      <4>1. /\ DOMAIN shop'[s] = Fields /\ shop'[s].owner = o /\ shop'[s].avail = FALSE
            /\ shop'[s].can = TRUE /\ shop'[s].onMap = TRUE /\ shop'[s].storeid = 0
            /\ shop'[s].visitors = {}
        BY DEF Fields
      <4>2. shop'[s].owner \in Owners /\ shop'[s].storeid \in Nat /\ shop'[s].visitors \subseteq Buyers
        BY <4>1
      <4>3. shop'[s].avail \in BOOLEAN /\ shop'[s].can \in BOOLEAN /\ shop'[s].onMap \in BOOLEAN
        BY <4>1
      <4> HIDE DEF Creates
      <4>4. ShopAt(s)'  BY <4>1, <4>2, <4>3 DEF ShopAt
      <4> QED BY <3>1, <4>4
    <3>2. CASE r \in Hired
      BY <1>1, <3>2 DEF Types, ShopAt
    <3> QED BY <1>4, <3>1, <3>2 DEF Hired
  <2>3. ASSUME NEW u \in Threads PROVE PcAt(u)'
    <3>1. PcAt(u) /\ pc'[u] = pc[u] /\ (u # o => at[u] = at'[u] \/ u \notin Players)
      BY <1>1, <1>3 DEF Types
    <3>2. pc[u].op = "ask" => at'[u] = None  BY <3>1 DEF PcAt, Idle, Players
    <3> QED BY <1>4, <3>1, <3>2 DEF PcAt, Hired
  <2>4. at' \in [Players -> Hired' \cup {None}]  BY <1>1, <1>4 DEF Types, Hired
  <2> QED BY <1>1, <2>1, <2>2, <2>3, <2>4 DEF Types
<1>6. Indexed'
  <2>1. \A i \in DOMAIN index : index[i] \in Hired /\ shop[index[i]].avail /\ shop[index[i]].storeid = i
    BY DEF Orderly, Indexed
  <2>2. \A r \in Hired' : shop'[r].avail => r \in Hired  BY <1>4 DEF Hired
  <2>3. \A i \in DOMAIN index' :
          index'[i] \in Hired' /\ shop'[index'[i]].avail /\ shop'[index'[i]].storeid = i
    BY <1>4, <2>1 DEF Hired
  <2>4. \A r \in Hired' : shop'[r].avail => shop'[r].storeid < nextId'
    BY <2>2 DEF Orderly, Indexed
  <2>5. \A q, r \in Hired' : shop'[q].avail /\ shop'[r].avail
          /\ shop'[q].storeid = shop'[r].storeid => q = r
    BY <2>2 DEF Orderly, Indexed
  <2> QED BY <2>3, <2>4, <2>5 DEF Orderly, Indexed
<1>7. Inside'
  <2> SUFFICES ASSUME NEW q \in Players, at'[q] # None, ~shop'[at'[q]].avail
               PROVE  /\ q = shop'[at'[q]].owner
                      /\ shop'[at'[q]].can \/ Around'
                      /\ (\E u \in Threads : Shuts(u, at[q])') => Around'
    BY DEF Inside, Shuts
  <2>1. CASE q = o
    BY <1>3, <1>4, <2>1 DEF Shuts
  <2>2. CASE q # o
    <3>1. at'[q] = at[q] /\ at[q] \in Hired /\ shop'[at[q]] = shop[at[q]]
      BY <1>1, <1>3, <2>2 DEF Types
    <3>2. \A u \in Threads : Shuts(u, at[q])' <=> Shuts(u, at[q])  BY <3>1 DEF Shuts
    <3> QED BY <1>2, <3>1, <3>2 DEF Inside, Orderly
  <2> QED BY <2>1, <2>2
<1>8. Unopened'
  <2> SUFFICES ASSUME NEW r \in Hired', ~shop'[r].avail, shop'[r].onMap
               PROVE  at'[shop'[r].owner] = r \/ Shuts(shop[r].owner, r)'
    BY DEF Unopened, Shuts
  <2>1. CASE r = s
    BY <1>3, <2>1
  <2>2. CASE r \in Hired
    <3>0. ShopAt(r) /\ r # None  BY <1>1, <2>2 DEF Types, Listing
    <3>1. shop'[r] = shop[r] /\ shop[r].owner \in Players  BY <3>0, <2>2 DEF ShopAt, Players
    <3>2. at[shop[r].owner] = r \/ Shuts(shop[r].owner, r)
      BY <2>2, <3>1 DEF Unopened, Orderly
    <3>3. Shuts(shop[r].owner, r) => Shuts(shop[r].owner, r)'  BY <3>1 DEF Shuts
    <3>4. at[shop[r].owner] = r => at'[shop[r].owner] = r  BY <1>3, <3>0, <3>1
    <3> QED BY <3>1, <3>2, <3>3, <3>4
  <2> QED BY <1>4, <2>1, <2>2 DEF Hired
<1>9. Selling'
  <2>1. ASSUME NEW r \in Hired', shop'[r].avail, shop'[r].can PROVE InIndex(r)' \/ Excuse'
    <3>1. r \in Hired /\ shop'[r] = shop[r]  BY <1>4, <2>1 DEF Hired
    <3>2. Excuse => Excuse'  BY <1>2, <1>4 DEF Excuse, Hired
    <3> QED BY <2>1, <3>1, <3>2 DEF Selling, Orderly, InIndex
  <2> QED BY <2>1 DEF Selling
<1> QED BY <1>5, <1>6, <1>7, <1>8, <1>9 DEF Orderly

\* So does it keep owners to one merchant or one package.
LEMMA CreatesIsCareful ==
    ASSUME Orderly, Careful, NEW o \in Owners, NEW s \in 1 .. MaxShops, Creates(o, s)
    PROVE  Careful'
<1> USE DEF Creates
<1>1. Types  BY DEF Orderly
<1>2. package[o] = None /\ \A r \in Hired : shop[r].can => shop[r].owner # o
  BY DEF Careful, TradingAt
<1>3. \A q \in Players : at'[q] = IF q = o THEN s ELSE at[q]  BY <1>1 DEF Types
<1>4. DOMAIN shop' = Hired \cup {s} /\ \A u \in Threads : pc[u].s # s /\ pc[u].s \in Hired \cup {0}
  BY <1>1 DEF Types, PcAt
<1>5. \A u \in Threads, r \in Hired : Shuts(u, r)' <=> Shuts(u, r)  BY DEF Shuts
<1>6. Alone'  BY DEF Careful, Alone
<1>7. Asking'  BY <1>4 DEF Careful, Asking
<1>8. \A r \in Hired' : TradingAt(r)'
  <2> SUFFICES ASSUME NEW r \in Hired' PROVE TradingAt(r)' OBVIOUS
  <2>1. CASE r = s
    <3>1. /\ shop'[s].owner = o /\ shop'[s].avail = FALSE
          /\ shop'[s].can = TRUE /\ shop'[s].onMap = TRUE
      OBVIOUS
    <3>2. package'[o] = None /\ o \notin ticket'  BY <1>2
    <3> HIDE DEF Creates
    <3> QED BY <2>1, <3>1, <3>2 DEF TradingAt
  <2>2. CASE r \in Hired
    <3>1. TradingAt(r) /\ shop'[r] = shop[r]  BY <2>2 DEF Careful
    <3> QED BY <1>5, <2>2, <3>1 DEF TradingAt, InIndex
  <2> QED BY <1>4, <2>1, <2>2 DEF Hired
<1>9. OneEach'  BY <1>2, <1>4 DEF Careful, OneEach, Hired
<1>10. Standing'
  <2>1. \A i \in DOMAIN index' : shop'[index'[i]].can
    BY DEF Careful, Standing, Orderly, Indexed
  <2>2. ASSUME NEW q \in Owners, Owns(q)' PROVE shop'[at'[q]].can
    <3>1. CASE q = o
      BY <1>3, <3>1
    <3>2. CASE q # o
      <4>1. at'[q] = at[q] /\ at[q] \in Hired
        BY <1>1, <1>3, <2>2, <3>2 DEF Owns, Types, Players
      <4> QED BY <2>2, <4>1 DEF Owns, Careful, Standing
    <3> QED BY <3>1, <3>2
  <2>3. ASSUME NEW u \in Threads, NEW r \in Hired', Shuts(u, r)'
        PROVE  shop'[r].can /\ shop'[r].alarm # "set" /\ at'[shop'[r].owner] # r
    <3>1. r \in Hired  BY <1>4, <2>3 DEF Shuts, Hired
    <3>2. shop[r].owner \in Players /\ shop'[r] = shop[r] /\ r # s
      BY <1>1, <3>1 DEF Types, ShopAt, Players
    <3>3. shop[r].can /\ shop[r].alarm # "set" /\ at[shop[r].owner] # r
      BY <1>5, <2>3, <3>1 DEF Careful, Standing
    <3> QED BY <1>3, <3>2, <3>3
  <2> QED BY <2>1, <2>2, <2>3 DEF Standing
<1>11. (\A q \in ticket' : package'[q] = None) /\ lapses' \cap Lost = {}  BY DEF Careful
<1> HIDE DEF Creates
<1> QED BY <1>6, <1>7, <1>8, <1>9, <1>10, <1>11 DEF Careful

-----------------------------------------------------------------------------
(* The invariant, and the two properties.                                    *)

\* Nobody has a merchant at first.
LEMMA InitIInv == Init => IInv
<1> SUFFICES ASSUME Init PROVE IInv OBVIOUS
<1>1. Hired = {} /\ shop = [s \in Hired |-> shop[s]] /\ Hired = 1 .. 0  BY DEF Init, Hired
<1>2. \A t \in Threads : pc[t] = Idle  BY DEF Init
<1>3. \A t \in Threads : PcAt(t) /\ pc[t].s = 0 /\ pc[t].op = "idle"
  BY <1>2 DEF PcAt, Idle, In, Shutting, Busy
<1>4. Types
  <2>1. Listing  BY <1>1 DEF Listing
  <2>2. at \in [Players -> Hired \cup {None}]  BY DEF Init
  <2>3. DOMAIN pc = Threads /\ nextId \in Nat /\ ticket \subseteq Owners /\ DOMAIN package = Owners
        /\ overlapped \in BOOLEAN
    BY DEF Init
  <2> QED BY <1>1, <1>3, <2>1, <2>2, <2>3 DEF Types
<1>5. Indexed /\ Inside /\ Unopened /\ Selling
  BY <1>1 DEF Init, Indexed, Inside, Unopened, Selling
<1>6. Alone /\ Asking /\ (\A s \in Hired : TradingAt(s)) /\ OneEach
  BY <1>1, <1>3 DEF Init, Alone, Asking, OneEach, Threads, Players
<1>7. Standing  BY <1>1 DEF Init, Standing, Owns, Players
<1>8. Careful  BY <1>6, <1>7 DEF Init, Careful
<1> QED BY <1>4, <1>5, <1>8 DEF IInv, Orderly

\* Work keeps the invariant.
LEMMA WorkKeeps ==
    ASSUME IInv, NEW t \in Threads, Work(t), lapses' = lapses
    PROVE  IInv'
<1>1. Orderly'  BY WorkIsOrderly DEF IInv
<1>2. ASSUME Nice' PROVE Careful'
  <2>1. Nice  BY <1>2 DEF Work, History, Nice, Around, Struck
  <2>2. lapses' \cap Lost = {} /\ ~overlapped'  BY <1>2, <2>1 DEF IInv, Careful, Nice
  <2> QED BY <2>1, <2>2, WorkIsCareful DEF IInv
<1> QED BY <1>1, <1>2 DEF IInv

\* Beginning to close a merchant keeps it.
LEMMA ShutKeeps ==
    ASSUME IInv, NEW t \in Threads, NEW s \in Hired, Shut(t, s), lapses' \cap Lost = lapses \cap Lost
    PROVE  IInv'
<1>1. Orderly'  BY ShutIsOrderly DEF IInv
<1>2. ASSUME Nice' PROVE Careful'
  <2>1. Nice  BY <1>2 DEF Shut, History, Nice
  <2>2. lapses' \cap Lost = {}  BY <2>1 DEF IInv, Careful
  <2> QED BY <1>2, <2>1, <2>2, ShutIsCareful DEF IInv
<1> QED BY <1>1, <1>2 DEF IInv

\* Goods are put into a merchant that is not closed, nor being closed.
LEMMA PutKeeps ==
    ASSUME IInv, NEW o \in Owners, NEW n \in 1 .. Stock, Put(o, n)
    PROVE  IInv'
<1>1. Orderly /\ o \in Threads /\ Work(o)  BY OwnerWorks DEF IInv, Threads, Players
<1>2. Orderly'  BY <1>1, WorkIsOrderly
<1>3. ASSUME Nice' PROVE Careful'
  <2>1. Nice /\ ~overlapped'  BY <1>1, <1>3 DEF Work, History, Nice
  <2>2. Careful  BY <2>1 DEF IInv
  <2>3. PICK s \in Hired : s = at[o] /\ shop[s].owner = o
    BY <1>1, OwnsOne DEF Put, Orderly
  <2>4. shop[s].can /\ \A u \in Threads : ~Shuts(u, s)
    BY <2>2, <2>3 DEF Careful, Standing, Put
  <2>5. ~Stored(s)  BY <2>4 DEF Stored, Doing, Shuts, Shutting
  <2>6. lapses' = lapses  BY <2>3, <2>4, <2>5 DEF Put
  <2> QED BY <1>1, <2>1, <2>2, <2>6, WorkIsCareful DEF Careful
<1> QED BY <1>2, <1>3 DEF IInv

\* A package is saved where there is none.
LEMMA SavingKeeps ==
    ASSUME IInv, NEW t \in Threads, Save(t) \/ Clear(t)
    PROVE  IInv'
<1>1. Orderly /\ Advance(t)  BY Advancing DEF IInv, Orderly
<1>2. Orderly'  BY <1>1, AdvanceIsOrderly
<1>3. ASSUME Nice' PROVE Careful'
  <2>1. Nice  BY <1>1, <1>3 DEF Advance, Nice
  <2>2. Careful  BY <2>1 DEF IInv
  <2>3. CASE Clear(t)
    BY <1>1, <2>2, <2>3, AdvanceIsCareful DEF Clear, Rest, Careful
  <2>4. CASE Save(t)
    <3>1. PICK s \in Hired : s = pc[t].s /\ pc[t].op = "close" /\ s # 0
      <4>1. PcAt(t) /\ pc[t].op = "close" /\ Listing  BY <1>1, <2>4 DEF Save, Orderly, Types
      <4>2. pc[t].s \in Hired /\ 0 \notin Hired  BY <4>1 DEF PcAt, Shutting, Listing
      <4> QED BY <4>1, <4>2
    <3>2. shop[s].can /\ Shuts(t, s)  BY <2>2, <3>1 DEF Careful, Standing, Shuts, Shutting
    <3>3. ASSUME NEW u \in Threads, Shuts(u, s), pc[u].op # "close" PROVE FALSE
      BY <2>2, <3>1, <3>3 DEF Careful, Alone, Shuts
    <3>4. package[shop[s].owner] = None  BY <2>2, <3>2, <3>3 DEF Careful, TradingAt
    <3>5. lapses' = lapses  BY <2>4, <3>1, <3>4 DEF Save
    <3> QED BY <1>1, <2>2, <3>5, AdvanceIsCareful DEF Careful
  <2> QED BY <2>3, <2>4
<1> QED BY <1>2, <1>3 DEF IInv

\* Owners keep it.
LEMMA OwnerKeeps ==
    ASSUME IInv, NEW o \in Owners, Owner(o)
    PROVE  IInv'
<1>0. Orderly /\ Types /\ o \in Threads  BY DEF IInv, Orderly, Threads, Players
<1>1. CASE AskPackage(o)
  <2>1. Asks(o) /\ (Nice' => Nice)  BY <1>0, <1>1, Asking1 DEF Asks, Nice, Around, Struck
  <2> QED BY <1>0, <1>1, <2>1, AsksIsOrderly, AskPackageIsCareful DEF IInv
<1>2. CASE AskMerchant(o)
  <2>1. Asks(o) /\ (Nice' => Nice)  BY <1>0, <1>2, Asking1 DEF Asks, Nice, Around, Struck
  <2> QED BY <1>0, <1>2, <2>1, AsksIsOrderly, AskMerchantIsCareful DEF IInv
<1>3. CASE Create(o)
  <2>1. PICK s \in 1 .. MaxShops : Creates(o, s)
    BY <1>0, <1>3, CreateCreates
  <2>2. Nice' => Nice  BY <2>1 DEF Creates, Nice, Around, Struck
  <2> QED BY <1>0, <2>1, <2>2, CreatesIsOrderly, CreatesIsCareful DEF IInv
<1>4. CASE Open(o)
  <2>1. PICK s \in Hired : Opens(o, s)
    BY <1>0, <1>4, OpenOpens
  <2>2. Nice' => Nice  BY <2>1 DEF Opens, Nice, Around, Struck
  <2> QED BY <1>0, <2>1, <2>2, OpensIsOrderly, OpensIsCareful DEF IInv
<1>5. CASE TakenBack(o) \/ Withdraw(o) \/ Withdrawn(o) \/ Reopen(o) \/ Claim(o)
  <2>1. lapses' = lapses  BY <1>5 DEF TakenBack, Withdraw, Withdrawn, Reopen, Claim, Rest
  <2> QED BY <1>0, <1>5, <2>1, OwnerWorks, WorkKeeps
<1>6. CASE Load(o)
  <2>1. lapses' = lapses  BY <1>6 DEF Load, Rest
  <2> QED BY <1>0, <1>6, <2>1, LoadWorks, WorkKeeps
<1>7. ASSUME NEW n \in 1 .. Stock, Put(o, n) PROVE IInv'
  BY <1>7, PutKeeps
<1>8. ASSUME NEW i \in 1 .. MaxListings, TakeBack(o, i) PROVE IInv'
  <2>1. lapses' = lapses  BY <1>8 DEF TakeBack, Rest
  <2> QED BY <1>0, <1>8, <2>1, OwnerWorks, WorkKeeps
<1>9. ASSUME NEW s \in Hired, Enter(o, s) PROVE IInv'
  <2>1. lapses' = lapses  BY <1>9 DEF Enter, Rest
  <2> QED BY <1>0, <1>9, <2>1, EnterWorks, WorkKeeps
<1>10. CASE Close(o)
  <2>1. PICK s \in Hired : Shut(o, s)
    BY <1>0, <1>10, Shuttings
  <2>2. lapses' \cap Lost = lapses \cap Lost  BY <1>10 DEF Close, Closes, Lost
  <2> QED BY <1>0, <2>1, <2>2, ShutKeeps
<1>11. CASE Disconnect(o)
  <2>1. CASE shop[at[o]].avail
    <3>1. lapses' = lapses /\ at[o] # None /\ o \in Players
      BY <1>11, <2>1 DEF Disconnect, Owns, Players
    <3> QED BY <1>0, <1>11, <2>1, <3>1, LeavingWorks, WorkKeeps
  <2>2. CASE ~shop[at[o]].avail
    <3>1. PICK s \in Hired : Shut(o, s)
      BY <1>0, <1>11, <2>2, Shuttings
    <3>2. lapses' \cap Lost = lapses \cap Lost  BY <1>11, <2>2 DEF Disconnect, Closes, Lost
    <3> QED BY <1>0, <3>1, <3>2, ShutKeeps
  <2> QED BY <2>1, <2>2
<1> QED BY <1>1, <1>2, <1>3, <1>4, <1>5, <1>6, <1>7, <1>8, <1>9, <1>10, <1>11 DEF Owner

\* Buyers keep it.
LEMMA BuyerKeeps ==
    ASSUME IInv, NEW b \in Buyers, Buyer(b)
    PROVE  IInv'
<1>0. Orderly /\ b \in Threads  BY DEF IInv, Threads, Players
<1>1. CASE StepIn(b)
  BY <1>0, <1>1, StepInWorks, WorkKeeps DEF StepIn, Rest
<1>2. CASE Handed(b) \/ CountDown(b) \/ Paid(b)
  <2>1. lapses' = lapses  BY <1>2 DEF Handed, CountDown, Paid, Rest
  <2> QED BY <1>0, <1>2, <2>1, BuyerWorks, WorkKeeps
<1>3. ASSUME NEW s \in Hired, Knock(b, s) PROVE IInv'
  BY <1>0, <1>3, BuyerWorks, WorkKeeps DEF Knock, Rest
<1>4. ASSUME NEW i \in 1 .. MaxListings, NEW n \in 1 .. Coins, Buy(b, i, n) PROVE IInv'
  <2>1. lapses' = lapses  BY <1>4 DEF Buy, Rest
  <2> QED BY <1>0, <1>4, <2>1, BuyerWorks, WorkKeeps
<1> QED BY <1>1, <1>2, <1>3, <1>4 DEF Buyer

\* Leaving keeps it.
LEMMA LeaveKeeps ==
    ASSUME IInv, NEW p \in Players, Leave(p)
    PROVE  IInv'
<1>0. Orderly /\ p \in Threads  BY DEF IInv, Threads
<1>1. CASE shop[at[p]].avail
  <2>1. lapses' = lapses /\ at[p] # None  BY <1>1 DEF Leave
  <2> QED BY <1>0, <1>1, <2>1, LeavingWorks, WorkKeeps
<1>2. CASE ~shop[at[p]].avail
  <2>1. Nice' => Nice  BY <1>0, <1>2, LeftEarly DEF Nice, Around, Struck
  <2> QED BY <1>0, <1>2, <2>1, LeftEarlyIsOrderly, LeftEarlyIsCareful DEF IInv
<1> QED BY <1>1, <1>2

\* Striking off keeps it.
LEMMA UnregisterKeeps ==
    ASSUME IInv, NEW t \in Threads, Unregister(t)
    PROVE  IInv'
<1>1. Orderly /\ Orderly'  BY UnregisterIsOrderly DEF IInv
<1>2. Nice' => Nice  BY DEF Unregister, Nice, Around, Struck
<1> QED BY <1>1, <1>2, UnregisterIsCareful DEF IInv

\* Every step keeps it.
LEMMA StepIInv == IInv /\ [Next]_vars => IInv'
<1> SUFFICES ASSUME IInv, [Next]_vars PROVE IInv' OBVIOUS
<1>0. Orderly /\ Types  BY DEF IInv, Orderly
<1>1. ASSUME NEW o \in Owners, Owner(o) PROVE IInv'
  BY <1>1, OwnerKeeps
<1>2. ASSUME NEW b \in Buyers, Buyer(b) PROVE IInv'
  BY <1>2, BuyerKeeps
<1>3. ASSUME NEW p \in Players, Leave(p) PROVE IInv'
  BY <1>3, LeaveKeeps
<1>4. ASSUME NEW t \in Threads, Closing(t) PROVE IInv'
  BY <1>4, SavingKeeps, UnregisterKeeps DEF Closing
<1>5. ASSUME NEW s \in Hired, Ring(s) PROVE IInv'
  <2>1. s \in Threads  BY <1>0 DEF Types, Listing, Threads, Alarms, Shops
  <2>2. PICK r \in Hired : Shut(s, r)
    BY <1>0, <1>5, <2>1, Shuttings
  <2>3. lapses' \cap Lost = lapses \cap Lost  BY <1>5 DEF Ring, Closes, Lost
  <2> QED BY <2>1, <2>2, <2>3, ShutKeeps
<1>6. CASE CloseAll
  <2>1. Console \in Threads  BY DEF Threads
  <2>2. PICK r \in Hired : Shut(Console, r)
    BY <1>0, <1>6, <2>1, Shuttings
  <2>3. lapses' \cap Lost = lapses \cap Lost  BY <1>6 DEF CloseAll, Closes, Lost
  <2> QED BY <2>1, <2>2, <2>3, ShutKeeps
<1>7. CASE UNCHANGED vars
  <2> USE <1>7 DEF vars, Hired
  <2>1. \A s : (ShopAt(s)' <=> ShopAt(s)) /\ (InIndex(s)' <=> InIndex(s))
    BY DEF ShopAt, InIndex
  <2>2. \A t, s : (PcAt(t)' <=> PcAt(t)) /\ (Shuts(t, s)' <=> Shuts(t, s))
    BY DEF PcAt, Shuts
  <2>3. Types'  BY <1>0, <2>1, <2>2 DEF Types, Listing
  <2>4. Indexed'  BY <1>0 DEF Orderly, Indexed
  <2>5. Inside' /\ Unopened'  BY <1>0, <2>2 DEF Orderly, Inside, Unopened, Around
  <2>6. Selling'  BY <1>0, <2>1 DEF Orderly, Selling, Excuse, Around
  <2>7. Nice' <=> Nice  BY DEF Nice, Around, Struck
  <2>8. ASSUME Careful PROVE Careful'
    <3>1. \A s : TradingAt(s)' <=> TradingAt(s)  BY <2>1, <2>2 DEF TradingAt
    <3>2. Alone' /\ Asking' /\ OneEach'  BY <2>8 DEF Careful, Alone, Asking, OneEach
    <3>3. Standing'  BY <2>2, <2>8 DEF Careful, Standing, Owns
    <3> QED BY <2>8, <3>1, <3>2, <3>3 DEF Careful
  <2> QED BY <2>3, <2>4, <2>5, <2>6, <2>7, <2>8 DEF IInv, Orderly
<1> QED BY <1>1, <1>2, <1>3, <1>4, <1>5, <1>6, <1>7 DEF Next

\* What is listed, who is inside and who has what is as IInv says at every state.
THEOREM Invariance == Spec => []IInv
BY InitIInv, StepIInv, PTL DEF Spec

\* Listed: a merchant that is selling is in the channel's list, where
\* hasMerchant and the console look for it (ChannelServer.addMerchant,
\* removeMerchant, HiredMerchant.closeShop), unless one not opened was closed.
THEOREM ListedHolds == Spec => []Listed
<1>1. IInv => Listed
  <2> SUFFICES ASSUME IInv, NEW s \in Hired, shop[s].avail, shop[s].can,
                      \A i \in DOMAIN index : index[i] # s
               PROVE  Around \/ \E r \in Hired : ~shop[r].avail /\ ~shop[r].can
    BY DEF Listed, Around
  <2> QED BY DEF IInv, Orderly, Selling, InIndex, Excuse
<1> QED BY <1>1, Invariance, PTL

\* Safekeeping: a package that still holds something is replaced, and goods end
\* in a closed merchant, only if two threads were busy with one merchant, one was
\* closed around its owner, or was struck off the list by another's closing
\* (HiredMerchantHandler.UseHiredMerchant, HiredMerchant.saveItems).
THEOREM SafekeepingHolds == Spec => []Safekeeping
<1>1. IInv => Safekeeping  BY DEF IInv, Careful, Nice, Safekeeping, Lost, Around, Struck
<1> QED BY <1>1, Invariance, PTL

-----------------------------------------------------------------------------
(* Sums over finite sets (Sum is FoldSet): a claim about all subsets of a   *)
(* finite set holds because no smallest subset refutes it.                  *)

\* A claim about the subsets of a finite set holds if no smallest subset refutes it.
LEMMA Smallest ==
    ASSUME NEW S, IsFiniteSet(S), NEW B \in SUBSET (SUBSET S), B # {}
    PROVE  \E s \in B : \A t \in B : ~(t \subseteq s /\ t # s)
<1>1. B \subseteq FiniteSubsetsOf(S)  BY FS_FiniteSubsetsOfFinite
<1>2. PICK s \in B : \A t \in B : <<t, s>> \notin StrictSubsetOrdering(S)
  BY <1>1, WFMin, FS_StrictSubsetOrderingWellFounded
<1> QED BY <1>2 DEF StrictSubsetOrdering

\* What holds of the empty set, and of each set of which it holds without one
\* member, holds of all: J collects the sets of which it holds.
LEMMA Growing ==
    ASSUME NEW S, IsFiniteSet(S), NEW J, {} \in J,
           \A s \in SUBSET S : s # {} => \E x \in s : s \ {x} \in J => s \in J
    PROVE  SUBSET S \subseteq J
<1> DEFINE B == {s \in SUBSET S : s \notin J}
<1> SUFFICES ASSUME B # {} PROVE FALSE OBVIOUS
<1>1. PICK s \in B : \A t \in B : ~(t \subseteq s /\ t # s)
  <2>1. B \in SUBSET (SUBSET S) OBVIOUS
  <2> HIDE DEF B
  <2> QED BY <2>1, Smallest
<1>2. s # {}
  <2>1. s \in B OBVIOUS
  <2>2. ASSUME s = {} PROVE FALSE
    <3>1. {} \in B  BY <2>1, <2>2
    <3> QED BY <3>1
  <2> QED BY <2>2
<1>3. PICK x \in s : s \ {x} \in J => s \in J
  BY <1>1, <1>2
<1> QED BY <1>1, <1>3

\* A fold that picks its members by pick: what it yields for a subset s is in W[s].
IsFold(h, S, pick, base, F) ==
    h = [s \in SUBSET S |-> IF s = {} THEN base ELSE F[pick[s]][h[s \ {pick[s]}]]]

\* A fold over a finite set is a function that satisfies the fold's equation, and
\* what each step keeps holds of its value: if base is in W[{}] and a step leads
\* from W of the smaller set to W of the larger, then the value for s is in W[s].
LEMMA FoldExists ==
    ASSUME NEW S, IsFiniteSet(S), NEW pick, NEW W, NEW base \in W[{}], NEW F,
           \A s \in SUBSET S : s # {} =>
               pick[s] \in s /\ \A r \in W[s \ {pick[s]}] : F[pick[s]][r] \in W[s]
    PROVE  \E h : IsFold(h, S, pick, base, F) /\ \A s \in SUBSET S : h[s] \in W[s]
<1> DEFINE Val(f, s) == IF s = {} THEN base ELSE F[pick[s]][f[s \ {pick[s]}]]
<1> DEFINE Part(f, s) == \A t \in SUBSET s : f[t] = Val(f, t) /\ f[t] \in W[t]
<1> DEFINE J == {s \in SUBSET S : \E f : Part(f, s)}
<1>0. ASSUME NEW f, NEW s \in SUBSET S, Part(f, s), NEW t \in SUBSET s PROVE Part(f, t)
  BY <1>0
<1>1. ASSUME NEW s \in SUBSET S, NEW f, NEW g, Part(f, s), Part(g, s),
             NEW t \in SUBSET s PROVE f[t] = g[t]
  <2> DEFINE K == {u \in SUBSET s : f[u] = g[u]}
  <2>1. {} \in K  BY <1>1
  <2>2. \A u \in SUBSET s : u # {} => \E x \in u : u \ {x} \in K => u \in K
    <3> SUFFICES ASSUME NEW u \in SUBSET s, u # {}, u \ {pick[u]} \in K
                 PROVE  pick[u] \in u /\ u \in K
      <4>1. \A u \in SUBSET s : u # {} => pick[u] \in u OBVIOUS
      <4> QED BY <4>1
    <3>1. pick[u] \in u OBVIOUS
    <3>2. f[u] = Val(f, u) /\ g[u] = Val(g, u) /\ f[u \ {pick[u]}] = g[u \ {pick[u]}]
      BY <1>1
    <3> QED BY <3>1, <3>2
  <2>3. IsFiniteSet(s)  BY FS_Subset
  <2>4. SUBSET s \subseteq K
    <3> HIDE DEF K
    <3> QED BY <2>1, <2>2, <2>3, Growing
  <2> QED BY <2>4
<1>9. \A a \in SUBSET S : \A f, g : Part(f, a) /\ Part(g, a) => f[a] = g[a]
  <2> SUFFICES ASSUME NEW a \in SUBSET S, NEW f, NEW g, Part(f, a), Part(g, a) PROVE f[a] = g[a]
    OBVIOUS
  <2>1. a \in SUBSET a OBVIOUS
  <2> HIDE DEF Part
  <2> QED BY <1>1, <2>1
<1> DEFINE B == {s \in SUBSET S : s \notin J}
<1>2. B = {}
  <2> SUFFICES ASSUME B # {} PROVE FALSE OBVIOUS
  <2>1. PICK s \in B : \A t \in B : ~(t \subseteq s /\ t # s)
    <3>1. B \in SUBSET (SUBSET S) OBVIOUS
    <3> HIDE DEF B
    <3> QED BY <3>1, Smallest
  <2> DEFINE C(t) == CHOOSE f : Part(f, t)
  <2>2. \A t \in SUBSET s : t # s => Part(C(t), t)
    <3> SUFFICES ASSUME NEW t \in SUBSET s, t # s PROVE \E f : Part(f, t)
      <4> HIDE DEF Part
      <4> QED OBVIOUS
    <3>1. t \in J
      <4>1. t \in SUBSET S OBVIOUS
      <4> HIDE DEF J
      <4> QED BY <2>1, <4>1
    <3> QED BY <3>1
  <2> HIDE DEF C, J
  <2> DEFINE g == [t \in SUBSET s |-> IF t = s THEN Val([u \in SUBSET s |-> C(u)[u]], s) ELSE C(t)[t]]
  <2>3. \A t \in SUBSET s : t # {} =>
          pick[t] \in t /\ t \ {pick[t]} \in SUBSET s /\ t \ {pick[t]} # s
    OBVIOUS
  <2>4. \A t \in SUBSET s : t # s => g[t] = Val(g, t) /\ g[t] \in W[t]
    <3> SUFFICES ASSUME NEW t \in SUBSET s, t # s PROVE g[t] = Val(g, t) /\ g[t] \in W[t]
      OBVIOUS
    <3>1. g[t] = C(t)[t] /\ C(t)[t] = Val(C(t), t) /\ C(t)[t] \in W[t]  BY <2>2
    <3>2. CASE t = {}
      BY <3>1, <3>2
    <3>3. CASE t # {}
      <4> DEFINE u == t \ {pick[t]}
      <4>1. pick[t] \in t /\ u \in SUBSET s /\ u # s /\ u \in SUBSET t /\ u \in SUBSET S /\ u \in SUBSET u
        BY <2>3, <3>3
      <4>2. Part(C(u), u) /\ Part(C(t), t)  BY <2>2, <4>1
      <4>3. Part(C(t), u)
        <5> HIDE DEF u
        <5> QED BY <4>1, <4>2
      <4>4. C(t)[u] = C(u)[u]
        <5> HIDE DEF u, Part, g, B, Val
        <5>1. u \in SUBSET S /\ u \in SUBSET u  BY <4>1
        <5>2. Part(C(t), u) /\ Part(C(u), u)  BY <4>2, <4>3
        <5> QED BY <5>1, <5>2, <1>9
      <4>5. g[u] = C(u)[u]  BY <4>1
      <4> QED BY <3>1, <3>3, <4>4, <4>5
    <3> QED BY <3>2, <3>3
  <2>5. g[s] = Val(g, s) /\ g[s] \in W[s]
    <3>1. CASE s = {}
      BY <3>1
    <3>2. CASE s # {}
      <4> DEFINE u == s \ {pick[s]}
      <4>1. u \in SUBSET s /\ u # s /\ pick[s] \in s  BY <2>3, <3>2
      <4>2. g[u] = C(u)[u] /\ g[u] \in W[u]  BY <2>4, <4>1
      <4>3. g[s] = F[pick[s]][C(u)[u]]  BY <3>2, <4>1
      <4> HIDE DEF g
      <4> QED BY <3>2, <4>2, <4>3
    <3> QED BY <3>1, <3>2
  <2>6. Part(g, s)
    <3> HIDE DEF g
    <3> QED BY <2>4, <2>5
  <2>7. s \in J
    <3> HIDE DEF g, Part
    <3> QED BY <2>6 DEF J
  <2> QED BY <2>1, <2>7
<1>3. PICK f : Part(f, S)
  <2>1. S \in J  BY <1>2
  <2> QED BY <2>1
<1> DEFINE h == [s \in SUBSET S |-> f[s]]
<1>4. \A s \in SUBSET S : h[s] = Val(h, s) /\ h[s] \in W[s]  BY <1>3
<1>5. IsFold(h, S, pick, base, F)  BY <1>4 DEF IsFold
<1> QED BY <1>4, <1>5

\* The member CHOOSE picks.
Pick(P) == CHOOSE x \in P : TRUE

\* The members of a sum, one after the other in the order of Pick.
LEMMA SumStep ==
    ASSUME NEW P, NEW f, IsFiniteSet(P), \A p \in P : f[p] \in Int
    PROVE  /\ Sum(f, P) \in Int
           /\ P = {} => Sum(f, P) = 0
           /\ P # {} => Sum(f, P) = f[Pick(P)] + Sum(f, P \ {Pick(P)})
<1> DEFINE Iter(S, g) == g = [s \in SUBSET S |-> IF s = {} THEN 0 ELSE
                                LET x == CHOOSE x \in s : TRUE IN f[x] + g[s \ {x}]]
<1> DEFINE I(S) == CHOOSE g : Iter(S, g)
<1>1. \A S : Sum(f, S) = I(S)[S]  BY DEF Sum, FoldSet, MapThenFoldSet
<1> HIDE DEF I
<1>2. ASSUME NEW S \in SUBSET P PROVE Iter(S, I(S)) /\ \A s \in SUBSET S : I(S)[s] \in Int
  <2> DEFINE pick == [s \in SUBSET S |-> Pick(s)]
  <2> DEFINE W == [s \in SUBSET S |-> Int]
  <2> DEFINE F == [x \in S |-> [r \in Int |-> f[x] + r]]
  <2>1. IsFiniteSet(S) /\ 0 \in W[{}]  BY FS_Subset
  <2>2. \A s \in SUBSET S : s # {} =>
               pick[s] \in s /\ \A r \in W[s \ {pick[s]}] : F[pick[s]][r] \in W[s]
    <3> SUFFICES ASSUME NEW s \in SUBSET S, s # {}
                 PROVE  pick[s] \in s /\ \A r \in W[s \ {pick[s]}] : F[pick[s]][r] \in W[s]
      OBVIOUS
    <3>1. pick[s] \in s  BY DEF Pick
    <3>2. pick[s] \in S /\ f[pick[s]] \in Int  BY <3>1
    <3> QED BY <3>1, <3>2
  <2>3. PICK h : IsFold(h, S, pick, 0, F) /\ \A s \in SUBSET S : h[s] \in W[s]
    <3> HIDE DEF pick, W, F
    <3> QED BY <2>1, <2>2, FoldExists
  <2>4. h = [s \in SUBSET S |-> IF s = {} THEN 0 ELSE F[pick[s]][h[s \ {pick[s]}]]]
    BY <2>3 DEF IsFold
  <2>5. \A s \in SUBSET S : s # {} => F[pick[s]][h[s \ {pick[s]}]] = f[Pick(s)] + h[s \ {Pick(s)}]
    <3> SUFFICES ASSUME NEW s \in SUBSET S, s # {}
                 PROVE  F[pick[s]][h[s \ {pick[s]}]] = f[Pick(s)] + h[s \ {Pick(s)}]
      OBVIOUS
    <3>1. Pick(s) \in S /\ pick[s] = Pick(s) /\ h[s \ {Pick(s)}] \in Int  BY <2>2, <2>3
    <3> HIDE DEF pick
    <3> QED BY <3>1
  <2>6. Iter(S, h)
    <3>1. h = [s \in SUBSET S |-> IF s = {} THEN 0 ELSE f[Pick(s)] + h[s \ {Pick(s)}]]
      <4> HIDE DEF pick, F, W
      <4> QED BY <2>4, <2>5
    <3> QED BY <3>1 DEF Pick
  <2>7. Iter(S, I(S))
    <3> HIDE DEF Iter
    <3> QED BY <2>6 DEF I
  <2> DEFINE g == I(S)
  <2> DEFINE J == {s \in SUBSET S : g[s] \in Int}
  <2>8. \A s \in SUBSET S : g[s] = IF s = {} THEN 0 ELSE f[Pick(s)] + g[s \ {Pick(s)}]
    BY <2>7 DEF Pick
  <2>9. \A s \in SUBSET S : s # {} => \E x \in s : s \ {x} \in J => s \in J
    <3> SUFFICES ASSUME NEW s \in SUBSET S, s # {} PROVE \E x \in s : s \ {x} \in J => s \in J
      OBVIOUS
    <3>1. Pick(s) \in s  BY DEF Pick
    <3>2. f[Pick(s)] \in Int  BY <3>1
    <3> HIDE DEF g
    <3>4. g[s] = f[Pick(s)] + g[s \ {Pick(s)}]  BY <2>8
    <3>3. s \ {Pick(s)} \in J => s \in J  BY <3>4, <3>2
    <3> QED BY <3>1, <3>3
  <2>10. SUBSET S \subseteq J
    <3>2. g[{}] = 0
      <4>1. {} \in SUBSET S OBVIOUS
      <4> HIDE DEF g
      <4> QED BY <4>1, <2>8
    <3>1. {} \in J  BY <3>2
    <3> HIDE DEF J
    <3> QED BY <2>1, <2>9, <3>1, Growing
  <2> QED BY <2>7, <2>10
<1>3. \A S \in SUBSET P : \A s \in SUBSET S :
        /\ I(S)[s] \in Int
        /\ I(S)[s] = IF s = {} THEN 0 ELSE f[Pick(s)] + I(S)[s \ {Pick(s)}]
  BY <1>2 DEF Pick
<1>4. ASSUME NEW S \in SUBSET P, NEW T \in SUBSET S PROVE I(S)[T] = I(T)[T]
  <2> DEFINE J == {s \in SUBSET T : I(S)[s] = I(T)[s]}
  <2>1. {} \in J
    <3>1. {} \in SUBSET S /\ {} \in SUBSET T /\ T \in SUBSET P OBVIOUS
    <3>2. I(S)[{}] = 0 /\ I(T)[{}] = 0  BY <3>1, <1>3
    <3> QED BY <3>2
  <2>2. \A s \in SUBSET T : s # {} => \E x \in s : s \ {x} \in J => s \in J
    <3> SUFFICES ASSUME NEW s \in SUBSET T, s # {} PROVE \E x \in s : s \ {x} \in J => s \in J
      OBVIOUS
    <3>1. Pick(s) \in s  BY DEF Pick
    <3>2. s \in SUBSET S /\ T \in SUBSET P OBVIOUS
    <3>3. I(S)[s] = f[Pick(s)] + I(S)[s \ {Pick(s)}] /\ I(T)[s] = f[Pick(s)] + I(T)[s \ {Pick(s)}]
      BY <3>2, <1>3
    <3> QED BY <3>1, <3>3
  <2>3. IsFiniteSet(T)
    <3>1. T \in SUBSET P OBVIOUS
    <3> QED BY <3>1, FS_Subset
  <2>4. T \in J
    <3> HIDE DEF J
    <3> QED BY <2>1, <2>2, <2>3, Growing
  <2> QED BY <2>4
<1>5. Sum(f, P) \in Int /\ (P = {} => Sum(f, P) = 0)
  <2>1. P \in SUBSET P OBVIOUS
  <2> QED BY <1>1, <1>3, <2>1
<1>6. ASSUME P # {} PROVE Sum(f, P) = f[Pick(P)] + Sum(f, P \ {Pick(P)})
  <2>1. P \ {Pick(P)} \in SUBSET P OBVIOUS
  <2>2. I(P)[P] = f[Pick(P)] + I(P)[P \ {Pick(P)}]  BY <1>3, <1>6
  <2>3. I(P)[P \ {Pick(P)}] = I(P \ {Pick(P)})[P \ {Pick(P)}]  BY <1>4, <2>1
  <2> QED BY <1>1, <2>2, <2>3
<1> QED BY <1>5, <1>6

\* Any member may be taken out of a sum first.
LEMMA SumTake ==
    ASSUME NEW P, NEW f, IsFiniteSet(P), \A p \in P : f[p] \in Int, NEW x \in P
    PROVE  Sum(f, P) = f[x] + Sum(f, P \ {x})
<1> DEFINE AllAlike(s) == \A y \in s : Sum(f, s) = f[y] + Sum(f, s \ {y})
<1> DEFINE B == {s \in SUBSET P : ~AllAlike(s)}
<1>1. B = {}
  <2> SUFFICES ASSUME B # {} PROVE FALSE OBVIOUS
  <2>1. PICK s \in B : \A t \in B : ~(t \subseteq s /\ t # s)
    <3>1. B \in SUBSET (SUBSET P) OBVIOUS
    <3> HIDE DEF B
    <3> QED BY <3>1, Smallest
  <2>2. PICK y \in s : Sum(f, s) # f[y] + Sum(f, s \ {y}) OBVIOUS
  <2> DEFINE z == Pick(s)
  <2>3. z \in s  BY DEF Pick
  <2>4. ASSUME NEW v \in s PROVE AllAlike(s \ {v})
    <3>1. s \ {v} \notin B  BY <2>1
    <3> QED BY <3>1
  <2>5. \A t \in SUBSET P : IsFiniteSet(t) /\ Sum(f, t) \in Int /\ (t # {} => Sum(f, t) = f[Pick(t)] + Sum(f, t \ {Pick(t)}))
    BY SumStep, FS_Subset
  <2>6. Sum(f, s) = f[z] + Sum(f, s \ {z})  BY <2>5
  <2> HIDE DEF z
  <2>7. y # z  BY <2>2, <2>6
  <2>8. Sum(f, s \ {z}) = f[y] + Sum(f, (s \ {z}) \ {y})  BY <2>3, <2>4, <2>7
  <2>9. Sum(f, s \ {y}) = f[z] + Sum(f, (s \ {y}) \ {z})  BY <2>3, <2>4, <2>7
  <2>10. (s \ {z}) \ {y} = (s \ {y}) \ {z} OBVIOUS
  <2>11. f[y] \in Int /\ f[z] \in Int /\ Sum(f, (s \ {y}) \ {z}) \in Int  BY <2>3, <2>5
  <2>12. Sum(f, s) = f[z] + (f[y] + Sum(f, (s \ {y}) \ {z}))  BY <2>6, <2>8, <2>10
  <2>13. f[y] + Sum(f, s \ {y}) = f[y] + (f[z] + Sum(f, (s \ {y}) \ {z}))  BY <2>9
  <2> QED BY <2>2, <2>11, <2>12, <2>13
<1>2. AllAlike(P)
  <2>1. P \notin B  BY <1>1
  <2> QED BY <2>1
<1> QED BY <1>2

\* A sum is an integer, zero over nothing, and any member may be taken out.
LEMMA SumParts ==
    ASSUME NEW S, NEW f, IsFiniteSet(S), \A x \in S : f[x] \in Int
    PROVE  /\ Sum(f, {}) = 0
           /\ \A s \in SUBSET S : IsFiniteSet(s) /\ Sum(f, s) \in Int
           /\ \A s \in SUBSET S : \A x \in s : Sum(f, s) = f[x] + Sum(f, s \ {x})
<1>1. \A s \in SUBSET S : IsFiniteSet(s) /\ \A x \in s : f[x] \in Int  BY FS_Subset
<1>2. \A s \in SUBSET S : Sum(f, s) \in Int  BY <1>1, SumStep
<1>3. \A s \in SUBSET S : \A x \in s : Sum(f, s) = f[x] + Sum(f, s \ {x})  BY <1>1, SumTake
<1>4. IsFiniteSet({}) /\ \A p \in {} : f[p] \in Int  BY FS_EmptySet
<1>5. Sum(f, {}) = 0  BY <1>4, SumStep
<1> QED BY <1>1, <1>2, <1>3, <1>5

\* A sum over the whole set.
LEMMA SumInt ==
    ASSUME NEW S, NEW f, IsFiniteSet(S), \A x \in S : f[x] \in Int
    PROVE  Sum(f, S) \in Int
BY SumStep

\* A sum of sums.
LEMMA SumPlus ==
    ASSUME NEW S, NEW f, NEW g, NEW h, IsFiniteSet(S),
           \A x \in S : f[x] \in Int, \A x \in S : g[x] \in Int,
           \A x \in S : h[x] = f[x] + g[x]
    PROVE  Sum(h, S) = Sum(f, S) + Sum(g, S)
<1> DEFINE J == {s \in SUBSET S : Sum(h, s) = Sum(f, s) + Sum(g, s)}
<1>1. \A x \in S : h[x] \in Int OBVIOUS
<1>2. /\ Sum(f, {}) = 0
      /\ \A s \in SUBSET S : Sum(f, s) \in Int
      /\ \A s \in SUBSET S : \A x \in s : Sum(f, s) = f[x] + Sum(f, s \ {x})
  BY ONLY IsFiniteSet(S), \A x \in S : f[x] \in Int, SumParts
<1>3. /\ Sum(g, {}) = 0
      /\ \A s \in SUBSET S : Sum(g, s) \in Int
      /\ \A s \in SUBSET S : \A x \in s : Sum(g, s) = g[x] + Sum(g, s \ {x})
  BY ONLY IsFiniteSet(S), \A x \in S : g[x] \in Int, SumParts
<1>4. /\ Sum(h, {}) = 0
      /\ \A s \in SUBSET S : Sum(h, s) \in Int
      /\ \A s \in SUBSET S : \A x \in s : Sum(h, s) = h[x] + Sum(h, s \ {x})
  BY ONLY IsFiniteSet(S), <1>1, SumParts
<1>5. \A s \in SUBSET S : s # {} => \E x \in s : s \ {x} \in J => s \in J
  <2> SUFFICES ASSUME NEW s \in SUBSET S, s # {} PROVE \E x \in s : s \ {x} \in J => s \in J
    OBVIOUS
  <2>1. PICK x \in s : TRUE OBVIOUS
  <2>2. s \ {x} \in SUBSET S OBVIOUS
  <2>3. PICK a, b, c \in Int : a = Sum(f, s \ {x}) /\ b = Sum(g, s \ {x}) /\ c = Sum(h, s \ {x})
    BY <1>2, <1>3, <1>4, <2>2
  <2>4. Sum(f, s) = f[x] + a /\ Sum(g, s) = g[x] + b /\ Sum(h, s) = h[x] + c
    BY <1>2, <1>3, <1>4, <2>1, <2>3
  <2>5. f[x] \in Int /\ g[x] \in Int /\ h[x] = f[x] + g[x] OBVIOUS
  <2>6. ASSUME c = a + b PROVE Sum(h, s) = Sum(f, s) + Sum(g, s)
    BY <2>4, <2>5, <2>6
  <2> QED BY <2>3, <2>6
<1>6. {} \in J  BY <1>2, <1>3, <1>4
<1>7. SUBSET S \subseteq J
  <2> HIDE DEF J
  <2> QED BY <1>5, <1>6, Growing
<1> QED BY <1>7

\* Smaller summands make a smaller sum.
LEMMA SumLeq ==
    ASSUME NEW S, NEW f, NEW g, IsFiniteSet(S),
           \A x \in S : f[x] \in Int, \A x \in S : g[x] \in Int, \A x \in S : f[x] <= g[x]
    PROVE  Sum(f, S) <= Sum(g, S)
<1> DEFINE J == {s \in SUBSET S : Sum(f, s) <= Sum(g, s)}
<1>2. /\ Sum(f, {}) = 0
      /\ \A s \in SUBSET S : Sum(f, s) \in Int
      /\ \A s \in SUBSET S : \A x \in s : Sum(f, s) = f[x] + Sum(f, s \ {x})
  BY ONLY IsFiniteSet(S), \A x \in S : f[x] \in Int, SumParts
<1>3. /\ Sum(g, {}) = 0
      /\ \A s \in SUBSET S : Sum(g, s) \in Int
      /\ \A s \in SUBSET S : \A x \in s : Sum(g, s) = g[x] + Sum(g, s \ {x})
  BY ONLY IsFiniteSet(S), \A x \in S : g[x] \in Int, SumParts
<1>5. \A s \in SUBSET S : s # {} => \E x \in s : s \ {x} \in J => s \in J
  <2> SUFFICES ASSUME NEW s \in SUBSET S, s # {} PROVE \E x \in s : s \ {x} \in J => s \in J
    OBVIOUS
  <2>1. PICK x \in s : TRUE OBVIOUS
  <2>2. s \ {x} \in SUBSET S OBVIOUS
  <2>3. PICK a, b \in Int : a = Sum(f, s \ {x}) /\ b = Sum(g, s \ {x})
    BY <1>2, <1>3, <2>2
  <2>4. Sum(f, s) = f[x] + a /\ Sum(g, s) = g[x] + b  BY <1>2, <1>3, <2>1, <2>3
  <2>5. f[x] \in Int /\ g[x] \in Int /\ f[x] <= g[x] OBVIOUS
  <2>6. ASSUME a <= b PROVE Sum(f, s) <= Sum(g, s)
    BY <2>4, <2>5, <2>6
  <2> QED BY <2>3, <2>6
<1>6. {} \in J  BY <1>2, <1>3
<1>7. SUBSET S \subseteq J
  <2> HIDE DEF J
  <2> QED BY <1>5, <1>6, Growing
<1> QED BY <1>7

\* Equal summands make an equal sum.
LEMMA SumSame ==
    ASSUME NEW S, NEW f, NEW g, IsFiniteSet(S), \A x \in S : f[x] \in Int, \A x \in S : g[x] = f[x]
    PROVE  Sum(g, S) = Sum(f, S)
<1>1. (\A x \in S : g[x] \in Int) /\ (\A x \in S : f[x] <= g[x]) /\ (\A x \in S : g[x] <= f[x])
  OBVIOUS
<1>2. Sum(f, S) \in Int /\ Sum(g, S) \in Int  BY <1>1, SumInt
<1>3. Sum(f, S) <= Sum(g, S) /\ Sum(g, S) <= Sum(f, S)  BY <1>1, SumLeq
<1> QED BY <1>2, <1>3

\* A change of one summand.
LEMMA SumPoint ==
    ASSUME NEW S, NEW f, NEW g, IsFiniteSet(S), NEW x \in S,
           \A y \in S : f[y] \in Int, g[x] \in Int, \A y \in S \ {x} : g[y] = f[y]
    PROVE  Sum(g, S) = Sum(f, S) - f[x] + g[x] /\ Sum(f, S) \in Int /\ Sum(g, S) \in Int
<1>1. \A y \in S : g[y] \in Int OBVIOUS
<1>2. IsFiniteSet(S \ {x}) /\ \A y \in S \ {x} : f[y] \in Int  BY FS_RemoveElement
<1>3. Sum(g, S \ {x}) = Sum(f, S \ {x})  BY <1>2, SumSame
<1>4. Sum(f, S) = f[x] + Sum(f, S \ {x})  BY SumTake
<1>5. Sum(g, S) = g[x] + Sum(g, S \ {x})  BY <1>1, SumTake
<1>6. Sum(f, S) \in Int /\ Sum(g, S) \in Int /\ Sum(f, S \ {x}) \in Int
  BY <1>1, <1>2, SumInt
<1>7. f[x] \in Int OBVIOUS
<1> QED BY <1>3, <1>4, <1>5, <1>6, <1>7

\* One member more, or one less.
LEMMA SumMember ==
    ASSUME NEW S, NEW f, IsFiniteSet(S), \A y \in S : f[y] \in Int, NEW x, f[x] \in Int
    PROVE  /\ Sum(f, S) \in Int
           /\ x \notin S => Sum(f, S \cup {x}) = Sum(f, S) + f[x]
           /\ x \in S => Sum(f, S \ {x}) = Sum(f, S) - f[x]
<1>1. PICK T : T = S \cup {x} OBVIOUS
<1>2. IsFiniteSet(T) /\ \A y \in T : f[y] \in Int  BY <1>1, FS_AddElement
<1>3. /\ \A s \in SUBSET T : Sum(f, s) \in Int
      /\ \A s \in SUBSET T : \A y \in s : Sum(f, s) = f[y] + Sum(f, s \ {y})
  BY <1>2, SumParts
<1>4. S \in SUBSET T /\ T \in SUBSET T /\ x \in T /\ S \ {x} \in SUBSET T  BY <1>1
<1>5. x \notin S => T \ {x} = S  BY <1>1
<1>6. Sum(f, S) \in Int /\ Sum(f, T) = f[x] + Sum(f, T \ {x}) /\ Sum(f, S \ {x}) \in Int
  BY <1>3, <1>4
<1>7. x \in S => Sum(f, S) = f[x] + Sum(f, S \ {x})  BY <1>3, <1>4
<1>8. x \notin S => Sum(f, T) = Sum(f, S) + f[x]
  <2> SUFFICES ASSUME x \notin S PROVE Sum(f, T) = Sum(f, S) + f[x] OBVIOUS
  <2>1. PICK a \in Int : a = Sum(f, S)
    BY <1>6
  <2>2. Sum(f, T) = f[x] + a  BY <1>5, <1>6, <2>1
  <2> QED BY <2>1, <2>2
<1>9. x \in S => Sum(f, S \ {x}) = Sum(f, S) - f[x]
  <2>1. PICK a \in Int : a = Sum(f, S \ {x})
    BY <1>6
  <2> QED BY <1>7, <2>1
<1> QED BY <1>1, <1>6, <1>8, <1>9

\* What counts for nothing may be left out.
LEMMA SumWithin ==
    ASSUME NEW S, NEW T \in SUBSET S, NEW f, NEW g, IsFiniteSet(S),
           \A x \in S : f[x] \in Int, \A x \in T : g[x] = f[x], \A x \in S \ T : f[x] = 0
    PROVE  Sum(f, S) = Sum(g, T)
<1> DEFINE J == {s \in SUBSET S : Sum(f, s) = Sum(g, s \cap T)}
<1>1. /\ Sum(f, {}) = 0
      /\ \A s \in SUBSET S : Sum(f, s) \in Int
      /\ \A s \in SUBSET S : \A x \in s : Sum(f, s) = f[x] + Sum(f, s \ {x})
  BY SumParts
<1>2. IsFiniteSet(T) /\ \A x \in T : g[x] \in Int  BY FS_Subset
<1>3. /\ Sum(g, {}) = 0
      /\ \A s \in SUBSET T : Sum(g, s) \in Int
      /\ \A s \in SUBSET T : \A x \in s : Sum(g, s) = g[x] + Sum(g, s \ {x})
  BY ONLY <1>2, SumParts
<1>4. \A s \in SUBSET S : s # {} => \E x \in s : s \ {x} \in J => s \in J
  <2> SUFFICES ASSUME NEW s \in SUBSET S, s # {} PROVE \E x \in s : s \ {x} \in J => s \in J
    OBVIOUS
  <2>1. PICK x \in s : TRUE OBVIOUS
  <2> SUFFICES ASSUME Sum(f, s \ {x}) = Sum(g, (s \ {x}) \cap T) PROVE Sum(f, s) = Sum(g, s \cap T)
    OBVIOUS
  <2>2. Sum(f, s) = f[x] + Sum(f, s \ {x}) /\ Sum(f, s \ {x}) \in Int  BY <1>1, <2>1
  <2>3. CASE x \in T
    <3>1. x \in s \cap T /\ s \cap T \in SUBSET T /\ (s \cap T) \ {x} = (s \ {x}) \cap T
      BY <2>1, <2>3
    <3>2. Sum(g, s \cap T) = g[x] + Sum(g, (s \cap T) \ {x})  BY <1>3, <3>1
    <3> QED BY <2>2, <2>3, <3>1, <3>2
  <2>4. CASE x \notin T
    <3>1. (s \ {x}) \cap T = s \cap T  BY <2>4
    <3>2. f[x] = 0  BY <2>1, <2>4
    <3>3. Sum(f, s) = Sum(f, s \ {x})  BY <2>2, <3>2
    <3> QED BY <3>1, <3>3
  <2> QED BY <2>3, <2>4
<1>5. {} \in J
  <2>1. {} \cap T = {} OBVIOUS
  <2> QED BY <1>1, <1>3, <2>1
<1>6. SUBSET S \subseteq J
  <2> HIDE DEF J
  <2> QED BY <1>4, <1>5, Growing
<1>7. S \cap T = T /\ S \in J  BY <1>6
<1> QED BY <1>7

\* A sum of equal summands.
LEMMA SumConst ==
    ASSUME NEW S, NEW f, NEW c \in Int, IsFiniteSet(S), \A x \in S : f[x] = c
    PROVE  Sum(f, S) = c * Cardinality(S)
<1> DEFINE J == {s \in SUBSET S : Sum(f, s) = c * Cardinality(s)}
<1>1. /\ Sum(f, {}) = 0
      /\ \A s \in SUBSET S : Sum(f, s) \in Int
      /\ \A s \in SUBSET S : \A x \in s : Sum(f, s) = f[x] + Sum(f, s \ {x})
  BY SumParts
<1>2. \A s \in SUBSET S : s # {} => \E x \in s : s \ {x} \in J => s \in J
  <2> SUFFICES ASSUME NEW s \in SUBSET S, s # {} PROVE \E x \in s : s \ {x} \in J => s \in J
    OBVIOUS
  <2>1. PICK x \in s : TRUE OBVIOUS
  <2>2. IsFiniteSet(s) /\ IsFiniteSet(s \ {x})  BY FS_Subset
  <2>3. Cardinality(s \ {x}) = Cardinality(s) - 1 /\ Cardinality(s) \in Nat
    BY <2>1, <2>2, FS_RemoveElement, FS_CardinalityType
  <2>4. PICK n \in Nat : n = Cardinality(s)
    BY <2>3
  <2>5. c * n = c + c * (n - 1) OBVIOUS
  <2>6. Sum(f, s) = c + Sum(f, s \ {x})  BY <1>1, <2>1
  <2> QED BY <2>1, <2>3, <2>4, <2>5, <2>6
<1>3. {} \in J
  <2>1. Cardinality({}) = 0 /\ c * 0 = 0  BY FS_EmptySet
  <2> QED BY <1>1, <2>1
<1>4. SUBSET S \subseteq J
  <2> HIDE DEF J
  <2> QED BY <1>2, <1>3, Growing
<1> QED BY <1>4

\* A sum by groups: C[y] are the members of X whose group is y.
LEMMA SumGroups ==
    ASSUME NEW X, NEW f, IsFiniteSet(X), \A x \in X : f[x] \in Int,
           NEW Y, IsFiniteSet(Y), NEW k, \A x \in X : k[x] \in Y,
           NEW C, \A y \in Y : C[y] \in SUBSET X /\ \A x \in X : x \in C[y] <=> k[x] = y,
           NEW g, \A y \in Y : g[y] = Sum(f, C[y])
    PROVE  Sum(g, Y) = Sum(f, X)
<1> DEFINE Of(s) == {x \in X : k[x] \in s}
<1> DEFINE J == {s \in SUBSET Y : Sum(g, s) = Sum(f, Of(s))}
<1>1. /\ Sum(f, {}) = 0
      /\ \A s \in SUBSET X : IsFiniteSet(s) /\ Sum(f, s) \in Int
  BY SumParts
<1>2. \A y \in Y : g[y] \in Int  BY <1>1
<1>3. /\ Sum(g, {}) = 0
      /\ \A s \in SUBSET Y : Sum(g, s) \in Int
      /\ \A s \in SUBSET Y : \A x \in s : Sum(g, s) = g[x] + Sum(g, s \ {x})
  BY ONLY IsFiniteSet(Y), <1>2, SumParts
<1>4. ASSUME NEW s \in SUBSET Y, NEW y \in s
      PROVE  Sum(f, Of(s)) = Sum(f, C[y]) + Sum(f, Of(s \ {y}))
  <2> DEFINE a == [x \in X |-> IF k[x] = y THEN f[x] ELSE 0]
  <2> DEFINE b == [x \in X |-> IF k[x] = y THEN 0 ELSE f[x]]
  <2>1. IsFiniteSet(Of(s)) /\ C[y] \in SUBSET Of(s) /\ Of(s \ {y}) \in SUBSET Of(s)  BY <1>1
  <2>2. \A x \in Of(s) : f[x] \in Int /\ a[x] \in Int /\ b[x] \in Int /\ f[x] = a[x] + b[x]
    OBVIOUS
  <2>3. (\A x \in C[y] : f[x] = a[x]) /\ \A x \in Of(s) \ C[y] : a[x] = 0 OBVIOUS
  <2>4. (\A x \in Of(s \ {y}) : f[x] = b[x]) /\ \A x \in Of(s) \ Of(s \ {y}) : b[x] = 0
    OBVIOUS
  <2> HIDE DEF a, b, Of
  <2>5. Sum(a, Of(s)) = Sum(f, C[y])  BY <2>1, <2>2, <2>3, SumWithin
  <2>6. Sum(b, Of(s)) = Sum(f, Of(s \ {y}))
    <3>1. PICK S, T : S = Of(s) /\ T = Of(s \ {y}) OBVIOUS
    <3>2. IsFiniteSet(S) /\ T \in SUBSET S  BY <2>1, <3>1
    <3>3. (\A x \in S : b[x] \in Int) /\ (\A x \in T : f[x] = b[x]) /\ \A x \in S \ T : b[x] = 0
      BY <2>2, <2>4, <3>1
    <3>4. Sum(b, S) = Sum(f, T)  BY ONLY <3>2, <3>3, SumWithin
    <3> QED BY <3>1, <3>4
  <2>7. Sum(f, Of(s)) = Sum(a, Of(s)) + Sum(b, Of(s))  BY <2>1, <2>2, SumPlus
  <2> QED BY <2>5, <2>6, <2>7
<1>5. \A s \in SUBSET Y : s # {} => \E y \in s : s \ {y} \in J => s \in J
  <2> SUFFICES ASSUME NEW s \in SUBSET Y, s # {} PROVE \E y \in s : s \ {y} \in J => s \in J
    OBVIOUS
  <2>1. PICK y \in s : TRUE OBVIOUS
  <2>2. Sum(g, s) = g[y] + Sum(g, s \ {y}) /\ g[y] = Sum(f, C[y])  BY <1>3
  <2>3. Sum(f, Of(s)) = Sum(f, C[y]) + Sum(f, Of(s \ {y}))  BY <1>4
  <2> HIDE DEF Of
  <2> QED BY <2>2, <2>3
<1>6. {} \in J
  <2>1. Of({}) = {} OBVIOUS
  <2> HIDE DEF Of
  <2> QED BY <1>1, <1>3, <2>1
<1>7. SUBSET Y \subseteq J
  <2> HIDE DEF J
  <2> QED BY <1>5, <1>6, Growing
<1>8. Of(Y) = X /\ Y \in J  BY <1>7
<1> QED BY <1>8

\* The sums of nothing and of one.
LEMMA SumOne ==
    ASSUME NEW x, NEW f, f[x] \in Int
    PROVE  Sum(f, {}) = 0 /\ Sum(f, {x}) = f[x]
<1>1. IsFiniteSet({}) /\ IsFiniteSet({x})  BY FS_EmptySet, FS_Singleton
<1>2. \A y \in {} : f[y] \in Int OBVIOUS
<1>3. Sum(f, {}) = 0  BY <1>1, <1>2, SumStep
<1>4. \A y \in {x} : f[y] \in Int OBVIOUS
<1>5. Sum(f, {x}) = f[x] + Sum(f, {x} \ {x})  BY <1>1, <1>4, SumTake
<1>6. {x} \ {x} = {} OBVIOUS
<1>7. Sum(f, {x}) = f[x] + 0  BY <1>3, <1>5, <1>6
<1>8. f[x] + 0 = f[x] OBVIOUS
<1> QED BY <1>3, <1>7, <1>8

-----------------------------------------------------------------------------
(* The account of goods and mesos.                                          *)

\* Merchant s can still be traded at, or emptied into a package.
Live(s) == shop[s].can /\ ~Stored(s)

\* Thread u has saved what s held.
Stores(u, s) == pc[u].op \in {"saved", "cleared"} /\ pc[u].s = s

\* Thread u has cleared the goods of s.
Clears(u, s) == pc[u].op = "cleared" /\ pc[u].s = s

\* Thread u has paid out the till of s, and not emptied it yet.
Empties(u, s) == pc[u].op = "withdraw" /\ pc[u].s = s

\* Thread u has handed out units of l and not counted them down yet.
Works(u, l) == pc[u].op \in {"handed", "takeback"} /\ pc[u].l = l

\* Goods that are not below zero.
Positive(x) == IF x > 0 THEN x ELSE 0

\* Units of l that t has handed to a buyer and not counted down yet.
Owed(t, l) == IF pc[t].op = "handed" /\ pc[t].l = l THEN pc[t].n ELSE 0

\* All such units.
Debt(l) == Sum([t \in Threads |-> Owed(t, l)], Threads)

\* An owner is taking l back: he has it already, and its count is not yet zero.
BeingTaken(l) == \E t \in Threads : pc[t].op = "takeback" /\ pc[t].l = l

\* Good l is on the list of s.
OnList(l, s) == l \in ToSet(shop[s].items)

\* What the count of l says is left at s.
Value(l, s) == IF OnList(l, s) /\ ~BeingTaken(l) THEN Positive(left[l]) ELSE 0

\* What the proofs need of the operation a thread is in the middle of.
Task(t) ==
    /\ pc[t].l \in Int /\ pc[t].n \in Int /\ pc[t].v \in Int
    /\ pc[t].op \in {"handed", "takeback"} => pc[t].l \in DOMAIN left
    /\ pc[t].op \in {"checked", "handed", "counted"} => pc[t].n \in Nat

\* What the proofs need of the goods and the till of a merchant.
Stall(s) == shop[s].items \in Seq(DOMAIN left) /\ shop[s].meso \in Int

\* What an account's row in the database is.
Row == [goods : Int, meso : Int] \cup {None}

\* What the proofs need of the types of goods, mesos and packages.
Wares ==
    /\ left \in Seq(Int) /\ bag \in [Players -> Int] /\ purse \in [Players -> Int]
    /\ package \in [Owners -> Row]
    /\ \A s \in Hired : Stall(s)
    /\ \A t \in Threads : Task(t)

\* Of the units of l, k are still to be had from s, whose list l is on.  If no two
\* threads have been busy with one merchant, they are what the count says less what
\* is handed out; otherwise at most that, and no count that a buyer has yet to
\* write leaves less than k and what the others were handed.
Covered(l, s, k) ==
    IF Live(s)
    THEN /\ k + Debt(l) <= Value(l, s)
         /\ \A t \in Threads : pc[t].op = "handed" /\ pc[t].l = l =>
              k + Debt(l) - pc[t].n <= Positive(pc[t].v - pc[t].n)
         /\ ~overlapped => k + Debt(l) = Value(l, s)
    ELSE k = 0

\* Every good is at one merchant only.
AtHome(home) ==
    /\ \A s \in Hired : \A l \in ToSet(shop[s].items) : home[l] = s
    /\ \A t \in Threads : pc[t].op \in {"handed", "takeback"} => home[pc[t].l] = pc[t].s

\* Goods that the owners began with.
Everything == Stock * Cardinality(Owners)

\* Goods in bags, still to be had from merchants, and in packages.
AllOf(low) == Sum(bag, Players) + Sum(low, DOMAIN left) + Unclaimed("goods")

\* None of the goods is missing, and without overlaps there is none too many.
Enough(low) == AllOf(low) >= Everything /\ (~overlapped => AllOf(low) = Everything)

\* Good l is at home[l], where low[l] of its units are still to be had.
Account(home, low) ==
    /\ home \in [DOMAIN left -> Hired] /\ low \in [DOMAIN left -> Int]
    /\ AtHome(home)
    /\ \A l \in DOMAIN left : Covered(l, home[l], low[l])
    /\ Enough(low)

\* A closed merchant is empty.
EmptiedAt(s) ==
    (shop[s].avail /\ ~shop[s].can) \/ (\E u \in Threads : Clears(u, s)) => shop[s].items = <<>>

\* A merchant that is selling is in the list.
FoundAt(s) == shop[s].avail /\ shop[s].can => InIndex(s)

\* A merchant not yet opened is its owner's alone.
OwnedAt(s) == ~shop[s].avail =>
    /\ shop[s].alarm = "set" => at[shop[s].owner] = s
    /\ \A t \in Threads : Shuts(t, s) => t = shop[s].owner
    /\ shop[s].meso = 0

\* Who fetches his package has no merchant, and gets what the package holds.
LoadingAt(o) == pc[o].op = "load" =>
    /\ ~HasMerchant(o)
    /\ package[o] # None /\ package[o].goods <= pc[o].l
    /\ ~overlapped => package[o] = [goods |-> pc[o].l, meso |-> pc[o].n]

\* Owners take back and withdraw, buyers buy.
DealingAt(t) ==
    /\ pc[t].op \in {"takeback", "withdraw"} => t = shop[pc[t].s].owner
    /\ pc[t].op \in {"checked", "handed", "counted"} => t \in Buyers /\ shop[pc[t].s].avail
    /\ pc[t].op = "takeback" /\ Live(pc[t].s) =>
         pc[t].n \in DOMAIN shop[pc[t].s].items /\ shop[pc[t].s].items[pc[t].n] = pc[t].l

\* What holds of merchants and threads as long as nothing has lapsed.
Settled ==
    /\ \A s \in Hired : EmptiedAt(s)
    /\ \A s \in Hired : FoundAt(s)
    /\ \A s \in Hired : OwnedAt(s)
    /\ \A o \in Owners : LoadingAt(o)
    /\ \A t \in Threads : DealingAt(t)

\* Without overlaps what a thread has read is still so when it writes.
NeatAt(t) ==
    /\ pc[t].op \in Busy => Live(pc[t].s)
    /\ pc[t].op = "checked" =>
         /\ pc[t].l \in DOMAIN shop[pc[t].s].items
         /\ pc[t].n <= left[shop[pc[t].s].items[pc[t].l]]
    /\ pc[t].op = "handed" =>
         OnList(pc[t].l, pc[t].s) /\ pc[t].v = left[pc[t].l] /\ pc[t].n <= pc[t].v
    /\ pc[t].op = "counted" => pc[t].v = shop[pc[t].s].meso

\* What holds of them without overlaps.
Neat == (\A t \in Threads : NeatAt(t)) /\ \A l \in DOMAIN left : left[l] >= 0

\* The mesos are those the buyers began with.
Coined == AllMesos = Coins * Cardinality(Buyers)

\* The invariant of Kept: the goods are accounted for as long as nothing has lapsed.
KInv ==
    /\ Wares
    /\ lapses = {} =>
         /\ Settled
         /\ \E home, low : Account(home, low)
         /\ ~overlapped => Neat /\ Coined

\* Goods and mesos that merchant s has for sale and in the till.
Tills == Sum([s \in Hired |-> Till(s)], Hired)

\* What a row holds.
Worth(row, field) == IF row = None THEN 0 ELSE row[field]

-----------------------------------------------------------------------------
(* What is counted, and what a step that does not concern it leaves.        *)

\* Players, threads and merchants are finitely many.
LEMMA Finite ==
    ASSUME Types, AccountsAssumption
    PROVE  /\ IsFiniteSet(Players) /\ IsFiniteSet(Owners) /\ IsFiniteSet(Buyers)
           /\ IsFiniteSet(Threads) /\ IsFiniteSet(Hired)
<1>1. IsFiniteSet(Owners) /\ IsFiniteSet(Buyers) /\ IsFiniteSet(Players)
  BY FS_Union DEF AccountsAssumption, Players
<1>2. IsFiniteSet(1 .. MaxShops)  BY FS_Interval
<1>3. IsFiniteSet({Console})  BY FS_Singleton
<1>4. IsFiniteSet(Threads)  BY <1>1, <1>2, <1>3, FS_Union DEF Threads, Alarms, Shops
<1>5. PICK n \in 0 .. MaxShops : Hired = 1 .. n
  BY DEF Types, Listing
<1>6. IsFiniteSet(Hired)  BY <1>5, FS_Interval
<1> QED BY <1>1, <1>4, <1>6

\* The goods ever put up are finitely many.
LEMMA GoodsFinite ==
    ASSUME Wares PROVE IsFiniteSet(DOMAIN left) /\ DOMAIN left \subseteq Nat \ {0}
<1>1. PICK n \in Nat : DOMAIN left = 1 .. n
  BY LenProperties DEF Wares
<1> QED BY <1>1, FS_Interval

\* A good's debt is what each thread owes.
LEMMA DebtIs ==
    ASSUME Types, Wares, AccountsAssumption, NEW l
    PROVE  /\ Debt(l) \in Int
           /\ \A t \in Threads : Owed(t, l) \in Int /\ Owed(t, l) >= 0
           /\ \A t \in Threads : Owed(t, l) <= Debt(l)
           /\ (\A t \in Threads : Owed(t, l) = 0) => Debt(l) = 0
<1> DEFINE f == [t \in Threads |-> Owed(t, l)]
<1>1. \A t \in Threads : Owed(t, l) \in Int /\ Owed(t, l) >= 0  BY DEF Owed, Wares, Task
<1>2. IsFiniteSet(Threads) /\ \A t \in Threads : f[t] \in Int  BY <1>1, Finite
<1>3. Debt(l) = Sum(f, Threads)  BY DEF Debt
<1>4. \A t \in Threads : f[t] = Owed(t, l) OBVIOUS
<1> HIDE DEF f
<1>5. Debt(l) \in Int  BY <1>2, <1>3, SumInt
<1>6. ASSUME NEW t \in Threads PROVE Owed(t, l) <= Debt(l)
  <2> DEFINE g == [u \in Threads |-> IF u = t THEN Owed(t, l) ELSE 0]
  <2>1. (\A u \in Threads : g[u] \in Int) /\ \A u \in Threads : g[u] <= f[u]  BY <1>1, <1>4
  <2>2. Sum(g, Threads) <= Sum(f, Threads)
    <3> HIDE DEF g
    <3> QED BY <1>2, <2>1, SumLeq
  <2>3. {t} \in SUBSET Threads /\ (\A u \in {t} : g[u] = g[u]) /\ \A u \in Threads \ {t} : g[u] = 0
    OBVIOUS
  <2>4. Sum(g, Threads) = Sum(g, {t})
    <3> HIDE DEF g
    <3> QED BY <1>2, <2>1, <2>3, SumWithin
  <2>5. g[t] = Owed(t, l) /\ g[t] \in Int  BY <2>1
  <2>6. Sum(g, {t}) = g[t]
    <3> HIDE DEF g
    <3> QED BY <2>5, SumOne
  <2> QED BY <1>3, <2>2, <2>4, <2>5, <2>6
<1>7. ASSUME \A t \in Threads : Owed(t, l) = 0 PROVE Debt(l) = 0
  <2>1. \A t \in Threads : f[t] = 0  BY <1>4, <1>7
  <2>2. {} \in SUBSET Threads /\ (\A u \in {} : f[u] = f[u]) /\ \A u \in Threads \ {} : f[u] = 0
    BY <2>1
  <2>3. Sum(f, Threads) = Sum(f, {})  BY <1>2, <2>2, SumWithin
  <2>4. Sum(f, {}) = 0  BY <1>2, SumParts
  <2> QED BY <1>3, <2>3, <2>4
<1> QED BY <1>1, <1>5, <1>6, <1>7

\* A step of t changes the debt by what t owes.
LEMMA DebtMoves ==
    ASSUME Types, Wares, AccountsAssumption, NEW l, NEW t \in Threads, Only(t), Task(t)'
    PROVE  /\ Debt(l)' = Debt(l) - Owed(t, l) + Owed(t, l)'
           /\ Debt(l)' \in Int /\ Owed(t, l)' \in Int
           /\ \A u \in Threads \ {t} : Owed(u, l)' = Owed(u, l)
<1> DEFINE f == [u \in Threads |-> Owed(u, l)]
<1> DEFINE g == [u \in Threads |-> Owed(u, l)']
<1>1. IsFiniteSet(Threads) /\ \A u \in Threads : Owed(u, l) \in Int  BY Finite, DebtIs
<1>2. Owed(t, l)' \in Int  BY DEF Owed, Task
<1>3. \A u \in Threads \ {t} : Owed(u, l)' = Owed(u, l)  BY DEF Owed, Only
<1>4. Debt(l) = Sum(f, Threads)  BY DEF Debt
<1>5. Debt(l)' = Sum(g, Threads)  BY DEF Debt, Sum, FoldSet, MapThenFoldSet
<1>6. /\ \A u \in Threads : f[u] \in Int
      /\ g[t] \in Int /\ \A u \in Threads \ {t} : g[u] = f[u]
  BY <1>1, <1>2, <1>3
<1>7. f[t] = Owed(t, l) /\ g[t] = Owed(t, l)' OBVIOUS
<1> HIDE DEF f, g
<1>8. Sum(g, Threads) = Sum(f, Threads) - f[t] + g[t] /\ Sum(g, Threads) \in Int
  BY <1>1, <1>6, SumPoint
<1> QED BY <1>2, <1>3, <1>4, <1>5, <1>7, <1>8

\* The goods, or the mesos, in the packages.
LEMMA UnclaimedIs ==
    ASSUME Wares, AccountsAssumption, NEW field \in {"goods", "meso"}
    PROVE  /\ \A o \in Owners : Worth(package[o], field) \in Int
           /\ Unclaimed(field) = Sum([o \in Owners |-> Worth(package[o], field)], Owners)
           /\ Unclaimed(field) \in Int
<1>1. \A o \in Owners : package[o] \in Row  BY DEF Wares
<1>2. \A o \in Owners : Worth(package[o], field) \in Int
  <2> TAKE o \in Owners
  <2>1. package[o] \in Row  BY <1>1
  <2>2. CASE package[o] = None
    BY <2>2 DEF Worth
  <2>3. CASE package[o] # None
    <3>1. package[o] \in [goods : Int, meso : Int]  BY <2>1, <2>3 DEF Row
    <3>2. package[o].goods \in Int /\ package[o].meso \in Int  BY <3>1
    <3> QED BY <2>3, <3>2 DEF Worth
  <2> QED BY <2>2, <2>3
<1>3. Unclaimed(field) = Sum([o \in Owners |-> Worth(package[o], field)], Owners)
  BY DEF Unclaimed, Worth
<1>4. IsFiniteSet(Owners)  BY DEF AccountsAssumption
<1> DEFINE f == [o \in Owners |-> Worth(package[o], field)]
<1>5. \A o \in Owners : f[o] \in Int  BY <1>2
<1>6. Sum(f, Owners) \in Int
  <2> HIDE DEF f
  <2> QED BY <1>4, <1>5, SumInt
<1> QED BY <1>2, <1>3, <1>6

\* The package of one account changes.
LEMMA UnclaimedMoves ==
    ASSUME Wares, Wares', AccountsAssumption, NEW field \in {"goods", "meso"}, NEW o \in Owners,
           \A r \in Owners \ {o} : package'[r] = package[r]
    PROVE  Unclaimed(field)' = Unclaimed(field) - Worth(package[o], field) + Worth(package'[o], field)
<1> DEFINE f == [r \in Owners |-> Worth(package[r], field)]
<1> DEFINE g == [r \in Owners |-> Worth(package'[r], field)]
<1>1. \A r \in Owners : Worth(package[r], field) \in Int  BY UnclaimedIs
<1>2. \A r \in Owners : Worth(package'[r], field) \in Int
  <2>1. \A r \in Owners : package'[r] \in Row  BY DEF Wares
  <2> TAKE r \in Owners
  <2>2. package'[r] \in Row  BY <2>1
  <2>3. CASE package'[r] = None
    BY <2>3 DEF Worth
  <2>4. CASE package'[r] # None
    <3>1. package'[r] \in [goods : Int, meso : Int]  BY <2>2, <2>4 DEF Row
    <3>2. package'[r].goods \in Int /\ package'[r].meso \in Int  BY <3>1
    <3> QED BY <2>4, <3>2 DEF Worth
  <2> QED BY <2>3, <2>4
<1>3. Unclaimed(field) = Sum(f, Owners)  BY UnclaimedIs
<1>4. Unclaimed(field)' = Sum(g, Owners)
  BY DEF Unclaimed, Worth, Sum, FoldSet, MapThenFoldSet
<1>5. \A r \in Owners \ {o} : Worth(package'[r], field) = Worth(package[r], field)  OBVIOUS
<1>6. (\A r \in Owners : f[r] \in Int) /\ g[o] \in Int /\ \A r \in Owners \ {o} : g[r] = f[r]
  BY <1>1, <1>2, <1>5
<1>7. f[o] = Worth(package[o], field) /\ g[o] = Worth(package'[o], field) OBVIOUS
<1>8. IsFiniteSet(Owners)  BY DEF AccountsAssumption
<1> HIDE DEF f, g
<1>9. Sum(g, Owners) = Sum(f, Owners) - f[o] + g[o]  BY <1>6, <1>8, SumPoint
<1> QED BY <1>3, <1>4, <1>7, <1>9

\* The packages do not change.
LEMMA UnclaimedStays ==
    ASSUME package' = package, NEW field
    PROVE  Unclaimed(field)' = Unclaimed(field)
BY DEF Unclaimed

\* A bag, or a purse, of one player changes.
LEMMA HoldsMore ==
    ASSUME Types, AccountsAssumption, NEW f \in [Players -> Int], NEW p \in Players, NEW d \in Int, NEW g,
           g = [f EXCEPT ![p] = f[p] + d]
    PROVE  g \in [Players -> Int] /\ Sum(g, Players) = Sum(f, Players) + d
           /\ Sum(f, Players) \in Int /\ Sum(g, Players) \in Int
<1>1. g \in [Players -> Int] /\ g[p] = f[p] + d OBVIOUS
<1>2. (\A q \in Players : f[q] \in Int) /\ g[p] \in Int /\ \A q \in Players \ {p} : g[q] = f[q]
  OBVIOUS
<1>3. IsFiniteSet(Players)  BY Finite
<1>4. Sum(g, Players) = Sum(f, Players) - f[p] + g[p] /\ Sum(f, Players) \in Int /\ Sum(g, Players) \in Int
  BY ONLY <1>2, <1>3, p \in Players, SumPoint
<1>5. PICK a \in Int : a = Sum(f, Players)
  BY <1>4
<1>6. f[p] \in Int /\ a - f[p] + (f[p] + d) = a + d OBVIOUS
<1> QED BY <1>1, <1>4, <1>5, <1>6

-----------------------------------------------------------------------------
(* What a step leaves as it was.                                            *)

\* A merchant is stored when a thread has saved it.
LEMMA StoredIs ==
    ASSUME NEW s PROVE Stored(s) <=> \E u \in Threads : Stores(u, s)
BY DEF Stored, Doing, Stores

\* Whether s can be traded at changes only with its door or what t is doing.
LEMMA LiveMoves ==
    ASSUME NEW s, NEW t \in Threads, Only(t), shop'[s].can = shop[s].can,
           Stores(t, s)' <=> Stores(t, s)
    PROVE  (Live(s)' <=> Live(s)) /\ (Stored(s)' <=> Stored(s))
<1>1. \A u \in Threads : Stores(u, s)' <=> Stores(u, s)  BY DEF Stores, Only
<1>2. Stored(s)' <=> \E u \in Threads : Stores(u, s)'  BY DEF Stored, Doing, Stores
<1>3. Stored(s)' <=> Stored(s)  BY <1>1, <1>2, StoredIs
<1> QED BY <1>3 DEF Live

\* What an account's till counts for.
LEMMA TillIs ==
    ASSUME NEW s
    PROVE  Till(s) = IF Live(s) /\ ~(\E u \in Threads : Empties(u, s)) THEN shop[s].meso ELSE 0
<1>1. Doing("withdraw", s) = {} <=> ~(\E u \in Threads : Empties(u, s))
  BY DEF Doing, Empties
<1> QED BY <1>1 DEF Till, Live

\* A till nobody touches.
LEMMA TillStays ==
    ASSUME NEW s, NEW t \in Threads, Only(t), shop'[s].can = shop[s].can,
           shop'[s].meso = shop[s].meso \/ ~Live(s) \/ \E u \in Threads \ {t} : Empties(u, s),
           Stores(t, s)' <=> Stores(t, s), Empties(t, s)' <=> Empties(t, s)
    PROVE  Till(s)' = Till(s)
<1>1. Live(s)' <=> Live(s)  BY LiveMoves
<1>2. \A u \in Threads : Empties(u, s)' <=> Empties(u, s)  BY DEF Empties, Only
<1>3. Till(s)' = IF Live(s)' /\ ~(\E u \in Threads : Empties(u, s)') THEN shop'[s].meso ELSE 0
  <2>1. Doing("withdraw", s)' = {} <=> ~(\E u \in Threads : Empties(u, s)')
    BY DEF Doing, Empties
  <2> QED BY <2>1 DEF Till, Live
<1>4. Till(s) = IF Live(s) /\ ~(\E u \in Threads : Empties(u, s)) THEN shop[s].meso ELSE 0
  BY TillIs
<1> QED BY <1>1, <1>2, <1>3, <1>4

\* The till of one merchant changes.
LEMMA TillsMove ==
    ASSUME Types, Wares, Wares', AccountsAssumption, NEW s \in Hired, DOMAIN shop' = Hired,
           \A r \in Hired \ {s} : Till(r)' = Till(r)
    PROVE  /\ Tills' = Tills - Till(s) + Till(s)'
           /\ Tills \in Int /\ Tills' \in Int /\ Till(s) \in Int /\ Till(s)' \in Int
<1> DEFINE f == [r \in Hired |-> Till(r)]
<1> DEFINE g == [r \in Hired |-> Till(r)']
<1>1. \A r \in Hired : Till(r) \in Int  BY DEF Till, Wares, Stall
<1>2. Till(s)' \in Int
  <2>1. shop'[s].meso \in Int  BY DEF Wares, Stall, Hired
  <2> QED BY <2>1 DEF Till
<1>3. Tills = Sum(f, Hired)  BY DEF Tills
<1>4. Tills' = Sum(g, Hired)
  <2>1. Hired' = Hired  BY DEF Hired
  <2>2. Tills' = Sum([r \in Hired' |-> Till(r)'], Hired')
    BY DEF Tills, Sum, FoldSet, MapThenFoldSet
  <2> QED BY <2>1, <2>2
<1>5. (\A r \in Hired : f[r] \in Int) /\ g[s] \in Int /\ \A r \in Hired \ {s} : g[r] = f[r]
  BY <1>1, <1>2
<1>6. f[s] = Till(s) /\ g[s] = Till(s)' OBVIOUS
<1>7. IsFiniteSet(Hired)  BY Finite
<1> HIDE DEF f, g
<1>8. Sum(g, Hired) = Sum(f, Hired) - f[s] + g[s] /\ Sum(f, Hired) \in Int /\ Sum(g, Hired) \in Int
  BY <1>5, <1>7, SumPoint
<1> QED BY <1>1, <1>2, <1>3, <1>4, <1>6, <1>8

\* No till changes.
LEMMA TillsStay ==
    ASSUME DOMAIN shop' = Hired, \A r \in Hired : Till(r)' = Till(r)
    PROVE  Tills' = Tills
<1> DEFINE f == [r \in Hired |-> Till(r)]
<1> DEFINE g == [r \in Hired |-> Till(r)']
<1>1. Tills = Sum(f, Hired)  BY DEF Tills
<1>2. Tills' = Sum(g, Hired)
  <2>1. Hired' = Hired  BY DEF Hired
  <2>2. Tills' = Sum([r \in Hired' |-> Till(r)'], Hired')
    BY DEF Tills, Sum, FoldSet, MapThenFoldSet
  <2> QED BY <2>1, <2>2
<1>3. f = g OBVIOUS
<1> QED BY <1>1, <1>2, <1>3

\* What the mesos are made of.
LEMMA MesosAre ==
    AllMesos = Sum(purse, Players) + Tills + Unclaimed("meso")
BY DEF AllMesos, Tills

\* Goods, mesos and packages keep their types if what changes has them.
LEMMA WaresStay ==
    ASSUME Types, Wares, NEW t \in Threads, Only(t), Task(t)', DOMAIN shop' = Hired,
           left' \in Seq(Int), DOMAIN left \subseteq DOMAIN left', bag' \in [Players -> Int],
           purse' \in [Players -> Int], package' \in [Owners -> Row],
           \A r \in Hired : Stall(r)'
    PROVE  Wares'
<1>1. ASSUME NEW u \in Threads PROVE Task(u)'
  <2>1. CASE u = t
    BY <2>1
  <2>2. CASE u # t
    <3>1. pc'[u] = pc[u] /\ Task(u)  BY <2>2 DEF Only, Wares
    <3> QED BY <3>1 DEF Task
  <2> QED BY <2>1, <2>2
<1>2. \A r \in Hired' : Stall(r)'  BY DEF Hired
<1> QED BY <1>1, <1>2 DEF Wares

\* A stall whose goods and till stay.
LEMMA StallStays ==
    ASSUME NEW s, Stall(s), left' \in Seq(Int), left \in Seq(Int), DOMAIN left \subseteq DOMAIN left',
           shop'[s].items = shop[s].items, shop'[s].meso = shop[s].meso
    PROVE  Stall(s)'
<1>1. shop[s].items \in Seq(DOMAIN left)  BY DEF Stall
<1>2. shop[s].items \in Seq(DOMAIN left')
  <2>1. \A i \in 1 .. Len(shop[s].items) : shop[s].items[i] \in DOMAIN left
    BY <1>1, ElementOfSeq
  <2>2. Len(shop[s].items) \in Nat  BY <1>1, LenProperties
  <2>3. shop[s].items = [i \in 1 .. Len(shop[s].items) |-> shop[s].items[i]]
    BY <1>1, LenProperties
  <2>4. [i \in 1 .. Len(shop[s].items) |-> shop[s].items[i]] \in Seq(DOMAIN left')
    BY <2>1, <2>2, IsASeq
  <2> QED BY <2>3, <2>4
<1> QED BY <1>2 DEF Stall

\* A thread that goes on sees the merchants as they were.
Untouched(s) ==
    /\ Live(s) => Live(s)'
    /\ shop'[s].items = shop[s].items /\ shop'[s].meso = shop[s].meso
    /\ \A l \in ToSet(shop[s].items) : left'[l] = left[l]

\* A thread finds what it left where nothing was touched.
LEMMA NeatStays ==
    ASSUME NEW u, pc'[u] = pc[u], NeatAt(u), pc[u].op \in Busy => Untouched(pc[u].s)
    PROVE  NeatAt(u)'
<1>1. PICK p : p = pc[u] OBVIOUS
<1>2. PICK s : s = pc[u].s OBVIOUS
<1>3. CASE pc[u].op \notin Busy
  BY <1>3 DEF NeatAt, Busy
<1>4. CASE pc[u].op \in Busy
  <2>1. Live(s)' /\ shop'[s].items = shop[s].items /\ shop'[s].meso = shop[s].meso
    BY <1>2, <1>4 DEF Untouched, NeatAt
  <2>2. \A l \in ToSet(shop[s].items) : left'[l] = left[l]  BY <1>2, <1>4 DEF Untouched
  <2>3. pc'[u].s = s /\ pc'[u].l = p.l /\ pc'[u].n = p.n /\ pc'[u].v = p.v /\ pc'[u].op = p.op
    BY <1>1, <1>2
  <2>4. p.op = "checked" =>
          p.l \in DOMAIN shop[s].items /\ p.n <= left[shop[s].items[p.l]]
    BY <1>1, <1>2 DEF NeatAt
  <2>5. p.op = "checked" => p.l \in DOMAIN shop'[s].items /\ p.n <= left'[shop'[s].items[p.l]]
    BY <2>1, <2>2, <2>4 DEF ToSet
  <2>6. p.op = "handed" => OnList(p.l, s) /\ p.v = left[p.l] /\ p.n <= p.v
    BY <1>1, <1>2 DEF NeatAt
  <2>7. p.op = "handed" => OnList(p.l, s)' /\ p.v = left'[p.l] /\ p.n <= p.v
    BY <2>1, <2>2, <2>6 DEF OnList
  <2>8. p.op = "counted" => p.v = shop'[s].meso  BY <1>1, <1>2, <2>1 DEF NeatAt
  <2>9. PICK q : q = pc'[u] OBVIOUS
  <2>10. q.s = s /\ q.l = p.l /\ q.n = p.n /\ q.v = p.v /\ q.op = p.op  BY <2>3, <2>9
  <2> QED BY <2>1, <2>5, <2>7, <2>8, <2>9, <2>10 DEF NeatAt, OnList, Live, Stored, Doing
<1> QED BY <1>3, <1>4

\* Nobody else is at the merchant where t is, or where it begins.
LEMMA NobodyElse ==
    ASSUME IInv, lapses = {}, ~overlapped, ~overlapped', NEW t \in Threads, NEW s \in Hired,
           pc[t].s = s \/ Joins(t, s)
    PROVE  \A u \in Threads \ {t} : pc[u].s # s
<1>1. Careful  BY DEF IInv, Nice, Around, Struck
<1>2. s # 0  BY DEF IInv, Orderly, Types, Listing
<1>3. CASE pc[t].s = s
  BY <1>1, <1>2, <1>3 DEF Careful, Alone
<1>4. CASE Joins(t, s)
  BY <1>4 DEF Joins
<1> QED BY <1>3, <1>4

\* What holds of merchants and threads still does, if it does of t's own part.
LEMMA SettledStays ==
    ASSUME Types, Settled, NEW t \in Threads, SameShops, Only(t), index' = index,
           \A r \in Hired : shop[r].items = <<>> => shop'[r].items = <<>> \/ Live(r),
           \A r \in Hired : Clears(t, r)' => shop'[r].items = <<>>,
           \A r \in Hired : ~shop[r].avail => shop'[r].meso = 0,
           \A r \in Hired : ~shop[r].avail => (shop'[r].alarm = "set" => at'[shop[r].owner] = r),
           \A r \in Hired : ~shop[r].avail => (Shuts(t, r)' => t = shop[r].owner),
           \A r \in Hired : Stores(t, r) => Stores(t, r)',
           \A r \in Hired : \A u \in Threads \ {t} : pc[u].op = "takeback" /\ pc[u].s = r =>
               shop'[r].items = shop[r].items \/ ~Live(r)',
           DealingAt(t)', \A o \in Owners : LoadingAt(o)'
    PROVE  Settled'
<1>1. ASSUME NEW r \in Hired PROVE EmptiedAt(r)'
  <2> SUFFICES ASSUME (shop'[r].avail /\ ~shop'[r].can) \/ \E u \in Threads : Clears(u, r)'
               PROVE  shop'[r].items = <<>>
    BY DEF EmptiedAt
  <2>1. shop'[r].avail = shop[r].avail /\ shop'[r].can = shop[r].can
    BY DEF SameShops, SameAt
  <2>2. ASSUME NEW u \in Threads, Clears(u, r)' PROVE shop'[r].items = <<>>
    <3>1. CASE u = t
      BY <2>2, <3>1
    <3>2. CASE u # t
      <4>1. Clears(u, r)  BY <2>2, <3>2 DEF Clears, Only
      <4>2. shop[r].items = <<>>  BY <4>1 DEF Settled, EmptiedAt
      <4>3. ~Live(r)  BY <4>1, StoredIs DEF Live, Clears, Stores
      <4> QED BY <4>2, <4>3
    <3> QED BY <3>1, <3>2
  <2>3. ASSUME shop[r].avail, ~shop[r].can PROVE shop'[r].items = <<>>
    <3>1. shop[r].items = <<>>  BY <2>3 DEF Settled, EmptiedAt
    <3> QED BY <2>3, <3>1 DEF Live
  <2> QED BY <2>1, <2>2, <2>3
<1>2. ASSUME NEW r \in Hired PROVE FoundAt(r)'
  <2>1. FoundAt(r) /\ SameAt(r)  BY DEF Settled, SameShops
  <2> QED BY <2>1 DEF FoundAt, InIndex, SameAt
<1>3. ASSUME NEW r \in Hired PROVE OwnedAt(r)'
  <2> SUFFICES ASSUME ~shop'[r].avail
               PROVE  /\ shop'[r].alarm = "set" => at'[shop'[r].owner] = r
                      /\ \A u \in Threads : Shuts(u, r)' => u = shop'[r].owner
                      /\ shop'[r].meso = 0
    BY DEF OwnedAt
  <2>1. shop'[r].owner = shop[r].owner /\ ~shop[r].avail  BY DEF SameShops, SameAt
  <2>2. ASSUME NEW u \in Threads, Shuts(u, r)' PROVE u = shop[r].owner
    <3>1. CASE u = t
      BY <2>1, <2>2, <3>1
    <3>2. CASE u # t
      <4>1. Shuts(u, r)  BY <2>2, <3>2 DEF Shuts, Only
      <4> QED BY <2>1, <4>1 DEF Settled, OwnedAt
    <3> QED BY <3>1, <3>2
  <2> QED BY <2>1, <2>2
<1>4. ASSUME NEW u \in Threads PROVE DealingAt(u)'
  <2>1. CASE u = t
    BY <2>1
  <2>2. CASE u # t
    <3>1. pc'[u] = pc[u] /\ DealingAt(u) /\ PcAt(u)  BY <2>2 DEF Only, Settled, Types
    <3>2. CASE pc[u].op \notin Busy
      <4>1. pc'[u].op \notin Busy  BY <3>1, <3>2
      <4> QED BY <4>1 DEF DealingAt, Busy
    <3>3. CASE pc[u].op \in Busy
      <4>1. PICK r \in Hired : r = pc[u].s
        BY <3>1, <3>3 DEF PcAt
      <4>2. SameAt(r)  BY DEF SameShops
      <4>3. pc[u].op \in {"takeback", "withdraw"} => u = shop[r].owner
        BY <3>1, <4>1 DEF DealingAt
      <4>4. pc[u].op \in {"checked", "handed", "counted"} => u \in Buyers /\ shop[r].avail
        BY <3>1, <4>1 DEF DealingAt
      <4>5. pc[u].op = "takeback" /\ Live(r) =>
              pc[u].n \in DOMAIN shop[r].items /\ shop[r].items[pc[u].n] = pc[u].l
        BY <3>1, <4>1 DEF DealingAt
      <4>6. Live(r)' => Live(r)
        <5>1. ASSUME ~Live(r) PROVE ~Live(r)'
          <6>1. CASE ~shop[r].can
            BY <4>2, <6>1 DEF Live, SameAt
          <6>2. CASE Stored(r)
            <7>1. PICK v \in Threads : Stores(v, r)
              BY <6>2, StoredIs
            <7>2. Stores(v, r)'  BY <7>1 DEF Stores, Only
            <7>3. Stored(r)'  BY <7>2 DEF Stored, Doing, Stores
            <7> QED BY <7>3 DEF Live
          <6> QED BY <5>1, <6>1, <6>2 DEF Live
        <5> QED BY <5>1
      <4>7. pc[u].op = "takeback" /\ Live(r)' =>
              pc[u].n \in DOMAIN shop'[r].items /\ shop'[r].items[pc[u].n] = pc[u].l
        BY <2>2, <4>1, <4>5, <4>6
      <4>8. PICK q : q = pc[u] OBVIOUS
      <4>9. pc'[u] = q /\ q.s = r  BY <3>1, <4>1, <4>8
      <4> QED
        BY <4>2, <4>3, <4>4, <4>7, <4>8, <4>9 DEF DealingAt, SameAt, Live, Stored, Doing
    <3> QED BY <3>2, <3>3
  <2> QED BY <2>1, <2>2
<1>5. Hired' = Hired  BY DEF SameShops, Hired
<1> QED BY <1>1, <1>2, <1>3, <1>4, <1>5 DEF Settled

-----------------------------------------------------------------------------
(* What a step leaves of the account.                                       *)

\* Whether l is being taken back changes only with what t is doing.
LEMMA TakingStays ==
    ASSUME NEW l, NEW t \in Threads, Only(t), ~Works(t, l), ~Works(t, l)'
    PROVE  (BeingTaken(l)' <=> BeingTaken(l)) /\ Owed(t, l) = 0 /\ Owed(t, l)' = 0
<1>1. \A u \in Threads : (pc'[u].op = "takeback" /\ pc'[u].l = l) <=> (pc[u].op = "takeback" /\ pc[u].l = l)
  BY DEF Only, Works
<1>2. BeingTaken(l)' <=> BeingTaken(l)  BY <1>1 DEF BeingTaken
<1> QED BY <1>2 DEF Owed, Works

\* A good nobody takes from the list, hands out or counts.
LEMMA ValueStays ==
    ASSUME NEW l, NEW s, NEW t \in Threads, Only(t), ~Works(t, l), ~Works(t, l)',
           left'[l] = left[l], OnList(l, s)' <=> OnList(l, s)
    PROVE  Value(l, s)' = Value(l, s)
<1>1. BeingTaken(l)' <=> BeingTaken(l)  BY TakingStays
<1> QED BY <1>1 DEF Value, Positive

\* Values are numbers, and not below zero.
LEMMA ValueType ==
    ASSUME Wares, NEW l \in DOMAIN left, NEW s
    PROVE  Value(l, s) \in Int /\ Value(l, s) >= 0 /\ left[l] \in Int /\ Value(l, s) <= Positive(left[l])
<1>1. left[l] \in Int  BY ElementOfSeq, LenProperties DEF Wares
<1> QED BY <1>1 DEF Value, Positive

\* A good stays accounted for in a step that does not concern it.
LEMMA CoveredStays ==
    ASSUME Types, Wares, AccountsAssumption, NEW t \in Threads, Only(t), Task(t)',
           NEW l, NEW s, NEW k, Covered(l, s, k), ~Works(t, l), ~Works(t, l)',
           Live(s)' <=> Live(s), Live(s) => Value(l, s)' = Value(l, s), overlapped => overlapped'
    PROVE  Covered(l, s, k)'
<1>1. Owed(t, l) = 0 /\ Owed(t, l)' = 0  BY TakingStays
<1>2. Debt(l) \in Int /\ Debt(l)' = Debt(l) - Owed(t, l) + Owed(t, l)'  BY DebtIs, DebtMoves
<1>3. PICK d \in Int : d = Debt(l)
  BY <1>2
<1>4. Debt(l)' = d  BY <1>1, <1>2, <1>3
<1>5. CASE ~Live(s)
  BY <1>5 DEF Covered
<1>6. CASE Live(s)
  <2>1. PICK w : w = Value(l, s) OBVIOUS
  <2>2. Live(s)' /\ Value(l, s)' = w  BY <1>6, <2>1
  <2>3. k + d <= w /\ (~overlapped => k + d = w)  BY <1>3, <1>6, <2>1 DEF Covered
  <2>4. \A u \in Threads : pc[u].op = "handed" /\ pc[u].l = l =>
              k + d - pc[u].n <= Positive(pc[u].v - pc[u].n)
    BY <1>3, <1>6 DEF Covered
  <2>5. \A u \in Threads : pc'[u].op = "handed" /\ pc'[u].l = l =>
              k + d - pc'[u].n <= Positive(pc'[u].v - pc'[u].n)
    <3> SUFFICES ASSUME NEW u \in Threads, pc'[u].op = "handed", pc'[u].l = l
                 PROVE  k + d - pc'[u].n <= Positive(pc'[u].v - pc'[u].n)
      OBVIOUS
    <3>1. u # t  BY DEF Works
    <3>2. pc'[u] = pc[u]  BY <3>1 DEF Only
    <3> QED BY <2>4, <3>2
  <2> QED BY <1>4, <2>2, <2>3, <2>5 DEF Covered, Positive
<1> QED BY <1>5, <1>6

\* What is accounted for is a number.
LEMMA AllOfType ==
    ASSUME Types, Wares, AccountsAssumption, NEW low \in [DOMAIN left -> Int]
    PROVE  /\ AllOf(low) \in Int /\ Sum(low, DOMAIN left) \in Int
           /\ Sum(bag, Players) \in Int /\ Unclaimed("goods") \in Int
<1>1. IsFiniteSet(DOMAIN left) /\ \A l \in DOMAIN left : low[l] \in Int  BY GoodsFinite
<1>2. Sum(low, DOMAIN left) \in Int  BY <1>1, SumInt
<1>3. IsFiniteSet(Players) /\ \A p \in Players : bag[p] \in Int  BY Finite DEF Wares
<1>4. Sum(bag, Players) \in Int  BY <1>3, SumInt
<1>5. Unclaimed("goods") \in Int  BY UnclaimedIs
<1> QED BY <1>2, <1>4, <1>5 DEF AllOf

\* What is expected is a number.
LEMMA EverythingType ==
    ASSUME AccountsAssumption PROVE Everything \in Nat
<1>1. Cardinality(Owners) \in Nat /\ Stock \in Nat
  BY FS_CardinalityType DEF AccountsAssumption, BoundsAssumption
<1> QED BY <1>1 DEF Everything

\* The packages of the next state are numbers too.
LEMMA UnclaimedIsNext ==
    ASSUME Wares', AccountsAssumption, NEW field \in {"goods", "meso"}
    PROVE  Unclaimed(field)' \in Int
<1> DEFINE g == [r \in Owners |-> Worth(package'[r], field)]
<1>1. \A r \in Owners : g[r] \in Int
  <2>1. \A r \in Owners : package'[r] \in Row  BY DEF Wares
  <2> TAKE r \in Owners
  <2>2. package'[r] \in Row  BY <2>1
  <2>3. CASE package'[r] = None
    BY <2>3 DEF Worth
  <2>4. CASE package'[r] # None
    <3>1. package'[r] \in [goods : Int, meso : Int]  BY <2>2, <2>4 DEF Row
    <3>2. package'[r].goods \in Int /\ package'[r].meso \in Int  BY <3>1
    <3> QED BY <2>4, <3>2 DEF Worth
  <2> QED BY <2>3, <2>4
<1>2. Unclaimed(field)' = Sum(g, Owners)
  BY DEF Unclaimed, Worth, Sum, FoldSet, MapThenFoldSet
<1>3. IsFiniteSet(Owners)  BY DEF AccountsAssumption
<1> HIDE DEF g
<1> QED BY <1>1, <1>2, <1>3, SumInt

\* None is missing after a step in which the account does not shrink.
LEMMA EnoughStays ==
    ASSUME Types, Wares, AccountsAssumption, NEW low \in [DOMAIN left -> Int], NEW next,
           Enough(low), AllOf(next)' \in Int, AllOf(next)' >= AllOf(low),
           ~overlapped' => AllOf(next)' = AllOf(low), overlapped => overlapped'
    PROVE  Enough(next)'
<1>1. PICK a, b, e \in Int : a = AllOf(low) /\ b = AllOf(next)' /\ e = Everything
  BY AllOfType, EverythingType
<1>2. Everything' = e  BY <1>1 DEF Everything
<1>3. a >= e /\ (~overlapped => a = e)  BY <1>1 DEF Enough
<1>4. b >= e /\ (~overlapped' => b = e)  BY <1>1, <1>3
<1> QED BY <1>1, <1>2, <1>4 DEF Enough

\* Homes stay, of goods that no merchant gets.
LEMMA HomesStay ==
    ASSUME NEW home, AtHome(home), NEW t \in Threads, Only(t), DOMAIN shop' = Hired,
           \A r \in Hired : ToSet(shop'[r].items) \subseteq ToSet(shop[r].items),
           pc'[t].op \in {"handed", "takeback"} => home[pc'[t].l] = pc'[t].s
    PROVE  AtHome(home)'
<1>1. \A r \in Hired : \A l \in ToSet(shop'[r].items) : home[l] = r  BY DEF AtHome
<1>2. ASSUME NEW u \in Threads, pc'[u].op \in {"handed", "takeback"} PROVE home[pc'[u].l] = pc'[u].s
  <2>1. CASE u = t
    BY <1>2, <2>1
  <2>2. CASE u # t
    <3>1. pc'[u] = pc[u]  BY <2>2 DEF Only
    <3> QED BY <1>2, <3>1 DEF AtHome
  <2> QED BY <2>1, <2>2
<1> QED BY <1>1, <1>2 DEF AtHome, Hired

\* The account after a step that puts up no new good.
LEMMA AccountIs ==
    ASSUME NEW home, NEW low, NEW next, Account(home, low), NEW t \in Threads, Only(t),
           DOMAIN shop' = Hired, DOMAIN left' = DOMAIN left,
           \A r \in Hired : ToSet(shop'[r].items) \subseteq ToSet(shop[r].items),
           pc'[t].op \in {"handed", "takeback"} => home[pc'[t].l] = pc'[t].s,
           next \in [DOMAIN left -> Int], Enough(next)',
           \A l \in DOMAIN left : Covered(l, home[l], next[l])'
    PROVE  Account(home, next)'
<1>1. AtHome(home)'  BY HomesStay DEF Account
<1>2. home \in [DOMAIN left' -> Hired'] /\ next \in [DOMAIN left' -> Int]
  BY DEF Account, Hired
<1>3. \A l \in DOMAIN left' : Covered(l, home[l], next[l])' OBVIOUS
<1> QED BY <1>1, <1>2, <1>3 DEF Account

\* A step that changes nobody's claim to a good that is still to be had.
LEMMA AccountStays ==
    ASSUME Types, Wares, AccountsAssumption, NEW home, NEW low, Account(home, low),
           NEW t \in Threads, Only(t), Task(t)',
           DOMAIN shop' = Hired, left' = left,
           \A r \in Hired : ToSet(shop'[r].items) \subseteq ToSet(shop[r].items),
           \A r \in Hired : Live(r)' <=> Live(r),
           \A r \in Hired : \A l \in DOMAIN left : Live(r) => Value(l, r)' = Value(l, r),
           pc[t].op \notin {"handed", "takeback"}, pc'[t].op \notin {"handed", "takeback"},
           overlapped => overlapped', Wares',
           Sum(bag', Players) + Unclaimed("goods")' >= Sum(bag, Players) + Unclaimed("goods"),
           ~overlapped' =>
             Sum(bag', Players) + Unclaimed("goods")' = Sum(bag, Players) + Unclaimed("goods")
    PROVE  Account(home, low)'
<1>1. low \in [DOMAIN left -> Int] /\ home \in [DOMAIN left -> Hired] /\ Enough(low)
  BY DEF Account
<1>2. ASSUME NEW l \in DOMAIN left PROVE Covered(l, home[l], low[l])'
  <2>1. PICK r \in Hired : r = home[l]
    BY <1>1
  <2>2. Covered(l, r, low[l]) /\ (Live(r)' <=> Live(r)) /\ (Live(r) => Value(l, r)' = Value(l, r))
    BY <2>1 DEF Account
  <2>3. ~Works(t, l) /\ ~Works(t, l)'  BY DEF Works
  <2>4. Covered(l, r, low[l])'  BY <2>2, <2>3, CoveredStays
  <2> QED BY <2>1, <2>4
<1>3. Enough(low)'
  <2>1. /\ Sum(low, DOMAIN left) \in Int
        /\ Sum(bag, Players) \in Int /\ Unclaimed("goods") \in Int
    BY <1>1, AllOfType
  <2>2. Sum(bag', Players) \in Int
    <3>1. IsFiniteSet(Players) /\ \A p \in Players : bag'[p] \in Int  BY Finite DEF Wares
    <3> QED BY <3>1, SumInt
  <2>3. Unclaimed("goods")' \in Int  BY UnclaimedIsNext
  <2>4. PICK a, b, c, d, e \in Int : /\ a = Sum(low, DOMAIN left) /\ b = Sum(bag, Players)
                                     /\ c = Unclaimed("goods") /\ d = Sum(bag', Players)
                                     /\ e = Unclaimed("goods")'
    BY <2>1, <2>2, <2>3
  <2>5. AllOf(low) = b + a + c  BY <2>4 DEF AllOf
  <2>6. AllOf(low)' = d + a + e
    <3>1. Sum(low, DOMAIN left') = a /\ Sum(bag, Players)' = d
      BY <2>4 DEF Sum, FoldSet, MapThenFoldSet
    <3> QED BY <2>4, <3>1 DEF AllOf
  <2>7. d + e >= b + c /\ (~overlapped' => d + e = b + c)  BY <2>4
  <2> QED BY <1>1, <2>5, <2>6, <2>7, EnoughStays
<1> QED BY <1>1, <1>2, <1>3, AccountIs

-----------------------------------------------------------------------------
(* Steps that move neither goods nor mesos.                                 *)

\* Whether an account has a merchant changes only with the list.
LEMMA HasStays ==
    ASSUME Types, Indexed, SameShops, index' = index, NEW o
    PROVE  HasMerchant(o)' <=> HasMerchant(o)
<1>1. \A i \in DOMAIN index : shop'[index[i]].owner = shop[index[i]].owner
  BY DEF Indexed, SameShops, SameAt
<1> QED BY <1>1 DEF HasMerchant

\* A package being fetched stays.
LEMMA LoadingStays ==
    ASSUME Types, Indexed, SameShops, index' = index, NEW o, LoadingAt(o), pc'[o] = pc[o],
           package'[o] = package[o], overlapped => overlapped'
    PROVE  LoadingAt(o)'
<1>1. HasMerchant(o)' <=> HasMerchant(o)  BY HasStays
<1>2. PICK p, q : p = pc[o] /\ q = package[o] OBVIOUS
<1>3. pc'[o] = p /\ package'[o] = q  BY <1>2
<1>4. p.op = "load" => ~HasMerchant(o) /\ q # None /\ q.goods <= p.l  BY <1>2 DEF LoadingAt
<1>5. p.op = "load" /\ ~overlapped => q = [goods |-> p.l, meso |-> p.n]
  BY <1>2 DEF LoadingAt
<1> QED BY <1>1, <1>3, <1>4, <1>5 DEF LoadingAt

\* Nobody's part but t's changes, and of the merchants only doors, visitors, alarms.
Quiet(t) ==
    /\ SameShops /\ Only(t)
    /\ \A s \in Hired : shop'[s].items = shop[s].items /\ shop'[s].meso = shop[s].meso
    /\ pc[t].op \in {"idle", "ask", "enter", "checked"}
    /\ pc'[t].op \in {"idle", "ask", "enter", "checked", "close", "load"}
    /\ Task(t)'
    /\ left' = left /\ bag' = bag /\ purse' = purse /\ package' = package /\ index' = index
    /\ overlapped => overlapped'
    /\ lapses \subseteq lapses'

\* A step that changes only doors, visitors and alarms keeps the account.
LEMMA QuietKeeps ==
    ASSUME IInv, KInv, AccountsAssumption, NEW t \in Threads, Quiet(t),
           lapses' = {} =>
             /\ \A r \in Hired : ~shop[r].avail => (shop'[r].alarm = "set" => at'[shop[r].owner] = r)
             /\ \A r \in Hired : ~shop[r].avail => (Shuts(t, r)' => t = shop[r].owner)
             /\ DealingAt(t)'
             /\ t \in Owners => LoadingAt(t)'
             /\ ~overlapped' => NeatAt(t)'
    PROVE  KInv'
<1>1. Types /\ Indexed /\ Wares  BY DEF IInv, Orderly, KInv
<1>2. DOMAIN shop' = Hired /\ Only(t)  BY DEF Quiet, SameShops
<1>3. \A s \in Hired : shop'[s].can = shop[s].can /\ shop'[s].items = shop[s].items /\ shop'[s].meso = shop[s].meso
  BY DEF Quiet, SameShops, SameAt
<1>4. \A s : ~Stores(t, s) /\ ~Stores(t, s)' /\ ~Empties(t, s) /\ ~Empties(t, s)' /\ ~Clears(t, s)'
  BY DEF Quiet, Stores, Empties, Clears
<1>5. \A s \in Hired : Live(s)' <=> Live(s)  BY <1>2, <1>3, <1>4, LiveMoves
<1>6. left' = left /\ bag' = bag /\ purse' = purse /\ package' = package  BY DEF Quiet
<1>7. Wares'
  <2>1. \A r \in Hired : Stall(r)'  BY <1>1, <1>3, <1>6, StallStays DEF Wares
  <2>2. left' \in Seq(Int) /\ bag' \in [Players -> Int] /\ purse' \in [Players -> Int]
        /\ package' \in [Owners -> Row] /\ DOMAIN left \subseteq DOMAIN left' /\ Task(t)'
    BY <1>1, <1>6 DEF Wares, Quiet
  <2> QED BY <1>1, <1>2, <2>1, <2>2, WaresStay
<1> SUFFICES ASSUME lapses' = {} PROVE Settled' /\ (\E home, low : Account(home, low)')
                                       /\ (~overlapped' => Neat' /\ Coined')
  BY <1>7 DEF KInv
<1>8. lapses = {} /\ (overlapped => overlapped')  BY DEF Quiet
<1>9. Settled /\ (\E home, low : Account(home, low)) /\ (~overlapped => Neat /\ Coined)
  BY <1>8 DEF KInv
<1>10. Settled'
  <2>1. ASSUME NEW o \in Owners PROVE LoadingAt(o)'
    <3>1. CASE o = t
      BY <3>1
    <3>2. CASE o # t
      <4>1. o \in Threads  BY DEF Threads, Players
      <4>2. pc'[o] = pc[o] /\ LoadingAt(o)  BY <1>2, <1>9, <3>2, <4>1 DEF Only, Settled
      <4> QED BY <1>1, <1>6, <1>8, <4>2, LoadingStays DEF Quiet
    <3> QED BY <3>1, <3>2
  <2>2. \A r \in Hired : ~shop[r].avail => shop'[r].meso = 0
    BY <1>3, <1>9 DEF Settled, OwnedAt
  <2>3. \A r \in Hired : shop[r].items = <<>> => shop'[r].items = <<>> \/ Live(r)  BY <1>3
  <2>4. \A r \in Hired : ~shop[r].avail => (shop'[r].alarm = "set" => at'[shop[r].owner] = r)
    OBVIOUS
  <2>5. \A r \in Hired : ~shop[r].avail => (Shuts(t, r)' => t = shop[r].owner)  OBVIOUS
  <2>6. DealingAt(t)' OBVIOUS
  <2>7. \A r \in Hired : \A u \in Threads \ {t} : pc[u].op = "takeback" /\ pc[u].s = r =>
               shop'[r].items = shop[r].items \/ ~Live(r)'
    BY <1>3
  <2>8. SameShops /\ index' = index  BY DEF Quiet
  <2>9. (\A r \in Hired : Clears(t, r)' => shop'[r].items = <<>>) /\ \A r \in Hired : Stores(t, r) => Stores(t, r)'
    BY <1>4
  <2> QED
    BY <1>1, <1>2, <1>9, <2>1, <2>2, <2>3, <2>4, <2>5, <2>6, <2>7, <2>8, <2>9, SettledStays
<1>11. PICK home, low : Account(home, low)
  BY <1>9
<1>12. Account(home, low)'
  <2>1. pc[t].op \notin {"handed", "takeback"} /\ pc'[t].op \notin {"handed", "takeback"} /\ Task(t)'
    BY DEF Quiet
  <2>2. ASSUME NEW r \in Hired, NEW l \in DOMAIN left PROVE Value(l, r)' = Value(l, r)
    <3>1. ~Works(t, l) /\ ~Works(t, l)'  BY <2>1 DEF Works
    <3>2. left'[l] = left[l] /\ (OnList(l, r)' <=> OnList(l, r))  BY <1>3, <1>6 DEF OnList
    <3> QED BY <1>2, <3>1, <3>2, ValueStays
  <2>3. \A r \in Hired : ToSet(shop'[r].items) \subseteq ToSet(shop[r].items)  BY <1>3
  <2>4. Unclaimed("goods")' = Unclaimed("goods") /\ Sum(bag', Players) = Sum(bag, Players)
    BY <1>6, UnclaimedStays
  <2>5. PICK a : a = Sum(bag, Players) + Unclaimed("goods") OBVIOUS
  <2>6. a \in Int
    <3>1. low \in [DOMAIN left -> Int]  BY <1>11 DEF Account
    <3> QED BY <1>1, <2>5, <3>1, AllOfType
  <2>7. Sum(bag', Players) + Unclaimed("goods")' >= Sum(bag, Players) + Unclaimed("goods")
        /\ Sum(bag', Players) + Unclaimed("goods")' = Sum(bag, Players) + Unclaimed("goods")
    BY <2>4, <2>5, <2>6
  <2> QED BY <1>1, <1>2, <1>5, <1>6, <1>7, <1>8, <1>11, <2>1, <2>2, <2>3, <2>7, AccountStays
<1>13. ASSUME ~overlapped' PROVE Neat' /\ Coined'
  <2>1. ~overlapped /\ Neat /\ Coined  BY <1>8, <1>9, <1>13
  <2>2. ASSUME NEW u \in Threads PROVE NeatAt(u)'
    <3>1. CASE u = t
      BY <1>13, <3>1
    <3>2. CASE u # t
      <4>1. pc'[u] = pc[u] /\ NeatAt(u) /\ PcAt(u)
        BY <1>1, <1>2, <2>1, <3>2 DEF Only, Neat, Types
      <4>2. pc[u].op \in Busy => Untouched(pc[u].s)
        <5>1. \A r \in Hired : Untouched(r)  BY <1>3, <1>5, <1>6 DEF Untouched
        <5> QED BY <4>1, <5>1 DEF PcAt
      <4> QED BY <4>1, <4>2, NeatStays
    <3> QED BY <3>1, <3>2
  <2>3. Neat'  BY <1>6, <2>1, <2>2 DEF Neat
  <2>4. \A r \in Hired : Till(r)' = Till(r)  BY <1>2, <1>3, <1>4, TillStays
  <2>5. Tills' = Tills  BY <1>2, <2>4, TillsStay
  <2>6. Unclaimed("meso")' = Unclaimed("meso")  BY <1>6, UnclaimedStays
  <2>7. AllMesos' = Sum(purse', Players) + Tills' + Unclaimed("meso")'
    BY DEF AllMesos, Tills, Sum, FoldSet, MapThenFoldSet
  <2>8. AllMesos' = AllMesos  BY <1>6, <2>5, <2>6, <2>7, MesosAre
  <2>9. Coined'  BY <2>1, <2>8 DEF Coined
  <2> QED BY <2>3, <2>9
<1> QED BY <1>10, <1>12, <1>13

\* Work that moves neither goods nor mesos.
LEMMA CalmWorkKeeps ==
    ASSUME IInv, KInv, AccountsAssumption, NEW t \in Threads, Work(t),
           \A s \in Hired : shop'[s].items = shop[s].items /\ shop'[s].meso = shop[s].meso,
           pc[t].op \in {"idle", "ask", "enter", "checked"},
           pc'[t].op \in {"idle", "ask", "enter", "checked", "load"},
           Task(t)', left' = left, bag' = bag, purse' = purse, package' = package, lapses' = lapses,
           lapses = {} =>
             /\ DealingAt(t)' /\ (t \in Owners => LoadingAt(t)')
             /\ ~overlapped' => NeatAt(t)'
    PROVE  KInv'
<1>1. Types  BY DEF IInv, Orderly
<1>2. Quiet(t)  BY DEF Quiet, Work, History
<1>3. ASSUME lapses = {}, NEW r \in Hired, ~shop[r].avail, shop'[r].alarm = "set"
      PROVE  at'[shop[r].owner] = r
  <2>1. PICK o \in Owners : o = shop[r].owner
    BY <1>1 DEF Types, ShopAt
  <2>2. at[o] = r  BY <1>3, <2>1 DEF KInv, Settled, OwnedAt, Work
  <2>3. o \in Players /\ o \notin Buyers  BY DEF Players
  <2>4. r # None  BY <1>1 DEF Types, Listing
  <2>5. \/ at'[o] = at[o]
        \/ at'[o] = None /\ shop[at[o]].avail
        \/ o \in Buyers \/ at[o] = None
    BY <2>3 DEF Work, Visits
  <2> QED BY <1>3, <2>1, <2>2, <2>3, <2>4, <2>5
<1>4. \A r : ~Shuts(t, r)'  BY DEF Shuts, Shutting
<1> QED BY <1>2, <1>3, <1>4, QuietKeeps

\* Beginning to close a merchant.
LEMMA ShuttingKeeps ==
    ASSUME IInv, KInv, AccountsAssumption, NEW t \in Threads, NEW s \in Hired, Shut(t, s),
           \A r \in Hired : shop'[r].items = shop[r].items /\ shop'[r].meso = shop[r].meso,
           pc'[t].op = "close", Task(t)', left' = left, bag' = bag, purse' = purse,
           lapses \subseteq lapses'
    PROVE  KInv'
<1>1. Types /\ Indexed  BY DEF IInv, Orderly
<1>2. Quiet(t)  BY DEF Quiet, Shut, History, Idle
<1>3. lapses' = {} => lapses = {} /\ ~Around'  BY DEF Around
<1>4. ASSUME lapses' = {}, NEW r \in Hired, ~shop[r].avail, shop'[r].alarm = "set"
      PROVE  at'[shop[r].owner] = r
  <2>1. PICK o \in Owners : o = shop[r].owner
    BY <1>1 DEF Types, ShopAt
  <2>2. shop[r].alarm = "set" /\ r # s  BY <1>4 DEF Shut
  <2>3. at[o] = r  BY <1>3, <1>4, <2>1, <2>2 DEF KInv, Settled, OwnedAt
  <2>4. o \in Players  BY DEF Players
  <2>5. at'[o] = at[o] \/ (at'[o] = None /\ (shop[at[o]].avail \/ o = t))  BY <2>4 DEF Shut
  <2>6. o # t  BY <2>2, <2>3 DEF Shut
  <2> QED BY <1>4, <2>1, <2>3, <2>5, <2>6
<1>5. ASSUME lapses' = {}, NEW r \in Hired, ~shop[r].avail, Shuts(t, r)'
      PROVE  t = shop[r].owner
  <2>1. r = s  BY <1>5 DEF Shut, Shuts
  <2>2. CASE shop[s].alarm = "set"
    <3>1. at[shop[s].owner] = s  BY <1>3, <1>5, <2>1, <2>2 DEF KInv, Settled, OwnedAt
    <3> QED BY <1>3, <1>5, <2>1, <3>1 DEF Shut
  <2>3. CASE Owns(t) /\ at[t] = s
    BY <2>1, <2>3 DEF Owns
  <2>4. CASE \E i \in DOMAIN index : index[i] = s
    BY <1>1, <1>5, <2>1, <2>4 DEF Indexed
  <2>5. shop[s].alarm = "set" \/ (Owns(t) /\ at[t] = s) \/ \E i \in DOMAIN index : index[i] = s
    BY DEF Shut
  <2> QED BY <2>2, <2>3, <2>4, <2>5
<1>6. DealingAt(t)' /\ LoadingAt(t)' /\ NeatAt(t)'
  BY DEF DealingAt, LoadingAt, NeatAt, Busy
<1> QED BY <1>2, <1>4, <1>5, <1>6, QuietKeeps

\* The alarm of a merchant is not its goods.
LEMMA ClosingStalls ==
    ASSUME Types, NEW s \in Hired, NEW sh, DOMAIN sh = Hired, sh = [r \in Hired |-> sh[r]],
           \A r \in Hired : DOMAIN sh[r] = Fields,
           \A r \in Hired : sh[r].items = shop[r].items /\ sh[r].meso = shop[r].meso,
           shop' = Silenced(sh, s)
    PROVE  \A r \in Hired : shop'[r].items = shop[r].items /\ shop'[r].meso = shop[r].meso
<1>1. PICK v : shop' = [sh EXCEPT ![s].alarm = v]
  BY DEF Silenced
<1>2. ASSUME NEW r \in Hired PROVE shop'[r].items = sh[r].items /\ shop'[r].meso = sh[r].meso
  <2>1. CASE r # s
    BY <1>1, <2>1
  <2>2. CASE r = s
    <3>1. shop'[s] = [sh[s] EXCEPT !.alarm = v]  BY <1>1
    <3>2. "items" \in DOMAIN sh[s] /\ "meso" \in DOMAIN sh[s]  BY DEF Fields
    <3> QED BY <2>2, <3>1, <3>2
  <2> QED BY <2>1, <2>2
<1> QED BY <1>2

\* Each of the ways a merchant begins to be closed.
LEMMA ClosingsKeep ==
    ASSUME IInv, KInv, AccountsAssumption, NEW t \in Threads,
           \/ t \in Owners /\ Close(t)
           \/ t \in Owners /\ Disconnect(t) /\ ~shop[at[t]].avail
           \/ t \in Hired /\ Ring(t)
           \/ t = Console /\ CloseAll
    PROVE  KInv'
<1>1. Types /\ Indexed /\ Orderly  BY DEF IInv, Orderly
<1>2. PICK s \in Hired : Shut(t, s)
  BY <1>1, Shuttings
<1>3. PICK r, remove, sh : /\ Closes(t, r, remove, sh) /\ r \in Hired /\ (remove \in {0, 1})
                           /\ \/ sh = shop
                              \/ sh = Evict(r, shop)
                              \/ sh = Evict(r, [shop EXCEPT ![r].alarm = "rung"])
  <2>1. CASE t \in Owners /\ Close(t)
    <3>1. at[t] \in Hired  BY <1>1, <2>1, OwnsOne DEF Close
    <3> QED BY <2>1, <3>1 DEF Close
  <2>2. CASE t \in Owners /\ Disconnect(t) /\ ~shop[at[t]].avail
    <3>1. at[t] \in Hired  BY <1>1, <2>2, OwnsOne DEF Disconnect
    <3> QED BY <2>2, <3>1 DEF Disconnect
  <2>3. CASE t \in Hired /\ Ring(t)
    BY <2>3 DEF Ring
  <2>4. CASE t = Console /\ CloseAll
    <3>1. PICK i \in DOMAIN index : Closes(Console, index[i], 0, shop)
      BY <2>4 DEF CloseAll
    <3>2. index[i] \in Hired  BY <1>1 DEF Indexed
    <3> QED BY <2>4, <3>1, <3>2
  <2> QED BY <2>1, <2>2, <2>3, <2>4
<1>4. left' = left /\ bag' = bag /\ purse' = purse
  BY DEF Close, Disconnect, Ring, CloseAll, Closes
<1>5. shop' = Silenced(sh, r) /\ Go(t, In("close", r, 0, 0, remove)) /\ lapses \subseteq lapses'
  BY <1>3 DEF Closes
<1>6. pc'[t] = In("close", r, 0, 0, remove)  BY <1>1, <1>5, Going
<1>7. pc'[t].op = "close" /\ pc'[t].l = 0 /\ pc'[t].n = 0 /\ pc'[t].v = remove
  BY <1>6 DEF In
<1>8. Task(t)'  BY <1>3, <1>7 DEF Task
<1>9. \A x \in Hired : DOMAIN shop[x] = Fields  BY <1>1 DEF Types, ShopAt
<1>10. shop = [x \in Hired |-> shop[x]] /\ DOMAIN shop = Hired  BY <1>1 DEF Types, Listing
<1>11. /\ DOMAIN sh = Hired /\ sh = [x \in Hired |-> sh[x]]
       /\ \A x \in Hired : DOMAIN sh[x] = Fields
       /\ \A x \in Hired : sh[x].items = shop[x].items /\ sh[x].meso = shop[x].meso
  <2>0. {"items", "meso", "alarm", "visitors"} \subseteq Fields  BY DEF Fields
  <2>1. CASE sh = shop
    BY <1>9, <1>10, <2>1
  <2>2. CASE sh = Evict(r, shop)
    <3>1. sh = [shop EXCEPT ![r].visitors = {}]  BY <2>2 DEF Evict
    <3> QED BY <1>3, <1>9, <1>10, <2>0, <3>1
  <2>3. CASE sh = Evict(r, [shop EXCEPT ![r].alarm = "rung"])
    <3>1. PICK mid : mid = [shop EXCEPT ![r].alarm = "rung"] OBVIOUS
    <3>2. /\ DOMAIN mid = Hired /\ mid = [x \in Hired |-> mid[x]]
          /\ \A x \in Hired : DOMAIN mid[x] = Fields
          /\ \A x \in Hired : mid[x].items = shop[x].items /\ mid[x].meso = shop[x].meso
      BY <1>3, <1>9, <1>10, <2>0, <3>1
    <3>3. sh = [mid EXCEPT ![r].visitors = {}]  BY <2>3, <3>1 DEF Evict
    <3> QED BY <1>3, <2>0, <3>2, <3>3
  <2> QED BY <1>3, <2>1, <2>2, <2>3
<1>12. \A x \in Hired : shop'[x].items = shop[x].items /\ shop'[x].meso = shop[x].meso
  BY <1>1, <1>3, <1>5, <1>11, ClosingStalls
<1> QED BY <1>2, <1>4, <1>5, <1>7, <1>8, <1>12, ShuttingKeeps

\* A question about package and merchant.
LEMMA AskingKeeps ==
    ASSUME IInv, KInv, AccountsAssumption, NEW o \in Owners, AskPackage(o) \/ AskMerchant(o)
    PROVE  KInv'
<1>1. Types /\ Indexed  BY DEF IInv, Orderly
<1>2. Asks(o) /\ o \in Threads /\ o \in Players  BY <1>1, Asking1
<1>3. SameShops /\ \A r \in Hired : shop'[r].alarm = shop[r].alarm
  BY <1>1, <1>2, Unchanged DEF Asks
<1>4. left' = left /\ bag' = bag /\ purse' = purse /\ lapses' = lapses
  BY DEF AskPackage, AskMerchant, Goods, Rest
<1>5. pc'[o] = Idle \/ pc'[o] = In("ask", 0, 0, 0, 0)  BY <1>2 DEF Asks
<1>6. pc'[o].op \in {"idle", "ask"} /\ Task(o)'  BY <1>5 DEF Idle, In, Task
<1>7. Quiet(o)  BY <1>2, <1>3, <1>4, <1>6 DEF Quiet, Asks
<1>8. ASSUME lapses' = {}, NEW r \in Hired, ~shop[r].avail, shop'[r].alarm = "set"
      PROVE  at'[shop[r].owner] = r
  BY <1>2, <1>3, <1>4, <1>8 DEF KInv, Settled, OwnedAt, Asks
<1>9. \A r : ~Shuts(o, r)'  BY <1>6 DEF Shuts, Shutting
<1>10. DealingAt(o)' /\ LoadingAt(o)' /\ NeatAt(o)'
  BY <1>6 DEF DealingAt, LoadingAt, NeatAt, Busy
<1> QED BY <1>2, <1>7, <1>8, <1>9, <1>10, QuietKeeps

\* Work after which t is idle, or about to step in.
LEMMA ResultCalmKeeps ==
    ASSUME IInv, KInv, AccountsAssumption, NEW t \in Threads, Work(t),
           \A s \in Hired : shop'[s].items = shop[s].items /\ shop'[s].meso = shop[s].meso,
           pc[t].op \in {"idle", "ask", "enter", "checked"}, pc'[t].op \in {"idle", "enter"},
           Task(t)', left' = left, bag' = bag, purse' = purse, package' = package, lapses' = lapses
    PROVE  KInv'
<1>1. DealingAt(t)' /\ LoadingAt(t)' /\ NeatAt(t)'
  BY DEF DealingAt, LoadingAt, NeatAt, Busy
<1> QED BY <1>1, CalmWorkKeeps

\* Reopen, Enter, Knock, StepIn, and leaving a merchant that was opened.
LEMMA DoorsKeep ==
    ASSUME IInv, KInv, AccountsAssumption, NEW t \in Threads,
           \/ t \in Owners /\ Reopen(t)
           \/ t \in Owners /\ \E s \in Hired : Enter(t, s)
           \/ t \in Buyers /\ \E s \in Hired : Knock(t, s)
           \/ t \in Buyers /\ StepIn(t)
           \/ t \in Players /\ Leave(t) /\ shop[at[t]].avail
           \/ t \in Owners /\ Disconnect(t) /\ shop[at[t]].avail
    PROVE  KInv'
<1>1. Orderly /\ Types /\ Wares  BY DEF IInv, Orderly, KInv
<1>2. \A x \in Hired : DOMAIN shop[x] = Fields  BY <1>1 DEF Types, ShopAt
<1>3. shop = [x \in Hired |-> shop[x]] /\ DOMAIN shop = Hired  BY <1>1 DEF Types, Listing
<1>4. {"items", "meso", "open", "visitors"} \subseteq Fields  BY DEF Fields
<1>5. CASE t \in Owners /\ Reopen(t)
  <2>1. Work(t)  BY <1>1, <1>5, OwnerWorks
  <2>2. PICK s \in Hired : shop' = [shop EXCEPT ![s].open = TRUE]
    BY <1>1, <1>5, OwnsOne DEF Reopen
  <2>3. \A x \in Hired : shop'[x].items = shop[x].items /\ shop'[x].meso = shop[x].meso
    BY <1>2, <1>3, <1>4, <2>2
  <2>4. pc[t] = Idle /\ pc' = pc  BY <1>5 DEF Reopen, Free
  <2>5. pc[t].op = "idle" /\ pc'[t].op = "idle" /\ Task(t)'  BY <2>4 DEF Idle, Task
  <2> QED BY <1>5, <2>1, <2>3, <2>5, ResultCalmKeeps DEF Reopen, Rest
<1>6. CASE t \in Owners /\ \E s \in Hired : Enter(t, s)
  <2>1. PICK s \in Hired : Enter(t, s)
    BY <1>6
  <2>2. Work(t)  BY <1>1, <1>6, <2>1, EnterWorks
  <2>3. shop' = [[shop EXCEPT ![s].open = FALSE] EXCEPT ![s].visitors = {}]
    BY <2>1 DEF Enter, Evict
  <2>4. \A x \in Hired : shop'[x].items = shop[x].items /\ shop'[x].meso = shop[x].meso
    <3>1. PICK mid : mid = [shop EXCEPT ![s].open = FALSE] OBVIOUS
    <3>2. /\ DOMAIN mid = Hired /\ \A x \in Hired : DOMAIN mid[x] = Fields
          /\ \A x \in Hired : mid[x].items = shop[x].items /\ mid[x].meso = shop[x].meso
      BY <1>2, <1>3, <1>4, <3>1
    <3>3. shop' = [mid EXCEPT ![s].visitors = {}]  BY <2>3, <3>1
    <3> QED BY <1>4, <3>2, <3>3
  <2>5. pc[t] = Idle /\ pc' = pc  BY <2>1 DEF Enter, Free
  <2>6. pc[t].op = "idle" /\ pc'[t].op = "idle" /\ Task(t)'  BY <2>5 DEF Idle, Task
  <2> QED BY <2>1, <2>2, <2>4, <2>6, ResultCalmKeeps DEF Enter, Rest
<1>7. CASE t \in Buyers /\ \E s \in Hired : Knock(t, s)
  <2>1. PICK s \in Hired : Knock(t, s)
    BY <1>7
  <2>2. Work(t)  BY <1>1, <1>7, BuyerWorks
  <2>3. Go(t, In("enter", 0, 0, s, 0)) /\ pc[t] = Idle  BY <2>1 DEF Knock, Free
  <2>4. pc'[t] = In("enter", 0, 0, s, 0)  BY <1>1, <2>3, Going
  <2>5. s \in Int  BY <1>1 DEF Types, Listing
  <2>6. pc[t].op = "idle" /\ pc'[t].op = "enter" /\ Task(t)'
    BY <2>3, <2>4, <2>5 DEF In, Idle, Task
  <2>7. shop' = shop /\ left' = left /\ bag' = bag /\ purse' = purse /\ package' = package /\ lapses' = lapses
    BY <2>1 DEF Knock, Goods, Rest
  <2> QED BY <2>2, <2>6, <2>7, ResultCalmKeeps
<1>8. CASE t \in Buyers /\ StepIn(t)
  <2>1. Work(t)  BY <1>1, <1>8, StepInWorks
  <2>2. PICK s, v : shop' = [shop EXCEPT ![s].visitors = v]
    BY <1>8 DEF StepIn
  <2>3. \A x \in Hired : shop'[x].items = shop[x].items /\ shop'[x].meso = shop[x].meso
    BY <1>2, <1>3, <1>4, <2>2
  <2>4. pc[t].op = "enter" /\ Go(t, Idle)  BY <1>8 DEF StepIn, Done
  <2>5. pc'[t] = Idle  BY <1>1, <2>4, Going
  <2>6. pc'[t].op = "idle" /\ Task(t)'  BY <2>5 DEF Idle, Task
  <2>7. left' = left /\ bag' = bag /\ purse' = purse /\ package' = package /\ lapses' = lapses
    BY <1>8 DEF StepIn, Rest
  <2> QED BY <2>1, <2>3, <2>4, <2>6, <2>7, ResultCalmKeeps
<1>9. CASE t \in Players /\ Leave(t) /\ shop[at[t]].avail
  <2>1. Work(t)  BY <1>1, <1>9, LeavingWorks DEF Leave
  <2>2. PICK s, v : shop' = [shop EXCEPT ![s].visitors = v]
    BY <1>9 DEF Leave
  <2>3. \A x \in Hired : shop'[x].items = shop[x].items /\ shop'[x].meso = shop[x].meso
    BY <1>2, <1>3, <1>4, <2>2
  <2>4. pc[t] = Idle /\ pc' = pc  BY <1>9 DEF Leave, Free
  <2>5. pc[t].op = "idle" /\ pc'[t].op = "idle" /\ Task(t)'  BY <2>4 DEF Idle, Task
  <2>6. left' = left /\ bag' = bag /\ purse' = purse /\ package' = package /\ lapses' = lapses
    BY <1>9 DEF Leave
  <2> QED BY <2>1, <2>3, <2>5, <2>6, ResultCalmKeeps
<1>10. CASE t \in Owners /\ Disconnect(t) /\ shop[at[t]].avail
  <2>1. at[t] \in Hired /\ t \in Players  BY <1>1, <1>10, OwnsOne DEF Disconnect
  <2>2. at[t] # None  BY <1>10 DEF Disconnect, Owns
  <2>3. Work(t)  BY <1>1, <1>10, <2>1, <2>2, LeavingWorks
  <2>4. PICK s : shop' = [shop EXCEPT ![s].open = TRUE]
    BY <1>10 DEF Disconnect
  <2>5. \A x \in Hired : shop'[x].items = shop[x].items /\ shop'[x].meso = shop[x].meso
    BY <1>2, <1>3, <1>4, <2>4
  <2>6. pc[t] = Idle /\ pc' = pc  BY <1>10 DEF Disconnect, Free
  <2>7. pc[t].op = "idle" /\ pc'[t].op = "idle" /\ Task(t)'  BY <2>6 DEF Idle, Task
  <2>8. left' = left /\ bag' = bag /\ purse' = purse /\ package' = package /\ lapses' = lapses
    BY <1>10 DEF Disconnect
  <2> QED BY <2>3, <2>5, <2>7, <2>8, ResultCalmKeeps
<1> QED BY <1>5, <1>6, <1>7, <1>8, <1>9, <1>10

\* The package is read before it is handed out.
LEMMA LoadKeeps ==
    ASSUME IInv, KInv, AccountsAssumption, NEW o \in Owners, Load(o)
    PROVE  KInv'
<1>1. Orderly /\ Types /\ Wares /\ Indexed  BY DEF IInv, Orderly, KInv
<1>2. o \in Threads  BY DEF Threads, Players
<1>3. Work(o)  BY <1>1, LoadWorks
<1>4. shop' = shop /\ left' = left /\ bag' = bag /\ purse' = purse /\ package' = package
      /\ lapses' = lapses /\ index' = index /\ overlapped' = overlapped
  BY DEF Load, Goods, Rest, Register
<1>5. pc[o] = Idle /\ package[o] # None /\ ~HasMerchant(o)
      /\ Go(o, In("load", 0, package[o].goods, package[o].meso, 0))
  BY DEF Load, Free
<1>6. PICK q : q = package[o] OBVIOUS
<1>7. q \in [goods : Int, meso : Int]
  <2>1. q \in Row  BY <1>1, <1>6 DEF Wares
  <2> QED BY <1>5, <1>6, <2>1 DEF Row
<1>8. pc'[o] = In("load", 0, q.goods, q.meso, 0)  BY <1>1, <1>2, <1>5, <1>6, Going
<1>9. PICK p : p = pc'[o] OBVIOUS
<1>10. p.op = "load" /\ p.l = q.goods /\ p.n = q.meso /\ p.v = 0 /\ pc[o].op = "idle"
  BY <1>5, <1>8, <1>9 DEF In, Idle
<1>11. Task(o)'  BY <1>7, <1>9, <1>10 DEF Task
<1>12. HasMerchant(o)' <=> HasMerchant(o)  BY <1>4 DEF HasMerchant
<1>13. LoadingAt(o)'
  <2>1. package'[o] = q /\ q # None /\ q.goods <= p.l /\ q = [goods |-> p.l, meso |-> p.n]
    BY <1>4, <1>5, <1>6, <1>7, <1>10
  <2>2. ~HasMerchant(o)'  BY <1>5, <1>12
  <2> QED BY <1>9, <2>1, <2>2 DEF LoadingAt
<1>14. DealingAt(o)' /\ NeatAt(o)'  BY <1>9, <1>10 DEF DealingAt, NeatAt, Busy
<1> QED BY <1>2, <1>3, <1>4, <1>9, <1>10, <1>11, <1>13, <1>14, CalmWorkKeeps

\* A purchase is checked.
LEMMA BuyKeeps ==
    ASSUME IInv, KInv, AccountsAssumption, NEW b \in Buyers, NEW i \in 1 .. MaxListings,
           NEW n \in 1 .. Coins, Buy(b, i, n)
    PROVE  KInv'
<1>1. Orderly /\ Types /\ Wares /\ Inside  BY DEF IInv, Orderly, KInv
<1>2. b \in Threads /\ b \in Players /\ b \notin Owners  BY DEF Threads, Players
<1>3. Work(b)  BY <1>1, BuyerWorks
<1>4. shop' = shop /\ left' = left /\ bag' = bag /\ purse' = purse /\ package' = package
      /\ lapses' = lapses
  BY DEF Buy, Goods, Rest
<1>5. PICK s \in Hired : s = at[b]
  BY <1>1, <1>2 DEF Types, Buy
<1>6. /\ pc[b] = Idle /\ shop[s].can /\ i \in DOMAIN shop[s].items
      /\ left[shop[s].items[i]] >= n /\ Begins(b, s) /\ Go(b, In("checked", s, i, n, 0))
  BY <1>5 DEF Buy, Free
<1>7. pc'[b] = In("checked", s, i, n, 0)  BY <1>1, <1>2, <1>6, Going
<1>8. PICK p : p = pc'[b] OBVIOUS
<1>9. p.op = "checked" /\ p.s = s /\ p.l = i /\ p.n = n /\ p.v = 0 /\ pc[b].op = "idle"
  BY <1>6, <1>7, <1>8 DEF In, Idle
<1>10. n \in Nat /\ i \in Int  BY DEF BoundsAssumption
<1>11. Task(b)'  BY <1>8, <1>9, <1>10 DEF Task
<1>12. ASSUME lapses = {} PROVE DealingAt(b)'
  <2>1. s # None  BY <1>5 DEF Buy
  <2>2. shop[s].owner \in Owners  BY <1>1 DEF Types, ShopAt
  <2>3. shop[s].avail  BY <1>1, <1>2, <1>5, <2>1, <2>2 DEF Inside
  <2> QED BY <1>4, <1>8, <1>9, <2>3 DEF DealingAt
<1>13. ASSUME lapses = {}, ~overlapped' PROVE NeatAt(b)'
  <2>1. Joins(b, s) /\ ~overlapped  BY <1>1, <1>2, <1>6, <1>13, Joining
  <2>2. \A u \in Threads \ {b} : pc[u].s # s  BY <1>2, <1>13, <2>1, NobodyElse
  <2>3. \A u \in Threads : ~Stores(u, s)'
    <3>1. ASSUME NEW u \in Threads, u # b PROVE ~Stores(u, s)'
      BY <1>3, <2>2, <3>1 DEF Stores, Work, Only
    <3>2. ~Stores(b, s)'  BY <1>8, <1>9 DEF Stores
    <3> QED BY <3>1, <3>2
  <2>4. Live(s)'
    <3>1. Stored(s)' <=> \E u \in Threads : Stores(u, s)'  BY DEF Stored, Doing, Stores
    <3> QED BY <1>4, <1>6, <2>3, <3>1 DEF Live
  <2>5. i \in DOMAIN shop'[s].items /\ n <= left'[shop'[s].items[i]]
    <3>1. left[shop[s].items[i]] \in Int
      <4>1. shop[s].items \in Seq(DOMAIN left)  BY <1>1 DEF Wares, Stall
      <4>2. shop[s].items[i] \in DOMAIN left  BY <1>6, <4>1, ElementOfSeq, LenProperties
      <4> QED BY <1>1, <4>2, ElementOfSeq, LenProperties DEF Wares
    <3> QED BY <1>4, <1>6, <1>10, <3>1
  <2> QED BY <1>8, <1>9, <2>4, <2>5 DEF NeatAt, Busy, Live, Stored, Doing
<1> QED BY <1>2, <1>3, <1>4, <1>8, <1>9, <1>11, <1>12, <1>13, CalmWorkKeeps

-----------------------------------------------------------------------------
(* The list without its sold-out goods.                                     *)

\* A nonempty finite set of integers has a largest and a smallest member.
LEMMA MaxIs ==
    ASSUME NEW S \in SUBSET Int, IsFiniteSet(S), S # {}
    PROVE  Max(S) \in S /\ \A y \in S : y <= Max(S)
<1> DEFINE J == {s \in SUBSET S : s = {} \/ \E x \in s : \A y \in s : x >= y}
<1>1. \A s \in SUBSET S : s # {} => \E x \in s : s \ {x} \in J => s \in J
  <2> SUFFICES ASSUME NEW s \in SUBSET S, s # {} PROVE \E x \in s : s \ {x} \in J => s \in J
    OBVIOUS
  <2>1. PICK x \in s : TRUE OBVIOUS
  <2>2. ASSUME s \ {x} \in J PROVE s \in J
    <3>1. CASE s \ {x} = {}
      <4>1. \A y \in s : x >= y  BY <3>1
      <4> QED BY <4>1
    <3>2. CASE \E z \in s \ {x} : \A y \in s \ {x} : z >= y
      <4>1. PICK z \in s \ {x} : \A y \in s \ {x} : z >= y
        BY <3>2
      <4>2. CASE x >= z
        <5>1. \A y \in s : x >= y  BY <4>1, <4>2
        <5> QED BY <5>1
      <4>3. CASE ~(x >= z)
        <5>1. \A y \in s : z >= y  BY <4>1, <4>3
        <5> QED BY <5>1, <4>1
      <4> QED BY <4>2, <4>3
    <3> QED BY <2>2, <3>1, <3>2
  <2> QED BY <2>2
<1>2. {} \in J OBVIOUS
<1>3. S \in J
  <2> HIDE DEF J
  <2> QED BY <1>1, <1>2, Growing
<1>4. \E x \in S : \A y \in S : x >= y  BY <1>3
<1> QED BY <1>4 DEF Max

\* A fold that goes upwards, with every value for t in W[t].
IsUp(h, D, W, base, F) ==
    /\ h = [t \in SUBSET D |-> IF t = {} THEN base ELSE F[Max(t)][h[t \ {Max(t)}]]]
    /\ \A t \in SUBSET D : h[t] \in W[t]

\* The fold that goes upwards through a finite set of integers exists, and each of
\* its values is where the steps keep it.
LEMMA FoldUp ==
    ASSUME NEW D \in SUBSET Int, IsFiniteSet(D), NEW W, NEW base \in W[{}], NEW F,
           \A t \in SUBSET D : t # {} => \A r \in W[t \ {Max(t)}] : F[Max(t)][r] \in W[t]
    PROVE  \E h : IsUp(h, D, W, base, F)
<1> DEFINE pick == [t \in SUBSET D |-> Max(t)]
<1>1. \A t \in SUBSET D : t # {} => pick[t] \in t /\ pick[t] = Max(t)  BY MaxIs, FS_Subset
<1>2. \A t \in SUBSET D : t # {} =>
               pick[t] \in t /\ \A r \in W[t \ {pick[t]}] : F[pick[t]][r] \in W[t]
  BY <1>1
<1>3. PICK h : IsFold(h, D, pick, base, F) /\ \A t \in SUBSET D : h[t] \in W[t]
  <2> HIDE DEF pick
  <2> QED BY <1>2, FoldExists
<1>4. h = [t \in SUBSET D |-> IF t = {} THEN base ELSE F[pick[t]][h[t \ {pick[t]}]]]
  BY <1>3 DEF IsFold
<1>5. h = [t \in SUBSET D |-> IF t = {} THEN base ELSE F[Max(t)][h[t \ {Max(t)}]]]
  <2> HIDE DEF pick
  <2> QED BY <1>1, <1>4
<1> QED BY <1>3, <1>5 DEF IsUp

\* A sequence without one of its members.
LEMMA RemoveAtIs ==
    ASSUME NEW S, NEW s \in Seq(S), NEW n \in 1..Len(s)
    PROVE  /\ RemoveAt(s, n) \in Seq(S)
           /\ Len(RemoveAt(s, n)) = Len(s) - 1
           /\ \A k \in 1..(Len(s) - 1) : RemoveAt(s, n)[k] = s[IF k < n THEN k ELSE k + 1]
<1> DEFINE a == SubSeq(s, 1, n - 1)
<1> DEFINE b == SubSeq(s, n + 1, Len(s))
<1>1. Len(s) \in Nat /\ n \in Int /\ 1 <= n /\ n <= Len(s) /\ \A i \in 1..Len(s) : s[i] \in S
  BY LenProperties, ElementOfSeq
<1>2. a \in Seq(S) /\ Len(a) = n - 1 /\ \A i \in 1..(n - 1) : a[i] = s[i]
  <2>1. \A i \in 1..(n - 1) : s[i] \in S  BY <1>1
  <2>2. /\ SubSeq(s, 1, n - 1) \in Seq(S)
        /\ Len(SubSeq(s, 1, n - 1)) = IF 1 <= n - 1 THEN (n - 1) - 1 + 1 ELSE 0
        /\ \A i \in 1..((n - 1) - 1 + 1) : SubSeq(s, 1, n - 1)[i] = s[1 + i - 1]
    BY <1>1, <2>1, SubSeqProperties
  <2> QED BY <1>1, <2>2
<1>3. b \in Seq(S) /\ Len(b) = Len(s) - n /\ \A i \in 1..(Len(s) - n) : b[i] = s[n + i]
  <2>1. \A i \in (n + 1)..Len(s) : s[i] \in S  BY <1>1
  <2>2. /\ SubSeq(s, n + 1, Len(s)) \in Seq(S)
        /\ Len(SubSeq(s, n + 1, Len(s))) = IF n + 1 <= Len(s) THEN Len(s) - (n + 1) + 1 ELSE 0
        /\ \A i \in 1..(Len(s) - (n + 1) + 1) : SubSeq(s, n + 1, Len(s))[i] = s[(n + 1) + i - 1]
    BY <1>1, <2>1, SubSeqProperties
  <2> QED BY <1>1, <2>2
<1> HIDE DEF a, b
<1>4. RemoveAt(s, n) = a \o b  BY DEF RemoveAt, a, b
<1>5. /\ a \o b \in Seq(S) /\ Len(a \o b) = Len(a) + Len(b)
      /\ \A i \in 1..(Len(a) + Len(b)) : (a \o b)[i] = IF i <= Len(a) THEN a[i] ELSE b[i - Len(a)]
  <2>1. a \in Seq(S) /\ b \in Seq(S)  BY <1>2, <1>3
  <2> QED BY <2>1, ConcatProperties
<1>6. Len(a \o b) = Len(s) - 1  BY <1>1, <1>2, <1>3, <1>5
<1>7. ASSUME NEW k \in 1..(Len(s) - 1) PROVE (a \o b)[k] = s[IF k < n THEN k ELSE k + 1]
  <2>1. k \in 1..(Len(a) + Len(b)) /\ (k <= Len(a) <=> k < n)  BY <1>1, <1>2, <1>3
  <2>2. CASE k < n
    BY <1>1, <1>2, <1>5, <2>1, <2>2
  <2>3. CASE ~(k < n)
    <3>1. k - Len(a) \in 1..(Len(s) - n) /\ n + (k - Len(a)) = k + 1  BY <1>1, <1>2, <2>3
    <3>2. (a \o b)[k] = b[k - Len(a)]  BY <1>5, <2>1, <2>3
    <3>3. b[k - Len(a)] = s[n + (k - Len(a))]  BY <1>3, <3>1
    <3> QED BY <2>3, <3>1, <3>2, <3>3
  <2> QED BY <2>2, <2>3
<1> QED BY <1>4, <1>5, <1>6, <1>7

\* Dropping the sold-out goods keeps every other (HiredMerchant's withdrawal).
LEMMA TidiedIs ==
    ASSUME left \in Seq(Int), NEW items \in Seq(DOMAIN left)
    PROVE  /\ Tidied(items) \in Seq(DOMAIN left)
           /\ ToSet(Tidied(items)) \subseteq ToSet(items)
           /\ \A l \in ToSet(items) : l \in ToSet(Tidied(items)) \/ left[l] = 0
<1> DEFINE D == DOMAIN items
<1> DEFINE base == [kept |-> <<>>, skip |-> FALSE]
<1> DEFINE step(r, i) ==
             IF left[items[i]] = 0 /\ ~r.skip THEN [kept |-> r.kept, skip |-> TRUE]
             ELSE [kept |-> Append(r.kept, items[i]), skip |-> FALSE]
<1> DEFINE Rec(f) == f = [t \in SUBSET D |-> IF t = {} THEN base ELSE step(f[t \ {Max(t)}], Max(t))]
<1> DEFINE g == CHOOSE f : Rec(f)
<1>1. Tidied(items) = g[D].kept  BY DEF Tidied, MapThenFoldSet
<1> DEFINE R == [kept : Seq(DOMAIN left), skip : BOOLEAN]
<1> DEFINE P(r, t) ==
             /\ \A j \in 1 .. Len(r.kept) : \E i \in t : r.kept[j] = items[i]
             /\ \A i \in t : left[items[i]] = 0 \/ \E j \in 1 .. Len(r.kept) : r.kept[j] = items[i]
<1> DEFINE W == [t \in SUBSET D |-> {r \in R : P(r, t)}]
<1>2. /\ D = 1 .. Len(items) /\ Len(items) \in Nat
      /\ \A i \in D : items[i] \in DOMAIN left
  BY LenProperties, ElementOfSeq
<1>3. D \in SUBSET Int /\ IsFiniteSet(D)  BY <1>2, FS_Interval
<1> HIDE DEF D
<1>4. base \in W[{}]
  <2>1. <<>> \in Seq(DOMAIN left) /\ Len(<<>>) = 0  BY EmptySeq
  <2>2. base \in R /\ base.kept = <<>>  BY <2>1
  <2>3. P(base, {})
    <3>1. 1 .. Len(base.kept) = {}  BY <2>1, <2>2
    <3> HIDE DEF base
    <3> QED BY <3>1
  <2> HIDE DEF base, P, R
  <2> QED BY <2>2, <2>3
<1>5. ASSUME NEW t \in SUBSET D, t # {}, NEW r \in W[t \ {Max(t)}]
      PROVE  step(r, Max(t)) \in W[t]
  <2>1. PICK k : k = Max(t) OBVIOUS
  <2>2. k \in t /\ k \in D  BY <1>3, <1>5, <2>1, MaxIs, FS_Subset
  <2>3. PICK u \in SUBSET D : u = t \ {k} OBVIOUS
  <2>4. r \in R /\ P(r, u)
    <3>1. r \in W[u]  BY <2>1, <2>3
    <3> HIDE DEF P, R
    <3> QED BY <3>1
  <2>5. r.kept \in Seq(DOMAIN left) /\ r.skip \in BOOLEAN /\ Len(r.kept) \in Nat
    BY <2>4, LenProperties
  <2>6. PICK q : q = step(r, k) OBVIOUS
  <2>7. CASE left[items[k]] = 0 /\ ~r.skip
    <3>1. q = [kept |-> r.kept, skip |-> TRUE]  BY <2>6, <2>7
    <3>2. q \in R /\ q.kept = r.kept  BY <2>5, <3>1
    <3>3. \A j \in 1 .. Len(q.kept) : \E i \in t : q.kept[j] = items[i]  BY <2>3, <2>4, <3>2
    <3>4. ASSUME NEW i \in t
          PROVE  left[items[i]] = 0 \/ \E j \in 1 .. Len(q.kept) : q.kept[j] = items[i]
      <4>1. CASE i = k
        BY <2>7, <4>1
      <4>2. CASE i # k
        BY <2>3, <2>4, <3>2, <4>2
      <4> QED BY <4>1, <4>2
    <3>5. P(q, t)  BY <3>3, <3>4
    <3> HIDE DEF P, R
    <3> QED BY <2>1, <2>6, <3>2, <3>5
  <2>8. CASE ~(left[items[k]] = 0 /\ ~r.skip)
    <3>1. q = [kept |-> Append(r.kept, items[k]), skip |-> FALSE]  BY <2>6, <2>8
    <3>2. items[k] \in DOMAIN left  BY <1>2, <2>2
    <3>3. PICK new : new = Append(r.kept, items[k]) OBVIOUS
    <3>4. /\ new \in Seq(DOMAIN left) /\ Len(new) = Len(r.kept) + 1
          /\ \A j \in 1 .. Len(r.kept) : new[j] = r.kept[j]
          /\ new[Len(r.kept) + 1] = items[k]
      BY <2>5, <3>2, <3>3, AppendProperties
    <3>5. q \in R /\ q.kept = new  BY <3>1, <3>3, <3>4
    <3>6. ASSUME NEW j \in 1 .. Len(q.kept) PROVE \E i \in t : q.kept[j] = items[i]
      <4>1. CASE j = Len(r.kept) + 1
        BY <2>2, <3>4, <3>5, <4>1
      <4>2. CASE j # Len(r.kept) + 1
        <5>1. j \in 1 .. Len(r.kept)
          <6>1. PICK n \in Nat : n = Len(r.kept)
            BY <2>5
          <6>2. Len(q.kept) = n + 1  BY <3>4, <3>5, <6>1
          <6>3. j \in 1 .. (n + 1) /\ j # n + 1  BY <4>2, <6>1, <6>2
          <6>4. j \in 1 .. n  BY <6>3
          <6> QED BY <6>1, <6>4
        <5>2. PICK i \in u : r.kept[j] = items[i]
          BY <2>4, <5>1
        <5> QED BY <2>3, <3>4, <3>5, <5>1, <5>2
      <4> QED BY <4>1, <4>2
    <3>7. ASSUME NEW i \in t
          PROVE  left[items[i]] = 0 \/ \E j \in 1 .. Len(q.kept) : q.kept[j] = items[i]
      <4>1. CASE i = k
        <5>1. PICK n \in Nat : n = Len(r.kept)
          BY <2>5
        <5>2. Len(q.kept) = n + 1 /\ q.kept[n + 1] = items[i]  BY <3>4, <3>5, <4>1, <5>1
        <5>3. n + 1 \in 1 .. (n + 1) OBVIOUS
        <5>4. PICK j \in 1 .. Len(q.kept) : j = n + 1
          BY <5>2, <5>3
        <5> QED BY <5>2, <5>4
      <4>2. CASE i # k
        <5>1. SUFFICES ASSUME left[items[i]] # 0
                       PROVE  \E j \in 1 .. Len(q.kept) : q.kept[j] = items[i]
          OBVIOUS
        <5>2. i \in u  BY <2>3, <4>2
        <5>3. PICK j \in 1 .. Len(r.kept) : r.kept[j] = items[i]
          BY <2>4, <5>1, <5>2
        <5>4. j \in 1 .. Len(q.kept) /\ q.kept[j] = items[i]  BY <2>5, <3>4, <3>5, <5>3
        <5> QED BY <5>4
      <4> QED BY <4>1, <4>2
    <3>8. P(q, t)  BY <3>6, <3>7
    <3> HIDE DEF P, R
    <3> QED BY <2>1, <2>6, <3>5, <3>8
  <2> QED BY <2>7, <2>8
<1> DEFINE F == [k \in D |-> [r \in R |-> step(r, k)]]
<1>6. \A t \in SUBSET D : t # {} => Max(t) \in D  BY <1>3, MaxIs, FS_Subset
<1>7. \A t \in SUBSET D : W[t] \subseteq R
  <2> HIDE DEF P, R
  <2> QED OBVIOUS
<1> HIDE DEF W, base, step
<1>8. ASSUME NEW t \in SUBSET D, t # {}, NEW r \in W[t \ {Max(t)}] PROVE F[Max(t)][r] = step(r, Max(t))
  <2>1. t \ {Max(t)} \in SUBSET D OBVIOUS
  <2>2. r \in R /\ Max(t) \in D  BY <1>6, <1>7, <1>8, <2>1
  <2> HIDE DEF R
  <2> QED BY <2>2
<1> HIDE DEF F
<1>9. \A t \in SUBSET D : t # {} => \A r \in W[t \ {Max(t)}] : F[Max(t)][r] \in W[t]
  BY <1>5, <1>8
<1>10. PICK h : IsUp(h, D, W, base, F)
  BY <1>3, <1>4, <1>9, FoldUp
<1>11. /\ h = [t \in SUBSET D |-> IF t = {} THEN base ELSE F[Max(t)][h[t \ {Max(t)}]]]
       /\ \A t \in SUBSET D : h[t] \in W[t]
  BY <1>10 DEF IsUp
<1>12. \A t \in SUBSET D : t # {} => F[Max(t)][h[t \ {Max(t)}]] = step(h[t \ {Max(t)}], Max(t))
  <2> SUFFICES ASSUME NEW t \in SUBSET D, t # {}
               PROVE  F[Max(t)][h[t \ {Max(t)}]] = step(h[t \ {Max(t)}], Max(t))
    OBVIOUS
  <2>1. t \ {Max(t)} \in SUBSET D OBVIOUS
  <2>2. h[t \ {Max(t)}] \in W[t \ {Max(t)}]  BY <1>11, <2>1
  <2> QED BY <1>8, <2>2
<1>13. Rec(h)  BY <1>11, <1>12
<1>14. Rec(g)
  <2> HIDE DEF Rec
  <2> QED BY <1>13
<1>15. g[{}] = base /\ \A t \in SUBSET D : t # {} => g[t] = step(g[t \ {Max(t)}], Max(t))
  <2> HIDE DEF g
  <2> QED BY <1>14
<1> HIDE DEF g
<1> DEFINE J == {t \in SUBSET D : g[t] \in W[t]}
<1>16. \A t \in SUBSET D : t # {} => \E x \in t : t \ {x} \in J => t \in J
  <2> SUFFICES ASSUME NEW t \in SUBSET D, t # {}, t \ {Max(t)} \in J PROVE Max(t) \in t /\ t \in J
    <3>1. \A t \in SUBSET D : t # {} => Max(t) \in t  BY <1>3, MaxIs, FS_Subset
    <3> HIDE DEF J
    <3> QED BY <3>1
  <2>1. g[t] = step(g[t \ {Max(t)}], Max(t)) /\ g[t \ {Max(t)}] \in W[t \ {Max(t)}]
    BY <1>15
  <2>2. g[t] \in W[t]  BY <1>5, <2>1
  <2>3. Max(t) \in t  BY <1>3, MaxIs, FS_Subset
  <2> QED BY <2>2, <2>3
<1>17. D \in J
  <2>1. {} \in J  BY <1>4, <1>15
  <2> HIDE DEF J
  <2> QED BY <1>3, <1>16, <2>1, Growing
<1>18. g[D] \in W[D]  BY <1>17
<1>19. PICK r : r = g[D] OBVIOUS
<1>20. r \in R /\ P(r, D)
  <2>1. D \in SUBSET D OBVIOUS
  <2> HIDE DEF P, R
  <2> QED BY <1>18, <1>19, <2>1 DEF W
<1>21. r.kept \in Seq(DOMAIN left) /\ DOMAIN r.kept = 1 .. Len(r.kept)
  BY <1>20, LenProperties
<1>22. ToSet(r.kept) \subseteq ToSet(items)
  <2> SUFFICES ASSUME NEW x \in ToSet(r.kept) PROVE x \in ToSet(items) OBVIOUS
  <2>1. PICK j \in 1 .. Len(r.kept) : x = (r.kept)[j]
    BY <1>21 DEF ToSet
  <2>2. PICK i \in D : (r.kept)[j] = items[i]
    BY <1>20, <2>1
  <2> QED BY <2>1, <2>2 DEF ToSet, D
<1>23. ASSUME NEW l \in ToSet(items), left[l] # 0 PROVE l \in ToSet(r.kept)
  <2>1. PICK i \in D : l = items[i]
    BY <1>23 DEF ToSet, D
  <2>2. PICK j \in 1 .. Len(r.kept) : r.kept[j] = items[i]
    BY <1>20, <1>23, <2>1
  <2> QED BY <1>21, <2>1, <2>2 DEF ToSet
<1> QED BY <1>1, <1>19, <1>21, <1>22, <1>23

\* A list of no goods.
LEMMA EmptyIs ==
    ASSUME NEW S, NEW items \in Seq(S), \A l : l \notin ToSet(items)
    PROVE  items = <<>>
<1>1. Len(items) \in Nat /\ DOMAIN items = 1 .. Len(items)  BY LenProperties
<1>2. 1 \notin DOMAIN items
  <2>1. ASSUME 1 \in DOMAIN items PROVE FALSE
    <3>1. items[1] \in ToSet(items)  BY <2>1 DEF ToSet
    <3> QED BY <3>1
  <2> QED BY <2>1
<1>3. Len(items) = 0  BY <1>1, <1>2
<1> QED BY <1>3, EmptySeq

\* The goods of a list are among the goods.
LEMMA ListedIn ==
    ASSUME NEW S, NEW items \in Seq(S) PROVE ToSet(items) \subseteq S
BY LenProperties, ElementOfSeq DEF ToSet

-----------------------------------------------------------------------------
(* Steps that move mesos: the till is paid out and emptied, a buyer pays.   *)

\* Work leaves an owner in the merchant he has not opened.
LEMMA WorkOwned ==
    ASSUME Types, Settled, NEW t \in Threads, Work(t), NEW r \in Hired, ~shop[r].avail,
           shop'[r].alarm = "set"
    PROVE  at'[shop[r].owner] = r
<1>1. PICK o \in Owners : o = shop[r].owner
  BY DEF Types, ShopAt
<1>2. at[o] = r  BY <1>1 DEF Settled, OwnedAt, Work
<1>3. o \in Players /\ o \notin Buyers  BY DEF Players
<1>4. r # None  BY DEF Types, Listing
<1>5. \/ at'[o] = at[o]
      \/ at'[o] = None /\ shop[at[o]].avail
      \/ o \in Buyers \/ at[o] = None
  BY <1>3 DEF Work, Visits
<1> QED BY <1>1, <1>2, <1>3, <1>4, <1>5

\* No package is being loaded or changes hands.
LEMMA LoadingsStay ==
    ASSUME Types, Indexed, NEW t \in Threads, SameShops, Only(t), index' = index, package' = package,
           overlapped => overlapped', \A o \in Owners : LoadingAt(o), pc'[t].op # "load"
    PROVE  \A o \in Owners : LoadingAt(o)'
<1> TAKE o \in Owners
<1>1. CASE o = t
  BY <1>1 DEF LoadingAt
<1>2. CASE o # t
  <2>1. o \in Threads  BY DEF Threads, Players
  <2>2. pc'[o] = pc[o]  BY <1>2, <2>1 DEF Only
  <2> QED BY <2>2, LoadingStays
<1> QED BY <1>1, <1>2

\* Others find what they left, if only one merchant changes and they are not there.
LEMMA OthersNeat ==
    ASSUME Types, NEW t \in Threads, Only(t), NEW s \in Hired, \A u \in Threads : NeatAt(u),
           \A u \in Threads \ {t} : pc[u].s # s,
           \A r \in Hired \ {s} : Untouched(r)
    PROVE  \A u \in Threads \ {t} : NeatAt(u)'
<1> TAKE u \in Threads \ {t}
<1>1. pc'[u] = pc[u] /\ NeatAt(u) /\ PcAt(u) /\ pc[u].s # s  BY DEF Only, Types
<1>2. pc[u].op \in Busy => Untouched(pc[u].s)  BY <1>1 DEF PcAt
<1> QED BY <1>1, <1>2, NeatStays

\* Work on the till, or on the list's sold-out goods, of s.
LEMMA TillWorkKeeps ==
    ASSUME IInv, KInv, AccountsAssumption, NEW t \in Threads, NEW s \in Hired, Work(t),
           left' = left, bag' = bag, package' = package, lapses' = lapses,
           purse' \in [Players -> Int],
           \A r \in Hired \ {s} : shop'[r].items = shop[r].items /\ shop'[r].meso = shop[r].meso,
           shop'[s].items \in Seq(DOMAIN left), shop'[s].meso \in Int,
           ToSet(shop'[s].items) \subseteq ToSet(shop[s].items),
           \A l \in ToSet(shop[s].items) : l \in ToSet(shop'[s].items) \/ left[l] = 0,
           shop'[s].items = shop[s].items \/ t = shop[s].owner,
           pc[t].op \in {"idle", "withdraw", "counted"}, pc[t].op # "idle" => pc[t].s = s,
           pc'[t].op \in {"idle", "withdraw"}, pc'[t].op # "idle" => pc'[t].s = s,
           Joins(t, s) \/ pc[t].s = s, Task(t)',
           lapses = {} =>
             /\ DealingAt(t)'
             /\ ~shop[s].avail => shop'[s].meso = 0
             /\ ~overlapped' => NeatAt(t)' /\ Sum(purse', Players) + Till(s)' = Sum(purse, Players) + Till(s)
    PROVE  KInv'
<1>1. Types /\ Indexed /\ Wares  BY DEF IInv, Orderly, KInv
<1>2. DOMAIN shop' = Hired /\ Only(t) /\ SameShops /\ index' = index  BY DEF Work, SameShops
<1>3. \A r \in Hired : shop'[r].can = shop[r].can  BY <1>2 DEF SameShops, SameAt
<1>4. \A r : ~Stores(t, r) /\ ~Stores(t, r)' /\ ~Clears(t, r)' /\ ~Shuts(t, r)'
  BY DEF Stores, Clears, Shuts, Shutting
<1>5. \A r \in Hired : Live(r)' <=> Live(r)  BY <1>2, <1>3, <1>4, LiveMoves
<1>6. Wares'
  <2>1. \A r \in Hired : Stall(r)'
    <3> TAKE r \in Hired
    <3>1. CASE r = s
      BY <3>1 DEF Stall
    <3>2. CASE r # s
      BY <1>1, <3>2, StallStays DEF Wares
    <3> QED BY <3>1, <3>2
  <2>2. left' \in Seq(Int) /\ bag' \in [Players -> Int]
        /\ package' \in [Owners -> Row] /\ DOMAIN left \subseteq DOMAIN left'
    BY <1>1 DEF Wares
  <2> QED BY <1>1, <1>2, <2>1, <2>2, WaresStay
<1> SUFFICES ASSUME lapses' = {} PROVE Settled' /\ (\E home, low : Account(home, low)')
                                       /\ (~overlapped' => Neat' /\ Coined')
  BY <1>6 DEF KInv
<1>7. lapses = {} /\ (overlapped => overlapped')  BY DEF Work, History
<1>8. Settled /\ (\E home, low : Account(home, low)) /\ (~overlapped => Neat /\ Coined)
  BY <1>7 DEF KInv
<1>9. \A r \in Hired : ToSet(shop'[r].items) \subseteq ToSet(shop[r].items)
  <2> TAKE r \in Hired
  <2>1. CASE r = s
    BY <2>1
  <2>2. CASE r # s
    BY <2>2
  <2> QED BY <2>1, <2>2
<1>10. Settled'
  <2>1. \A o \in Owners : LoadingAt(o)'  BY <1>1, <1>2, <1>7, <1>8, LoadingsStay DEF Settled
  <2>2. ASSUME NEW r \in Hired, ~shop[r].avail PROVE shop'[r].meso = 0
    <3>1. CASE r = s
      BY <1>7, <2>2, <3>1
    <3>2. CASE r # s
      BY <1>8, <2>2, <3>2 DEF Settled, OwnedAt
    <3> QED BY <3>1, <3>2
  <2>3. ASSUME NEW r \in Hired, shop[r].items = <<>> PROVE shop'[r].items = <<>>
    <3>1. CASE r = s
      <4>1. \A l : l \notin ToSet(shop'[s].items)
        <5>1. ToSet(shop[s].items) = {}  BY <2>3, <3>1 DEF ToSet
        <5> QED BY <5>1
      <4> QED BY <3>1, <4>1, EmptyIs
    <3>2. CASE r # s
      BY <2>3, <3>2
    <3> QED BY <3>1, <3>2
  <2>4. \A r \in Hired : ~shop[r].avail => (shop'[r].alarm = "set" => at'[shop[r].owner] = r)
    BY <1>1, <1>8, WorkOwned
  <2>6. DealingAt(t)'  BY <1>7
  <2>7. ASSUME NEW r \in Hired, NEW u \in Threads \ {t}, pc[u].op = "takeback", pc[u].s = r
        PROVE  shop'[r].items = shop[r].items
    <3>1. CASE r # s
      BY <3>1
    <3>2. CASE r = s
      <4>1. u = shop[s].owner  BY <1>8, <2>7, <3>2 DEF Settled, DealingAt
      <4> QED BY <3>2, <4>1
    <3> QED BY <3>1, <3>2
  <2> QED BY <1>1, <1>2, <1>4, <1>8, <2>1, <2>2, <2>3, <2>4, <2>6, <2>7, SettledStays
<1>11. PICK home, low : Account(home, low)
  BY <1>8
<1>12. Account(home, low)'
  <2>1. pc[t].op \notin {"handed", "takeback"} /\ pc'[t].op \notin {"handed", "takeback"}
    OBVIOUS
  <2>2. ASSUME NEW r \in Hired, NEW l \in DOMAIN left PROVE Value(l, r)' = Value(l, r)
    <3>1. ~Works(t, l) /\ ~Works(t, l)'  BY <2>1 DEF Works
    <3>2. CASE OnList(l, r)' <=> OnList(l, r)
      BY <1>2, <3>1, <3>2, ValueStays
    <3>3. CASE ~(OnList(l, r)' <=> OnList(l, r))
      <4>1. left[l] = 0
        <5>1. r = s  BY <3>3 DEF OnList
        <5>2. OnList(l, s) /\ ~OnList(l, s)'  BY <3>3, <5>1 DEF OnList
        <5> QED BY <5>2 DEF OnList
      <4>2. left'[l] = 0  BY <4>1
      <4> QED BY <4>1, <4>2 DEF Value, Positive
    <3> QED BY <3>2, <3>3
  <2>4. Unclaimed("goods")' = Unclaimed("goods") /\ Sum(bag', Players) = Sum(bag, Players)
    BY UnclaimedStays
  <2>5. PICK a : a = Sum(bag, Players) + Unclaimed("goods") OBVIOUS
  <2>6. a \in Int
    <3>1. low \in [DOMAIN left -> Int]  BY <1>11 DEF Account
    <3> QED BY <1>1, <2>5, <3>1, AllOfType
  <2>7. Sum(bag', Players) + Unclaimed("goods")' >= Sum(bag, Players) + Unclaimed("goods")
        /\ Sum(bag', Players) + Unclaimed("goods")' = Sum(bag, Players) + Unclaimed("goods")
    BY <2>4, <2>5, <2>6
  <2> QED BY <1>1, <1>2, <1>5, <1>6, <1>7, <1>9, <1>11, <2>1, <2>2, <2>7, AccountStays
<1>13. ASSUME ~overlapped' PROVE Neat' /\ Coined'
  <2>1. ~overlapped /\ Neat /\ Coined  BY <1>7, <1>8, <1>13
  <2>2. \A u \in Threads \ {t} : pc[u].s # s  BY <1>7, <1>13, <2>1, NobodyElse
  <2>3. \A r \in Hired \ {s} : Untouched(r)  BY <1>5 DEF Untouched
  <2>4. \A u \in Threads \ {t} : NeatAt(u)'
    BY <1>1, <1>2, <2>1, <2>2, <2>3, OthersNeat DEF Neat
  <2>5. NeatAt(t)'  BY <1>7, <1>13
  <2>6. \A u \in Threads : NeatAt(u)'  BY <2>4, <2>5
  <2>7. Neat'  BY <2>1, <2>6 DEF Neat
  <2>8. \A r \in Hired \ {s} : Till(r)' = Till(r)
    <3> TAKE r \in Hired \ {s}
    <3>0. s # 0 /\ r # 0  BY <1>1 DEF Types, Listing
    <3>1. Empties(t, r)' <=> Empties(t, r)  BY <3>0 DEF Empties
    <3> QED BY <1>2, <1>3, <1>4, <3>1, TillStays
  <2>9. Tills' = Tills - Till(s) + Till(s)' /\ Tills \in Int /\ Till(s) \in Int /\ Till(s)' \in Int
    BY <1>1, <1>2, <1>6, <2>8, TillsMove
  <2>10. Unclaimed("meso")' = Unclaimed("meso") /\ Unclaimed("meso") \in Int
    BY <1>1, UnclaimedStays, UnclaimedIs
  <2>11. Sum(purse', Players) + Till(s)' = Sum(purse, Players) + Till(s)  BY <1>7, <1>13
  <2>12. Sum(purse, Players) \in Int /\ Sum(purse', Players) \in Int
    <3>1. IsFiniteSet(Players) /\ (\A p \in Players : purse[p] \in Int) /\ \A p \in Players : purse'[p] \in Int
      BY <1>1, Finite DEF Wares
    <3> QED BY <3>1, SumInt
  <2>13. AllMesos' = Sum(purse', Players) + Tills' + Unclaimed("meso")'
    BY DEF AllMesos, Tills, Sum, FoldSet, MapThenFoldSet
  <2>14. PICK a, b, c, d, e, f \in Int :
           /\ a = Sum(purse, Players) /\ b = Sum(purse', Players) /\ c = Tills
           /\ d = Till(s) /\ e = Till(s)' /\ f = Unclaimed("meso")
    BY <2>9, <2>10, <2>12
  <2>15. AllMesos = a + c + f  BY <2>14, MesosAre
  <2>16. AllMesos' = b + (c - d + e) + f  BY <2>9, <2>10, <2>13, <2>14
  <2>17. AllMesos' = AllMesos
    <3>1. b + e = a + d  BY <2>11, <2>14
    <3>2. b + (c - d + e) + f = a + c + f  BY <3>1
    <3> QED BY <2>15, <2>16, <3>2
  <2>18. Coined'  BY <2>1, <2>17 DEF Coined
  <2> QED BY <2>7, <2>18
<1> QED BY <1>10, <1>12, <1>13

\* A merchant where only t is, and which t has not saved, can be traded at, and
\* nobody else is paid out its till.
LEMMA AloneLive ==
    ASSUME IInv, lapses = {}, ~overlapped, ~overlapped', NEW t \in Threads, NEW s \in Hired,
           pc[t].s = s \/ Joins(t, s), Only(t)
    PROVE  /\ shop[s].can /\ ~Stores(t, s) => Live(s)
           /\ shop'[s].can /\ ~Stores(t, s)' => Live(s)'
           /\ \A u \in Threads \ {t} : ~Empties(u, s) /\ ~Empties(u, s)'
<1>1. \A u \in Threads \ {t} : pc[u].s # s  BY NobodyElse
<1>2. \A u \in Threads \ {t} : pc'[u] = pc[u]  BY DEF Only
<1>3. \A u \in Threads \ {t} : ~Stores(u, s) /\ ~Stores(u, s)' /\ ~Empties(u, s) /\ ~Empties(u, s)'
  BY <1>1, <1>2 DEF Stores, Empties
<1>4. Stored(s)' <=> \E u \in Threads : Stores(u, s)'  BY DEF Stored, Doing, Stores
<1>5. ~Stores(t, s) => ~Stored(s)  BY <1>3, StoredIs
<1>6. ~Stores(t, s)' => ~Stored(s)'  BY <1>3, <1>4
<1> QED BY <1>3, <1>5, <1>6 DEF Live

\* What the till counts for in the next state.
LEMMA TillIsNext ==
    ASSUME NEW s
    PROVE  Till(s)' = IF Live(s)' /\ ~(\E u \in Threads : Empties(u, s)') THEN shop'[s].meso ELSE 0
<1>1. Doing("withdraw", s)' = {} <=> ~(\E u \in Threads : Empties(u, s)')
  BY DEF Doing, Empties
<1> QED BY <1>1 DEF Till, Live

\* The till is paid out, and the sold-out goods are dropped.
LEMMA WithdrawKeeps ==
    ASSUME IInv, KInv, AccountsAssumption, NEW o \in Owners, Withdraw(o)
    PROVE  KInv'
<1>1. Orderly /\ Types /\ Wares  BY DEF IInv, Orderly, KInv
<1>2. o \in Threads /\ o \in Players  BY DEF Threads, Players
<1>3. Work(o) /\ Only(o)  BY <1>1, OwnerWorks DEF Work
<1>4. PICK s \in Hired : s = at[o] /\ shop[s].owner = o
  BY <1>1, OwnsOne DEF Withdraw
<1>5. /\ pc[o] = Idle /\ shop[s].can /\ shop' = [shop EXCEPT ![s].items = Tidied(shop[s].items)]
      /\ purse' = [purse EXCEPT ![o] = purse[o] + shop[s].meso]
      /\ Begins(o, s) /\ Go(o, In("withdraw", s, 0, 0, 0))
  BY <1>4 DEF Withdraw, Free
<1>6. left' = left /\ bag' = bag /\ package' = package /\ lapses' = lapses
  BY DEF Withdraw, Rest
<1>7. pc'[o] = In("withdraw", s, 0, 0, 0)  BY <1>1, <1>2, <1>5, Going
<1>8. /\ pc[o].op = "idle" /\ pc[o].s = 0 /\ pc'[o].op = "withdraw" /\ pc'[o].s = s
      /\ pc'[o].l = 0 /\ pc'[o].n = 0 /\ pc'[o].v = 0
  BY <1>5, <1>7 DEF In, Idle
<1>9. DOMAIN shop[s] = Fields /\ "items" \in Fields /\ "meso" \in Fields /\ "can" \in Fields
  BY <1>1 DEF Types, ShopAt, Fields
<1>0. DOMAIN shop = Hired  BY <1>1 DEF Types, Listing
<1>10. /\ shop'[s].items = Tidied(shop[s].items) /\ shop'[s].meso = shop[s].meso
       /\ shop'[s].can = shop[s].can
       /\ \A r \in Hired \ {s} : shop'[r] = shop[r]
  BY <1>0, <1>5, <1>9
<1>11. shop[s].items \in Seq(DOMAIN left) /\ shop[s].meso \in Int /\ left \in Seq(Int)
  BY <1>1 DEF Wares, Stall
<1>12. /\ shop'[s].items \in Seq(DOMAIN left)
       /\ ToSet(shop'[s].items) \subseteq ToSet(shop[s].items)
       /\ \A l \in ToSet(shop[s].items) : l \in ToSet(shop'[s].items) \/ left[l] = 0
  BY <1>10, <1>11, TidiedIs
<1>13. purse \in [Players -> Int]  BY <1>1 DEF Wares
<1>14. purse' \in [Players -> Int] /\ Sum(purse', Players) = Sum(purse, Players) + shop[s].meso
       /\ Sum(purse, Players) \in Int
  BY <1>1, <1>2, <1>5, <1>11, <1>13, HoldsMore
<1>15. Joins(o, s) /\ (overlapped => overlapped')  BY <1>1, <1>2, <1>5, Joining
<1>16. Task(o)'  BY <1>8 DEF Task
<1>17. shop'[s].owner = o  BY <1>3, <1>4 DEF Work, SameShops, SameAt
<1>18. DealingAt(o)'
  <2>1. PICK p : p = pc'[o] OBVIOUS
  <2> QED BY <1>8, <1>17, <2>1 DEF DealingAt
<1>19. ASSUME lapses = {} PROVE ~shop[s].avail => shop'[s].meso = 0
  BY <1>10, <1>19 DEF KInv, Settled, OwnedAt
<1>20. ASSUME lapses = {}, ~overlapped'
       PROVE  NeatAt(o)' /\ Sum(purse', Players) + Till(s)' = Sum(purse, Players) + Till(s)
  <2>1. ~Stores(o, s) /\ ~Stores(o, s)' /\ ~Empties(o, s) /\ Empties(o, s)'
    BY <1>8 DEF Stores, Empties
  <2>2. Live(s) /\ Live(s)' /\ \A u \in Threads \ {o} : ~Empties(u, s)
    BY <1>2, <1>3, <1>5, <1>10, <1>15, <1>20, <2>1, AloneLive
  <2>3. Till(s) = shop[s].meso  BY <2>1, <2>2, TillIs
  <2>4. Till(s)' = 0  BY <1>2, <2>1, TillIsNext
  <2>5. NeatAt(o)'
    <3>1. PICK p : p = pc'[o] OBVIOUS
    <3> QED BY <1>8, <2>2, <3>1 DEF NeatAt, Live, Stored, Doing
  <2>6. PICK a, c \in Int : a = Sum(purse, Players) /\ c = shop[s].meso
    BY <1>11, <1>14
  <2>7. a + c + 0 = a + c OBVIOUS
  <2> QED BY <1>14, <2>3, <2>4, <2>5, <2>6, <2>7
<1> QED
  BY <1>2, <1>3, <1>4, <1>6, <1>8, <1>10, <1>11, <1>12, <1>14, <1>15, <1>16, <1>18, <1>19, <1>20,
     TillWorkKeeps

\* The till is emptied.
LEMMA WithdrawnKeeps ==
    ASSUME IInv, KInv, AccountsAssumption, NEW o \in Owners, Withdrawn(o)
    PROVE  KInv'
<1>1. Orderly /\ Types /\ Wares  BY DEF IInv, Orderly, KInv
<1>2. o \in Threads /\ o \in Players  BY DEF Threads, Players
<1>3. Work(o) /\ Only(o)  BY <1>1, OwnerWorks DEF Work
<1>4. PICK s \in Hired : s = pc[o].s
  BY <1>1, <1>2 DEF Withdrawn, Types, PcAt, Busy
<1>5. pc[o].op = "withdraw" /\ shop' = [shop EXCEPT ![s].meso = 0] /\ Go(o, Idle)
  BY <1>4 DEF Withdrawn, Done
<1>6. left' = left /\ bag' = bag /\ package' = package /\ lapses' = lapses /\ purse' = purse
  BY DEF Withdrawn, Rest
<1>7. pc'[o] = Idle  BY <1>1, <1>2, <1>5, Going
<1>8. pc'[o].op = "idle" /\ pc'[o].s = 0 /\ pc'[o].l = 0 /\ pc'[o].n = 0 /\ pc'[o].v = 0
  BY <1>7 DEF Idle
<1>9. DOMAIN shop[s] = Fields /\ "items" \in Fields /\ "meso" \in Fields
  BY <1>1 DEF Types, ShopAt, Fields
<1>0. DOMAIN shop = Hired  BY <1>1 DEF Types, Listing
<1>10. /\ shop'[s].items = shop[s].items /\ shop'[s].meso = 0
       /\ \A r \in Hired \ {s} : shop'[r] = shop[r]
  BY <1>0, <1>5, <1>9
<1>11. shop[s].items \in Seq(DOMAIN left) /\ purse \in [Players -> Int]
  BY <1>1 DEF Wares, Stall
<1>12. Task(o)'  BY <1>8 DEF Task
<1>13. DealingAt(o)' /\ NeatAt(o)'  BY <1>8 DEF DealingAt, NeatAt, Busy
<1>14. Till(s)' = Till(s)
  <2>1. Till(s) = 0
    <3>1. Empties(o, s)  BY <1>4, <1>5 DEF Empties
    <3> QED BY <1>2, <3>1, TillIs
  <2>2. Till(s)' = 0  BY <1>10, TillIsNext
  <2> QED BY <2>1, <2>2
<1>15. Sum(purse', Players) + Till(s)' = Sum(purse, Players) + Till(s)  BY <1>6, <1>14
<1>16. \A l \in ToSet(shop[s].items) : l \in ToSet(shop'[s].items) \/ left[l] = 0  BY <1>10
<1> QED
  BY <1>2, <1>3, <1>4, <1>5, <1>6, <1>8, <1>10, <1>11, <1>12, <1>13, <1>15, <1>16, TillWorkKeeps

\* A buyer pays.
LEMMA PaidKeeps ==
    ASSUME IInv, KInv, AccountsAssumption, NEW b \in Buyers, Paid(b)
    PROVE  KInv'
<1>1. Orderly /\ Types /\ Wares  BY DEF IInv, Orderly, KInv
<1>2. b \in Threads /\ b \in Players  BY DEF Threads, Players
<1>3. Work(b) /\ Only(b) /\ (overlapped => overlapped')
  BY <1>1, BuyerWorks DEF Work, History
<1>4. PICK s \in Hired : s = pc[b].s
  BY <1>1, <1>2 DEF Paid, Types, PcAt, Busy
<1>5. PICK v, n \in Int : v = pc[b].v /\ n = pc[b].n
  BY <1>1, <1>2 DEF Wares, Task
<1>6. /\ pc[b].op = "counted" /\ shop' = [shop EXCEPT ![s].meso = v + n] /\ Go(b, Idle)
      /\ purse' = [purse EXCEPT ![b] = purse[b] - n]
  BY <1>4, <1>5 DEF Paid, Done
<1>7. left' = left /\ bag' = bag /\ package' = package /\ lapses' = lapses
  BY DEF Paid, Rest
<1>8. pc'[b] = Idle  BY <1>1, <1>2, <1>6, Going
<1>9. pc'[b].op = "idle" /\ pc'[b].s = 0 /\ pc'[b].l = 0 /\ pc'[b].n = 0 /\ pc'[b].v = 0
  BY <1>8 DEF Idle
<1>10. DOMAIN shop[s] = Fields /\ "items" \in Fields /\ "meso" \in Fields /\ "can" \in Fields
  BY <1>1 DEF Types, ShopAt, Fields
<1>0. DOMAIN shop = Hired  BY <1>1 DEF Types, Listing
<1>11. /\ shop'[s].items = shop[s].items /\ shop'[s].meso = v + n /\ shop'[s].can = shop[s].can
       /\ \A r \in Hired \ {s} : shop'[r] = shop[r]
  BY <1>0, <1>6, <1>10
<1>12. shop[s].items \in Seq(DOMAIN left) /\ purse \in [Players -> Int] /\ v + n \in Int
  BY <1>1, <1>5 DEF Wares, Stall
<1>13. PICK d \in Int : d = -n OBVIOUS
<1>14. purse' = [purse EXCEPT ![b] = purse[b] + d]
  <2>1. purse[b] \in Int  BY <1>2, <1>12
  <2>2. purse[b] - n = purse[b] + d  BY <1>13, <2>1
  <2> QED BY <1>6, <2>2
<1>15. purse' \in [Players -> Int] /\ Sum(purse', Players) = Sum(purse, Players) + d
       /\ Sum(purse, Players) \in Int
  BY <1>1, <1>2, <1>12, <1>14, HoldsMore
<1>16. Task(b)'  BY <1>9 DEF Task
<1>17. DealingAt(b)' /\ NeatAt(b)'  BY <1>9 DEF DealingAt, NeatAt, Busy
<1>18. ASSUME lapses = {} PROVE shop[s].avail
  BY <1>2, <1>4, <1>6, <1>18 DEF KInv, Settled, DealingAt
<1>19. ASSUME lapses = {}, ~overlapped'
       PROVE  Sum(purse', Players) + Till(s)' = Sum(purse, Players) + Till(s)
  <2>1. ~Stores(b, s) /\ ~Stores(b, s)' /\ ~Empties(b, s) /\ ~Empties(b, s)'
    BY <1>6, <1>9 DEF Stores, Empties
  <2>2. NeatAt(b)  BY <1>2, <1>3, <1>19 DEF KInv, Neat
  <2>3. Live(s) /\ v = shop[s].meso  BY <1>4, <1>5, <1>6, <2>2 DEF NeatAt, Busy
  <2>4. Live(s)' /\ \A u \in Threads \ {b} : ~Empties(u, s) /\ ~Empties(u, s)'
    <3>1. shop[s].can  BY <2>3 DEF Live
    <3> QED BY <1>2, <1>3, <1>4, <1>11, <1>19, <2>1, <3>1, AloneLive
  <2>5. Till(s) = v  BY <2>1, <2>3, <2>4, TillIs
  <2>6. Till(s)' = v + n  BY <1>11, <2>1, <2>4, TillIsNext
  <2>7. PICK a \in Int : a = Sum(purse, Players)
    BY <1>15
  <2>8. (a + d) + (v + n) = a + v  BY <1>13
  <2> QED BY <1>15, <2>5, <2>6, <2>7, <2>8
<1>20. \A l \in ToSet(shop[s].items) : l \in ToSet(shop'[s].items) \/ left[l] = 0  BY <1>11
<1> QED
  BY <1>2, <1>3, <1>4, <1>6, <1>7, <1>9, <1>11, <1>12, <1>15, <1>16, <1>17, <1>18, <1>19, <1>20, TillWorkKeeps

-----------------------------------------------------------------------------
(* Steps that move goods between list, bags and buyers.                     *)

\* Work on the goods of s, with what it does to the account.
LEMMA GoodsWorkKeeps ==
    ASSUME IInv, KInv, AccountsAssumption, NEW t \in Threads, NEW s \in Hired, Work(t),
           lapses \subseteq lapses', purse' = purse, package' = package,
           left' \in Seq(Int), DOMAIN left \subseteq DOMAIN left', bag' \in [Players -> Int],
           \A r \in Hired \ {s} : shop'[r].items = shop[r].items /\ shop'[r].meso = shop[r].meso,
           shop'[s].meso = shop[s].meso, shop'[s].items \in Seq(DOMAIN left'),
           pc[t].op \in {"idle", "checked", "handed", "takeback"},
           pc'[t].op \in {"idle", "handed", "counted", "takeback"},
           Joins(t, s) \/ pc[t].s = s, Task(t)',
           lapses' = {} =>
             /\ DealingAt(t)' /\ \E home, low : Account(home, low)'
             /\ shop'[s].items = shop[s].items \/ t = shop[s].owner
             /\ shop[s].items = <<>> => shop'[s].items = <<>> \/ Live(s)
             /\ ~overlapped' =>
                  /\ NeatAt(t)' /\ (\A x \in DOMAIN left' : left'[x] >= 0)
                  /\ \A r \in Hired \ {s} : \A x \in ToSet(shop[r].items) : left'[x] = left[x]
    PROVE  KInv'
<1>1. Types /\ Indexed /\ Wares  BY DEF IInv, Orderly, KInv
<1>2. DOMAIN shop' = Hired /\ Only(t) /\ SameShops /\ index' = index  BY DEF Work, SameShops
<1>3. \A r \in Hired : shop'[r].can = shop[r].can  BY <1>2 DEF SameShops, SameAt
<1>4. \A r : /\ ~Stores(t, r) /\ ~Stores(t, r)' /\ ~Clears(t, r)' /\ ~Shuts(t, r)'
             /\ ~Empties(t, r) /\ ~Empties(t, r)'
  BY DEF Stores, Clears, Shuts, Shutting, Empties
<1>5. \A r \in Hired : Live(r)' <=> Live(r)  BY <1>2, <1>3, <1>4, LiveMoves
<1>6. Wares'
  <2>1. \A r \in Hired : Stall(r)'
    <3> TAKE r \in Hired
    <3>1. CASE r = s
      <4>1. shop'[s].meso \in Int  BY <1>1 DEF Wares, Stall
      <4> QED BY <3>1, <4>1 DEF Stall
    <3>2. CASE r # s
      BY <1>1, <3>2, StallStays DEF Wares
    <3> QED BY <3>1, <3>2
  <2>2. purse' \in [Players -> Int] /\ package' \in [Owners -> Row]  BY <1>1 DEF Wares
  <2> QED BY <1>1, <1>2, <2>1, <2>2, WaresStay
<1> SUFFICES ASSUME lapses' = {} PROVE Settled' /\ (\E home, low : Account(home, low)')
                                       /\ (~overlapped' => Neat' /\ Coined')
  BY <1>6 DEF KInv
<1>7. lapses = {} /\ (overlapped => overlapped')  BY DEF Work, History
<1>8. Settled /\ (~overlapped => Neat /\ Coined)  BY <1>7 DEF KInv
<1>10. Settled'
  <2>1. \A o \in Owners : LoadingAt(o)'  BY <1>1, <1>2, <1>7, <1>8, LoadingsStay DEF Settled
  <2>2. ASSUME NEW r \in Hired, ~shop[r].avail PROVE shop'[r].meso = 0
    <3>1. shop'[r].meso = shop[r].meso OBVIOUS
    <3> QED BY <1>8, <2>2, <3>1 DEF Settled, OwnedAt
  <2>3. ASSUME NEW r \in Hired, shop[r].items = <<>> PROVE shop'[r].items = <<>> \/ Live(r)
    <3>1. CASE r = s
      BY <2>3, <3>1
    <3>2. CASE r # s
      BY <2>3, <3>2
    <3> QED BY <3>1, <3>2
  <2>4. \A r \in Hired : ~shop[r].avail => (shop'[r].alarm = "set" => at'[shop[r].owner] = r)
    BY <1>1, <1>8, WorkOwned
  <2>6. DealingAt(t)' OBVIOUS
  <2>7. ASSUME NEW r \in Hired, NEW u \in Threads \ {t}, pc[u].op = "takeback", pc[u].s = r
        PROVE  shop'[r].items = shop[r].items
    <3>1. CASE r # s
      BY <3>1
    <3>2. CASE r = s
      <4>1. u = shop[s].owner  BY <1>8, <2>7, <3>2 DEF Settled, DealingAt
      <4> QED BY <3>2, <4>1
    <3> QED BY <3>1, <3>2
  <2> QED BY <1>1, <1>2, <1>4, <1>8, <2>1, <2>2, <2>3, <2>4, <2>6, <2>7, SettledStays
<1>13. ASSUME ~overlapped' PROVE Neat' /\ Coined'
  <2>1. ~overlapped /\ Neat /\ Coined  BY <1>7, <1>8, <1>13
  <2>2. \A u \in Threads \ {t} : pc[u].s # s  BY <1>7, <1>13, <2>1, NobodyElse
  <2>3. \A r \in Hired \ {s} : Untouched(r)  BY <1>5, <1>13 DEF Untouched
  <2>4. \A u \in Threads \ {t} : NeatAt(u)'
    BY <1>1, <1>2, <2>1, <2>2, <2>3, OthersNeat DEF Neat
  <2>5. NeatAt(t)'  BY <1>13
  <2>6. \A u \in Threads : NeatAt(u)'  BY <2>4, <2>5
  <2>7. Neat'  BY <1>13, <2>6 DEF Neat
  <2>8. \A r \in Hired : Till(r)' = Till(r)
    <3> TAKE r \in Hired
    <3>1. shop'[r].meso = shop[r].meso OBVIOUS
    <3> QED BY <1>2, <1>3, <1>4, <3>1, TillStays
  <2>9. Tills' = Tills  BY <1>2, <2>8, TillsStay
  <2>10. Unclaimed("meso")' = Unclaimed("meso")  BY UnclaimedStays
  <2>11. AllMesos' = Sum(purse', Players) + Tills' + Unclaimed("meso")'
    BY DEF AllMesos, Tills, Sum, FoldSet, MapThenFoldSet
  <2>12. AllMesos' = AllMesos  BY <2>9, <2>10, <2>11, MesosAre
  <2>13. Coined'  BY <2>1, <2>12 DEF Coined
  <2> QED BY <2>7, <2>13
<1> QED BY <1>10, <1>13

\* The account after a step that moves d units of l, at s, into the bags.
LEMMA AccountMoves ==
    ASSUME Types, Wares, AccountsAssumption, NEW t \in Threads, Only(t), Task(t)',
           NEW home, NEW low, Account(home, low), NEW s \in Hired, NEW l \in DOMAIN left, home[l] = s,
           NEW k \in Int, NEW d \in Int, DOMAIN shop' = Hired,
           DOMAIN left' = DOMAIN left, \A x \in DOMAIN left \ {l} : left'[x] = left[x],
           package' = package, Sum(bag', Players) = Sum(bag, Players) + d,
           \A r \in Hired : ToSet(shop'[r].items) \subseteq ToSet(shop[r].items),
           \A r \in Hired : Live(r)' <=> Live(r),
           \A r \in Hired : Live(r) => ToSet(shop[r].items) \ {l} \subseteq ToSet(shop'[r].items),
           pc[t].op \in {"handed", "takeback"} => pc[t].l = l,
           pc'[t].op \in {"handed", "takeback"} => pc'[t].l = l /\ pc'[t].s = s,
           overlapped => overlapped',
           Covered(l, s, k)', k + d >= low[l], ~overlapped' => k + d = low[l]
    PROVE  \E next : Account(home, next)'
<1>1. low \in [DOMAIN left -> Int] /\ home \in [DOMAIN left -> Hired] /\ Enough(low)
  BY DEF Account
<1>2. PICK next : next = [low EXCEPT ![l] = k] OBVIOUS
<1>3. next \in [DOMAIN left -> Int] /\ next[l] = k /\ \A x \in DOMAIN left \ {l} : next[x] = low[x]
  BY <1>1, <1>2
<1>4. ASSUME NEW x \in DOMAIN left PROVE Covered(x, home[x], next[x])'
  <2>1. PICK r \in Hired : r = home[x]
    BY <1>1
  <2>2. PICK y : y = next[x] OBVIOUS
  <2>3. CASE x = l
    BY <1>3, <2>1, <2>2, <2>3
  <2>4. CASE x # l
    <3>1. Covered(x, r, y)  BY <1>3, <2>1, <2>2, <2>4 DEF Account
    <3>2. ~Works(t, x) /\ ~Works(t, x)'  BY <2>4 DEF Works
    <3>3. Live(r) => (OnList(x, r)' <=> OnList(x, r))  BY <2>4 DEF OnList
    <3>4. left'[x] = left[x]  BY <2>4
    <3>5. Live(r) => Value(x, r)' = Value(x, r)  BY <3>2, <3>3, <3>4, ValueStays
    <3>6. Covered(x, r, y)'  BY <3>1, <3>2, <3>5, CoveredStays
    <3> QED BY <2>1, <2>2, <3>6
  <2> QED BY <2>3, <2>4
<1>5. Enough(next)'
  <2>1. /\ Sum(low, DOMAIN left) \in Int /\ Sum(bag, Players) \in Int /\ Unclaimed("goods") \in Int
    BY <1>1, AllOfType
  <2>2. Sum(next, DOMAIN left) = Sum(low, DOMAIN left) - low[l] + next[l]
    <3>1. IsFiniteSet(DOMAIN left) /\ (\A x \in DOMAIN left : low[x] \in Int) /\ next[l] \in Int
      BY <1>1, <1>3, GoodsFinite
    <3> QED BY <1>3, <3>1, SumPoint
  <2>3. PICK a, b, c, e \in Int : /\ a = Sum(low, DOMAIN left) /\ b = Sum(bag, Players)
                                  /\ c = Unclaimed("goods") /\ e = low[l]
    BY <1>1, <2>1
  <2>4. AllOf(low) = b + a + c  BY <2>3 DEF AllOf
  <2>5. AllOf(next)' = (b + d) + (a - e + k) + c
    <3>1. Sum(next, DOMAIN left') = a - e + k /\ Sum(bag', Players) = b + d
      BY <1>3, <2>2, <2>3
    <3>2. AllOf(next)' = Sum(bag', Players) + Sum(next, DOMAIN left') + Unclaimed("goods")'
      BY DEF AllOf, Sum, FoldSet, MapThenFoldSet
    <3>3. Unclaimed("goods")' = c  BY <2>3, UnclaimedStays
    <3> QED BY <3>1, <3>2, <3>3
  <2>6. k + d >= e /\ (~overlapped' => k + d = e)  BY <2>3
  <2>7. AllOf(next)' \in Int /\ AllOf(next)' >= AllOf(low) /\ (~overlapped' => AllOf(next)' = AllOf(low))
    BY <2>4, <2>5, <2>6
  <2> QED BY <1>1, <2>7, EnoughStays
<1>6. pc'[t].op \in {"handed", "takeback"} => home[pc'[t].l] = pc'[t].s OBVIOUS
<1>7. Account(home, next)'  BY <1>3, <1>4, <1>5, <1>6, AccountIs
<1> QED BY <1>7

\* What Covered says of a good in the next state, from what t then owes.
LEMMA CoverNext ==
    ASSUME Types, Wares, AccountsAssumption, NEW t \in Threads, Only(t), Task(t)',
           NEW l \in DOMAIN left, NEW s, NEW k \in Int, NEW b \in Int, Live(s)',
           b = Debt(l)', k + b <= Value(l, s)',
           \A u \in Threads \ {t} : pc[u].op = "handed" /\ pc[u].l = l =>
              k + b - pc[u].n <= Positive(pc[u].v - pc[u].n),
           pc'[t].op = "handed" /\ pc'[t].l = l => k + b - pc'[t].n <= Positive(pc'[t].v - pc'[t].n),
           ~overlapped' => k + b = Value(l, s)'
    PROVE  Covered(l, s, k)'
<1>1. ASSUME NEW u \in Threads, pc'[u].op = "handed", pc'[u].l = l
      PROVE  k + b - pc'[u].n <= Positive(pc'[u].v - pc'[u].n)
  <2>1. CASE u = t
    BY <1>1, <2>1
  <2>2. CASE u # t
    <3>1. pc'[u] = pc[u]  BY <2>2 DEF Only
    <3> QED BY <1>1, <2>2, <3>1
  <2> QED BY <2>1, <2>2
<1>2. PICK w : w = Value(l, s)' OBVIOUS
<1>3. k + b <= w /\ (~overlapped' => k + b = w)  BY <1>2
<1> QED BY <1>1, <1>2, <1>3 DEF Covered, Positive, Live, Stored, Doing

\* What is owed, and what may be written, while l is accounted for.
LEMMA CoverIs ==
    ASSUME Types, Wares, AccountsAssumption, NEW home, NEW low, Account(home, low),
           NEW l \in DOMAIN left, NEW s \in Hired, home[l] = s, Live(s),
           NEW k, k = low[l], NEW a, a = Debt(l), NEW w, w = Value(l, s)
    PROVE  /\ k \in Int /\ a \in Int /\ w \in Int /\ w >= 0 /\ w <= Positive(left[l])
           /\ k + a <= w /\ (~overlapped => k + a = w)
           /\ \A u \in Threads : pc[u].op = "handed" /\ pc[u].l = l =>
                k + a - pc[u].n <= Positive(pc[u].v - pc[u].n)
<1>1. Covered(l, s, k) /\ k \in Int  BY DEF Account
<1>2. a \in Int  BY DebtIs
<1>3. w \in Int /\ w >= 0 /\ w <= Positive(left[l])  BY ValueType
<1> QED BY <1>1, <1>2, <1>3 DEF Covered

\* A merchant that is not traded at has nothing to be had.
LEMMA DeadCover ==
    ASSUME NEW l, NEW s, ~Live(s)' PROVE Covered(l, s, 0)'
BY DEF Covered

\* Of a good that t hands out.
LEMMA HandedCover ==
    ASSUME Types, Wares, AccountsAssumption, NEW t \in Threads, Only(t), Task(t)',
           NEW home, NEW low, Account(home, low), NEW s \in Hired, NEW l \in DOMAIN left, home[l] = s,
           NEW n \in Nat, left' = left, left[l] > 0, overlapped => overlapped',
           OnList(l, s)' <=> OnList(l, s), Live(s)' <=> Live(s), ~overlapped' => Live(s),
           pc[t].op = "checked", pc'[t].op = "handed", pc'[t].l = l, pc'[t].n = n, pc'[t].v = left[l]
    PROVE  \E k \in Int : Covered(l, s, k)' /\ k + n >= low[l] /\ (~overlapped' => k + n = low[l])
<1>1. PICK k0 \in Int : k0 = low[l]
  BY DEF Account
<1>2. CASE ~Live(s)
  <2>1. Covered(l, s, k0)  BY <1>1 DEF Account
  <2>2. k0 = 0  BY <1>2, <2>1 DEF Covered
  <2>3. Covered(l, s, 0)'  BY <1>2, DeadCover
  <2>4. 0 + n >= low[l] /\ overlapped'  BY <1>1, <1>2, <2>2
  <2>5. 0 \in Int OBVIOUS
  <2> QED BY <2>3, <2>4, <2>5
<1>3. CASE Live(s)
  <2>1. PICK a, w : a = Debt(l) /\ w = Value(l, s) OBVIOUS
  <2>2. /\ a \in Int /\ w \in Int /\ w >= 0 /\ w <= Positive(left[l])
        /\ k0 + a <= w /\ (~overlapped => k0 + a = w)
        /\ \A u \in Threads : pc[u].op = "handed" /\ pc[u].l = l =>
                k0 + a - pc[u].n <= Positive(pc[u].v - pc[u].n)
    BY <1>1, <1>3, <2>1, CoverIs
  <2>3. Owed(t, l) = 0 /\ Owed(t, l)' = n  BY DEF Owed
  <2>4. Debt(l)' = a + n
    <3>1. Debt(l)' = Debt(l) - Owed(t, l) + Owed(t, l)'  BY DebtMoves
    <3> QED BY <2>1, <2>2, <2>3, <3>1
  <2>5. Value(l, s)' = w
    <3>1. \A u \in Threads : (pc'[u].op = "takeback" /\ pc'[u].l = l) <=> (pc[u].op = "takeback" /\ pc[u].l = l)
      BY DEF Only
    <3>2. BeingTaken(l)' <=> BeingTaken(l)  BY <3>1 DEF BeingTaken
    <3> QED BY <2>1, <3>2 DEF Value, Positive
  <2>6. PICK k, b, c \in Int : k = k0 - n /\ b = a + n /\ c = left[l]
    <3>1. left[l] \in Int  BY ValueType
    <3> QED BY <2>2, <3>1
  <2>7. k + b = k0 + a  BY <2>2, <2>6
  <2>8. k + b <= w /\ (~overlapped' => k + b = w)  BY <2>2, <2>7
  <2>9. \A u \in Threads \ {t} : pc[u].op = "handed" /\ pc[u].l = l =>
              k + b - pc[u].n <= Positive(pc[u].v - pc[u].n)
    <3> SUFFICES ASSUME NEW u \in Threads, pc[u].op = "handed" /\ pc[u].l = l
                 PROVE  k + b - pc[u].n <= Positive(pc[u].v - pc[u].n)
      OBVIOUS
    <3>1. k0 + a - pc[u].n <= Positive(pc[u].v - pc[u].n)  BY <2>2
    <3>2. PICK m, z \in Int : m = pc[u].n /\ z = Positive(pc[u].v - pc[u].n)
      <4>1. pc[u].n \in Int /\ pc[u].v \in Int  BY DEF Wares, Task
      <4> QED BY <4>1 DEF Positive
    <3>3. k0 + a - m <= z  BY <3>1, <3>2
    <3>4. k + b - m <= z  BY <2>2, <2>6, <2>7, <3>2, <3>3
    <3> QED BY <3>2, <3>4
  <2>10. k + b - n <= Positive(c - n)
    <3>1. w <= c  BY <2>2, <2>6 DEF Positive
    <3> QED BY <2>2, <2>6, <2>8, <3>1 DEF Positive
  <2>11. Covered(l, s, k)'
    <3>1. pc'[t].op = "handed" /\ pc'[t].l = l => k + b - pc'[t].n <= Positive(pc'[t].v - pc'[t].n)
      BY <2>6, <2>10
    <3>2. k + b <= Value(l, s)' /\ (~overlapped' => k + b = Value(l, s)')  BY <2>5, <2>8
    <3>3. b = Debt(l)'  BY <2>4, <2>6
    <3> QED BY <1>3, <2>9, <3>1, <3>2, <3>3, CoverNext
  <2>12. k + n = low[l] /\ k + n >= low[l]  BY <1>1, <2>6
  <2> QED BY <2>11, <2>12
<1> QED BY <1>2, <1>3

\* A buyer is handed what he asked for, or sent away.
LEMMA HandedKeeps ==
    ASSUME IInv, KInv, AccountsAssumption, NEW b \in Buyers, Handed(b)
    PROVE  KInv'
<1>1. Orderly /\ Types /\ Wares  BY DEF IInv, Orderly, KInv
<1>2. b \in Threads /\ b \in Players  BY DEF Threads, Players
<1>3. Work(b) /\ Only(b) /\ (overlapped => overlapped')
  BY <1>1, BuyerWorks DEF Work, History
<1>4. PICK s \in Hired : s = pc[b].s
  BY <1>1, <1>2 DEF Handed, Types, PcAt, Busy
<1>5. /\ shop' = shop /\ left' = left /\ purse' = purse /\ package' = package /\ lapses' = lapses
      /\ overlapped' = overlapped /\ pc[b].op = "checked"
  BY DEF Handed, Rest
<1>6. CASE Done(b) /\ bag' = bag
  <2>1. pc'[b] = Idle  BY <1>1, <1>2, <1>6, Going DEF Done
  <2>2. pc'[b].op = "idle" /\ Task(b)'  BY <2>1 DEF Idle, Task
  <2> QED BY <1>2, <1>3, <1>5, <1>6, <2>2, ResultCalmKeeps
<1>7. CASE ~(Done(b) /\ bag' = bag)
  <2>1. PICK j : j = pc[b].l OBVIOUS
  <2>2. PICK n \in Nat : n = pc[b].n
    BY <1>1, <1>2, <1>5 DEF Wares, Task
  <2>3. PICK l : l = shop[s].items[j] OBVIOUS
  <2>4. /\ j \in DOMAIN shop[s].items /\ left[l] > 0
        /\ bag' = [bag EXCEPT ![b] = bag[b] + n]
        /\ Go(b, In("handed", s, l, n, left[l]))
    BY <1>4, <1>7, <2>1, <2>2, <2>3 DEF Handed
  <2>5. pc'[b] = In("handed", s, l, n, left[l])  BY <1>1, <1>2, <2>4, Going
  <2>6. /\ pc'[b].op = "handed" /\ pc'[b].s = s /\ pc'[b].l = l /\ pc'[b].n = n
        /\ pc'[b].v = left[l]
    BY <2>5 DEF In
  <2>7. shop[s].items \in Seq(DOMAIN left) /\ left \in Seq(Int) /\ bag \in [Players -> Int]
    BY <1>1 DEF Wares, Stall
  <2>8. l \in ToSet(shop[s].items) /\ l \in DOMAIN left /\ left[l] \in Int
    <3>1. l \in ToSet(shop[s].items)  BY <2>3, <2>4 DEF ToSet
    <3>2. l \in DOMAIN left  BY <2>7, <3>1, ListedIn
    <3> QED BY <1>1, <3>1, <3>2, ValueType
  <2>9. bag' \in [Players -> Int] /\ Sum(bag', Players) = Sum(bag, Players) + n
    <3>1. PICK d \in Int : d = n OBVIOUS
    <3>2. bag' = [bag EXCEPT ![b] = bag[b] + d]  BY <2>4, <3>1
    <3>3. bag' \in [Players -> Int] /\ Sum(bag', Players) = Sum(bag, Players) + d
      BY <1>1, <1>2, <2>7, <3>2, HoldsMore
    <3> QED BY <3>1, <3>3
  <2>10. Task(b)'
    <3>1. l \in Int  BY <1>1, <2>8, GoodsFinite
    <3> QED BY <1>5, <2>6, <2>8, <3>1 DEF Task
  <2>11. \A r : ~Stores(b, r) /\ ~Stores(b, r)'  BY <1>5, <2>6 DEF Stores
  <2>12. \A r \in Hired : Live(r)' <=> Live(r)  BY <1>2, <1>3, <1>5, <2>11, LiveMoves
  <2>13. ASSUME lapses = {}, ~overlapped' PROVE NeatAt(b) /\ Live(s) /\ Neat
    <3>1. Neat /\ NeatAt(b)  BY <1>2, <1>3, <2>13 DEF KInv, Neat
    <3> QED BY <1>4, <1>5, <3>1 DEF NeatAt, Busy
  <2>14. ASSUME lapses = {}
         PROVE  /\ DealingAt(b)' /\ \E home, low : Account(home, low)'
                /\ ~overlapped' => NeatAt(b)' /\ (\A x \in DOMAIN left' : left'[x] >= 0)
    <3>1. DealingAt(b) /\ shop[s].avail
      BY <1>2, <1>4, <1>5, <2>14 DEF KInv, Settled, DealingAt
    <3>2. DealingAt(b)'
      <4>1. PICK q : q = pc'[b] OBVIOUS
      <4> QED BY <1>5, <2>6, <3>1, <4>1 DEF DealingAt
    <3>3. PICK home, low : Account(home, low)
      BY <2>14 DEF KInv
    <3>4. home[l] = s  BY <2>8, <3>3 DEF Account, AtHome
    <3>5. \E k \in Int : Covered(l, s, k)' /\ k + n >= low[l] /\ (~overlapped' => k + n = low[l])
      <4>1. OnList(l, s)' <=> OnList(l, s)  BY <1>5 DEF OnList
      <4> QED
        BY <1>1, <1>2, <1>3, <1>5, <2>4, <2>6, <2>8, <2>10, <2>12, <2>13, <2>14, <3>3, <3>4, <4>1,
           HandedCover
    <3>6. PICK k \in Int : Covered(l, s, k)' /\ k + n >= low[l] /\ (~overlapped' => k + n = low[l])
      BY <3>5
    <3>7. \E next : Account(home, next)'
      <4>1. /\ DOMAIN shop' = Hired /\ DOMAIN left' = DOMAIN left
            /\ \A x \in DOMAIN left \ {l} : left'[x] = left[x]
        BY <1>5 DEF Hired
      <4>2. /\ \A r \in Hired : ToSet(shop'[r].items) \subseteq ToSet(shop[r].items)
            /\ \A r \in Hired : Live(r) => ToSet(shop[r].items) \ {l} \subseteq ToSet(shop'[r].items)
        BY <1>5
      <4>3. n \in Int OBVIOUS
      <4> QED
        BY <1>1, <1>2, <1>3, <1>5, <2>6, <2>8, <2>9, <2>10, <2>12, <3>3, <3>4, <3>6, <4>1, <4>2, <4>3,
           AccountMoves
    <3>8. ASSUME ~overlapped' PROVE NeatAt(b)' /\ \A x \in DOMAIN left' : left'[x] >= 0
      <4>1. NeatAt(b) /\ Live(s) /\ Neat  BY <2>13, <2>14, <3>8
      <4>2. Live(s)' /\ n <= left[l]
        BY <1>4, <1>5, <2>1, <2>2, <2>3, <2>12, <4>1 DEF NeatAt
      <4>3. OnList(l, s)'  BY <1>5, <2>8 DEF OnList
      <4>4. NeatAt(b)'
        <5>1. PICK q : q = pc'[b] OBVIOUS
        <5> QED BY <1>5, <2>6, <4>2, <4>3, <5>1 DEF NeatAt, Live, Stored, Doing, OnList
      <4> QED BY <1>5, <4>1, <4>4 DEF Neat
    <3> QED BY <3>2, <3>7, <3>8
  <2> QED BY <1>2, <1>3, <1>4, <1>5, <2>6, <2>7, <2>9, <2>10, <2>14, GoodsWorkKeeps
<1> QED BY <1>6, <1>7

\* Of a good that t counts down.
LEMMA CountCover ==
    ASSUME Types, Wares, AccountsAssumption, NEW t \in Threads, Only(t), Task(t)',
           NEW home, NEW low, Account(home, low), NEW s \in Hired, NEW l \in DOMAIN left, home[l] = s,
           NEW n \in Nat, NEW v \in Int, pc[t].op = "handed", pc[t].l = l, pc[t].n = n, pc[t].v = v,
           pc'[t].op = "counted", left'[l] = v - n,
           OnList(l, s)' <=> OnList(l, s), Live(s)' <=> Live(s), overlapped => overlapped',
           ~overlapped' => NeatAt(t) /\ pc[t].s = s /\ \A u \in Threads \ {t} : pc[u].s # s
    PROVE  \E k \in Int : Covered(l, s, k)' /\ k = low[l]
<1>1. PICK k \in Int : k = low[l]
  BY DEF Account
<1>2. CASE ~Live(s)
  <2>1. Covered(l, s, k)  BY <1>1 DEF Account
  <2>2. k = 0  BY <1>2, <2>1 DEF Covered
  <2>3. Covered(l, s, 0)'  BY <1>2, DeadCover
  <2> QED BY <1>1, <2>2, <2>3
<1>3. CASE Live(s)
  <2>1. PICK a, w : a = Debt(l) /\ w = Value(l, s) OBVIOUS
  <2>2. /\ a \in Int /\ w \in Int /\ w >= 0 /\ w <= Positive(left[l])
        /\ k + a <= w /\ (~overlapped => k + a = w)
        /\ \A u \in Threads : pc[u].op = "handed" /\ pc[u].l = l =>
                k + a - pc[u].n <= Positive(pc[u].v - pc[u].n)
    BY <1>1, <1>3, <2>1, CoverIs
  <2>3. Owed(t, l) = n /\ Owed(t, l)' = 0  BY DEF Owed
  <2>4. Debt(l)' = a - n
    <3>1. Debt(l)' = Debt(l) - Owed(t, l) + Owed(t, l)'  BY DebtMoves
    <3> QED BY <2>1, <2>2, <2>3, <3>1
  <2>5. BeingTaken(l)' <=> BeingTaken(l)
    <3>1. \A u \in Threads : (pc'[u].op = "takeback" /\ pc'[u].l = l) <=> (pc[u].op = "takeback" /\ pc[u].l = l)
      BY DEF Only
    <3> QED BY <3>1 DEF BeingTaken
  <2>6. PICK b \in Int : b = a - n
    BY <2>2
  <2>7. PICK x \in Int : x = Positive(v - n) /\ x >= 0
    BY DEF Positive
  <2>8. Value(l, s)' = IF OnList(l, s) /\ ~BeingTaken(l) THEN x ELSE 0
    BY <2>5, <2>7 DEF Value, Positive
  <2>9. k + a - n <= x  BY <2>2, <2>7
  <2>10. k + b <= Value(l, s)'
    <3>1. CASE OnList(l, s) /\ ~BeingTaken(l)
      BY <2>2, <2>6, <2>8, <2>9, <3>1
    <3>2. CASE ~(OnList(l, s) /\ ~BeingTaken(l))
      <4>1. w = 0  BY <2>1, <3>2 DEF Value
      <4>2. k + b <= 0  BY <2>2, <2>6, <4>1
      <4> QED BY <2>8, <3>2, <4>2
    <3> QED BY <3>1, <3>2
  <2>11. ASSUME ~overlapped' PROVE k + b = Value(l, s)'
    <3>1. OnList(l, s) /\ v = left[l] /\ n <= v  BY <2>11 DEF NeatAt
    <3>2. ~BeingTaken(l)
      <4> SUFFICES ASSUME NEW u \in Threads, pc[u].op = "takeback" /\ pc[u].l = l PROVE FALSE
        BY DEF BeingTaken
      <4>1. u # t OBVIOUS
      <4>2. home[l] = pc[u].s  BY DEF Account, AtHome
      <4> QED BY <2>11, <4>1, <4>2
    <3>3. w = v  BY <2>1, <2>2, <3>1, <3>2 DEF Value, Positive
    <3>4. x = v - n  BY <2>7, <3>1 DEF Positive
    <3>5. k + a = w  BY <2>2, <2>11
    <3> QED BY <2>2, <2>6, <2>8, <3>1, <3>2, <3>3, <3>4, <3>5
  <2>12. ASSUME NEW u \in Threads \ {t}, pc[u].op = "handed" /\ pc[u].l = l
         PROVE  k + b - pc[u].n <= Positive(pc[u].v - pc[u].n)
    <3>1. k + a - pc[u].n <= Positive(pc[u].v - pc[u].n)  BY <2>2, <2>12
    <3>2. PICK m, z \in Int : m = pc[u].n /\ z = Positive(pc[u].v - pc[u].n)
      <4>1. pc[u].n \in Int /\ pc[u].v \in Int  BY DEF Wares, Task
      <4> QED BY <4>1 DEF Positive
    <3>3. k + b - m <= z  BY <2>2, <2>6, <3>1, <3>2
    <3> QED BY <3>2, <3>3
  <2>13. Covered(l, s, k)'
    <3>1. b = Debt(l)'  BY <2>4, <2>6
    <3>2. pc'[t].op = "handed" /\ pc'[t].l = l => k + b - pc'[t].n <= Positive(pc'[t].v - pc'[t].n)
      OBVIOUS
    <3> QED BY <1>3, <2>10, <2>11, <2>12, <3>1, <3>2, CoverNext
  <2> QED BY <1>1, <2>13
<1> QED BY <1>2, <1>3

\* A buyer's goods are counted down.
LEMMA CountDownKeeps ==
    ASSUME IInv, KInv, AccountsAssumption, NEW b \in Buyers, CountDown(b)
    PROVE  KInv'
<1>1. Orderly /\ Types /\ Wares  BY DEF IInv, Orderly, KInv
<1>2. b \in Threads /\ b \in Players  BY DEF Threads, Players
<1>3. Work(b) /\ Only(b) /\ (overlapped => overlapped')
  BY <1>1, BuyerWorks DEF Work, History
<1>4. PICK s \in Hired : s = pc[b].s
  BY <1>1, <1>2 DEF CountDown, Types, PcAt, Busy
<1>5. /\ shop' = shop /\ bag' = bag /\ purse' = purse /\ package' = package /\ lapses' = lapses
      /\ overlapped' = overlapped /\ pc[b].op = "handed"
  BY DEF CountDown, Rest
<1>6. Task(b)  BY <1>1, <1>2 DEF Wares
<1>7. PICK l \in DOMAIN left : l = pc[b].l
  BY <1>5, <1>6 DEF Task
<1>8. PICK n \in Nat : n = pc[b].n
  BY <1>5, <1>6 DEF Task
<1>9. PICK v \in Int : v = pc[b].v
  BY <1>6 DEF Task
<1>10. PICK m \in Int : m = v - n OBVIOUS
<1>11. left' = [left EXCEPT ![l] = m]  BY <1>7, <1>8, <1>9, <1>10 DEF CountDown
<1>12. PICK w \in Int : w = shop[s].meso
  BY <1>1 DEF Wares, Stall
<1>13. pc'[b] = In("counted", s, l, n, w)
  <2>1. Go(b, In("counted", s, l, n, w))  BY <1>4, <1>7, <1>8, <1>12 DEF CountDown
  <2> QED BY <1>1, <1>2, <2>1, Going
<1>14. /\ pc'[b].op = "counted" /\ pc'[b].s = s /\ pc'[b].l = l /\ pc'[b].n = n
       /\ pc'[b].v = w
  BY <1>13 DEF In
<1>15. shop[s].items \in Seq(DOMAIN left) /\ left \in Seq(Int) /\ bag \in [Players -> Int]
  BY <1>1 DEF Wares, Stall
<1>16. /\ left' \in Seq(Int) /\ DOMAIN left' = DOMAIN left /\ left'[l] = m
       /\ \A x \in DOMAIN left \ {l} : left'[x] = left[x]
  <2>1. l \in 1 .. Len(left)  BY <1>15
  <2> QED BY <1>11, <1>15, <2>1, ExceptSeq
<1>17. Task(b)'
  <2>1. l \in Int  BY <1>1, GoodsFinite
  <2> QED BY <1>14, <2>1 DEF Task
<1>18. \A r : ~Stores(b, r) /\ ~Stores(b, r)'  BY <1>5, <1>14 DEF Stores
<1>19. \A r \in Hired : Live(r)' <=> Live(r)  BY <1>2, <1>3, <1>5, <1>18, LiveMoves
<1>20. ASSUME lapses = {}, ~overlapped'
       PROVE  NeatAt(b) /\ Neat /\ (\A u \in Threads \ {b} : pc[u].s # s) /\ Live(s)
  <2>1. Neat /\ NeatAt(b)  BY <1>2, <1>3, <1>20 DEF KInv, Neat
  <2>2. \A u \in Threads \ {b} : pc[u].s # s  BY <1>2, <1>4, <1>5, <1>20, NobodyElse
  <2>3. Live(s)  BY <1>4, <1>5, <2>1 DEF NeatAt, Busy
  <2> QED BY <2>1, <2>2, <2>3
<1>21. OnList(l, s)' <=> OnList(l, s)  BY <1>5 DEF OnList
<1>23. ASSUME lapses = {}
       PROVE  /\ DealingAt(b)' /\ \E home, low : Account(home, low)'
              /\ ~overlapped' =>
                   /\ NeatAt(b)' /\ (\A x \in DOMAIN left' : left'[x] >= 0)
                   /\ \A r \in Hired \ {s} : \A x \in ToSet(shop[r].items) : left'[x] = left[x]
  <2>1. DealingAt(b) /\ shop[s].avail
    BY <1>2, <1>4, <1>5, <1>23 DEF KInv, Settled, DealingAt
  <2>2. DealingAt(b)'
    <3>1. PICK q : q = pc'[b] OBVIOUS
    <3> QED BY <1>5, <1>14, <2>1, <3>1 DEF DealingAt
  <2>3. PICK home, low : Account(home, low)
    BY <1>23 DEF KInv
  <2>4. home[l] = s  BY <1>2, <1>4, <1>5, <1>7, <2>3 DEF Account, AtHome
  <2>5. PICK k \in Int : Covered(l, s, k)' /\ k = low[l]
    <3>1. left'[l] = v - n  BY <1>10, <1>16
    <3> QED
      BY <1>1, <1>2, <1>3, <1>4, <1>5, <1>7, <1>8, <1>9, <1>14, <1>17, <1>19, <1>20, <1>21, <1>23,
         <2>3, <2>4, <3>1, CountCover
  <2>6. \E home1, low1 : Account(home1, low1)'
    <3>1. PICK d \in Int : d = 0 OBVIOUS
    <3>2. DOMAIN shop' = Hired /\ Sum(bag', Players) = Sum(bag, Players) + d
      <4>1. low \in [DOMAIN left -> Int]  BY <2>3 DEF Account
      <4>2. Sum(bag, Players) \in Int  BY <1>1, <4>1, AllOfType
      <4> QED BY <1>5, <3>1, <4>2 DEF Hired
    <3>3. /\ \A r \in Hired : ToSet(shop'[r].items) \subseteq ToSet(shop[r].items)
          /\ \A r \in Hired : Live(r) => ToSet(shop[r].items) \ {l} \subseteq ToSet(shop'[r].items)
      BY <1>5
    <3>4. /\ pc[b].op \in {"handed", "takeback"} => pc[b].l = l
          /\ pc'[b].op \in {"handed", "takeback"} => pc'[b].l = l /\ pc'[b].s = s
      BY <1>7, <1>14
    <3>5. k + d >= low[l] /\ (~overlapped' => k + d = low[l])  BY <2>5, <3>1
    <3> QED
      BY <1>1, <1>2, <1>3, <1>5, <1>16, <1>17, <1>19, <2>3, <2>4, <2>5, <3>2, <3>3, <3>4, <3>5,
         AccountMoves
  <2>7. ASSUME ~overlapped'
        PROVE  /\ NeatAt(b)' /\ (\A x \in DOMAIN left' : left'[x] >= 0)
               /\ \A r \in Hired \ {s} : \A x \in ToSet(shop[r].items) : left'[x] = left[x]
    <3>1. NeatAt(b) /\ Neat /\ Live(s)  BY <1>20, <1>23, <2>7
    <3>2. n <= v  BY <1>5, <1>8, <1>9, <3>1 DEF NeatAt
    <3>3. \A x \in DOMAIN left' : left'[x] >= 0
      <4> SUFFICES ASSUME NEW x \in DOMAIN left PROVE left'[x] >= 0
        BY <1>16
      <4>1. left[x] >= 0  BY <3>1 DEF Neat
      <4> QED BY <1>10, <1>16, <3>2, <4>1
    <3>4. Live(s)'  BY <1>19, <3>1
    <3>5. NeatAt(b)'
      <4>1. PICK q : q = pc'[b] OBVIOUS
      <4> QED BY <1>5, <1>12, <1>14, <3>4, <4>1 DEF NeatAt, Live, Stored, Doing, OnList
    <3>6. ASSUME NEW r \in Hired \ {s}, NEW x \in ToSet(shop[r].items) PROVE left'[x] = left[x]
      <4>1. home[x] = r  BY <2>3 DEF Account, AtHome
      <4>2. x # l  BY <2>4, <4>1
      <4>3. shop[r].items \in Seq(DOMAIN left)  BY <1>1 DEF Wares, Stall
      <4>4. x \in DOMAIN left  BY <4>3, ListedIn
      <4> QED BY <1>16, <4>2, <4>4
    <3> QED BY <3>3, <3>5, <3>6
  <2> QED BY <2>2, <2>6, <2>7
<1> QED
  <2>1. \A r \in Hired \ {s} : shop'[r].items = shop[r].items /\ shop'[r].meso = shop[r].meso
    BY <1>5
  <2>2. /\ shop'[s].meso = shop[s].meso /\ shop'[s].items = shop[s].items
        /\ shop'[s].items \in Seq(DOMAIN left') /\ DOMAIN left \subseteq DOMAIN left'
    BY <1>5, <1>15, <1>16
  <2>3. pc[b].s = s /\ lapses \subseteq lapses' /\ bag' \in [Players -> Int]
    BY <1>4, <1>5, <1>15
  <2> QED BY <1>2, <1>3, <1>5, <1>14, <1>16, <1>17, <1>23, <2>1, <2>2, <2>3, GoodsWorkKeeps

\* What of l can be had while t takes it back: nothing, the owner has it.
LEMMA TakeCover ==
    ASSUME Types, Wares, AccountsAssumption, NEW t \in Threads, Only(t), Task(t)',
           NEW home, NEW low, Account(home, low), NEW s \in Hired, NEW l \in DOMAIN left, home[l] = s,
           NEW c \in Int, left[l] = c, c > 0, left' = left,
           pc[t].op \notin {"handed", "takeback"}, pc'[t].op = "takeback", pc'[t].l = l,
           OnList(l, s), Live(s)' <=> Live(s), overlapped => overlapped',
           ~overlapped' => Live(s) /\ \A u \in Threads \ {t} : pc[u].s # s
    PROVE  \E k \in Int : Covered(l, s, k)' /\ k + c >= low[l] /\ (~overlapped' => k + c = low[l])
<1>1. PICK k0 \in Int : k0 = low[l]
  BY DEF Account
<1>2. CASE ~Live(s)
  <2>1. Covered(l, s, k0)  BY <1>1 DEF Account
  <2>2. k0 = 0  BY <1>2, <2>1 DEF Covered
  <2>3. Covered(l, s, 0)'  BY <1>2, DeadCover
  <2>4. 0 \in Int /\ 0 + c >= low[l] /\ overlapped'  BY <1>1, <1>2, <2>2
  <2> QED BY <2>3, <2>4
<1>3. CASE Live(s)
  <2>1. PICK a, w : a = Debt(l) /\ w = Value(l, s) OBVIOUS
  <2>2. /\ a \in Int /\ w \in Int /\ w >= 0 /\ w <= Positive(left[l])
        /\ k0 + a <= w /\ (~overlapped => k0 + a = w)
        /\ \A u \in Threads : pc[u].op = "handed" /\ pc[u].l = l =>
                k0 + a - pc[u].n <= Positive(pc[u].v - pc[u].n)
    BY <1>1, <1>3, <2>1, CoverIs
  <2>3. Owed(t, l) = 0 /\ Owed(t, l)' = 0  BY DEF Owed
  <2>4. Debt(l)' = a
    <3>1. Debt(l)' = Debt(l) - Owed(t, l) + Owed(t, l)'  BY DebtMoves
    <3> QED BY <2>1, <2>2, <2>3, <3>1
  <2>5. BeingTaken(l)'  BY DEF BeingTaken
  <2>6. Value(l, s)' = 0  BY <2>5 DEF Value
  <2>7. PICK k \in Int : k = k0 - c OBVIOUS
  <2>8. w <= c  BY <2>2 DEF Positive
  <2>9. k + a <= 0  BY <2>2, <2>7, <2>8
  <2>10. ASSUME ~overlapped' PROVE k + a = 0
    <3>1. ~BeingTaken(l)
      <4> SUFFICES ASSUME NEW u \in Threads, pc[u].op = "takeback" /\ pc[u].l = l PROVE FALSE
        BY DEF BeingTaken
      <4>1. u # t OBVIOUS
      <4>2. home[l] = pc[u].s  BY DEF Account, AtHome
      <4> QED BY <2>10, <4>1, <4>2
    <3>2. w = c  BY <2>1, <3>1 DEF Value, Positive
    <3>3. k0 + a = w  BY <2>2, <2>10
    <3> QED BY <2>2, <2>7, <3>2, <3>3
  <2>11. ASSUME NEW u \in Threads \ {t}, pc[u].op = "handed" /\ pc[u].l = l
         PROVE  k + a - pc[u].n <= Positive(pc[u].v - pc[u].n)
    <3>1. k0 + a - pc[u].n <= Positive(pc[u].v - pc[u].n)  BY <2>2, <2>11
    <3>2. PICK m, z \in Int : m = pc[u].n /\ z = Positive(pc[u].v - pc[u].n)
      <4>1. pc[u].n \in Int /\ pc[u].v \in Int  BY DEF Wares, Task
      <4> QED BY <4>1 DEF Positive
    <3>3. k + a - m <= z  BY <2>2, <2>7, <3>1, <3>2
    <3> QED BY <3>2, <3>3
  <2>12. Covered(l, s, k)'
    <3>1. a = Debt(l)' /\ a \in Int  BY <2>2, <2>4
    <3>2. pc'[t].op = "handed" /\ pc'[t].l = l => k + a - pc'[t].n <= Positive(pc'[t].v - pc'[t].n)
      OBVIOUS
    <3> QED BY <1>3, <2>6, <2>9, <2>10, <2>11, <3>1, <3>2, CoverNext
  <2>13. k + c >= low[l] /\ k + c = low[l]  BY <1>1, <2>7
  <2> QED BY <2>12, <2>13
<1> QED BY <1>2, <1>3

\* An owner takes a good into his bag.
LEMMA TakeBackKeeps ==
    ASSUME IInv, KInv, AccountsAssumption, NEW o \in Owners, NEW i \in 1 .. MaxListings, TakeBack(o, i)
    PROVE  KInv'
<1>1. Orderly /\ Types /\ Wares  BY DEF IInv, Orderly, KInv
<1>2. o \in Threads /\ o \in Players  BY DEF Threads, Players
<1>3. Work(o) /\ Only(o) /\ (overlapped => overlapped')
  BY <1>1, OwnerWorks DEF Work, History
<1>4. Owns(o) /\ Free(o)  BY DEF TakeBack
<1>5. PICK s \in Hired : s = at[o] /\ shop[s].owner = o
  BY <1>1, <1>4, OwnsOne
<1>6. /\ shop' = shop /\ left' = left /\ purse' = purse /\ package' = package /\ lapses' = lapses
      /\ pc[o].op = "idle" /\ shop[s].can /\ i \in DOMAIN shop[s].items
  BY <1>4, <1>5 DEF TakeBack, Rest, Free, Idle
<1>7. shop[s].items \in Seq(DOMAIN left) /\ left \in Seq(Int) /\ bag \in [Players -> Int]
  BY <1>1 DEF Wares, Stall
<1>8. PICK l \in DOMAIN left : l = shop[s].items[i] /\ l \in ToSet(shop[s].items)
  <2>1. shop[s].items[i] \in ToSet(shop[s].items)  BY <1>6 DEF ToSet
  <2> QED BY <1>7, <2>1, ListedIn
<1>9. PICK c \in Int : c = left[l] /\ c > 0
  <2>1. left[l] > 0  BY <1>5, <1>8 DEF TakeBack
  <2> QED BY <1>1, <2>1, ValueType
<1>10. bag' \in [Players -> Int] /\ Sum(bag', Players) = Sum(bag, Players) + c
  <2>1. bag' = [bag EXCEPT ![o] = bag[o] + c]  BY <1>5, <1>8, <1>9 DEF TakeBack
  <2> QED BY <1>1, <1>2, <1>7, <2>1, HoldsMore
<1>11. Joins(o, s)
  <2>1. Begins(o, s)  BY <1>5 DEF TakeBack
  <2> QED BY <1>1, <1>2, <2>1, Joining
<1>12. /\ pc'[o].op = "takeback" /\ pc'[o].s = s /\ pc'[o].l = l /\ pc'[o].n = i
       /\ pc'[o].v = 0
  <2>1. Go(o, In("takeback", s, l, i, 0))  BY <1>5, <1>8 DEF TakeBack
  <2>2. pc'[o] = In("takeback", s, l, i, 0)  BY <1>1, <1>2, <2>1, Going
  <2> QED BY <2>2 DEF In
<1>13. Task(o)'
  <2>1. l \in Int /\ i \in Int  BY <1>1, GoodsFinite
  <2> QED BY <1>6, <1>12, <2>1 DEF Task
<1>14. \A r : ~Stores(o, r) /\ ~Stores(o, r)'  BY <1>6, <1>12 DEF Stores
<1>15. \A r \in Hired : Live(r)' <=> Live(r)  BY <1>2, <1>3, <1>6, <1>14, LiveMoves
<1>16. ASSUME lapses = {}, ~overlapped'
       PROVE  Neat /\ (\A u \in Threads \ {o} : pc[u].s # s) /\ Live(s)
  <2>1. ~overlapped  BY <1>3, <1>16
  <2>2. Neat  BY <1>16, <2>1 DEF KInv
  <2>3. \A u \in Threads \ {o} : pc[u].s # s  BY <1>2, <1>11, <1>16, <2>1, NobodyElse
  <2>4. Live(s)  BY <1>2, <1>3, <1>6, <1>11, <1>14, <1>16, <2>1, AloneLive
  <2> QED BY <2>2, <2>3, <2>4
<1>17. ASSUME lapses = {}
       PROVE  /\ DealingAt(o)' /\ \E home, low : Account(home, low)'
              /\ ~overlapped' => NeatAt(o)' /\ (\A x \in DOMAIN left' : left'[x] >= 0)
  <2>1. DealingAt(o)'
    <3>1. PICK q : q = pc'[o] OBVIOUS
    <3> QED BY <1>5, <1>6, <1>8, <1>12, <3>1 DEF DealingAt
  <2>2. PICK home, low : Account(home, low)
    BY <1>17 DEF KInv
  <2>3. home[l] = s  BY <1>8, <2>2 DEF Account, AtHome
  <2>4. OnList(l, s)  BY <1>8 DEF OnList
  <2>5. PICK k \in Int : Covered(l, s, k)' /\ k + c >= low[l] /\ (~overlapped' => k + c = low[l])
    BY <1>1, <1>2, <1>3, <1>6, <1>9, <1>12, <1>13, <1>15, <1>16, <1>17, <2>2, <2>3, <2>4, TakeCover
  <2>6. \E home1, low1 : Account(home1, low1)'
    <3>1. /\ DOMAIN shop' = Hired /\ DOMAIN left' = DOMAIN left
          /\ \A x \in DOMAIN left \ {l} : left'[x] = left[x]
      BY <1>6 DEF Hired
    <3>2. /\ \A r \in Hired : ToSet(shop'[r].items) \subseteq ToSet(shop[r].items)
          /\ \A r \in Hired : Live(r) => ToSet(shop[r].items) \ {l} \subseteq ToSet(shop'[r].items)
      BY <1>6
    <3> QED
      BY <1>1, <1>2, <1>3, <1>6, <1>10, <1>12, <1>13, <1>15, <2>2, <2>3, <2>5, <3>1, <3>2,
         AccountMoves
  <2>7. ASSUME ~overlapped' PROVE NeatAt(o)' /\ \A x \in DOMAIN left' : left'[x] >= 0
    <3>1. Neat /\ Live(s)'  BY <1>15, <1>16, <1>17, <2>7
    <3>2. NeatAt(o)'
      <4>1. PICK q : q = pc'[o] OBVIOUS
      <4> QED BY <1>12, <3>1, <4>1 DEF NeatAt, Live, Stored, Doing, OnList
    <3> QED BY <1>6, <3>1, <3>2 DEF Neat
  <2> QED BY <2>1, <2>6, <2>7
<1> QED
  <2>1. \A r \in Hired : shop'[r].items = shop[r].items /\ shop'[r].meso = shop[r].meso
    BY <1>6
  <2>2. left' \in Seq(Int) /\ DOMAIN left \subseteq DOMAIN left' /\ shop'[s].items \in Seq(DOMAIN left')
    BY <1>6, <1>7
  <2>3. \A r \in Hired \ {s} : \A x \in ToSet(shop[r].items) : left'[x] = left[x]  BY <1>6
  <2> QED
    BY <1>2, <1>3, <1>6, <1>10, <1>11, <1>12, <1>13, <1>17, <2>1, <2>2, <2>3, GoodsWorkKeeps

\* Taking one member away from a list keeps the others.
LEMMA RemovedIs ==
    ASSUME NEW S, NEW items \in Seq(S), NEW n \in DOMAIN items
    PROVE  /\ RemoveAt(items, n) \in Seq(S)
           /\ ToSet(RemoveAt(items, n)) \subseteq ToSet(items)
           /\ ToSet(items) \ {items[n]} \subseteq ToSet(RemoveAt(items, n))
<1>1. n \in 1 .. Len(items) /\ Len(items) \in Nat /\ DOMAIN items = 1 .. Len(items)
  BY LenProperties
<1>2. PICK new : new = RemoveAt(items, n) OBVIOUS
<1>3. /\ new \in Seq(S) /\ Len(new) = Len(items) - 1
      /\ \A k \in 1 .. (Len(items) - 1) : new[k] = items[IF k < n THEN k ELSE k + 1]
  BY <1>1, <1>2, RemoveAtIs
<1>4. DOMAIN new = 1 .. (Len(items) - 1)  BY <1>3, LenProperties
<1>5. ASSUME NEW x \in ToSet(new) PROVE x \in ToSet(items)
  <2>1. PICK k \in 1 .. (Len(items) - 1) : x = new[k]
    BY <1>4, <1>5 DEF ToSet
  <2>2. PICK j \in 1 .. Len(items) : j = IF k < n THEN k ELSE k + 1
    BY <1>1
  <2>3. x = items[j]  BY <1>3, <2>1, <2>2
  <2> QED BY <1>1, <2>3 DEF ToSet
<1>6. ASSUME NEW x \in ToSet(items), x # items[n] PROVE x \in ToSet(new)
  <2>1. PICK j \in 1 .. Len(items) : x = items[j]
    BY <1>1 DEF ToSet
  <2>2. j # n  BY <1>6, <2>1
  <2>3. PICK k \in 1 .. (Len(items) - 1) : j = IF k < n THEN k ELSE k + 1
    <3>1. CASE j < n
      BY <1>1, <3>1
    <3>2. CASE j > n
      <4>1. j - 1 \in 1 .. (Len(items) - 1) /\ ~(j - 1 < n) /\ j = (j - 1) + 1
        BY <1>1, <3>2
      <4> QED BY <4>1
    <3> QED BY <1>1, <2>2, <3>1, <3>2
  <2>4. new[k] = x  BY <1>3, <2>1, <2>3
  <2> QED BY <1>4, <2>4 DEF ToSet
<1> QED BY <1>2, <1>3, <1>5, <1>6

\* What of l can be had once it has been taken back: nothing.
LEMMA TakenCover ==
    ASSUME Types, Wares, AccountsAssumption, NEW t \in Threads, Only(t), Task(t)',
           NEW home, NEW low, Account(home, low), NEW s \in Hired, NEW l \in DOMAIN left, home[l] = s,
           left'[l] = 0, pc[t].op = "takeback", pc[t].l = l, pc'[t].op \notin {"handed", "takeback"},
           Live(s)' <=> Live(s), overlapped => overlapped'
    PROVE  \E k \in Int : Covered(l, s, k)' /\ k = low[l]
<1>1. PICK k \in Int : k = low[l]
  BY DEF Account
<1>2. CASE ~Live(s)
  <2>1. Covered(l, s, k)  BY <1>1 DEF Account
  <2>2. k = 0  BY <1>2, <2>1 DEF Covered
  <2>3. Covered(l, s, 0)'  BY <1>2, DeadCover
  <2> QED BY <1>1, <2>2, <2>3
<1>3. CASE Live(s)
  <2>1. PICK a, w : a = Debt(l) /\ w = Value(l, s) OBVIOUS
  <2>2. /\ a \in Int /\ w \in Int
        /\ k + a <= w /\ (~overlapped => k + a = w)
        /\ \A u \in Threads : pc[u].op = "handed" /\ pc[u].l = l =>
                k + a - pc[u].n <= Positive(pc[u].v - pc[u].n)
    BY <1>1, <1>3, <2>1, CoverIs
  <2>3. Owed(t, l) = 0 /\ Owed(t, l)' = 0  BY DEF Owed
  <2>4. Debt(l)' = a
    <3>1. Debt(l)' = Debt(l) - Owed(t, l) + Owed(t, l)'  BY DebtMoves
    <3> QED BY <2>1, <2>2, <2>3, <3>1
  <2>5. w = 0
    <3>1. BeingTaken(l)  BY DEF BeingTaken
    <3> QED BY <2>1, <3>1 DEF Value
  <2>6. Value(l, s)' = 0  BY DEF Value, Positive
  <2>7. k + a <= Value(l, s)' /\ (~overlapped' => k + a = Value(l, s)')  BY <2>2, <2>5, <2>6
  <2>8. \A u \in Threads \ {t} : pc[u].op = "handed" /\ pc[u].l = l =>
                k + a - pc[u].n <= Positive(pc[u].v - pc[u].n)
    BY <2>2
  <2>9. Covered(l, s, k)'
    <3>1. a = Debt(l)' /\ a \in Int  BY <2>2, <2>4
    <3>2. pc'[t].op = "handed" /\ pc'[t].l = l => k + a - pc'[t].n <= Positive(pc'[t].v - pc'[t].n)
      OBVIOUS
    <3> QED BY <1>3, <2>7, <2>8, <3>1, <3>2, CoverNext
  <2> QED BY <1>1, <2>9
<1> QED BY <1>2, <1>3

\* What was taken back is struck from the list.
LEMMA TakenBackKeeps ==
    ASSUME IInv, KInv, AccountsAssumption, NEW o \in Owners, TakenBack(o)
    PROVE  KInv'
<1>1. Orderly /\ Types /\ Wares  BY DEF IInv, Orderly, KInv
<1>2. o \in Threads /\ o \in Players  BY DEF Threads, Players
<1>3. Work(o) /\ Only(o) /\ (overlapped => overlapped')
  BY <1>1, OwnerWorks DEF Work, History
<1>4. PICK s \in Hired : s = pc[o].s
  BY <1>1, <1>2 DEF TakenBack, Types, PcAt, Busy
<1>5. /\ bag' = bag /\ purse' = purse /\ package' = package /\ lapses' = lapses
      /\ overlapped' = overlapped /\ pc[o].op = "takeback"
  BY DEF TakenBack, Rest
<1>6. Task(o)  BY <1>1, <1>2 DEF Wares
<1>7. PICK l \in DOMAIN left : l = pc[o].l
  BY <1>5, <1>6 DEF Task
<1>8. PICK n : n = pc[o].n OBVIOUS
<1>9. shop[s].items \in Seq(DOMAIN left) /\ left \in Seq(Int) /\ bag \in [Players -> Int]
  BY <1>1 DEF Wares, Stall
<1>10. /\ left' \in Seq(Int) /\ DOMAIN left' = DOMAIN left /\ left'[l] = 0
       /\ \A x \in DOMAIN left \ {l} : left'[x] = left[x]
  <2>1. l \in 1 .. Len(left)  BY <1>9
  <2>2. left' = [left EXCEPT ![l] = 0]  BY <1>7 DEF TakenBack
  <2> QED BY <1>9, <2>1, <2>2, ExceptSeq
<1>11. pc'[o].op = "idle" /\ Task(o)'
  <2>1. pc'[o] = Idle  BY <1>1, <1>2, Going DEF TakenBack, Done
  <2> QED BY <2>1 DEF Idle, Task
<1>12. PICK new : new = IF n \in DOMAIN shop[s].items THEN RemoveAt(shop[s].items, n) ELSE shop[s].items
  OBVIOUS
<1>13. /\ DOMAIN shop' = Hired /\ shop'[s].items = new
       /\ shop'[s].meso = shop[s].meso /\ \A r \in Hired \ {s} : shop'[r] = shop[r]
  <2>1. DOMAIN shop = Hired /\ DOMAIN shop[s] = Fields /\ {"items", "meso"} \subseteq Fields
    BY <1>1 DEF Hired, Types, ShopAt, Fields
  <2>2. CASE n \in DOMAIN shop[s].items
    <3>1. shop' = [shop EXCEPT ![s].items = new]  BY <1>4, <1>8, <1>12, <2>2 DEF TakenBack
    <3> QED BY <2>1, <3>1
  <2>3. CASE n \notin DOMAIN shop[s].items
    <3>1. shop' = shop  BY <1>4, <1>8, <2>3 DEF TakenBack
    <3> QED BY <1>12, <2>1, <2>3, <3>1
  <2> QED BY <2>2, <2>3
<1>14. /\ new \in Seq(DOMAIN left) /\ ToSet(new) \subseteq ToSet(shop[s].items)
       /\ n \in DOMAIN shop[s].items => ToSet(shop[s].items) \ {shop[s].items[n]} \subseteq ToSet(new)
       /\ shop[s].items = <<>> => new = <<>>
  <2>1. CASE n \in DOMAIN shop[s].items
    <3>1. shop[s].items # <<>>  BY <2>1
    <3> QED BY <1>9, <1>12, <2>1, <3>1, RemovedIs
  <2>2. CASE n \notin DOMAIN shop[s].items
    BY <1>9, <1>12, <2>2
  <2> QED BY <2>1, <2>2
<1>15. \A r : ~Stores(o, r) /\ ~Stores(o, r)'  BY <1>5, <1>11 DEF Stores
<1>16. \A r \in Hired : Live(r)' <=> Live(r)
  <2>1. \A r \in Hired : shop'[r].can = shop[r].can  BY <1>3 DEF Work, SameShops, SameAt
  <2> QED BY <1>2, <1>3, <1>15, <2>1, LiveMoves
<1>17. ASSUME lapses = {}
       PROVE  /\ o = shop[s].owner /\ DealingAt(o)' /\ \E home, low : Account(home, low)'
              /\ ~overlapped' =>
                   /\ NeatAt(o)' /\ (\A x \in DOMAIN left' : left'[x] >= 0)
                   /\ \A r \in Hired \ {s} : \A x \in ToSet(shop[r].items) : left'[x] = left[x]
  <2>1. DealingAt(o)  BY <1>2, <1>17 DEF KInv, Settled
  <2>2. o = shop[s].owner /\ (Live(s) => n \in DOMAIN shop[s].items /\ shop[s].items[n] = l)
    BY <1>4, <1>5, <1>7, <1>8, <2>1 DEF DealingAt
  <2>3. DealingAt(o)'  BY <1>11 DEF DealingAt
  <2>4. PICK home, low : Account(home, low)
    BY <1>17 DEF KInv
  <2>5. home[l] = s  BY <1>2, <1>4, <1>5, <1>7, <2>4 DEF Account, AtHome
  <2>6. PICK k \in Int : Covered(l, s, k)' /\ k = low[l]
    BY <1>1, <1>2, <1>3, <1>5, <1>7, <1>10, <1>11, <1>16, <2>4, <2>5, TakenCover
  <2>7. \E home1, low1 : Account(home1, low1)'
    <3>1. PICK d \in Int : d = 0 OBVIOUS
    <3>2. Sum(bag', Players) = Sum(bag, Players) + d
      <4>1. low \in [DOMAIN left -> Int]  BY <2>4 DEF Account
      <4>2. Sum(bag, Players) \in Int  BY <1>1, <4>1, AllOfType
      <4> QED BY <1>5, <3>1, <4>2
    <3>3. \A r \in Hired : ToSet(shop'[r].items) \subseteq ToSet(shop[r].items)
      BY <1>13, <1>14
    <3>4. \A r \in Hired : Live(r) => ToSet(shop[r].items) \ {l} \subseteq ToSet(shop'[r].items)
      BY <1>13, <1>14, <2>2
    <3>5. /\ pc[o].op \in {"handed", "takeback"} => pc[o].l = l
          /\ pc'[o].op \in {"handed", "takeback"} => pc'[o].l = l /\ pc'[o].s = s
      BY <1>7, <1>11
    <3>6. k + d >= low[l] /\ (~overlapped' => k + d = low[l])  BY <2>6, <3>1
    <3>7. DOMAIN shop' = Hired /\ package' = package  BY <1>5, <1>13
    <3>8. Covered(l, s, k)'  BY <2>6
    <3>9. DOMAIN left' = DOMAIN left /\ \A x \in DOMAIN left \ {l} : left'[x] = left[x]
      BY <1>10
    <3>10. Task(o)'  BY <1>11
    <3> QED BY <1>1, <1>2, <1>3, <1>16, <2>4, <2>5, <3>2, <3>3, <3>4, <3>5,
         <3>6, <3>7, <3>8, <3>9, <3>10, AccountMoves
  <2>8. ASSUME ~overlapped'
        PROVE  /\ NeatAt(o)' /\ (\A x \in DOMAIN left' : left'[x] >= 0)
               /\ \A r \in Hired \ {s} : \A x \in ToSet(shop[r].items) : left'[x] = left[x]
    <3>1. Neat  BY <1>3, <1>17, <2>8 DEF KInv
    <3>2. \A x \in DOMAIN left' : left'[x] >= 0
      <4> SUFFICES ASSUME NEW x \in DOMAIN left PROVE left'[x] >= 0
        BY <1>10
      <4>1. left[x] >= 0  BY <3>1 DEF Neat
      <4> QED BY <1>10, <4>1
    <3>3. NeatAt(o)'  BY <1>11 DEF NeatAt, Busy
    <3>4. ASSUME NEW r \in Hired \ {s}, NEW x \in ToSet(shop[r].items) PROVE left'[x] = left[x]
      <4>1. home[x] = r  BY <2>4 DEF Account, AtHome
      <4>2. x # l  BY <2>5, <4>1
      <4>3. shop[r].items \in Seq(DOMAIN left)  BY <1>1 DEF Wares, Stall
      <4>4. x \in DOMAIN left  BY <4>3, ListedIn
      <4> QED BY <1>10, <4>2, <4>4
    <3> QED BY <3>2, <3>3, <3>4
  <2> QED BY <2>2, <2>3, <2>7, <2>8
<1> QED
  <2>1. \A r \in Hired \ {s} : shop'[r].items = shop[r].items /\ shop'[r].meso = shop[r].meso
    BY <1>13
  <2>2. /\ shop'[s].meso = shop[s].meso /\ shop'[s].items \in Seq(DOMAIN left')
        /\ DOMAIN left \subseteq DOMAIN left'
    BY <1>10, <1>13, <1>14
  <2>3. shop[s].items = <<>> => shop'[s].items = <<>>  BY <1>13, <1>14
  <2>4. pc[o].s = s /\ lapses \subseteq lapses' /\ bag' \in [Players -> Int]
    BY <1>4, <1>5, <1>9
  <2> QED BY <1>2, <1>3, <1>5, <1>10, <1>11, <1>17, <2>1, <2>2, <2>3, <2>4, GoodsWorkKeeps

\* A list with one member more.
LEMMA AppendedIs ==
    ASSUME NEW S, NEW items \in Seq(S), NEW x \in S
    PROVE  Append(items, x) \in Seq(S) /\ ToSet(Append(items, x)) = ToSet(items) \cup {x}
<1>1. PICK new : new = Append(items, x) OBVIOUS
<1>2. /\ new \in Seq(S) /\ Len(new) = Len(items) + 1 /\ new[Len(items) + 1] = x
      /\ \A k \in 1 .. Len(items) : new[k] = items[k]
  BY <1>1, AppendProperties
<1>3. DOMAIN new = 1 .. (Len(items) + 1) /\ DOMAIN items = 1 .. Len(items) /\ Len(items) \in Nat
  BY <1>2, LenProperties
<1>4. ASSUME NEW y \in ToSet(new) PROVE y \in ToSet(items) \cup {x}
  <2>1. PICK k \in 1 .. (Len(items) + 1) : y = new[k]
    BY <1>3, <1>4 DEF ToSet
  <2>2. CASE k = Len(items) + 1
    BY <1>2, <2>1, <2>2
  <2>3. CASE k # Len(items) + 1
    <3>1. k \in 1 .. Len(items)  BY <1>3, <2>3
    <3>2. y = items[k]  BY <1>2, <2>1, <3>1
    <3> QED BY <1>3, <3>1, <3>2 DEF ToSet
  <2> QED BY <2>2, <2>3
<1>5. x \in ToSet(new)
  <2>1. Len(items) + 1 \in DOMAIN new  BY <1>3
  <2> QED BY <1>2, <2>1 DEF ToSet
<1>6. ASSUME NEW y \in ToSet(items) PROVE y \in ToSet(new)
  <2>1. PICK k \in 1 .. Len(items) : y = items[k]
    BY <1>3, <1>6 DEF ToSet
  <2>2. k \in DOMAIN new /\ new[k] = y  BY <1>2, <1>3, <2>1
  <2> QED BY <2>2 DEF ToSet
<1> QED BY <1>1, <1>2, <1>4, <1>5, <1>6

\* A list of goods is one of more goods.
LEMMA ListWider ==
    ASSUME NEW S, NEW T, S \subseteq T, NEW items \in Seq(S) PROVE items \in Seq(T)
OBVIOUS

\* The account with one good more, that o put up at s from his bag.
LEMMA AccountGrows ==
    ASSUME Types, Wares, AccountsAssumption, NEW o \in Threads, Only(o), Task(o)',
           NEW home, NEW low, Account(home, low), NEW s \in Hired, NEW l \in Nat, l \notin DOMAIN left,
           NEW n \in Nat, n > 0, DOMAIN shop' = Hired, DOMAIN left' = DOMAIN left \cup {l}, left'[l] = n,
           \A x \in DOMAIN left : left'[x] = left[x],
           package' = package, Sum(bag', Players) = Sum(bag, Players) - n,
           \A r \in Hired \ {s} : shop'[r].items = shop[r].items,
           ToSet(shop'[s].items) = ToSet(shop[s].items) \cup {l},
           \A r \in Hired : Live(r)' <=> Live(r), Live(s),
           pc[o].op \notin {"handed", "takeback"}, pc'[o].op \notin {"handed", "takeback"},
           overlapped => overlapped'
    PROVE  \E home1, low1 : Account(home1, low1)'
<1>1. /\ home \in [DOMAIN left -> Hired] /\ low \in [DOMAIN left -> Int]
      /\ AtHome(home) /\ Enough(low)
  BY DEF Account
<1>2. PICK at1 : at1 = [x \in DOMAIN left \cup {l} |-> IF x = l THEN s ELSE home[x]]
  OBVIOUS
<1>3. PICK next : next = [x \in DOMAIN left \cup {l} |-> IF x = l THEN n ELSE low[x]]
  OBVIOUS
<1>4. at1 \in [DOMAIN left' -> Hired] /\ at1[l] = s /\ \A x \in DOMAIN left : at1[x] = home[x]
  BY <1>1, <1>2
<1>5. next \in [DOMAIN left' -> Int] /\ next[l] = n /\ \A x \in DOMAIN left : next[x] = low[x]
  BY <1>1, <1>3
<1>6. ASSUME NEW r \in Hired, NEW x \in ToSet(shop'[r].items) PROVE at1[x] = r
  <2>1. CASE x = l /\ r = s
    BY <1>4, <2>1
  <2>2. CASE x \in ToSet(shop[r].items)
    <3>1. shop[r].items \in Seq(DOMAIN left)  BY DEF Wares, Stall
    <3>2. x \in DOMAIN left  BY <2>2, <3>1, ListedIn
    <3>3. home[x] = r  BY <1>1, <2>2 DEF AtHome
    <3> QED BY <1>4, <3>2, <3>3
  <2> QED BY <1>6, <2>1, <2>2
<1>7. ASSUME NEW u \in Threads, pc'[u].op \in {"handed", "takeback"}
      PROVE  pc'[u] = pc[u] /\ pc'[u].l \in DOMAIN left /\ at1[pc'[u].l] = pc'[u].s
  <2>1. u # o  BY <1>7
  <2>2. pc'[u] = pc[u]  BY <2>1 DEF Only
  <2>3. PICK q : q = pc[u] OBVIOUS
  <2>4. q.l \in DOMAIN left  BY <1>7, <2>2, <2>3 DEF Wares, Task
  <2>5. home[q.l] = q.s  BY <1>1, <1>7, <2>2, <2>3 DEF AtHome
  <2> QED BY <1>4, <2>2, <2>3, <2>4, <2>5
<1>8. AtHome(at1)'
  <2>1. \A r \in Hired' : r \in Hired  BY DEF Hired
  <2> QED BY <1>6, <1>7, <2>1 DEF AtHome
<1>9. \A x : ~Works(o, x) /\ ~Works(o, x)'  BY DEF Works
<1>10. ASSUME NEW x \in DOMAIN left PROVE Covered(x, at1[x], next[x])'
  <2>1. PICK r \in Hired : r = home[x]
    BY <1>1
  <2>2. PICK k : k = low[x] OBVIOUS
  <2>3. Covered(x, r, k)  BY <2>1, <2>2 DEF Account
  <2>4. x # l OBVIOUS
  <2>5. OnList(x, r)' <=> OnList(x, r)
    <3>1. CASE r = s
      BY <2>4, <3>1 DEF OnList
    <3>2. CASE r # s
      BY <3>2 DEF OnList
    <3> QED BY <3>1, <3>2
  <2>6. Value(x, r)' = Value(x, r)  BY <1>9, <2>5, ValueStays
  <2>7. Covered(x, r, k)'  BY <1>9, <2>3, <2>6, CoveredStays
  <2>8. at1[x] = r /\ next[x] = k  BY <1>4, <1>5, <2>1, <2>2
  <2> QED BY <2>7, <2>8
<1>11. Covered(l, s, n)'
  <2>1. \A u \in Threads : ~Works(u, l)  BY DEF Works, Wares, Task
  <2>2. \A u \in Threads : Owed(u, l) = 0  BY <2>1 DEF Owed, Works
  <2>3. Debt(l) = 0  BY <2>2, DebtIs
  <2>4. Owed(o, l)' = 0  BY DEF Owed
  <2>5. Debt(l)' = 0
    <3>1. Debt(l)' = Debt(l) - Owed(o, l) + Owed(o, l)'  BY DebtMoves
    <3> QED BY <2>2, <2>3, <2>4, <3>1
  <2>6. \A u \in Threads : ~(pc'[u].op \in {"handed", "takeback"} /\ pc'[u].l = l)  BY <1>7
  <2>7. Value(l, s)' = n
    <3>1. ~BeingTaken(l)'  BY <2>6 DEF BeingTaken
    <3>2. OnList(l, s)'  BY DEF OnList
    <3> QED BY <3>1, <3>2 DEF Value, Positive
  <2>8. n + 0 <= n /\ n + 0 = n OBVIOUS
  <2> QED BY <2>5, <2>6, <2>7, <2>8 DEF Covered
<1>12. Enough(next)'
  <2>1. /\ AllOf(low) \in Int /\ Sum(low, DOMAIN left) \in Int
        /\ Sum(bag, Players) \in Int /\ Unclaimed("goods") \in Int
    BY <1>1, AllOfType
  <2>2. IsFiniteSet(DOMAIN left)  BY GoodsFinite
  <2>3. \A x \in DOMAIN left : low[x] \in Int /\ next[x] \in Int  BY <1>1, <1>5
  <2>4. Sum(next, DOMAIN left) = Sum(low, DOMAIN left)  BY <1>5, <2>2, <2>3, SumSame
  <2>5. Sum(next, DOMAIN left \cup {l}) = Sum(next, DOMAIN left) + next[l]
    <3>1. PICK D : D = DOMAIN left OBVIOUS
    <3>2. next[l] \in Int /\ (\A x \in D : next[x] \in Int) /\ IsFiniteSet(D) /\ l \notin D
      BY <1>5, <2>2, <2>3, <3>1
    <3>3. Sum(next, D \cup {l}) = Sum(next, D) + next[l]  BY ONLY <3>2, SumMember
    <3> QED BY <3>1, <3>3
  <2>6. Sum(next, DOMAIN left') = Sum(low, DOMAIN left) + n  BY <1>5, <2>4, <2>5
  <2>7. Unclaimed("goods")' = Unclaimed("goods")  BY UnclaimedStays
  <2>8. AllOf(next)' = Sum(bag', Players) + Sum(next, DOMAIN left') + Unclaimed("goods")'
    BY DEF AllOf, Sum, FoldSet, MapThenFoldSet
  <2>9. AllOf(next)' = AllOf(low)
    <3>1. AllOf(low) = Sum(bag, Players) + Sum(low, DOMAIN left) + Unclaimed("goods")
      BY DEF AllOf
    <3> QED BY <2>1, <2>6, <2>7, <2>8, <3>1
  <2>10. AllOf(next)' \in Int /\ AllOf(next)' >= AllOf(low)  BY <2>1, <2>9
  <2> QED BY <1>1, <2>9, <2>10, EnoughStays
<1>13. Account(at1, next)'
  <2>1. \A x \in DOMAIN left' : Covered(x, at1[x], next[x])'
    <3> SUFFICES ASSUME NEW x \in DOMAIN left \cup {l} PROVE Covered(x, at1[x], next[x])'
      OBVIOUS
    <3>1. CASE x = l
      <4>1. at1[x] = s /\ next[x] = n  BY <1>4, <1>5, <3>1
      <4> QED BY <1>11, <3>1, <4>1
    <3>2. CASE x # l
      <4>1. x \in DOMAIN left  BY <3>2
      <4> QED BY <1>10, <4>1
    <3> QED BY <3>1, <3>2
  <2>2. Hired' = Hired  BY DEF Hired
  <2> QED BY <1>4, <1>5, <1>8, <1>12, <2>1, <2>2 DEF Account
<1> QED BY <1>13

\* Goods are put up for sale.
LEMMA PutUpKeeps ==
    ASSUME IInv, KInv, AccountsAssumption, NEW o \in Owners, NEW n \in 1 .. Stock, Put(o, n)
    PROVE  KInv'
<1>1. Orderly /\ Types /\ Wares  BY DEF IInv, Orderly, KInv
<1>2. o \in Threads /\ o \in Players  BY DEF Threads, Players
<1>3. Work(o) /\ Only(o) /\ (overlapped => overlapped')
  BY <1>1, OwnerWorks DEF Work, History
<1>4. Owns(o) /\ Free(o)  BY DEF Put
<1>5. PICK s \in Hired : s = at[o] /\ shop[s].owner = o
  BY <1>1, <1>4, OwnsOne
<1>6. /\ purse' = purse /\ package' = package /\ pc' = pc /\ pc[o].op = "idle"
      /\ lapses \subseteq lapses' /\ (lapses' = {} => lapses = {} /\ Live(s))
  <2>1. purse' = purse /\ package' = package /\ pc' = pc /\ pc[o].op = "idle"
    <3>1. purse' = purse /\ package' = package /\ pc' = pc  BY DEF Put
    <3>2. pc[o].op = "idle"  BY <1>4 DEF Free, Idle
    <3> QED BY <3>1, <3>2
  <2>2. lapses' = IF shop[s].can /\ ~Stored(s) THEN lapses ELSE lapses \cup {"put into a closed merchant"}
    BY <1>5 DEF Put
  <2>3. CASE Live(s)
    <3>1. lapses' = lapses  BY <2>2, <2>3 DEF Live
    <3> QED BY <2>1, <2>3, <3>1
  <2>4. CASE ~Live(s)
    <3>1. lapses' = lapses \cup {"put into a closed merchant"}  BY <2>2, <2>4 DEF Live
    <3>2. lapses \subseteq lapses' /\ lapses' # {}  BY <3>1
    <3> QED BY <2>1, <3>2
  <2> QED BY <2>3, <2>4
<1>7. shop[s].items \in Seq(DOMAIN left) /\ left \in Seq(Int) /\ bag \in [Players -> Int]
  BY <1>1 DEF Wares, Stall
<1>8. PICK l \in Nat : l = Len(left) + 1
  BY <1>7, LenProperties
<1>9. n \in Int /\ n > 0 /\ n \in Nat  BY BoundsAssumption
<1>10. /\ left' \in Seq(Int) /\ DOMAIN left' = DOMAIN left \cup {l} /\ left'[l] = n /\ l \notin DOMAIN left
       /\ (\A x \in DOMAIN left : left'[x] = left[x]) /\ Len(left') = l
  <2>1. left' = Append(left, n)  BY DEF Put
  <2>2. /\ left' \in Seq(Int) /\ Len(left') = Len(left) + 1 /\ left'[Len(left) + 1] = n
        /\ \A x \in 1 .. Len(left) : left'[x] = left[x]
    BY <1>7, <1>9, <2>1, AppendProperties
  <2>3. DOMAIN left = 1 .. Len(left) /\ DOMAIN left' = 1 .. Len(left') /\ Len(left) \in Nat
    BY <1>7, <2>2, LenProperties
  <2> QED BY <1>8, <2>2, <2>3
<1>11. bag' \in [Players -> Int] /\ Sum(bag', Players) = Sum(bag, Players) - n
  <2>1. PICK d \in Int : d = 0 - n
    BY <1>9
  <2>2. bag' = [bag EXCEPT ![o] = bag[o] + d]
    <3>1. bag' = [bag EXCEPT ![o] = bag[o] - n]  BY DEF Put
    <3>2. bag[o] \in Int  BY <1>2, <1>7
    <3>3. bag[o] + d = bag[o] - n  BY <1>9, <2>1, <3>2
    <3> QED BY <3>1, <3>3
  <2>3. /\ bag' \in [Players -> Int] /\ Sum(bag', Players) = Sum(bag, Players) + d
        /\ Sum(bag, Players) \in Int
    BY <1>1, <1>2, <1>7, <2>2, HoldsMore
  <2> QED BY <1>9, <2>1, <2>3
<1>12. Joins(o, s)
  <2>1. Begins(o, s)  BY <1>5 DEF Put
  <2> QED BY <1>1, <1>2, <2>1, Joining
<1>13. PICK new : new = Append(shop[s].items, l) OBVIOUS
<1>14. /\ DOMAIN shop' = Hired /\ shop'[s].items = new
       /\ shop'[s].meso = shop[s].meso /\ \A r \in Hired \ {s} : shop'[r] = shop[r]
  <2>1. DOMAIN shop = Hired /\ DOMAIN shop[s] = Fields /\ {"items", "meso"} \subseteq Fields
    BY <1>1 DEF Hired, Types, ShopAt, Fields
  <2>2. shop' = [shop EXCEPT ![s].items = new]  BY <1>5, <1>10, <1>13 DEF Put
  <2> QED BY <2>1, <2>2
<1>15. new \in Seq(DOMAIN left') /\ ToSet(new) = ToSet(shop[s].items) \cup {l}
  <2>1. shop[s].items \in Seq(DOMAIN left')  BY <1>7, <1>10, ListWider
  <2>2. l \in DOMAIN left'  BY <1>10
  <2> QED BY <1>13, <2>1, <2>2, AppendedIs
<1>16. Task(o)'
  <2>1. pc'[o] = Idle  BY <1>4, <1>6 DEF Free
  <2> QED BY <2>1 DEF Idle, Task
<1>17. \A r : ~Stores(o, r) /\ ~Stores(o, r)'  BY <1>6 DEF Stores
<1>18. \A r \in Hired : Live(r)' <=> Live(r)
  <2>1. \A r \in Hired : shop'[r].can = shop[r].can  BY <1>3 DEF Work, SameShops, SameAt
  <2> QED BY <1>2, <1>3, <1>17, <2>1, LiveMoves
<1>19. ASSUME lapses' = {}
       PROVE  /\ DealingAt(o)' /\ Live(s) /\ \E home, low : Account(home, low)'
              /\ ~overlapped' => NeatAt(o)' /\ (\A x \in DOMAIN left' : left'[x] >= 0)
  <2>1. DealingAt(o)'  BY <1>6 DEF DealingAt
  <2>2. lapses = {} /\ Live(s)  BY <1>6, <1>19
  <2>3. PICK home, low : Account(home, low)
    BY <2>2 DEF KInv
  <2>4. \E home1, low1 : Account(home1, low1)'
    <3>1. \A r \in Hired \ {s} : shop'[r].items = shop[r].items  BY <1>14
    <3>2. ToSet(shop'[s].items) = ToSet(shop[s].items) \cup {l}  BY <1>14, <1>15
    <3>3. pc[o].op \notin {"handed", "takeback"} /\ pc'[o].op \notin {"handed", "takeback"}
      BY <1>6
    <3>4. DOMAIN shop' = Hired  BY <1>14
    <3> QED
      BY <1>1, <1>2, <1>3, <1>6, <1>9, <1>10, <1>11, <1>16, <1>18, <2>2, <2>3, <3>1, <3>2, <3>3, <3>4,
         AccountGrows
  <2>5. ASSUME ~overlapped' PROVE NeatAt(o)' /\ \A x \in DOMAIN left' : left'[x] >= 0
    <3>1. Neat  BY <1>3, <2>2, <2>5 DEF KInv
    <3>2. NeatAt(o)'  BY <1>6 DEF NeatAt, Busy
    <3>3. \A x \in DOMAIN left' : left'[x] >= 0
      <4> SUFFICES ASSUME NEW x \in DOMAIN left \cup {l} PROVE left'[x] >= 0
        BY <1>10
      <4>1. x \in DOMAIN left => left[x] >= 0  BY <3>1 DEF Neat
      <4> QED BY <1>9, <1>10, <4>1
    <3> QED BY <3>2, <3>3
  <2> QED BY <2>1, <2>2, <2>4, <2>5
<1> QED
  <2>1. \A r \in Hired \ {s} : shop'[r].items = shop[r].items /\ shop'[r].meso = shop[r].meso
    BY <1>14
  <2>2. /\ shop'[s].meso = shop[s].meso /\ shop'[s].items \in Seq(DOMAIN left')
        /\ DOMAIN left \subseteq DOMAIN left'
    BY <1>10, <1>14, <1>15
  <2>3. \A r \in Hired \ {s} : \A x \in ToSet(shop[r].items) : left'[x] = left[x]
    <3> TAKE r \in Hired \ {s}
    <3>1. shop[r].items \in Seq(DOMAIN left)  BY <1>1 DEF Wares, Stall
    <3>2. ToSet(shop[r].items) \subseteq DOMAIN left  BY <3>1, ListedIn
    <3> QED BY <1>10, <3>2
  <2>4. pc'[o].op \in {"idle", "handed", "counted", "takeback"}
        /\ pc[o].op \in {"idle", "checked", "handed", "takeback"}
    BY <1>6
  <2>5. shop'[s].items = shop[s].items \/ o = shop[s].owner  BY <1>5
  <2> QED
    BY <1>2, <1>3, <1>6, <1>10, <1>11, <1>12, <1>16, <1>19, <2>1, <2>2, <2>3, <2>4, <2>5, GoodsWorkKeeps

-----------------------------------------------------------------------------
(* Steps of closing: goods and till become a package, then the owner has it. *)

\* A thread that goes on to close s has no claim to goods or tills.
LEMMA ClosingHas ==
    ASSUME Types, NEW t \in Threads, Advance(t), NEW p, pc[t].l \in Int, pc[t].n \in Int, pc[t].v \in Int,
           pc'[t] = [pc[t] EXCEPT !.op = p], p \in {"saved", "cleared"}
    PROVE  /\ Task(t)' /\ DealingAt(t)' /\ NeatAt(t)' /\ pc'[t].op = p /\ pc'[t].s = pc[t].s
           /\ \A l : ~Works(t, l) /\ ~Works(t, l)'
           /\ \A r : ~Empties(t, r) /\ ~Empties(t, r)'
<1>1. PcAt(t) /\ pc[t].op \in {"close", "saved"}  BY DEF Types, Advance
<1>2. PICK q : q = pc'[t] OBVIOUS
<1>3. q.op = p /\ q.s = pc[t].s /\ q.l = pc[t].l /\ q.n = pc[t].n /\ q.v = pc[t].v
  BY <1>1, <1>2 DEF PcAt, In
<1>4. Task(t)'  BY <1>2, <1>3 DEF Task
<1>5. DealingAt(t)'  BY <1>2, <1>3 DEF DealingAt
<1>6. NeatAt(t)'  BY <1>2, <1>3 DEF NeatAt, Busy
<1>7. \A l : ~Works(t, l) /\ ~Works(t, l)'  BY <1>1, <1>2, <1>3 DEF Works
<1>8. \A r : ~Empties(t, r) /\ ~Empties(t, r)'  BY <1>1, <1>2, <1>3 DEF Empties
<1> QED BY <1>2, <1>3, <1>4, <1>5, <1>6, <1>7, <1>8

\* The goods that were saved are cleared.
LEMMA ClearKeeps ==
    ASSUME IInv, KInv, AccountsAssumption, NEW t \in Threads, Clear(t)
    PROVE  KInv'
<1>1. Orderly /\ Types /\ Wares /\ Indexed  BY DEF IInv, Orderly, KInv
<1>2. Advance(t)  BY <1>1, Advancing
<1>3. /\ Only(t) /\ SameShops /\ DOMAIN shop' = Hired /\ index' = index /\ at' = at
      /\ overlapped' = overlapped /\ \A r \in Hired : shop'[r].alarm = shop[r].alarm
  BY <1>2 DEF Advance, SameShops
<1>4. PICK s \in Hired : s = pc[t].s
  BY <1>1 DEF Clear, Types, PcAt, Shutting
<1>5. /\ left' = left /\ bag' = bag /\ purse' = purse /\ package' = package /\ lapses' = lapses
      /\ pc[t].op = "saved"
  BY DEF Clear, Rest
<1>6. /\ shop'[s].items = <<>> /\ \A r \in Hired \ {s} : shop'[r].items = shop[r].items
      /\ \A r \in Hired : shop'[r].meso = shop[r].meso
  <2>1. DOMAIN shop = Hired /\ DOMAIN shop[s] = Fields /\ {"items", "meso"} \subseteq Fields
    BY <1>1 DEF Hired, Types, ShopAt, Fields
  <2>2. shop' = [shop EXCEPT ![s].items = <<>>]  BY <1>4 DEF Clear
  <2>3. /\ shop'[s].items = <<>> /\ shop'[s].meso = shop[s].meso
        /\ \A r \in Hired \ {s} : shop'[r] = shop[r]
    BY <2>1, <2>2
  <2> QED BY <2>3
<1>7. Task(t)  BY <1>1 DEF Wares
<1>8. pc'[t] = [pc[t] EXCEPT !.op = "cleared"]  BY <1>1, Going DEF Clear
<1>9. /\ Task(t)' /\ DealingAt(t)' /\ NeatAt(t)' /\ pc'[t].op = "cleared" /\ pc'[t].s = s
      /\ \A l : ~Works(t, l) /\ ~Works(t, l)'
      /\ \A r : ~Empties(t, r) /\ ~Empties(t, r)'
  BY <1>1, <1>2, <1>4, <1>7, <1>8, ClosingHas DEF Task
<1>10. \A r : Stores(t, r)' <=> Stores(t, r)
  <2>1. PICK q : q = pc'[t] OBVIOUS
  <2> QED BY <1>4, <1>5, <1>9, <2>1 DEF Stores
<1>11. \A r \in Hired : shop'[r].can = shop[r].can  BY <1>3 DEF SameShops, SameAt
<1>12. \A r \in Hired : Live(r)' <=> Live(r)  BY <1>3, <1>10, <1>11, LiveMoves
<1>13. ~Live(s)
  <2>1. Stores(t, s)  BY <1>4, <1>5 DEF Stores
  <2> QED BY <2>1, StoredIs DEF Live
<1>14. Wares'
  <2>1. left' \in Seq(Int) /\ bag' \in [Players -> Int] /\ purse' \in [Players -> Int]
        /\ package' \in [Owners -> Row] /\ DOMAIN left \subseteq DOMAIN left'
    BY <1>1, <1>5 DEF Wares
  <2>2. ASSUME NEW r \in Hired PROVE Stall(r)'
    <3>1. Stall(r)  BY <1>1 DEF Wares
    <3>2. shop'[r].meso \in Int  BY <1>6, <3>1 DEF Stall
    <3>3. CASE r = s
      <4>1. <<>> \in Seq(DOMAIN left') OBVIOUS
      <4> QED BY <1>6, <3>2, <3>3, <4>1 DEF Stall
    <3>4. CASE r # s
      BY <1>5, <1>6, <3>1, <3>2, <3>4 DEF Stall
    <3> QED BY <3>3, <3>4
  <2> QED BY <1>1, <1>3, <1>9, <2>1, <2>2, WaresStay
<1> SUFFICES ASSUME lapses = {} PROVE Settled' /\ (\E home, low : Account(home, low)')
                                      /\ (~overlapped' => Neat' /\ Coined')
  BY <1>5, <1>14 DEF KInv
<1>15. Settled  BY DEF KInv
<1>16. Settled'
  <2>1. \A r \in Hired : shop[r].items = <<>> => shop'[r].items = <<>>  BY <1>6
  <2>2. \A r \in Hired : Clears(t, r)' => shop'[r].items = <<>>
    <3>1. PICK q : q = pc'[t] OBVIOUS
    <3> QED BY <1>6, <1>9, <3>1 DEF Clears
  <2>3. ASSUME NEW r \in Hired, ~shop[r].avail
        PROVE  /\ shop'[r].meso = 0 /\ (shop'[r].alarm = "set" => at'[shop[r].owner] = r)
               /\ Shuts(t, r)' => t = shop[r].owner
    <3>1. OwnedAt(r)  BY <1>15 DEF Settled
    <3>2. shop'[r].meso = 0 /\ (shop'[r].alarm = "set" => at'[shop[r].owner] = r)
      BY <1>3, <1>6, <2>3, <3>1 DEF OwnedAt
    <3>3. ASSUME Shuts(t, r)' PROVE t = shop[r].owner
      <4>1. Shuts(t, r)
        <5>1. PICK q : q = pc'[t] OBVIOUS
        <5> QED BY <1>4, <1>5, <1>9, <3>3, <5>1 DEF Shuts, Shutting
      <4> QED BY <2>3, <3>1, <4>1 DEF OwnedAt
    <3> QED BY <3>2, <3>3
  <2>4. \A r \in Hired : \A u \in Threads \ {t} : pc[u].op = "takeback" /\ pc[u].s = r =>
               shop'[r].items = shop[r].items \/ ~Live(r)'
    BY <1>6, <1>12, <1>13
  <2>5. \A o \in Owners : LoadingAt(o)'
    BY <1>1, <1>3, <1>5, <1>9, <1>15, LoadingsStay DEF Settled
  <2> QED BY <1>1, <1>3, <1>9, <1>10, <1>15, <2>1, <2>2, <2>3, <2>4, <2>5, SettledStays
<1>17. PICK home, low : Account(home, low)
  BY DEF KInv
<1>18. Account(home, low)'
  <2>1. \A r \in Hired : ToSet(shop'[r].items) \subseteq ToSet(shop[r].items)
    <3> TAKE r \in Hired
    <3>1. CASE r = s
      <4>1. ToSet(<<>>) = {}  BY DEF ToSet
      <4> QED BY <1>6, <3>1, <4>1
    <3>2. CASE r # s
      BY <1>6, <3>2
    <3> QED BY <3>1, <3>2
  <2>2. ASSUME NEW r \in Hired, NEW l \in DOMAIN left, Live(r) PROVE Value(l, r)' = Value(l, r)
    <3>1. r # s  BY <1>13, <2>2
    <3>2. OnList(l, r)' <=> OnList(l, r)  BY <1>6, <3>1 DEF OnList
    <3> QED BY <1>3, <1>5, <1>9, <3>2, ValueStays
  <2>3. Unclaimed("goods")' = Unclaimed("goods")  BY <1>5, UnclaimedStays
  <2>4. Sum(bag, Players) + Unclaimed("goods") \in Int
    <3>1. low \in [DOMAIN left -> Int]  BY <1>17 DEF Account
    <3> QED BY <1>1, <3>1, AllOfType
  <2>5. Sum(bag', Players) + Unclaimed("goods")' = Sum(bag, Players) + Unclaimed("goods")
    BY <1>5, <2>3
  <2>6. Sum(bag', Players) + Unclaimed("goods")' >= Sum(bag, Players) + Unclaimed("goods")
    <3>1. PICK x \in Int : x = Sum(bag, Players) + Unclaimed("goods")
      BY <2>4
    <3> QED BY <2>5, <3>1
  <2>7. pc[t].op \notin {"handed", "takeback"} /\ pc'[t].op \notin {"handed", "takeback"}
    BY <1>5, <1>9
  <2>8. Task(t)'  BY <1>9
  <2> QED
    BY <1>1, <1>3, <1>5, <1>12, <1>14, <1>17, <2>1, <2>2, <2>5, <2>6, <2>7, <2>8, AccountStays
<1>19. ASSUME ~overlapped' PROVE Neat' /\ Coined'
  <2>1. Neat /\ Coined  BY <1>3, <1>19 DEF KInv
  <2>2. \A u \in Threads : NeatAt(u)'
    <3> TAKE u \in Threads
    <3>1. CASE u = t
      BY <1>9, <3>1
    <3>2. CASE u # t
      <4>1. pc'[u] = pc[u] /\ NeatAt(u)  BY <1>3, <2>1, <3>2 DEF Only, Neat
      <4>2. ASSUME pc[u].op \in Busy PROVE Untouched(pc[u].s)
        <5>1. PICK r \in Hired : r = pc[u].s
          BY <1>1, <4>2 DEF Types, PcAt
        <5>2. Live(r)  BY <4>1, <4>2, <5>1 DEF NeatAt
        <5>3. Live(r)' /\ r # s  BY <1>12, <1>13, <5>2
        <5>4. Untouched(r)  BY <1>5, <1>6, <5>3 DEF Untouched
        <5> QED BY <5>1, <5>4
      <4> QED BY <4>1, <4>2, NeatStays
    <3> QED BY <3>1, <3>2
  <2>3. Neat'  BY <1>5, <2>1, <2>2 DEF Neat
  <2>4. \A r \in Hired : Till(r)' = Till(r)  BY <1>3, <1>6, <1>9, <1>10, <1>11, TillStays
  <2>5. Tills' = Tills  BY <1>3, <2>4, TillsStay
  <2>6. Unclaimed("meso")' = Unclaimed("meso")  BY <1>5, UnclaimedStays
  <2>7. AllMesos' = Sum(purse', Players) + Tills' + Unclaimed("meso")'
    BY DEF AllMesos, Tills, Sum, FoldSet, MapThenFoldSet
  <2>8. AllMesos' = AllMesos  BY <1>5, <2>5, <2>6, <2>7, MesosAre
  <2> QED BY <2>1, <2>3, <2>8 DEF Coined
<1> QED BY <1>16, <1>18, <1>19

\* What of good l merchant s holds.
Held(l, s) == IF OnList(l, s) THEN Positive(left[l]) ELSE 0

\* What a merchant holds is what it holds of each good.
LEMMA HoldingIs ==
    ASSUME Types, Wares, NEW s \in Hired
    PROVE  /\ Holding(s) = Sum([l \in DOMAIN left |-> Held(l, s)], DOMAIN left)
           /\ Holding(s) \in Int /\ \A l \in DOMAIN left : Held(l, s) \in Int /\ Held(l, s) >= 0
<1>1. left \in Seq(Int) /\ shop[s].items \in Seq(DOMAIN left)  BY DEF Wares, Stall
<1>2. PICK D : D = DOMAIN left OBVIOUS
<1>3. \A l \in D : left[l] \in Int  BY <1>1, <1>2
<1>4. PICK T : T = {l \in ToSet(shop[s].items) : left[l] > 0} OBVIOUS
<1>5. T \subseteq D  BY <1>1, <1>2, <1>4, ListedIn
<1>6. PICK f : f = [l \in D |-> Held(l, s)] OBVIOUS
<1>7. \A l \in D : Held(l, s) \in Int /\ Held(l, s) >= 0  BY <1>3 DEF Held, Positive
<1>8. \A l \in D : f[l] \in Int  BY <1>6, <1>7
<1>9. IsFiniteSet(D)  BY <1>2, GoodsFinite
<1>10. \A l \in T : left[l] = f[l]
  <2> TAKE l \in T
  <2>1. OnList(l, s) /\ left[l] > 0 /\ l \in D  BY <1>4, <1>5 DEF OnList
  <2>2. f[l] = Held(l, s)  BY <1>6, <2>1
  <2>3. Held(l, s) = left[l]  BY <2>1 DEF Held, Positive
  <2> QED BY <2>2, <2>3
<1>11. \A l \in D \ T : f[l] = 0
  <2> TAKE l \in D \ T
  <2>1. f[l] = Held(l, s)  BY <1>6
  <2>2. Held(l, s) = 0  BY <1>4 DEF Held, Positive, OnList
  <2> QED BY <2>1, <2>2
<1>12. Sum(f, D) = Sum(left, T)  BY <1>5, <1>8, <1>9, <1>10, <1>11, SumWithin
<1>13. Holding(s) = Sum(left, T)  BY <1>4 DEF Holding
<1>14. Sum(f, D) \in Int  BY <1>8, <1>9, SumInt
<1> QED BY <1>2, <1>6, <1>7, <1>12, <1>13, <1>14

\* Merchant s has no goods: it holds nothing.
LEMMA EmptyHolds ==
    ASSUME Types, Wares, NEW s \in Hired, shop[s].items = <<>> PROVE Holding(s) = 0
<1>1. \A l \in DOMAIN left : Held(l, s) = 0  BY DEF Held, OnList, ToSet
<1>2. PICK D : D = DOMAIN left OBVIOUS
<1>3. PICK f : f = [l \in D |-> Held(l, s)] OBVIOUS
<1>4. \A l \in D : f[l] = 0  BY <1>1, <1>2, <1>3
<1>5. IsFiniteSet(D)  BY <1>2, GoodsFinite
<1>6. Sum(f, D) = 0 * Cardinality(D)
  <2>1. 0 \in Int OBVIOUS
  <2> QED BY <1>4, <1>5, <2>1, SumConst
<1>7. Cardinality(D) \in Nat  BY <1>5, FS_CardinalityType
<1>8. Holding(s) = Sum(f, D)  BY <1>2, <1>3, HoldingIs
<1> QED BY <1>6, <1>7, <1>8

\* What is still to be had at s, k[l] of each good l there, is not more than s holds;
\* it is all of that when nobody has a claim to a good of s.
LEMMA HadIs ==
    ASSUME Types, Wares, AccountsAssumption, NEW home, NEW low, Account(home, low), NEW s \in Hired
    PROVE  \A l \in DOMAIN left : home[l] = s =>
             /\ low[l] <= Held(l, s)
             /\ Live(s) /\ ~overlapped /\ (\A u \in Threads : ~Works(u, l)) => low[l] = Held(l, s)
<1> SUFFICES ASSUME NEW l \in DOMAIN left, home[l] = s
             PROVE  /\ low[l] <= Held(l, s)
                    /\ Live(s) /\ ~overlapped /\ (\A u \in Threads : ~Works(u, l)) => low[l] = Held(l, s)
  OBVIOUS
<1>1. PICK k \in Int : k = low[l]
  BY DEF Account
<1>2. Covered(l, s, k)  BY <1>1 DEF Account
<1>3. PICK h \in Int : h = Held(l, s) /\ h >= 0
  BY HoldingIs
<1>4. CASE ~Live(s)
  BY <1>1, <1>2, <1>3, <1>4 DEF Covered
<1>5. CASE Live(s)
  <2>1. PICK a, w : a = Debt(l) /\ w = Value(l, s) OBVIOUS
  <2>2. /\ a \in Int /\ w \in Int /\ w >= 0 /\ w <= Positive(left[l])
        /\ k + a <= w /\ (~overlapped => k + a = w)
    BY <1>1, <1>5, <2>1, CoverIs
  <2>3. a >= 0 /\ ((\A u \in Threads : ~Works(u, l)) => a = 0)
    <3>1. Console \in Threads  BY DEF Threads
    <3>2. PICK c \in Int : c = Owed(Console, l) /\ c >= 0 /\ c <= Debt(l)
      BY <3>1, DebtIs
    <3>3. a >= 0  BY <2>1, <2>2, <3>2
    <3>4. ASSUME \A u \in Threads : ~Works(u, l) PROVE a = 0
      <4>1. \A u \in Threads : Owed(u, l) = 0  BY <3>4 DEF Owed, Works
      <4> QED BY <2>1, <4>1, DebtIs
    <3> QED BY <3>3, <3>4
  <2>4. w <= h /\ ((\A u \in Threads : ~Works(u, l)) => w = h)
    <3>1. CASE OnList(l, s) /\ ~BeingTaken(l)
      BY <1>3, <2>1, <3>1 DEF Value, Held
    <3>2. CASE ~OnList(l, s)
      BY <1>3, <2>1, <3>2 DEF Value, Held
    <3>3. CASE BeingTaken(l)
      <4>1. w = 0 /\ ~(\A u \in Threads : ~Works(u, l))
        BY <2>1, <3>3 DEF Value, BeingTaken, Works
      <4> QED BY <1>3, <4>1
    <3> QED BY <3>1, <3>2, <3>3
  <2> QED BY <1>1, <1>3, <2>2, <2>3, <2>4
<1> QED BY <1>4, <1>5

\* Without overlaps, where t closes s nobody has a claim to a good of s.
LEMMA NoClaims ==
    ASSUME NEW home, AtHome(home), NEW t \in Threads, NEW s \in Hired,
           \A u \in Threads \ {t} : pc[u].s # s, \A l : ~Works(t, l),
           NEW l, home[l] = s
    PROVE  \A u \in Threads : ~Works(u, l)
<1> SUFFICES ASSUME NEW u \in Threads, Works(u, l) PROVE FALSE OBVIOUS
<1>1. u # t OBVIOUS
<1>2. home[l] = pc[u].s  BY DEF AtHome, Works
<1> QED BY <1>1, <1>2

\* The account without the goods of s, and what they come to.
LEMMA Without ==
    ASSUME Types, Wares, AccountsAssumption, NEW home, NEW low, Account(home, low), NEW s \in Hired
    PROVE  \E next : /\ next \in [DOMAIN left -> Int]
                     /\ \A l \in DOMAIN left : next[l] = IF home[l] = s THEN 0 ELSE low[l]
                     /\ Sum(next, DOMAIN left) + Holding(s) >= Sum(low, DOMAIN left)
                     /\ Live(s) /\ ~overlapped /\ (\A l \in DOMAIN left : home[l] = s =>
                                                     \A u \in Threads : ~Works(u, l))
                          => Sum(next, DOMAIN left) + Holding(s) = Sum(low, DOMAIN left)
<1>1. low \in [DOMAIN left -> Int] /\ AtHome(home)  BY DEF Account
<1>2. PICK D : D = DOMAIN left OBVIOUS
<1>3. IsFiniteSet(D)  BY <1>2, GoodsFinite
<1>4. PICK next : next = [l \in D |-> IF home[l] = s THEN 0 ELSE low[l]] OBVIOUS
<1>5. PICK gap : gap = [l \in D |-> IF home[l] = s THEN low[l] ELSE 0] OBVIOUS
<1>6. PICK held : held = [l \in D |-> Held(l, s)] OBVIOUS
<1>7. \A l \in D : low[l] \in Int  BY <1>1, <1>2
<1>8. (\A l \in D : next[l] \in Int) /\ next \in [D -> Int]  BY <1>4, <1>7
<1>9. \A l \in D : gap[l] \in Int  BY <1>5, <1>7
<1>10. \A l \in D : low[l] = next[l] + gap[l]
  <2> TAKE l \in D
  <2>1. CASE home[l] = s
    BY <1>4, <1>5, <1>7, <2>1
  <2>2. CASE home[l] # s
    BY <1>4, <1>5, <1>7, <2>2
  <2> QED BY <2>1, <2>2
<1>11. Sum(low, D) = Sum(next, D) + Sum(gap, D)  BY <1>3, <1>8, <1>9, <1>10, SumPlus
<1>12. Holding(s) = Sum(held, D) /\ Holding(s) \in Int /\ \A l \in D : held[l] = Held(l, s) /\ held[l] \in Int /\ held[l] >= 0
  BY <1>2, <1>6, HoldingIs
<1>13. \A l \in D : gap[l] <= held[l]
  <2> TAKE l \in D
  <2>1. CASE home[l] = s
    <3>1. gap[l] = low[l] /\ low[l] <= Held(l, s)  BY <1>2, <1>5, <2>1, HadIs
    <3> QED BY <1>12, <3>1
  <2>2. CASE home[l] # s
    <3>1. gap[l] = 0  BY <1>5, <2>2
    <3> QED BY <1>12, <3>1
  <2> QED BY <2>1, <2>2
<1>14. Sum(gap, D) <= Sum(held, D)  BY <1>3, <1>9, <1>12, <1>13, SumLeq
<1>15. Sum(next, D) \in Int /\ Sum(gap, D) \in Int  BY <1>3, <1>8, <1>9, SumInt
<1>16. Sum(next, D) + Holding(s) >= Sum(low, D)  BY <1>11, <1>12, <1>14, <1>15
<1>17. ASSUME Live(s), ~overlapped, \A l \in D : home[l] = s => \A u \in Threads : ~Works(u, l)
       PROVE  Sum(next, D) + Holding(s) = Sum(low, D)
  <2>1. \A l \in D : held[l] = gap[l]
    <3> TAKE l \in D
    <3>1. CASE home[l] = s
      <4>1. \A u \in Threads : ~Works(u, l)  BY <1>17, <3>1
      <4>2. gap[l] = low[l] /\ low[l] = Held(l, s)  BY <1>2, <1>5, <1>17, <3>1, <4>1, HadIs
      <4> QED BY <1>12, <4>2
    <3>2. CASE home[l] # s
      <4>1. gap[l] = 0  BY <1>5, <3>2
      <4>2. ~OnList(l, s)  BY <1>1, <3>2 DEF AtHome, OnList
      <4>3. Held(l, s) = 0  BY <4>2 DEF Held
      <4> QED BY <1>12, <4>1, <4>3
    <3> QED BY <3>1, <3>2
  <2>2. Sum(held, D) = Sum(gap, D)  BY <1>3, <1>9, <2>1, SumSame
  <2> QED BY <1>11, <1>12, <1>15, <2>2
<1> QED BY <1>2, <1>4, <1>8, <1>16, <1>17

\* A package of nothing, or none, is worth nothing.
LEMMA Worthless ==
    ASSUME NEW q, q = None \/ q = [goods |-> 0, meso |-> 0], NEW field \in {"goods", "meso"}
    PROVE  Worth(q, field) = 0
<1>1. CASE q = None
  BY <1>1 DEF Worth
<1>2. CASE q # None
  BY <1>2 DEF Worth
<1> QED BY <1>1, <1>2

\* Who loads his package while his merchant is saved gets no less than it is worth.
LEMMA LoadingSaved ==
    ASSUME IInv, KInv, AccountsAssumption, NEW t \in Threads, NEW s \in Hired, lapses = {},
           pc[t].op = "close", pc[t].s = s, index' = index, SameShops, Only(t), pc'[t].op # "load",
           NEW o \in Owners, o = shop[s].owner, overlapped' = overlapped,
           package[o] = None \/ package[o] = [goods |-> 0, meso |-> 0],
           NEW m \in Int, package'[o] = [goods |-> Holding(s), meso |-> m]
    PROVE  LoadingAt(o)'
<1>1. Orderly /\ Types /\ Wares /\ Indexed /\ Settled  BY DEF IInv, Orderly, KInv
<1> SUFFICES ASSUME pc'[o].op = "load" PROVE LoadingAt(o)'
  BY DEF LoadingAt
<1>2. o \in Threads /\ o # t  BY DEF Threads, Players
<1>3. pc'[o] = pc[o] /\ LoadingAt(o)  BY <1>1, <1>2 DEF Only, Settled
<1>4. ~HasMerchant(o) /\ package[o] # None /\ package[o].goods <= pc[o].l
  BY <1>3 DEF LoadingAt
<1>5. 0 <= pc[o].l  BY <1>4
<1>6. ~InIndex(s)  BY <1>4 DEF InIndex, HasMerchant
<1>7. shop[s].avail
  <2>1. Shuts(t, s)  BY DEF Shuts, Shutting
  <2> QED BY <1>1, <1>2, <2>1 DEF Settled, OwnedAt
<1>8. ~shop[s].can  BY <1>1, <1>6, <1>7 DEF Settled, FoundAt
<1>9. overlapped
  <2> SUFFICES ASSUME ~overlapped PROVE FALSE OBVIOUS
  <2>1. Careful  BY DEF IInv, Nice, Around, Struck
  <2>2. Shuts(t, s)  BY DEF Shuts, Shutting
  <2> QED BY <1>8, <2>1, <2>2 DEF Careful, Standing
<1>10. Holding(s) = 0
  <2>1. shop[s].items = <<>>  BY <1>1, <1>7, <1>8 DEF Settled, EmptiedAt
  <2> QED BY <1>1, <2>1, EmptyHolds
<1>11. package'[o].goods = 0 /\ package'[o] # None
  <2>1. PICK q : q = package'[o] OBVIOUS
  <2>2. q.goods = 0 /\ q = [goods |-> 0, meso |-> m]  BY <1>10, <2>1
  <2> QED BY <2>1, <2>2 DEF AccountsAssumption
<1>12. ~HasMerchant(o)'  BY <1>1, <1>4, HasStays
<1>13. pc'[o].l = pc[o].l  BY <1>3
<1> QED BY <1>5, <1>9, <1>11, <1>12, <1>13 DEF LoadingAt

\* The account when the goods of s become a package.
LEMMA AccountSaves ==
    ASSUME Types, Wares, Wares', AccountsAssumption, NEW t \in Threads, NEW s \in Hired, Only(t), Task(t)',
           NEW home, NEW low, Account(home, low), left' = left, bag' = bag,
           DOMAIN shop' = Hired, \A r \in Hired : shop'[r].items = shop[r].items,
           overlapped' = overlapped, ~Live(s)', \A r \in Hired \ {s} : Live(r)' <=> Live(r),
           \A l : ~Works(t, l) /\ ~Works(t, l)',
           Unclaimed("goods")' = Unclaimed("goods") + Holding(s),
           ~overlapped => /\ Live(s)
                          /\ \A l \in DOMAIN left : home[l] = s => \A u \in Threads : ~Works(u, l)
    PROVE  \E next : Account(home, next)'
<1>1. PICK next : /\ next \in [DOMAIN left -> Int]
                  /\ \A l \in DOMAIN left : next[l] = IF home[l] = s THEN 0 ELSE low[l]
                  /\ Sum(next, DOMAIN left) + Holding(s) >= Sum(low, DOMAIN left)
                  /\ Live(s) /\ ~overlapped /\ (\A l \in DOMAIN left : home[l] = s =>
                                                  \A u \in Threads : ~Works(u, l))
                       => Sum(next, DOMAIN left) + Holding(s) = Sum(low, DOMAIN left)
  BY Without
<1>2. /\ home \in [DOMAIN left -> Hired] /\ low \in [DOMAIN left -> Int]
      /\ AtHome(home) /\ Enough(low)
  BY DEF Account
<1>3. ASSUME ~overlapped PROVE Sum(next, DOMAIN left) + Holding(s) = Sum(low, DOMAIN left)
  <2>1. \A l \in DOMAIN left : home[l] = s => \A u \in Threads : ~Works(u, l)  BY <1>3
  <2> QED BY <1>1, <1>3, <2>1
<1>4. /\ AllOf(low) \in Int /\ Sum(low, DOMAIN left) \in Int
      /\ Sum(bag, Players) \in Int /\ Unclaimed("goods") \in Int
  BY <1>2, AllOfType
<1>5. Sum(next, DOMAIN left) \in Int  BY <1>1, AllOfType
<1>6. Holding(s) \in Int  BY HoldingIs
<1>7. AllOf(next)' = Sum(bag, Players) + Sum(next, DOMAIN left) + (Unclaimed("goods") + Holding(s))
  <2>1. AllOf(next)' = Sum(bag', Players) + Sum(next, DOMAIN left') + Unclaimed("goods")'
    BY DEF AllOf, Sum, FoldSet, MapThenFoldSet
  <2> QED BY <2>1
<1>8. AllOf(low) = Sum(bag, Players) + Sum(low, DOMAIN left) + Unclaimed("goods")
  BY DEF AllOf
<1>9. /\ AllOf(next)' \in Int /\ AllOf(next)' >= AllOf(low)
      /\ ~overlapped' => AllOf(next)' = AllOf(low)
  BY <1>1, <1>3, <1>4, <1>5, <1>6, <1>7, <1>8
<1>10. Enough(next)'  BY <1>2, <1>9, EnoughStays
<1>11. \A l \in DOMAIN left : Covered(l, home[l], next[l])'
  <2> TAKE l \in DOMAIN left
  <2>1. PICK r \in Hired : r = home[l]
    BY <1>2
  <2>2. CASE r = s
    <3>1. next[l] = 0  BY <1>1, <2>1, <2>2
    <3>2. Covered(l, s, 0)'  BY DeadCover
    <3> QED BY <2>1, <2>2, <3>1, <3>2
  <2>3. CASE r # s
    <3>1. PICK k : k = low[l] OBVIOUS
    <3>2. Covered(l, r, k)  BY <2>1, <3>1 DEF Account
    <3>3. OnList(l, r)' <=> OnList(l, r)  BY DEF OnList
    <3>4. Value(l, r)' = Value(l, r)  BY <3>3, ValueStays
    <3>5. Live(r)' <=> Live(r)  BY <2>3
    <3>6. Covered(l, r, k)'  BY <3>2, <3>4, <3>5, CoveredStays
    <3>7. next[l] = k  BY <1>1, <2>1, <2>3, <3>1
    <3> QED BY <2>1, <3>6, <3>7
  <2> QED BY <2>2, <2>3
<1>12. pc'[t].op \notin {"handed", "takeback"}
  <2>1. PICK q : q = pc'[t] OBVIOUS
  <2>2. ~Works(t, q.l)' OBVIOUS
  <2> QED BY <2>1, <2>2 DEF Works
<1>13. DOMAIN shop' = Hired /\ DOMAIN left' = DOMAIN left  BY DEF Hired
<1>14. \A r \in Hired : ToSet(shop'[r].items) \subseteq ToSet(shop[r].items) OBVIOUS
<1>15. next \in [DOMAIN left -> Int]  BY <1>1
<1> QED BY <1>10, <1>11, <1>12, <1>13, <1>14, <1>15, AccountIs

\* What a merchant holds becomes the package of its owner.
LEMMA SaveKeeps ==
    ASSUME IInv, KInv, AccountsAssumption, NEW t \in Threads, Save(t)
    PROVE  KInv'
<1>1. Orderly /\ Types /\ Wares /\ Indexed  BY DEF IInv, Orderly, KInv
<1>2. Advance(t)  BY <1>1, Advancing
<1>3. /\ Only(t) /\ SameShops /\ DOMAIN shop' = Hired /\ index' = index /\ at' = at
      /\ overlapped' = overlapped /\ \A r \in Hired : shop'[r].alarm = shop[r].alarm
  BY <1>2 DEF Advance, SameShops
<1>4. PICK s \in Hired : s = pc[t].s
  BY <1>1 DEF Save, Types, PcAt, Shutting
<1>5. /\ shop' = shop /\ left' = left /\ bag' = bag /\ purse' = purse /\ pc[t].op = "close"
  BY DEF Save, Goods
<1>6. PICK o \in Owners : o = shop[s].owner
  BY <1>1 DEF Types, ShopAt
<1>7. PICK m \in Int : m = shop[s].meso
  BY <1>1 DEF Wares, Stall
<1>8. PICK h \in Int : h = Holding(s)
  BY <1>1, HoldingIs
<1>9. PICK row : row = [goods |-> h, meso |-> m] OBVIOUS
<1>10. row \in [goods : Int, meso : Int] /\ row # None /\ row \in Row /\ row.goods = h /\ row.meso = m
  BY <1>9 DEF AccountsAssumption, Row
<1>11. package' = [package EXCEPT ![o] = row]  BY <1>4, <1>6, <1>7, <1>8, <1>9 DEF Save
<1>12. package \in [Owners -> Row]  BY <1>1 DEF Wares
<1>13. package' \in [Owners -> Row] /\ package'[o] = row /\ \A r \in Owners \ {o} : package'[r] = package[r]
  BY <1>10, <1>11, <1>12
<1>14. /\ lapses \subseteq lapses'
       /\ lapses' = {} => lapses = {} /\ (package[o] = None \/ package[o] = [goods |-> 0, meso |-> 0])
  <2>1. lapses' = IF package[o] = None \/ package[o] = [goods |-> 0, meso |-> 0] THEN lapses
               ELSE lapses \cup {"package replaced"}
    BY <1>4, <1>6 DEF Save
  <2>2. CASE package[o] = None \/ package[o] = [goods |-> 0, meso |-> 0]
    <3>1. lapses' = lapses  BY <2>1, <2>2
    <3> QED BY <2>2, <3>1
  <2>3. CASE ~(package[o] = None \/ package[o] = [goods |-> 0, meso |-> 0])
    <3>1. lapses' = lapses \cup {"package replaced"}  BY <2>1, <2>3
    <3>2. lapses' # {} /\ lapses \subseteq lapses'  BY <3>1
    <3> QED BY <3>2
  <2> QED BY <2>2, <2>3
<1>15. Task(t)  BY <1>1 DEF Wares
<1>16. pc'[t] = [pc[t] EXCEPT !.op = "saved"]  BY <1>1, Going DEF Save
<1>17. /\ Task(t)' /\ DealingAt(t)' /\ NeatAt(t)' /\ pc'[t].op = "saved" /\ pc'[t].s = s
       /\ \A l : ~Works(t, l) /\ ~Works(t, l)'
       /\ \A r : ~Empties(t, r) /\ ~Empties(t, r)'
  BY <1>1, <1>2, <1>4, <1>15, <1>16, ClosingHas DEF Task
<1>18. /\ \A r : ~Stores(t, r) /\ ~Clears(t, r)'
       /\ \A r \in Hired \ {s} : ~Stores(t, r)'
       /\ Stores(t, s)'
  <2>1. PICK q : q = pc'[t] OBVIOUS
  <2> QED BY <1>5, <1>17, <2>1 DEF Stores, Clears
<1>19. \A r \in Hired \ {s} : Live(r)' <=> Live(r)
  <2>1. \A r \in Hired : shop'[r].can = shop[r].can  BY <1>5
  <2> QED BY <1>3, <1>18, <2>1, LiveMoves
<1>20. ~Live(s)'
  <2>1. Doing("saved", s)' \cup Doing("cleared", s)' # {}
    <3>1. PICK q : q = pc'[t] OBVIOUS
    <3>2. t \in Doing("saved", s)'  BY <1>17, <3>1 DEF Doing
    <3> QED BY <3>2
  <2> QED BY <2>1 DEF Live, Stored
<1>21. Wares'
  <2>1. left' \in Seq(Int) /\ bag' \in [Players -> Int] /\ purse' \in [Players -> Int]
        /\ DOMAIN left \subseteq DOMAIN left'
    BY <1>1, <1>5 DEF Wares
  <2>2. \A r \in Hired : Stall(r)'  BY <1>1, <1>5 DEF Wares, Stall
  <2> QED BY <1>1, <1>3, <1>13, <1>17, <2>1, <2>2, WaresStay
<1> SUFFICES ASSUME lapses' = {} PROVE Settled' /\ (\E home, low : Account(home, low)')
                                       /\ (~overlapped' => Neat' /\ Coined')
  BY <1>21 DEF KInv
<1>22. lapses = {} /\ (package[o] = None \/ package[o] = [goods |-> 0, meso |-> 0])
  BY <1>14
<1>23. Settled  BY <1>22 DEF KInv
<1>24. ASSUME ~overlapped
       PROVE  Live(s) /\ (\A u \in Threads \ {t} : pc[u].s # s /\ ~Empties(u, s))
  <2>1. ~overlapped'  BY <1>3, <1>24
  <2>2. Careful  BY <1>22, <1>24 DEF IInv, Nice, Around, Struck
  <2>3. shop[s].can
    <3>1. Shuts(t, s)  BY <1>4, <1>5 DEF Shuts, Shutting
    <3> QED BY <2>2, <3>1 DEF Careful, Standing
  <2>4. \A u \in Threads \ {t} : pc[u].s # s  BY <1>4, <1>22, <1>24, <2>1, NobodyElse
  <2>5. Live(s)  BY <1>3, <1>4, <1>18, <1>22, <1>24, <2>1, <2>3, AloneLive
  <2> QED BY <2>4, <2>5 DEF Empties
<1>25. Settled'
  <2>1. ASSUME NEW r \in Hired, ~shop[r].avail
        PROVE  /\ shop'[r].meso = 0 /\ (shop'[r].alarm = "set" => at'[shop[r].owner] = r)
               /\ Shuts(t, r)' => t = shop[r].owner
    <3>1. OwnedAt(r)  BY <1>23 DEF Settled
    <3>2. shop'[r].meso = 0 /\ (shop'[r].alarm = "set" => at'[shop[r].owner] = r)
      BY <1>3, <1>5, <2>1, <3>1 DEF OwnedAt
    <3>3. ASSUME Shuts(t, r)' PROVE t = shop[r].owner
      <4>1. Shuts(t, r)
        <5>1. PICK q : q = pc'[t] OBVIOUS
        <5> QED BY <1>4, <1>5, <1>17, <3>3, <5>1 DEF Shuts, Shutting
      <4> QED BY <2>1, <3>1, <4>1 DEF OwnedAt
    <3> QED BY <3>2, <3>3
  <2>2. ASSUME NEW p \in Owners PROVE LoadingAt(p)'
    <3>1. CASE p = o
      <4>1. package'[p] = [goods |-> Holding(s), meso |-> m]  BY <1>8, <1>9, <1>13, <3>1
      <4>2. pc'[t].op # "load"  BY <1>17
      <4>3. package[p] = None \/ package[p] = [goods |-> 0, meso |-> 0]  BY <1>22, <3>1
      <4>4. p = shop[s].owner /\ lapses = {} /\ pc[t].s = s  BY <1>4, <1>6, <1>22, <3>1
      <4> QED BY <1>3, <1>5, <4>1, <4>2, <4>3, <4>4, LoadingSaved
    <3>2. CASE p # o
      <4>1. package'[p] = package[p]  BY <1>13, <3>2
      <4>2. p \in Threads /\ LoadingAt(p)  BY <1>23 DEF Threads, Players, Settled
      <4>3. CASE p = t
        <5>1. pc'[p].op # "load"  BY <1>17, <4>3
        <5> QED BY <5>1 DEF LoadingAt
      <4>4. CASE p # t
        <5>1. pc'[p] = pc[p]  BY <1>3, <4>2, <4>4 DEF Only
        <5> QED BY <1>1, <1>3, <4>1, <4>2, <5>1, LoadingStays
      <4> QED BY <4>3, <4>4
    <3> QED BY <3>1, <3>2
  <2>3. \A r \in Hired : shop[r].items = <<>> => shop'[r].items = <<>>  BY <1>5
  <2>4. \A r \in Hired : \A u \in Threads \ {t} : pc[u].op = "takeback" /\ pc[u].s = r =>
               shop'[r].items = shop[r].items \/ ~Live(r)'
    BY <1>5
  <2>5. DealingAt(t)'  BY <1>17
  <2> QED BY <1>1, <1>3, <1>18, <1>23, <2>1, <2>2, <2>3, <2>4, <2>5, SettledStays
<1>26. \A field \in {"goods", "meso"} : Unclaimed(field)' = Unclaimed(field) + row[field]
  <2> TAKE field \in {"goods", "meso"}
  <2>1. Worth(package[o], field) = 0  BY <1>22, Worthless
  <2>2. Worth(package'[o], field) = row[field]  BY <1>10, <1>13 DEF Worth
  <2>3. Unclaimed(field)' = Unclaimed(field) - Worth(package[o], field) + Worth(package'[o], field)
    BY <1>1, <1>13, <1>21, UnclaimedMoves
  <2>4. PICK x \in Int : x = Unclaimed(field)
    BY <1>1, UnclaimedIs
  <2>5. PICK y \in Int : y = row[field]
    BY <1>10
  <2> QED BY <2>1, <2>2, <2>3, <2>4, <2>5
<1>27. \E home, low : Account(home, low)'
  <2>1. PICK home, low : Account(home, low)
    BY <1>22 DEF KInv
  <2>2. Unclaimed("goods")' = Unclaimed("goods") + Holding(s)  BY <1>8, <1>10, <1>26
  <2>3. Task(t)' /\ \A l : ~Works(t, l) /\ ~Works(t, l)'  BY <1>17
  <2>4. ASSUME ~overlapped
        PROVE  Live(s) /\ \A l \in DOMAIN left : home[l] = s => \A u \in Threads : ~Works(u, l)
    <3>1. Live(s) /\ \A u \in Threads \ {t} : pc[u].s # s  BY <1>24, <2>4
    <3>2. AtHome(home)  BY <2>1 DEF Account
    <3> QED BY <2>3, <3>1, <3>2, NoClaims
  <2>5. \A r \in Hired : shop'[r].items = shop[r].items  BY <1>5
  <2>6. \E next : Account(home, next)'
    BY <1>1, <1>3, <1>5, <1>19, <1>20, <1>21, <2>1, <2>2, <2>3, <2>4, <2>5, AccountSaves
  <2> QED BY <2>6
<1>28. ASSUME ~overlapped' PROVE Neat' /\ Coined'
  <2>1. ~overlapped /\ Neat /\ Coined  BY <1>3, <1>22, <1>28 DEF KInv
  <2>2. Live(s) /\ (\A u \in Threads \ {t} : pc[u].s # s /\ ~Empties(u, s))  BY <1>24, <2>1
  <2>3. \A u \in Threads : NeatAt(u)'
    <3> TAKE u \in Threads
    <3>1. CASE u = t
      BY <1>17, <3>1
    <3>2. CASE u # t
      <4>1. pc'[u] = pc[u] /\ NeatAt(u)  BY <1>3, <2>1, <3>2 DEF Only, Neat
      <4>2. ASSUME pc[u].op \in Busy PROVE Untouched(pc[u].s)
        <5>1. PICK r \in Hired : r = pc[u].s
          BY <1>1, <4>2 DEF Types, PcAt
        <5>2. Live(r) /\ r # s  BY <2>2, <3>2, <4>1, <4>2, <5>1 DEF NeatAt
        <5>3. Live(r)'  BY <1>19, <5>2
        <5>4. Untouched(r)  BY <1>5, <5>3 DEF Untouched
        <5> QED BY <5>1, <5>4
      <4> QED BY <4>1, <4>2, NeatStays
    <3> QED BY <3>1, <3>2
  <2>4. Neat'  BY <1>5, <2>1, <2>3 DEF Neat
  <2>5. \A r \in Hired \ {s} : Till(r)' = Till(r)  BY <1>3, <1>5, <1>17, <1>18, TillStays
  <2>6. Till(s)' = 0  BY <1>20, TillIsNext
  <2>7. Till(s) = m
    <3>1. ~(\E u \in Threads : Empties(u, s))  BY <1>17, <2>2
    <3> QED BY <1>7, <2>2, <3>1, TillIs
  <2>8. /\ Tills' = Tills - Till(s) + Till(s)'
        /\ Tills \in Int
    BY <1>1, <1>3, <1>21, <2>5, TillsMove
  <2>9. Unclaimed("meso")' = Unclaimed("meso") + m  BY <1>10, <1>26
  <2>10. AllMesos' = Sum(purse', Players) + Tills' + Unclaimed("meso")'
    BY DEF AllMesos, Tills, Sum, FoldSet, MapThenFoldSet
  <2>11. AllMesos' = AllMesos
    <3>1. Unclaimed("meso") \in Int  BY <1>1, UnclaimedIs
    <3>2. Sum(purse, Players) \in Int
      <4>1. IsFiniteSet(Players) /\ \A p \in Players : purse[p] \in Int
        BY <1>1, Finite DEF Wares
      <4> QED BY <4>1, SumInt
    <3>3. PICK x, y, z \in Int : x = Sum(purse, Players) /\ y = Tills /\ z = Unclaimed("meso")
      BY <2>8, <3>1, <3>2
    <3>4. AllMesos = x + y + z  BY <3>3, MesosAre
    <3>5. AllMesos' = x + (y - m) + (z + m)  BY <1>5, <2>6, <2>7, <2>8, <2>9, <2>10, <3>3
    <3> QED BY <3>4, <3>5
  <2> QED BY <2>1, <2>4, <2>11 DEF Coined
<1> QED BY <1>25, <1>27, <1>28

\* What was loaded from a package is handed out.
LEMMA ClaimKeeps ==
    ASSUME IInv, KInv, AccountsAssumption, NEW o \in Owners, Claim(o)
    PROVE  KInv'
<1>1. Orderly /\ Types /\ Wares /\ Indexed  BY DEF IInv, Orderly, KInv
<1>2. o \in Threads /\ o \in Players  BY DEF Threads, Players
<1>3. Work(o)  BY <1>1, OwnerWorks
<1>4. Only(o) /\ SameShops /\ DOMAIN shop' = Hired /\ index' = index
  BY <1>3 DEF Work, SameShops
<1>5. /\ shop' = shop /\ left' = left /\ lapses' = lapses /\ overlapped' = overlapped /\ pc[o].op = "load"
      /\ at' = at
  BY DEF Claim
<1>6. PICK g \in Int : g = pc[o].l
  BY <1>1, <1>2 DEF Wares, Task
<1>7. PICK m \in Int : m = pc[o].n
  BY <1>1, <1>2 DEF Wares, Task
<1>8. bag \in [Players -> Int] /\ purse \in [Players -> Int] /\ package \in [Owners -> Row] /\ left \in Seq(Int)
  BY <1>1 DEF Wares
<1>9. bag' \in [Players -> Int] /\ Sum(bag', Players) = Sum(bag, Players) + g /\ Sum(bag, Players) \in Int
  <2>1. bag' = [bag EXCEPT ![o] = bag[o] + g]  BY <1>6 DEF Claim
  <2> QED BY <1>1, <1>2, <1>8, <2>1, HoldsMore
<1>10. purse' \in [Players -> Int] /\ Sum(purse', Players) = Sum(purse, Players) + m /\ Sum(purse, Players) \in Int
  <2>1. purse' = [purse EXCEPT ![o] = purse[o] + m]  BY <1>7 DEF Claim
  <2> QED BY <1>1, <1>2, <1>8, <2>1, HoldsMore
<1>11. package' \in [Owners -> Row] /\ package'[o] = None /\ \A r \in Owners \ {o} : package'[r] = package[r]
  <2>1. package' = [package EXCEPT ![o] = None]  BY DEF Claim
  <2>2. None \in Row  BY DEF Row
  <2> QED BY <1>8, <2>1, <2>2
<1>12. pc'[o].op = "idle" /\ Task(o)'
  <2>1. pc'[o] = Idle  BY <1>1, <1>2, Going DEF Claim, Done
  <2> QED BY <2>1 DEF Idle, Task
<1>13. \A r : /\ ~Stores(o, r) /\ ~Stores(o, r)' /\ ~Clears(o, r)' /\ ~Shuts(o, r)'
              /\ ~Empties(o, r) /\ ~Empties(o, r)'
  BY <1>5, <1>12 DEF Stores, Clears, Shuts, Shutting, Empties
<1>14. \A r \in Hired : Live(r)' <=> Live(r)  BY <1>2, <1>4, <1>5, <1>13, LiveMoves
<1>15. Wares'
  <2>1. left' \in Seq(Int) /\ DOMAIN left \subseteq DOMAIN left'  BY <1>5, <1>8
  <2>2. \A r \in Hired : Stall(r)'  BY <1>1, <1>5 DEF Wares, Stall
  <2> QED BY <1>1, <1>2, <1>4, <1>9, <1>10, <1>11, <1>12, <2>1, <2>2, WaresStay
<1> SUFFICES ASSUME lapses = {} PROVE Settled' /\ (\E home, low : Account(home, low)')
                                      /\ (~overlapped' => Neat' /\ Coined')
  BY <1>5, <1>15 DEF KInv
<1>16. Settled  BY DEF KInv
<1>17. PICK row \in [goods : Int, meso : Int] : row = package[o] /\ row.goods <= g /\ row # None
                                              /\ (~overlapped => row.goods = g /\ row.meso = m)
  <2>1. LoadingAt(o)  BY <1>16 DEF Settled
  <2>2. PICK row : row = package[o] OBVIOUS
  <2>3. row \in Row  BY <1>8, <2>2
  <2>4. /\ row # None /\ row.goods <= g
        /\ ~overlapped => row = [goods |-> g, meso |-> m]
    BY <1>5, <1>6, <1>7, <2>1, <2>2 DEF LoadingAt
  <2>5. row \in [goods : Int, meso : Int]  BY <2>3, <2>4 DEF Row
  <2>6. ~overlapped => row.goods = g /\ row.meso = m  BY <2>4
  <2> QED BY <2>2, <2>4, <2>5, <2>6
<1>18. \A field \in {"goods", "meso"} : Unclaimed(field)' = Unclaimed(field) - row[field]
  <2> TAKE field \in {"goods", "meso"}
  <2>1. Worth(package[o], field) = row[field]  BY <1>17 DEF Worth
  <2>2. Worth(package'[o], field) = 0  BY <1>11 DEF Worth
  <2>3. Unclaimed(field)' = Unclaimed(field) - Worth(package[o], field) + Worth(package'[o], field)
    BY <1>1, <1>11, <1>15, UnclaimedMoves
  <2>4. PICK x \in Int : x = Unclaimed(field)
    BY <1>1, UnclaimedIs
  <2>5. PICK y \in Int : y = row[field] OBVIOUS
  <2> QED BY <2>1, <2>2, <2>3, <2>4, <2>5
<1>19. Unclaimed("goods") \in Int /\ Unclaimed("meso") \in Int  BY <1>1, UnclaimedIs
<1>20. Settled'
  <2>1. ASSUME NEW r \in Hired, ~shop[r].avail
        PROVE  shop'[r].meso = 0 /\ (shop'[r].alarm = "set" => at'[shop[r].owner] = r)
    <3>1. OwnedAt(r)  BY <1>16 DEF Settled
    <3> QED BY <1>5, <2>1, <3>1 DEF OwnedAt
  <2>2. ASSUME NEW p \in Owners PROVE LoadingAt(p)'
    <3>1. CASE p = o
      <4>1. pc'[p].op # "load"  BY <1>12, <3>1
      <4> QED BY <4>1 DEF LoadingAt
    <3>2. CASE p # o
      <4>1. package'[p] = package[p] /\ p \in Threads /\ LoadingAt(p)
        BY <1>11, <1>16, <3>2 DEF Threads, Players, Settled
      <4>2. pc'[p] = pc[p]  BY <1>4, <3>2, <4>1 DEF Only
      <4> QED BY <1>1, <1>4, <1>5, <4>1, <4>2, LoadingStays
    <3> QED BY <3>1, <3>2
  <2>3. DealingAt(o)'  BY <1>12 DEF DealingAt
  <2>4. \A r \in Hired : shop'[r].items = shop[r].items  BY <1>5
  <2> QED BY <1>1, <1>2, <1>4, <1>13, <1>16, <2>1, <2>2, <2>3, <2>4, SettledStays
<1>21. PICK home, low : Account(home, low)
  BY DEF KInv
<1>22. Account(home, low)'
  <2>1. \A r \in Hired : ToSet(shop'[r].items) \subseteq ToSet(shop[r].items)  BY <1>5
  <2>2. \A l : ~Works(o, l) /\ ~Works(o, l)'  BY <1>5, <1>12 DEF Works
  <2>3. ASSUME NEW r \in Hired, NEW l \in DOMAIN left PROVE Value(l, r)' = Value(l, r)
    <3>1. OnList(l, r)' <=> OnList(l, r)  BY <1>5 DEF OnList
    <3> QED BY <1>2, <1>4, <1>5, <2>2, <3>1, ValueStays
  <2>4. Unclaimed("goods")' = Unclaimed("goods") - row.goods  BY <1>18
  <2>5. PICK x, y, z \in Int : x = Sum(bag, Players) /\ y = Unclaimed("goods") /\ z = row.goods
    BY <1>9, <1>19
  <2>6. Sum(bag', Players) = x + g /\ Unclaimed("goods")' = y - z  BY <1>9, <2>4, <2>5
  <2>7. Sum(bag', Players) + Unclaimed("goods")' >= Sum(bag, Players) + Unclaimed("goods")
    BY <1>17, <2>5, <2>6
  <2>8. ~overlapped' => Sum(bag', Players) + Unclaimed("goods")' = Sum(bag, Players) + Unclaimed("goods")
    BY <1>5, <1>17, <2>5, <2>6
  <2>9. pc[o].op \notin {"handed", "takeback"} /\ pc'[o].op \notin {"handed", "takeback"}
    BY <1>5, <1>12
  <2> QED
    BY <1>1, <1>2, <1>4, <1>5, <1>12, <1>14, <1>15, <1>21, <2>1, <2>3, <2>7, <2>8, <2>9, AccountStays
<1>23. ASSUME ~overlapped' PROVE Neat' /\ Coined'
  <2>1. ~overlapped /\ Neat /\ Coined  BY <1>5, <1>23 DEF KInv
  <2>2. \A u \in Threads : NeatAt(u)'
    <3> TAKE u \in Threads
    <3>1. CASE u = o
      BY <1>12, <3>1 DEF NeatAt, Busy
    <3>2. CASE u # o
      <4>1. pc'[u] = pc[u] /\ NeatAt(u)  BY <1>4, <2>1, <3>2 DEF Only, Neat
      <4>2. ASSUME pc[u].op \in Busy PROVE Untouched(pc[u].s)
        <5>1. PICK r \in Hired : r = pc[u].s
          BY <1>1, <4>2 DEF Types, PcAt
        <5>2. Live(r)' <=> Live(r)  BY <1>14
        <5>3. Untouched(r)  BY <1>5, <5>2 DEF Untouched
        <5> QED BY <5>1, <5>3
      <4> QED BY <4>1, <4>2, NeatStays
    <3> QED BY <3>1, <3>2
  <2>3. Neat'  BY <1>5, <2>1, <2>2 DEF Neat
  <2>4. \A r \in Hired : Till(r)' = Till(r)  BY <1>2, <1>4, <1>5, <1>13, TillStays
  <2>5. Tills' = Tills  BY <1>4, <2>4, TillsStay
  <2>6. Unclaimed("meso")' = Unclaimed("meso") - row.meso /\ row.meso = m
    BY <1>17, <1>18, <2>1
  <2>7. AllMesos' = Sum(purse', Players) + Tills' + Unclaimed("meso")'
    BY DEF AllMesos, Tills, Sum, FoldSet, MapThenFoldSet
  <2>8. AllMesos' = AllMesos
    <3>1. Tills \in Int
      <4>2. \A r \in Hired : Till(r) \in Int
        <5> TAKE r \in Hired
        <5>1. shop[r].meso \in Int  BY <1>1 DEF Wares, Stall
        <5> QED BY <5>1, TillIs
      <4>3. IsFiniteSet(Hired)  BY <1>1, Finite
      <4>4. PICK f : f = [r \in Hired |-> Till(r)] OBVIOUS
      <4>5. \A r \in Hired : f[r] \in Int  BY <4>2, <4>4
      <4>6. Sum(f, Hired) \in Int  BY <4>3, <4>5, SumInt
      <4> QED BY <4>4, <4>6 DEF Tills
    <3>2. PICK x, y, z \in Int : x = Sum(purse, Players) /\ y = Tills /\ z = Unclaimed("meso")
      BY <1>10, <1>19, <3>1
    <3>3. AllMesos = x + y + z  BY <3>2, MesosAre
    <3>4. AllMesos' = (x + m) + y + (z - m)  BY <1>10, <2>5, <2>6, <2>7, <3>2
    <3> QED BY <3>3, <3>4
  <2> QED BY <2>1, <2>3, <2>8 DEF Coined
<1> QED BY <1>20, <1>22, <1>23

-----------------------------------------------------------------------------
(* Steps that open, close for good or hire a merchant.                      *)

\* A step that moves neither goods nor mesos, but may open or close a merchant.
LEMMA ShelfKeeps ==
    ASSUME IInv, KInv, AccountsAssumption, NEW t \in Threads, Only(t), DOMAIN shop' = Hired,
           \A r \in Hired : shop'[r].items = shop[r].items /\ shop'[r].meso = shop[r].meso,
           left' = left, bag' = bag, purse' = purse, package' = package,
           overlapped' = overlapped, lapses \subseteq lapses',
           pc'[t].op = "idle", Task(t)',
           lapses' = {} =>
             /\ Settled' /\ \E home, low : Account(home, low)'
             /\ ~overlapped =>
                  /\ \A r \in Hired : Till(r)' = Till(r)
                  /\ \A u \in Threads \ {t} : pc[u].op \in Busy => Live(pc[u].s)'
    PROVE  KInv'
<1>1. Orderly /\ Types /\ Wares  BY DEF IInv, Orderly, KInv
<1>2. Wares'
  <2>1. /\ left' \in Seq(Int) /\ bag' \in [Players -> Int] /\ purse' \in [Players -> Int]
        /\ package' \in [Owners -> Row] /\ DOMAIN left \subseteq DOMAIN left'
    BY <1>1 DEF Wares
  <2>2. \A r \in Hired : Stall(r)'  BY <1>1 DEF Wares, Stall
  <2> QED BY <1>1, <2>1, <2>2, WaresStay
<1> SUFFICES ASSUME lapses' = {}, ~overlapped' PROVE Neat' /\ Coined'
  BY <1>2 DEF KInv
<1>3. lapses = {} /\ ~overlapped OBVIOUS
<1>4. Neat /\ Coined  BY <1>3 DEF KInv
<1>5. ASSUME NEW u \in Threads PROVE NeatAt(u)'
  <2>1. CASE u = t
    BY <2>1 DEF NeatAt, Busy
  <2>2. CASE u # t
    <3>1. pc'[u] = pc[u] /\ NeatAt(u)  BY <1>4, <2>2 DEF Only, Neat
    <3>2. ASSUME pc[u].op \in Busy PROVE Untouched(pc[u].s)
      <4>1. PICK r \in Hired : r = pc[u].s
        BY <1>1, <3>2 DEF Types, PcAt
      <4>2. Live(pc[u].s)'  BY <1>3, <2>2, <3>2
      <4>3. Live(r)'
        <5>1. pc'[u].s = r  BY <3>1, <4>1
        <5> QED BY <3>1, <4>1, <4>2
      <4>4. Untouched(r)  BY <4>3 DEF Untouched
      <4> QED BY <4>1, <4>4
    <3> QED BY <3>1, <3>2, NeatStays
  <2> QED BY <2>1, <2>2
<1>6. Neat'  BY <1>4, <1>5 DEF Neat
<1>7. Tills' = Tills  BY <1>3, TillsStay
<1>8. Unclaimed("meso")' = Unclaimed("meso")  BY UnclaimedStays
<1>9. AllMesos' = Sum(purse', Players) + Tills' + Unclaimed("meso")'
  BY DEF AllMesos, Tills, Sum, FoldSet, MapThenFoldSet
<1>10. AllMesos' = AllMesos  BY <1>7, <1>8, <1>9, MesosAre
<1> QED BY <1>4, <1>6, <1>10 DEF Coined

\* The account, when no merchant is opened or closed that has goods.
LEMMA ShelfAccount ==
    ASSUME Types, Wares, AccountsAssumption, NEW home, NEW low, Account(home, low),
           NEW t \in Threads, Only(t), DOMAIN shop' = Hired,
           \A r \in Hired : shop'[r].items = shop[r].items, Wares',
           left' = left, bag' = bag, package' = package, overlapped' = overlapped,
           pc[t].op \notin {"handed", "takeback"}, pc'[t].op = "idle", Task(t)',
           \A r \in Hired : Live(r)' <=> Live(r)
    PROVE  Account(home, low)'
<1>1. \A r \in Hired : ToSet(shop'[r].items) \subseteq ToSet(shop[r].items) OBVIOUS
<1>2. \A l : ~Works(t, l) /\ ~Works(t, l)'  BY DEF Works
<1>3. ASSUME NEW r \in Hired, NEW l \in DOMAIN left PROVE Value(l, r)' = Value(l, r)
  <2>1. OnList(l, r)' <=> OnList(l, r)  BY DEF OnList
  <2> QED BY <1>2, <2>1, ValueStays
<1>4. Unclaimed("goods")' = Unclaimed("goods")  BY UnclaimedStays
<1>5. PICK x \in Int : x = Sum(bag, Players) + Unclaimed("goods")
  <2>1. low \in [DOMAIN left -> Int]  BY DEF Account
  <2>2. Sum(bag, Players) \in Int /\ Unclaimed("goods") \in Int  BY <2>1, AllOfType
  <2> QED BY <2>2
<1>6. Sum(bag', Players) + Unclaimed("goods")' = x  BY <1>4, <1>5
<1>7. /\ Sum(bag', Players) + Unclaimed("goods")' >= Sum(bag, Players) + Unclaimed("goods")
      /\ Sum(bag', Players) + Unclaimed("goods")' = Sum(bag, Players) + Unclaimed("goods")
  BY <1>5, <1>6
<1>8. pc'[t].op \notin {"handed", "takeback"} OBVIOUS
<1> QED BY <1>1, <1>3, <1>7, <1>8, AccountStays

\* The goods and tills of merchants that only doors and numbers changed.
LEMMA WaresSame ==
    ASSUME Types, Wares, NEW t \in Threads, Only(t), Task(t)', DOMAIN shop' = Hired,
           \A r \in Hired : shop'[r].items = shop[r].items /\ shop'[r].meso = shop[r].meso,
           left' = left, bag' = bag, purse' = purse, package' = package
    PROVE  Wares'
<1>1. /\ left' \in Seq(Int) /\ bag' \in [Players -> Int] /\ purse' \in [Players -> Int]
      /\ package' \in [Owners -> Row] /\ DOMAIN left \subseteq DOMAIN left'
  BY DEF Wares
<1>2. \A r \in Hired : Stall(r)'  BY DEF Wares, Stall
<1> QED BY <1>1, <1>2, WaresStay

\* A thread deals as it did, if no merchant changes hands or goods or is opened again.
LEMMA DealingStays ==
    ASSUME NEW u \in Threads, DealingAt(u), PcAt(u), pc'[u] = pc[u],
           \A r \in Hired : shop'[r].items = shop[r].items /\ shop'[r].owner = shop[r].owner,
           \A r \in Hired : shop[r].avail => shop'[r].avail,
           \A r \in Hired : Live(r)' => Live(r)
    PROVE  DealingAt(u)'
<1>1. CASE pc[u].op \notin Busy
  <2>1. pc'[u].op \notin Busy  BY <1>1
  <2> QED BY <2>1 DEF DealingAt, Busy
<1>2. CASE pc[u].op \in Busy
  <2>1. PICK r \in Hired : r = pc[u].s
    BY <1>2 DEF PcAt
  <2>2. /\ shop'[r].owner = shop[r].owner /\ shop'[r].items = shop[r].items
        /\ shop[r].avail => shop'[r].avail
        /\ Live(r)' => Live(r)
    OBVIOUS
  <2>3. PICK p : p = pc[u] OBVIOUS
  <2>4. pc'[u] = p /\ p.s = r  BY <2>1, <2>3
  <2>5. Live(p.s) <=> Live(r)  BY <2>4
  <2>6. /\ p.op \in {"takeback", "withdraw"} => u = shop[r].owner
        /\ p.op \in {"checked", "handed", "counted"} => u \in Buyers /\ shop[r].avail
        /\ p.op = "takeback" /\ Live(r) => p.n \in DOMAIN shop[r].items /\ shop[r].items[p.n] = p.l
    BY <2>3, <2>4, <2>5 DEF DealingAt
  <2>7. Live(pc[u].s)' => Live(r)
    <3>1. pc'[u].s = r  BY <2>4
    <3> QED BY <2>2, <3>1 DEF Live, Stored, Doing
  <2> QED BY <2>2, <2>4, <2>6, <2>7 DEF DealingAt
<1> QED BY <1>1, <1>2

\* A merchant is opened.
LEMMA OpenKeeps ==
    ASSUME IInv, KInv, AccountsAssumption, NEW o \in Owners, Open(o)
    PROVE  KInv'
<1>1. Orderly /\ Types /\ Wares /\ Indexed /\ Inside  BY DEF IInv, Orderly, KInv
<1>2. PICK s \in Hired : Opens(o, s)
  BY <1>1, OpenOpens
<1>3. /\ s = at[o] /\ s # None /\ shop[s].owner = o /\ ~shop[s].avail /\ o \in Threads /\ o \in Players
      /\ OnlyShop(s) /\ shop'[s].owner = o /\ shop'[s].avail = TRUE /\ shop'[s].can = TRUE
      /\ shop'[s].storeid = nextId /\ shop'[s].alarm = shop[s].alarm
  BY <1>2 DEF Opens
<1>4. /\ DOMAIN index' = DOMAIN index \cup {nextId} /\ index'[nextId] = s
      /\ \A i \in DOMAIN index \ {nextId} : index'[i] = index[i]
      /\ at' = [at EXCEPT ![o] = None] /\ pc[o] = Idle /\ pc' = pc
      /\ package' = package /\ overlapped' = overlapped /\ lapses' = lapses
  BY <1>2 DEF Opens
<1>5. left' = left /\ bag' = bag /\ purse' = purse  BY DEF Open
<1>6. DOMAIN shop' = Hired /\ \A r \in Hired \ {s} : shop'[r] = shop[r]
  BY <1>3 DEF OnlyShop
<1>7. \A r \in Hired : shop'[r].items = shop[r].items /\ shop'[r].meso = shop[r].meso
                       /\ shop'[r].owner = shop[r].owner
  <2>1. DOMAIN shop = Hired /\ DOMAIN shop[s] = Fields /\ {"items", "meso", "owner"} \subseteq Fields
    BY <1>1 DEF Hired, Types, ShopAt, Fields
  <2>2. shop' = [shop EXCEPT ![s] = [@ EXCEPT !.storeid = nextId, !.open = TRUE,
                                              !.avail = TRUE, !.can = TRUE]]
    BY <1>3 DEF Open
  <2>3. shop'[s].items = shop[s].items /\ shop'[s].meso = shop[s].meso /\ shop'[s].owner = shop[s].owner
    BY <2>1, <2>2
  <2> QED BY <1>6, <2>3
<1>8. Only(o) /\ pc'[o].op = "idle" /\ pc[o].op = "idle" /\ Task(o)'
  BY <1>1, <1>4 DEF Only, Types, Idle, Task
<1>9. Wares'  BY <1>1, <1>3, <1>4, <1>5, <1>6, <1>7, <1>8, WaresSame
<1>10. ASSUME lapses = {} PROVE \A r \in Hired : Live(r)' <=> Live(r)
  <2> TAKE r \in Hired
  <2>1. shop'[r].can = shop[r].can
    <3>1. CASE r = s
      <4>1. shop[s].can  BY <1>1, <1>3, <1>10 DEF Inside, Around
      <4> QED BY <1>1, <1>3, <3>1, <4>1 DEF Types, ShopAt
    <3>2. CASE r # s
      BY <1>6, <3>2
    <3> QED BY <3>1, <3>2
  <2>2. Stores(o, r)' <=> Stores(o, r)  BY <1>8 DEF Stores
  <2> QED BY <1>3, <1>8, <2>1, <2>2, LiveMoves
<1>11. ASSUME lapses = {} PROVE Settled'
  <2>1. Settled  BY <1>11 DEF KInv
  <2>2. ASSUME NEW r \in Hired PROVE EmptiedAt(r)'
    <3>1. EmptiedAt(r)  BY <2>1 DEF Settled
    <3>2. \A u : Clears(u, r)' <=> Clears(u, r)  BY <1>4 DEF Clears
    <3>3. CASE r = s
      BY <1>3, <1>7, <3>1, <3>2, <3>3 DEF EmptiedAt
    <3>4. CASE r # s
      BY <1>6, <3>1, <3>2, <3>4 DEF EmptiedAt
    <3> QED BY <3>3, <3>4
  <2>3. ASSUME NEW r \in Hired PROVE FoundAt(r)'
    <3>1. CASE r = s
      BY <1>3, <1>4, <3>1 DEF FoundAt, InIndex
    <3>2. CASE r # s
      <4>1. shop'[r] = shop[r] /\ FoundAt(r)  BY <1>6, <2>1, <3>2 DEF Settled
      <4>2. ASSUME shop[r].avail, shop[r].can PROVE InIndex(r)'
        <5>1. InIndex(r) /\ shop[r].storeid < nextId
          BY <1>1, <4>1, <4>2 DEF FoundAt, Indexed
        <5>2. shop[r].storeid # nextId  BY <1>1, <5>1 DEF Types, ShopAt
        <5> QED BY <1>4, <4>1, <5>1, <5>2 DEF InIndex
      <4> QED BY <4>1, <4>2 DEF FoundAt
    <3> QED BY <3>1, <3>2
  <2>4. ASSUME NEW r \in Hired PROVE OwnedAt(r)'
    <3>1. CASE r = s
      BY <1>3, <3>1 DEF OwnedAt
    <3>2. CASE r # s
      <4>1. shop'[r] = shop[r] /\ OwnedAt(r)  BY <1>6, <2>1, <3>2 DEF Settled
      <4>2. \A u : Shuts(u, r)' <=> Shuts(u, r)  BY <1>4 DEF Shuts
      <4>3. at[shop[r].owner] = r => at'[shop[r].owner] = r
        <5>1. PICK w \in Owners : w = shop[r].owner
          BY <1>1 DEF Types, ShopAt
        <5>2. w \in Players  BY DEF Players
        <5>3. CASE w = o
          BY <1>3, <3>2, <5>1, <5>3
        <5>4. CASE w # o
          BY <1>1, <1>4, <5>1, <5>2, <5>4 DEF Types
        <5> QED BY <5>3, <5>4
      <4> QED BY <4>1, <4>2, <4>3 DEF OwnedAt
    <3> QED BY <3>1, <3>2
  <2>5. ASSUME NEW q \in Owners PROVE LoadingAt(q)'
    <3>1. LoadingAt(q) /\ pc' = pc  BY <1>4, <2>1 DEF Settled
    <3>2. CASE q = o
      <4>1. pc'[q].op # "load"  BY <1>8, <3>2
      <4> QED BY <4>1 DEF LoadingAt
    <3>3. CASE q # o
      <4>1. ASSUME ~HasMerchant(q) PROVE ~HasMerchant(q)'
        <5> SUFFICES ASSUME NEW i \in DOMAIN index', shop'[index'[i]].owner = q PROVE FALSE
          BY DEF HasMerchant
        <5>1. i # nextId  BY <1>3, <1>4, <3>3
        <5>2. i \in DOMAIN index /\ index'[i] = index[i]  BY <1>4, <5>1
        <5>3. index[i] \in Hired  BY <1>1, <5>2 DEF Indexed
        <5>4. shop[index[i]].owner = q  BY <1>7, <5>2, <5>3
        <5> QED BY <4>1, <5>2, <5>4 DEF HasMerchant
      <4> QED BY <1>4, <3>1, <4>1 DEF LoadingAt
    <3> QED BY <3>2, <3>3
  <2>6. ASSUME NEW u \in Threads PROVE DealingAt(u)'
    <3>1. DealingAt(u) /\ pc'[u] = pc[u] /\ PcAt(u)  BY <1>1, <1>4, <2>1 DEF Settled, Types
    <3>2. \A r \in Hired : (shop[r].avail => shop'[r].avail) /\ (Live(r)' => Live(r))
      BY <1>3, <1>6, <1>10, <1>11
    <3> QED BY <1>7, <3>1, <3>2, DealingStays
  <2>7. Hired' = Hired  BY <1>6 DEF Hired
  <2> QED BY <2>2, <2>3, <2>4, <2>5, <2>6, <2>7 DEF Settled
<1>12. ASSUME lapses = {} PROVE \E home, low : Account(home, low)'
  <2>1. PICK home, low : Account(home, low)
    BY <1>12 DEF KInv
  <2>2. Account(home, low)'
    BY <1>1, <1>3, <1>4, <1>5, <1>6, <1>7, <1>8, <1>9, <1>10, <1>12, <2>1, ShelfAccount
  <2> QED BY <2>2
<1>13. ASSUME lapses = {}, ~overlapped
       PROVE  /\ \A r \in Hired : Till(r)' = Till(r)
              /\ \A u \in Threads \ {o} : pc[u].op \in Busy => Live(pc[u].s)'
  <2>1. \A r \in Hired : Till(r)' = Till(r)
    <3> TAKE r \in Hired
    <3>1. Live(r)' <=> Live(r)  BY <1>10, <1>13
    <3>2. \A u \in Threads : Empties(u, r)' <=> Empties(u, r)  BY <1>4 DEF Empties
    <3> QED BY <1>7, <3>1, <3>2, TillIs, TillIsNext
  <2>2. ASSUME NEW u \in Threads \ {o}, pc[u].op \in Busy PROVE Live(pc[u].s)'
    <3>1. NeatAt(u)  BY <1>13 DEF KInv, Neat
    <3>2. PICK r \in Hired : r = pc[u].s
      BY <1>1, <2>2 DEF Types, PcAt
    <3>3. Live(r)'  BY <1>10, <1>13, <2>2, <3>1, <3>2 DEF NeatAt
    <3>4. pc'[u].s = r  BY <1>4, <3>2
    <3> QED BY <3>3, <3>4 DEF Live, Stored, Doing
  <2> QED BY <2>1, <2>2
<1> QED BY <1>3, <1>4, <1>5, <1>6, <1>7, <1>8, <1>11, <1>12, <1>13, ShelfKeeps

\* The other merchants are still found when s is struck off the list.
LEMMA FoundStays ==
    ASSUME Types, Indexed, NEW t \in Threads, Unregister(t), NEW s \in Hired, s = pc[t].s,
           lapses' = {}, NEW r \in Hired, r # s, shop'[r] = shop[r], InIndex(r)
    PROVE  InIndex(r)'
<1>1. PICK i : i = shop[r].storeid OBVIOUS
<1>2. i \in DOMAIN index /\ index[i] = r  BY <1>1 DEF InIndex
<1>3. CASE t = Console
  <2>1. index' = [j \in {k \in DOMAIN index : index[k] # s} |-> index[j]]
    BY <1>3 DEF Unregister
  <2> QED BY <1>1, <1>2, <2>1 DEF InIndex
<1>4. CASE t # Console
  <2>1. index' = IF pc[t].v = 1 THEN [j \in DOMAIN index \ {shop[s].storeid} |-> index[j]] ELSE index
    BY <1>4 DEF Unregister
  <2>2. CASE index' = index
    BY <1>1, <1>2, <2>2 DEF InIndex
  <2>3. CASE index' # index
    <3>1. index' = [j \in DOMAIN index \ {shop[s].storeid} |-> index[j]]  BY <2>1, <2>3
    <3>2. s \in {index[j] : j \in DOMAIN index \ DOMAIN index'}
      <4>1. lapses' = IF index' = index \/ pc[t].s \in {index[j] : j \in DOMAIN index \ DOMAIN index'}
                      THEN lapses ELSE lapses \cup {"another struck off"}
        BY DEF Unregister
      <4>2. PICK E : E = {index[j] : j \in DOMAIN index \ DOMAIN index'} OBVIOUS
      <4>3. lapses' = IF pc[t].s \in E THEN lapses ELSE lapses \cup {"another struck off"}
        BY <2>3, <4>1, <4>2
      <4>4. lapses \cup {"another struck off"} # {} OBVIOUS
      <4>5. s \in E  BY <4>3, <4>4
      <4> QED BY <4>2, <4>5
    <3>3. PICK j \in DOMAIN index \ DOMAIN index' : index[j] = s
      BY <3>2
    <3>4. j = shop[s].storeid  BY <3>1, <3>3
    <3>5. i # shop[s].storeid  BY <1>2, <3>3, <3>4
    <3> QED BY <1>1, <1>2, <3>1, <3>5 DEF InIndex
  <2> QED BY <2>2, <2>3
<1> QED BY <1>3, <1>4

\* A merchant is struck off.
LEMMA StrikeKeeps ==
    ASSUME IInv, KInv, AccountsAssumption, NEW t \in Threads, Unregister(t)
    PROVE  KInv'
<1>1. Orderly /\ Types /\ Wares /\ Indexed  BY DEF IInv, Orderly, KInv
<1>2. PICK s \in Hired : s = pc[t].s
  BY <1>1 DEF Unregister, Types, PcAt, Shutting
<1>3. shop' = [shop EXCEPT ![s].can = FALSE, ![s].onMap = FALSE]  BY <1>2 DEF Unregister
<1>4. GoneAt(s)  BY <1>1, <1>3, SameField
<1>5. /\ left' = left /\ bag' = bag /\ at' = at /\ purse' = purse /\ package' = package
      /\ overlapped' = overlapped /\ pc[t].op = "cleared" /\ lapses \subseteq lapses'
  BY DEF Unregister
<1>6. DOMAIN shop' = Hired /\ \A r \in Hired \ {s} : shop'[r] = shop[r]
  BY <1>4 DEF GoneAt, OnlyShop
<1>7. /\ \A r \in Hired : /\ shop'[r].items = shop[r].items /\ shop'[r].meso = shop[r].meso
                          /\ shop'[r].owner = shop[r].owner /\ shop'[r].avail = shop[r].avail
                          /\ shop'[r].alarm = shop[r].alarm
      /\ ~shop'[s].can
  <2>1. /\ DOMAIN shop = Hired /\ DOMAIN shop[s] = Fields
        /\ {"items", "meso", "owner", "avail", "can", "onMap", "alarm"} \subseteq Fields
    BY <1>1 DEF Hired, Types, ShopAt, Fields
  <2>2. /\ shop'[s].items = shop[s].items /\ shop'[s].meso = shop[s].meso
        /\ shop'[s].owner = shop[s].owner /\ shop'[s].avail = shop[s].avail
        /\ shop'[s].alarm = shop[s].alarm
    BY <1>3, <2>1
  <2>3. ~shop'[s].can  BY <1>4 DEF GoneAt
  <2> QED BY <1>6, <2>2, <2>3
<1>8. Only(t) /\ pc'[t].op = "idle" /\ Task(t)'
  <2>1. Only(t) /\ pc'[t] = Idle  BY <1>1, Going DEF Unregister, Done
  <2> QED BY <2>1 DEF Idle, Task
<1>9. Wares'  BY <1>1, <1>5, <1>6, <1>7, <1>8, WaresSame
<1>10. ~Live(s) /\ ~Live(s)'
  <2>1. Stores(t, s)  BY <1>2, <1>5 DEF Stores
  <2>2. ~Live(s)  BY <2>1, StoredIs DEF Live
  <2> QED BY <1>7, <2>2 DEF Live
<1>11. \A r \in Hired : Live(r)' <=> Live(r)
  <2> TAKE r \in Hired
  <2>1. CASE r = s
    BY <1>10, <2>1
  <2>2. CASE r # s
    <3>1. ~Stores(t, r) /\ ~Stores(t, r)'  BY <1>2, <1>8, <2>2 DEF Stores
    <3>2. shop'[r].can = shop[r].can  BY <1>6, <2>2
    <3> QED BY <1>8, <3>1, <3>2, LiveMoves
  <2> QED BY <2>1, <2>2
<1>12. ASSUME lapses' = {} PROVE Settled'
  <2>1. Settled  BY <1>5, <1>12 DEF KInv
  <2>2. ASSUME NEW r \in Hired PROVE EmptiedAt(r)'
    <3>1. EmptiedAt(r)  BY <2>1 DEF Settled
    <3>2. \A u \in Threads : Clears(u, r)' => Clears(u, r)
      <4> TAKE u \in Threads
      <4>1. CASE u = t
        BY <1>8, <4>1 DEF Clears
      <4>2. CASE u # t
        BY <1>8, <4>2 DEF Clears, Only
      <4> QED BY <4>1, <4>2
    <3>3. CASE r = s
      <4>1. Clears(t, s)  BY <1>2, <1>5 DEF Clears
      <4>2. shop'[r].items = <<>>  BY <1>7, <3>1, <3>3, <4>1 DEF EmptiedAt
      <4> QED BY <4>2 DEF EmptiedAt
    <3>4. CASE r # s
      BY <1>6, <3>1, <3>2, <3>4 DEF EmptiedAt
    <3> QED BY <3>3, <3>4
  <2>3. ASSUME NEW r \in Hired PROVE FoundAt(r)'
    <3>1. CASE r = s
      BY <1>7, <3>1 DEF FoundAt
    <3>2. CASE r # s
      <4>1. shop'[r] = shop[r] /\ FoundAt(r)  BY <1>6, <2>1, <3>2 DEF Settled
      <4>2. ASSUME shop[r].avail, shop[r].can PROVE InIndex(r)'
        <5>1. InIndex(r)  BY <4>1, <4>2 DEF FoundAt
        <5> QED BY <1>1, <1>2, <1>12, <3>2, <4>1, <5>1, FoundStays
      <4> QED BY <4>1, <4>2 DEF FoundAt
    <3> QED BY <3>1, <3>2
  <2>4. ASSUME NEW r \in Hired PROVE OwnedAt(r)'
    <3>1. OwnedAt(r)  BY <2>1 DEF Settled
    <3>2. \A u \in Threads : Shuts(u, r)' => Shuts(u, r)
      <4> TAKE u \in Threads
      <4>1. CASE u = t
        BY <1>8, <4>1 DEF Shuts, Shutting
      <4>2. CASE u # t
        BY <1>8, <4>2 DEF Shuts, Only
      <4> QED BY <4>1, <4>2
    <3> QED BY <1>5, <1>7, <3>1, <3>2 DEF OwnedAt
  <2>5. ASSUME NEW q \in Owners PROVE LoadingAt(q)'
    <3>1. q \in Threads /\ LoadingAt(q)  BY <2>1 DEF Threads, Players, Settled
    <3>2. CASE q = t
      <4>1. pc'[q].op # "load"  BY <1>8, <3>2
      <4> QED BY <4>1 DEF LoadingAt
    <3>3. CASE q # t
      <4>1. pc'[q] = pc[q]  BY <1>8, <3>1, <3>3 DEF Only
      <4>2. \A i \in DOMAIN index' : i \in DOMAIN index /\ index'[i] = index[i]
        <5>1. CASE t = Console
          <6>1. index' = [j \in {k \in DOMAIN index : index[k] # s} |-> index[j]]
            BY <1>2, <5>1 DEF Unregister
          <6> QED BY <6>1
        <5>2. CASE t # Console
          <6>1. index' = [j \in DOMAIN index \ {shop[s].storeid} |-> index[j]] \/ index' = index
            BY <1>2, <5>2 DEF Unregister
          <6> QED BY <6>1
        <5> QED BY <5>1, <5>2
      <4>3. ASSUME ~HasMerchant(q) PROVE ~HasMerchant(q)'
        <5> SUFFICES ASSUME NEW i \in DOMAIN index', shop'[index'[i]].owner = q PROVE FALSE
          BY DEF HasMerchant
        <5>1. i \in DOMAIN index /\ index'[i] = index[i]  BY <4>2
        <5>2. index[i] \in Hired  BY <1>1, <5>1 DEF Indexed
        <5>3. shop[index[i]].owner = q  BY <1>7, <5>1, <5>2
        <5> QED BY <4>3, <5>1, <5>3 DEF HasMerchant
      <4> QED BY <1>5, <3>1, <4>1, <4>3 DEF LoadingAt
    <3> QED BY <3>2, <3>3
  <2>6. ASSUME NEW u \in Threads PROVE DealingAt(u)'
    <3>1. CASE u = t
      BY <1>8, <3>1 DEF DealingAt
    <3>2. CASE u # t
      <4>1. DealingAt(u) /\ pc'[u] = pc[u] /\ PcAt(u)
        BY <1>1, <1>8, <2>1, <3>2 DEF Settled, Types, Only
      <4> QED BY <1>7, <1>11, <4>1, DealingStays
    <3> QED BY <3>1, <3>2
  <2>7. Hired' = Hired  BY <1>6 DEF Hired
  <2> QED BY <2>2, <2>3, <2>4, <2>5, <2>6, <2>7 DEF Settled
<1>13. ASSUME lapses' = {} PROVE \E home, low : Account(home, low)'
  <2>1. PICK home, low : Account(home, low)
    BY <1>5, <1>13 DEF KInv
  <2>2. Account(home, low)'
    BY <1>1, <1>5, <1>6, <1>7, <1>8, <1>9, <1>11, <2>1, ShelfAccount
  <2> QED BY <2>2
<1>14. ASSUME lapses' = {}, ~overlapped
       PROVE  /\ \A r \in Hired : Till(r)' = Till(r)
              /\ \A u \in Threads \ {t} : pc[u].op \in Busy => Live(pc[u].s)'
  <2>1. \A r \in Hired : Till(r)' = Till(r)
    <3> TAKE r \in Hired
    <3>1. Live(r)' <=> Live(r)  BY <1>11
    <3>2. \A u \in Threads : Empties(u, r)' <=> Empties(u, r)
      <4> TAKE u \in Threads
      <4>1. CASE u = t
        BY <1>5, <1>8, <4>1 DEF Empties
      <4>2. CASE u # t
        BY <1>8, <4>2 DEF Empties, Only
      <4> QED BY <4>1, <4>2
    <3> QED BY <1>7, <3>1, <3>2, TillIs, TillIsNext
  <2>2. ASSUME NEW u \in Threads \ {t}, pc[u].op \in Busy PROVE Live(pc[u].s)'
    <3>1. NeatAt(u)  BY <1>5, <1>14 DEF KInv, Neat
    <3>2. PICK r \in Hired : r = pc[u].s
      BY <1>1, <2>2 DEF Types, PcAt
    <3>3. Live(r)'  BY <1>11, <2>2, <3>1, <3>2 DEF NeatAt
    <3>4. pc'[u].s = r  BY <1>8, <3>2 DEF Only
    <3> QED BY <3>3, <3>4 DEF Live, Stored, Doing
  <2> QED BY <2>1, <2>2
<1> QED BY <1>5, <1>6, <1>7, <1>8, <1>12, <1>13, <1>14, ShelfKeeps

\* Nobody but its owner deals at a merchant not yet opened.
LEMMA Uncalled ==
    ASSUME Settled, NEW s \in Hired, ~shop[s].avail, pc[shop[s].owner].op = "idle",
           NEW u \in Threads, pc[u].s = s
    PROVE  pc[u].op \notin Busy \cup Shutting
<1>1. DealingAt(u) /\ OwnedAt(s)  BY DEF Settled
<1>2. PICK p : p = pc[u] OBVIOUS
<1>3. ASSUME u = shop[s].owner PROVE p.op = "idle"
  BY <1>2, <1>3
<1>4. p.op \in {"takeback", "withdraw"} => u = shop[s].owner  BY <1>1, <1>2 DEF DealingAt
<1>5. p.op \notin {"checked", "handed", "counted"}  BY <1>1, <1>2 DEF DealingAt
<1>6. p.op \in Shutting => u = shop[s].owner  BY <1>1, <1>2 DEF OwnedAt, Shuts
<1> QED BY <1>2, <1>3, <1>4, <1>5, <1>6 DEF Busy, Shutting

\* An owner leaves a merchant he has not opened.
LEMMA LeaveEarlyKeeps ==
    ASSUME IInv, KInv, AccountsAssumption, NEW p \in Players, Leave(p), ~shop[at[p]].avail
    PROVE  KInv'
<1>1. Orderly /\ Types /\ Wares /\ Indexed /\ Inside  BY DEF IInv, Orderly, KInv
<1>2. PICK s \in Hired :
             /\ GoneAt(s) /\ s = at[p] /\ s # None /\ shop[s].owner = p /\ ~shop[s].avail
             /\ shop'[s].alarm # "set"
             /\ at' = [at EXCEPT ![p] = None] /\ pc[p] = Idle /\ pc' = pc
             /\ index' = index /\ nextId' = nextId /\ ticket' = ticket /\ package' = package
             /\ overlapped' = overlapped
             /\ lapses' \in {lapses, lapses \cup {"left before it was opened"}}
  BY <1>1, LeftEarly
<1>3. p \in Threads /\ p \in Owners
  <2>1. shop[s].owner \in Owners  BY <1>1, <1>2 DEF Types, ShopAt
  <2>2. shop[s].owner = p  BY <1>2
  <2> QED BY <2>1, <2>2 DEF Threads, Players
<1>4. left' = left /\ bag' = bag /\ purse' = purse  BY DEF Leave
<1>5. DOMAIN shop' = Hired /\ \A r \in Hired \ {s} : shop'[r] = shop[r]
  BY <1>2 DEF GoneAt, OnlyShop
<1>6. /\ \A r \in Hired : /\ shop'[r].items = shop[r].items /\ shop'[r].meso = shop[r].meso
                          /\ shop'[r].owner = shop[r].owner /\ shop'[r].avail = shop[r].avail
      /\ ~shop'[s].can
  <2>1. /\ DOMAIN shop = Hired /\ DOMAIN shop[s] = Fields
        /\ {"items", "meso", "owner", "avail", "can", "onMap", "alarm"} \subseteq Fields
    BY <1>1 DEF Hired, Types, ShopAt, Fields
  <2>2. PICK sh : sh = Silenced(shop, s) OBVIOUS
  <2>3. DOMAIN sh = Hired /\ DOMAIN sh[s] = Fields /\ sh[s].items = shop[s].items /\ sh[s].meso = shop[s].meso
    BY <2>1, <2>2 DEF Silenced
  <2>4. shop' = [sh EXCEPT ![s].can = FALSE, ![s].onMap = FALSE]  BY <1>2, <2>2 DEF Leave
  <2>5. shop'[s].items = shop[s].items /\ shop'[s].meso = shop[s].meso  BY <2>1, <2>3, <2>4
  <2>6. ~shop'[s].can /\ shop'[s].owner = shop[s].owner /\ shop'[s].avail = shop[s].avail
    BY <1>2 DEF GoneAt
  <2> QED BY <1>5, <2>5, <2>6
<1>7. Only(p) /\ pc'[p].op = "idle" /\ pc[p].op = "idle" /\ Task(p)'
  <2>1. pc' = pc /\ pc[p] = Idle  BY <1>2
  <2>2. pc[p].op = "idle" /\ pc'[p].op = "idle"  BY <2>1 DEF Idle
  <2>3. Only(p)  BY <1>1, <2>1 DEF Only, Types
  <2>4. pc'[p].l \in Int /\ pc'[p].n \in Int /\ pc'[p].v \in Int  BY <2>1 DEF Idle
  <2>5. Task(p)'  BY <2>2, <2>4 DEF Task
  <2> QED BY <2>2, <2>3, <2>5
<1>8. Wares'  BY <1>1, <1>2, <1>3, <1>4, <1>5, <1>6, <1>7, WaresSame
<1>9. ~Live(s)'  BY <1>6 DEF Live
<1>10. \A r \in Hired \ {s} : Live(r)' <=> Live(r)
  <2> TAKE r \in Hired \ {s}
  <2>1. shop'[r].can = shop[r].can  BY <1>5
  <2>2. Stores(p, r)' <=> Stores(p, r)  BY <1>7 DEF Stores
  <2> QED BY <1>3, <1>7, <2>1, <2>2, LiveMoves
<1>11. lapses \subseteq lapses'  BY <1>2
<1>12. ASSUME lapses' = {}
       PROVE  /\ lapses = {} /\ Settled /\ Holding(s) = 0 /\ Live(s)
              /\ \A u \in Threads : pc[u].s = s => pc[u].op \notin Busy \cup Shutting
  <2>1. lapses = {}  BY <1>11, <1>12
  <2>2. Settled  BY <2>1 DEF KInv
  <2>3. Holding(s) = 0
    <3>1. lapses' = IF Holding(s) = 0 THEN lapses ELSE lapses \cup {"left before it was opened"}
      BY <1>2 DEF Leave
    <3>2. lapses \cup {"left before it was opened"} # {} OBVIOUS
    <3> QED BY <1>12, <3>1, <3>2
  <2>4. ASSUME NEW u \in Threads, pc[u].s = s PROVE pc[u].op \notin Busy \cup Shutting
    <3>1. pc[shop[s].owner].op = "idle" /\ ~shop[s].avail  BY <1>2, <1>7
    <3> QED BY <2>2, <2>4, <3>1, Uncalled
  <2>5. shop[s].can  BY <1>1, <1>2, <2>1 DEF Inside, Around
  <2>6. Live(s)
    <3>1. \A u \in Threads : ~Stores(u, s)  BY <2>4 DEF Stores, Shutting
    <3> QED BY <2>5, <3>1, StoredIs DEF Live
  <2> QED BY <2>1, <2>2, <2>3, <2>4, <2>6
<1>13. ASSUME lapses' = {} PROVE Settled'
  <2>1. Settled  BY <1>12, <1>13
  <2>2. ASSUME NEW r \in Hired PROVE EmptiedAt(r)'
    <3>1. EmptiedAt(r)  BY <2>1 DEF Settled
    <3>2. \A u : Clears(u, r)' <=> Clears(u, r)  BY <1>2 DEF Clears
    <3>3. CASE r = s
      BY <1>2, <1>6, <3>1, <3>2, <3>3 DEF EmptiedAt
    <3>4. CASE r # s
      BY <1>5, <3>1, <3>2, <3>4 DEF EmptiedAt
    <3> QED BY <3>3, <3>4
  <2>3. ASSUME NEW r \in Hired PROVE FoundAt(r)'
    <3>1. CASE r = s
      BY <1>6, <3>1 DEF FoundAt
    <3>2. CASE r # s
      BY <1>2, <1>5, <2>1, <3>2 DEF Settled, FoundAt, InIndex
    <3> QED BY <3>1, <3>2
  <2>4. ASSUME NEW r \in Hired PROVE OwnedAt(r)'
    <3>1. OwnedAt(r)  BY <2>1 DEF Settled
    <3>2. \A u : Shuts(u, r)' <=> Shuts(u, r)  BY <1>2 DEF Shuts
    <3>3. CASE r = s
      BY <1>2, <1>6, <3>1, <3>2, <3>3 DEF OwnedAt
    <3>4. CASE r # s
      <4>1. at[shop[r].owner] = r => at'[shop[r].owner] = r
        <5>1. PICK w \in Owners : w = shop[r].owner
          BY <1>1 DEF Types, ShopAt
        <5>2. w \in Players  BY DEF Players
        <5>3. CASE w = p
          BY <1>2, <3>4, <5>1, <5>3
        <5>4. CASE w # p
          BY <1>1, <1>2, <5>1, <5>2, <5>4 DEF Types
        <5> QED BY <5>3, <5>4
      <4> QED BY <1>5, <3>1, <3>2, <3>4, <4>1 DEF OwnedAt
    <3> QED BY <3>3, <3>4
  <2>5. ASSUME NEW q \in Owners PROVE LoadingAt(q)'
    <3>1. LoadingAt(q)  BY <2>1 DEF Settled
    <3>2. ASSUME ~HasMerchant(q) PROVE ~HasMerchant(q)'
      <4> SUFFICES ASSUME NEW i \in DOMAIN index', shop'[index'[i]].owner = q PROVE FALSE
        BY DEF HasMerchant
      <4>1. i \in DOMAIN index /\ index'[i] = index[i]  BY <1>2
      <4>2. index[i] \in Hired  BY <1>1, <4>1 DEF Indexed
      <4>3. shop[index[i]].owner = q  BY <1>6, <4>1, <4>2
      <4> QED BY <3>2, <4>1, <4>3 DEF HasMerchant
    <3> QED BY <1>2, <3>1, <3>2 DEF LoadingAt
  <2>6. ASSUME NEW u \in Threads PROVE DealingAt(u)'
    <3>1. DealingAt(u) /\ pc'[u] = pc[u] /\ PcAt(u)  BY <1>1, <1>2, <2>1 DEF Settled, Types
    <3>2. \A r \in Hired : Live(r)' => Live(r)  BY <1>9, <1>10
    <3> QED BY <1>6, <3>1, <3>2, DealingStays
  <2>7. Hired' = Hired  BY <1>5 DEF Hired
  <2> QED BY <2>2, <2>3, <2>4, <2>5, <2>6, <2>7 DEF Settled
<1>14. ASSUME lapses' = {} PROVE \E home, low : Account(home, low)'
  <2>1. PICK home, low : Account(home, low)
    BY <1>12, <1>14 DEF KInv
  <2>2. \A l : ~Works(p, l) /\ ~Works(p, l)'  BY <1>7 DEF Works
  <2>3. Unclaimed("goods")' = Unclaimed("goods") + Holding(s)
    <3>1. Unclaimed("goods")' = Unclaimed("goods")  BY <1>2, UnclaimedStays
    <3>2. PICK x \in Int : x = Unclaimed("goods")
      BY <1>1, UnclaimedIs
    <3> QED BY <1>12, <1>14, <3>1, <3>2
  <2>4. Live(s) /\ \A l \in DOMAIN left : home[l] = s => \A u \in Threads : ~Works(u, l)
    <3>1. ASSUME NEW l \in DOMAIN left, home[l] = s, NEW u \in Threads, Works(u, l) PROVE FALSE
      <4>1. pc[u].s = s  BY <2>1, <3>1 DEF Account, AtHome, Works
      <4>2. pc[u].op \notin Busy  BY <1>12, <1>14, <4>1
      <4> QED BY <3>1, <4>2 DEF Works, Busy
    <3> QED BY <1>12, <1>14, <3>1
  <2>5. \A r \in Hired : shop'[r].items = shop[r].items  BY <1>6
  <2>6. \E next : Account(home, next)'
    BY <1>1, <1>2, <1>3, <1>4, <1>5, <1>7, <1>8, <1>9, <1>10, <2>1, <2>2, <2>3, <2>4, <2>5, AccountSaves
  <2> QED BY <2>6
<1>15. ASSUME lapses' = {}, ~overlapped
       PROVE  /\ \A r \in Hired : Till(r)' = Till(r)
              /\ \A u \in Threads \ {p} : pc[u].op \in Busy => Live(pc[u].s)'
  <2>1. \A r \in Hired : Till(r)' = Till(r)
    <3> TAKE r \in Hired
    <3>1. CASE r = s
      <4>1. shop[s].meso = 0  BY <1>2, <1>12, <1>15 DEF Settled, OwnedAt
      <4>2. shop'[s].meso = 0  BY <1>6, <4>1
      <4> QED BY <3>1, <4>1, <4>2, TillIs, TillIsNext
    <3>2. CASE r # s
      <4>1. Live(r)' <=> Live(r)  BY <1>10, <3>2
      <4>2. \A u \in Threads : Empties(u, r)' <=> Empties(u, r)  BY <1>2 DEF Empties
      <4> QED BY <1>6, <4>1, <4>2, TillIs, TillIsNext
    <3> QED BY <3>1, <3>2
  <2>2. ASSUME NEW u \in Threads \ {p}, pc[u].op \in Busy PROVE Live(pc[u].s)'
    <3>1. NeatAt(u)  BY <1>12, <1>15 DEF KInv, Neat
    <3>2. PICK r \in Hired : r = pc[u].s
      BY <1>1, <2>2 DEF Types, PcAt
    <3>3. r # s  BY <1>12, <1>15, <2>2, <3>2
    <3>4. Live(r)'  BY <1>10, <2>2, <3>1, <3>2, <3>3 DEF NeatAt
    <3>5. pc'[u].s = r  BY <1>2, <3>2
    <3> QED BY <3>4, <3>5 DEF Live, Stored, Doing
  <2> QED BY <2>1, <2>2
<1> QED BY <1>2, <1>3, <1>4, <1>5, <1>6, <1>7, <1>11, <1>13, <1>14, <1>15, ShelfKeeps

\* A new merchant stands, with no goods and an empty till.
LEMMA CreateKeeps ==
    ASSUME IInv, KInv, AccountsAssumption, NEW o \in Owners, Create(o)
    PROVE  KInv'
<1>1. Orderly /\ Types /\ Wares /\ Indexed  BY DEF IInv, Orderly, KInv
<1>2. PICK s \in 1 .. MaxShops : Creates(o, s)
  BY <1>1, CreateCreates
<1>3. /\ left' = left /\ bag' = bag /\ purse' = purse /\ package' = package /\ pc' = pc
      /\ overlapped' = overlapped /\ lapses' = lapses /\ index' = index
  BY <1>2 DEF Create, Creates, Register
<1>4. /\ Hired' = Hired \cup {s} /\ s \notin Hired /\ s \in Nat \ {0}
      /\ \A r \in Hired : shop'[r] = shop[r]
  <2>1. Hired' = 1 .. s /\ Hired = 1 .. (s - 1) /\ s \in Nat \ {0}
    BY <1>2 DEF Creates, Hired
  <2> QED BY <1>2, <2>1 DEF Creates
<1>5. /\ shop'[s].owner = o /\ shop'[s].items = <<>> /\ shop'[s].meso = 0
      /\ ~shop'[s].avail /\ shop'[s].can /\ at'[o] = s
  <2>1. o \in Players  BY DEF Players
  <2> QED BY <1>1, <1>2, <2>1 DEF Creates, Types
<1>6. \A u \in Threads : pc[u].s # s  BY <1>1, <1>4 DEF Types, PcAt
<1>7. \A r \in Hired : Live(r)' <=> Live(r)  BY <1>3, <1>4 DEF Live, Stored, Doing
<1>8. Wares'
  <2>1. ASSUME NEW r \in Hired' PROVE Stall(r)'
    <3>1. CASE r = s
      <4>1. shop'[r].items = <<>> /\ shop'[r].meso = 0  BY <1>5, <3>1
      <4>2. \A D : <<>> \in Seq(D) OBVIOUS
      <4>3. <<>> \in Seq(DOMAIN left')  BY <4>2
      <4> QED BY <4>1, <4>3 DEF Stall
    <3>2. CASE r # s
      BY <1>1, <1>3, <1>4, <3>2 DEF Stall, Wares
    <3> QED BY <3>1, <3>2
  <2>2. ASSUME NEW u \in Threads PROVE Task(u)'
    <3>1. Task(u)  BY <1>1 DEF Wares
    <3> QED BY <1>3, <3>1 DEF Task
  <2> QED BY <1>1, <1>3, <2>1, <2>2 DEF Wares
<1>9. ASSUME Settled PROVE Settled'
  <2>1. ASSUME NEW r \in Hired' PROVE EmptiedAt(r)'
    <3>1. CASE r = s
      BY <1>5, <3>1 DEF EmptiedAt
    <3>2. CASE r # s
      <4>1. r \in Hired /\ EmptiedAt(r)  BY <1>4, <1>9, <3>2 DEF Settled
      <4>2. \A u : Clears(u, r)' <=> Clears(u, r)  BY <1>3 DEF Clears
      <4> QED BY <1>4, <4>1, <4>2 DEF EmptiedAt
    <3> QED BY <3>1, <3>2
  <2>2. ASSUME NEW r \in Hired' PROVE FoundAt(r)'
    <3>1. CASE r = s
      BY <1>5, <3>1 DEF FoundAt
    <3>2. CASE r # s
      BY <1>3, <1>4, <1>9, <3>2 DEF Settled, FoundAt, InIndex
    <3> QED BY <3>1, <3>2
  <2>3. ASSUME NEW r \in Hired' PROVE OwnedAt(r)'
    <3>1. CASE r = s
      <4>1. \A u \in Threads : ~Shuts(u, s)'  BY <1>3, <1>6 DEF Shuts
      <4> QED BY <1>5, <3>1, <4>1 DEF OwnedAt
    <3>2. CASE r # s
      <4>1. r \in Hired /\ OwnedAt(r) /\ r # None
        BY <1>1, <1>4, <1>9, <3>2 DEF Settled, Types, Listing
      <4>2. \A u : Shuts(u, r)' <=> Shuts(u, r)  BY <1>3 DEF Shuts
      <4>3. at[shop[r].owner] = r => at'[shop[r].owner] = r
        <5>1. PICK w \in Owners : w = shop[r].owner
          BY <1>1, <4>1 DEF Types, ShopAt
        <5>2. w \in Players  BY DEF Players
        <5>3. CASE w = o
          BY <1>2, <4>1, <5>1, <5>3 DEF Creates
        <5>4. CASE w # o
          BY <1>1, <1>2, <5>1, <5>2, <5>4 DEF Types, Creates
        <5> QED BY <5>3, <5>4
      <4> QED BY <1>4, <4>1, <4>2, <4>3 DEF OwnedAt
    <3> QED BY <3>1, <3>2
  <2>4. ASSUME NEW q \in Owners PROVE LoadingAt(q)'
    <3>1. LoadingAt(q)  BY <1>9 DEF Settled
    <3>2. ASSUME ~HasMerchant(q) PROVE ~HasMerchant(q)'
      BY <1>1, <1>3, <1>4, <3>2 DEF HasMerchant, Indexed
    <3> QED BY <1>3, <3>1, <3>2 DEF LoadingAt
  <2>5. ASSUME NEW u \in Threads PROVE DealingAt(u)'
    <3>1. DealingAt(u) /\ PcAt(u)  BY <1>1, <1>9 DEF Settled, Types
    <3>2. CASE pc[u].s \in Hired
      <4>1. PICK r \in Hired : r = pc[u].s
        BY <3>2
      <4>2. shop'[r] = shop[r] /\ (Live(r)' <=> Live(r))  BY <1>4, <1>7
      <4> QED BY <1>3, <3>1, <4>1, <4>2 DEF DealingAt, Live, Stored, Doing
    <3>3. CASE pc[u].s \notin Hired
      <4>1. pc[u].op \notin Busy  BY <3>1, <3>3 DEF PcAt
      <4> QED BY <1>3, <4>1 DEF DealingAt, Busy
    <3> QED BY <3>2, <3>3
  <2> QED BY <2>1, <2>2, <2>3, <2>4, <2>5 DEF Settled
<1>10. ASSUME NEW home, NEW low, Account(home, low) PROVE Account(home, low)'
  <2>1. home \in [DOMAIN left -> Hired] /\ low \in [DOMAIN left -> Int] /\ AtHome(home) /\ Enough(low)
    BY <1>10 DEF Account
  <2>2. home \in [DOMAIN left' -> Hired'] /\ low \in [DOMAIN left' -> Int]
    BY <1>3, <1>4, <2>1
  <2>3. AtHome(home)'
    <3>1. ASSUME NEW r \in Hired', NEW l \in ToSet(shop'[r].items) PROVE home[l] = r
      <4>1. r # s  BY <1>5, <3>1 DEF ToSet
      <4> QED BY <1>4, <2>1, <3>1, <4>1 DEF AtHome
    <3> QED BY <1>3, <2>1, <3>1 DEF AtHome
  <2>4. ASSUME NEW l \in DOMAIN left PROVE Covered(l, home[l], low[l])'
    <3>1. PICK r \in Hired : r = home[l]
      BY <2>1
    <3>2. PICK k : k = low[l] OBVIOUS
    <3>3. Covered(l, r, k)  BY <1>10, <3>1, <3>2 DEF Account
    <3>4. Debt(l)' = Debt(l)  BY <1>3 DEF Debt, Owed
    <3>5. Value(l, r)' = Value(l, r)  BY <1>3, <1>4 DEF Value, OnList, BeingTaken
    <3>6. Covered(l, r, k)'  BY <1>3, <1>7, <3>3, <3>4, <3>5 DEF Covered
    <3> QED BY <3>1, <3>2, <3>6
  <2>5. Enough(low)'
    <3>1. AllOf(low)' = AllOf(low)  BY <1>3 DEF AllOf, Unclaimed
    <3> QED BY <1>3, <2>1, <3>1 DEF Enough
  <2> QED BY <1>3, <2>2, <2>3, <2>4, <2>5 DEF Account
<1>11. ASSUME Neat PROVE Neat'
  <2>1. ASSUME NEW u \in Threads PROVE NeatAt(u)'
    <3>1. NeatAt(u) /\ PcAt(u)  BY <1>1, <1>11 DEF Neat, Types
    <3>2. ASSUME pc[u].op \in Busy PROVE Untouched(pc[u].s)
      <4>1. PICK r \in Hired : r = pc[u].s
        BY <3>1, <3>2 DEF PcAt
      <4>2. Untouched(r)  BY <1>3, <1>4, <1>7 DEF Untouched
      <4> QED BY <4>1, <4>2
    <3> QED BY <1>3, <3>1, <3>2, NeatStays
  <2> QED BY <1>3, <1>11, <2>1 DEF Neat
<1>12. ASSUME Coined PROVE Coined'
  <2>1. PICK f : f = [r \in Hired \cup {s} |-> Till(r)'] OBVIOUS
  <2>2. IsFiniteSet(Hired)  BY <1>1, Finite
  <2>3. \A r \in Hired : Till(r)' = Till(r) /\ Till(r) \in Int
    <3> TAKE r \in Hired
    <3>1. \A u : Empties(u, r)' <=> Empties(u, r)  BY <1>3 DEF Empties
    <3>2. Till(r)' = Till(r)  BY <1>4, <1>7, <3>1, TillIs, TillIsNext
    <3>3. shop[r].meso \in Int  BY <1>1 DEF Wares, Stall
    <3> QED BY <3>2, <3>3, TillIs
  <2>4. Till(s)' = 0  BY <1>5, TillIsNext
  <2>5. Tills' = Sum(f, Hired \cup {s})  BY <1>4, <2>1 DEF Tills
  <2>6. f[s] = 0 /\ \A r \in Hired : f[r] \in Int  BY <2>1, <2>3, <2>4
  <2>7. Sum(f, Hired \cup {s}) = Sum(f, Hired) + 0 /\ Sum(f, Hired) \in Int
    <3>1. s \notin Hired /\ f[s] \in Int  BY <1>4, <2>6
    <3> QED BY <2>2, <2>6, <3>1, SumMember
  <2>8. Sum(f, Hired) = Tills
    <3>1. PICK g : g = [r \in Hired |-> Till(r)] OBVIOUS
    <3>2. \A r \in Hired : g[r] = f[r]  BY <2>1, <2>3, <3>1
    <3>3. Sum(g, Hired) = Sum(f, Hired)  BY <2>2, <2>6, <3>2, SumSame
    <3> QED BY <3>1, <3>3 DEF Tills
  <2>9. Tills' = Tills  BY <2>5, <2>7, <2>8
  <2>10. AllMesos' = AllMesos
    <3>1. Unclaimed("meso")' = Unclaimed("meso")  BY <1>3, UnclaimedStays
    <3>2. AllMesos' = Sum(purse', Players) + Tills' + Unclaimed("meso")'
      BY DEF AllMesos, Tills
    <3> QED BY <1>3, <2>9, <3>1, <3>2, MesosAre
  <2> QED BY <1>12, <2>10 DEF Coined
<1>13. ASSUME lapses' = {} PROVE Settled' /\ (\E home, low : Account(home, low)') /\ (~overlapped' => Neat' /\ Coined')
  <2>1. lapses = {}  BY <1>3, <1>13
  <2>2. Settled /\ (\E home, low : Account(home, low)) /\ (~overlapped => Neat /\ Coined)
    BY <2>1 DEF KInv
  <2>3. Settled'  BY <1>9, <2>2
  <2>4. \E home, low : Account(home, low)'  BY <1>10, <2>2
  <2>5. ~overlapped' => Neat' /\ Coined'  BY <1>3, <1>11, <1>12, <2>2
  <2> QED BY <2>3, <2>4, <2>5
<1> QED BY <1>8, <1>13 DEF KInv

-----------------------------------------------------------------------------
(* The invariant of Kept, and the theorem.                                  *)

\* Before the first merchant the goods are in the owners' bags.
LEMMA InitKInv == ASSUME AccountsAssumption, Init PROVE KInv
<1>1. /\ shop = <<>> /\ left = <<>> /\ Hired = {} /\ DOMAIN left = {}
      /\ index = <<>> /\ overlapped = FALSE
      /\ bag = [p \in Players |-> IF p \in Owners THEN Stock ELSE 0]
      /\ purse = [p \in Players |-> IF p \in Buyers THEN Coins ELSE 0]
      /\ package = [o \in Owners |-> None]
  BY DEF Init, Hired
<1>2. \A t \in Threads : pc[t] = Idle  BY DEF Init
<1>3. \A t \in Threads : pc[t].op = "idle" /\ pc[t].l = 0 /\ pc[t].n = 0 /\ pc[t].v = 0
  BY <1>2 DEF Idle
<1>4. Stock \in Int /\ Coins \in Int  BY DEF BoundsAssumption
<1>5. IsFiniteSet(Owners) /\ IsFiniteSet(Buyers) /\ IsFiniteSet(Players)
  BY FS_Union DEF Players, AccountsAssumption
<1>6. Wares
  <2>1. left \in Seq(Int)  BY <1>1
  <2>2. bag \in [Players -> Int] /\ purse \in [Players -> Int]  BY <1>1, <1>4
  <2>3. package \in [Owners -> Row]  BY <1>1 DEF Row
  <2>4. \A t \in Threads : Task(t)  BY <1>3 DEF Task
  <2> QED BY <1>1, <2>1, <2>2, <2>3, <2>4 DEF Wares
<1>7. Settled
  <2>1. \A o \in Owners : LoadingAt(o)
    <3> TAKE o \in Owners
    <3>1. o \in Threads  BY DEF Threads, Players
    <3> QED BY <1>3, <3>1 DEF LoadingAt
  <2>2. \A t \in Threads : DealingAt(t)  BY <1>3 DEF DealingAt
  <2> QED BY <1>1, <2>1, <2>2 DEF Settled
<1>8. Unclaimed("goods") = 0 /\ Unclaimed("meso") = 0
  <2>1. ASSUME NEW field PROVE Unclaimed(field) = 0
    <3>1. PICK f : f = [o \in Owners |-> IF package[o] = None THEN 0 ELSE package[o][field]]
      OBVIOUS
    <3>2. \A o \in Owners : f[o] = 0  BY <1>1, <3>1
    <3>3. Sum(f, Owners) = 0 * Cardinality(Owners) /\ Cardinality(Owners) \in Nat
      BY <1>5, <3>2, SumConst, FS_CardinalityType
    <3>4. 0 * Cardinality(Owners) = 0  BY <3>3
    <3> QED BY <3>1, <3>3, <3>4 DEF Unclaimed
  <2> QED BY <2>1
<1>9. Sum(bag, Players) = Everything /\ Sum(purse, Players) = Coins * Cardinality(Buyers)
  <2>1. /\ \A p \in Players : bag[p] \in Int /\ purse[p] \in Int
        /\ \A p \in Owners : bag[p] = Stock
        /\ \A p \in Players \ Owners : bag[p] = 0
        /\ \A p \in Buyers : purse[p] = Coins
        /\ \A p \in Players \ Buyers : purse[p] = 0
    BY <1>1, <1>4 DEF Players
  <2>2. Owners \in SUBSET Players /\ Buyers \in SUBSET Players  BY DEF Players
  <2>3. Sum(bag, Players) = Sum(bag, Owners)  BY <1>5, <2>1, <2>2, SumWithin
  <2>4. Sum(purse, Players) = Sum(purse, Buyers)  BY <1>5, <2>1, <2>2, SumWithin
  <2>5. Sum(bag, Owners) = Stock * Cardinality(Owners)  BY <1>4, <1>5, <2>1, SumConst
  <2>6. Sum(purse, Buyers) = Coins * Cardinality(Buyers)  BY <1>4, <1>5, <2>1, SumConst
  <2> QED BY <2>3, <2>4, <2>5, <2>6 DEF Everything
<1>10. Everything \in Nat /\ Coins * Cardinality(Buyers) \in Int
  <2>1. Cardinality(Buyers) \in Int  BY <1>5, FS_CardinalityType
  <2> QED BY <1>4, <2>1, EverythingType
<1>11. Account(<<>>, <<>>)
  <2>1. \A D : D = {} => <<>> \in [{} -> D] /\ <<>> \in [{} -> Int] OBVIOUS
  <2>2. <<>> \in [DOMAIN left -> Hired] /\ <<>> \in [DOMAIN left -> Int]  BY <1>1, <2>1
  <2>3. AtHome(<<>>)  BY <1>1, <1>3 DEF AtHome
  <2>4. Sum(<<>>, DOMAIN left) = 0
    <3>1. PICK f : f = <<>> OBVIOUS
    <3>2. Sum(f, {}) = 0  BY FS_EmptySet, SumParts
    <3> QED BY <1>1, <3>1, <3>2
  <2>5. AllOf(<<>>) = Everything  BY <1>8, <1>9, <1>10, <2>4 DEF AllOf
  <2>6. Enough(<<>>)  BY <1>10, <2>5 DEF Enough
  <2> QED BY <1>1, <2>2, <2>3, <2>6 DEF Account
<1>12. Neat  BY <1>1, <1>3 DEF Neat, NeatAt, Busy
<1>13. Coined
  <2>1. Tills = 0
    <3>1. PICK f : f = [s \in Hired |-> Till(s)] OBVIOUS
    <3>2. Sum(f, {}) = 0  BY FS_EmptySet, SumParts
    <3> QED BY <1>1, <3>1, <3>2 DEF Tills
  <2>2. AllMesos = Coins * Cardinality(Buyers)  BY <1>8, <1>9, <1>10, <2>1, MesosAre
  <2> QED BY <2>2 DEF Coined
<1> QED BY <1>6, <1>7, <1>11, <1>12, <1>13 DEF KInv

\* A step of none of the operations.
LEMMA StutterKeeps ==
    ASSUME KInv, UNCHANGED vars
    PROVE  KInv'
<1>1. /\ shop' = shop /\ left' = left /\ index' = index /\ at' = at /\ bag' = bag /\ purse' = purse
      /\ package' = package /\ pc' = pc /\ overlapped' = overlapped /\ lapses' = lapses
      /\ Hired' = Hired
  BY DEF vars, Hired
<1>2. \A s : (Live(s)' <=> Live(s)) /\ (InIndex(s)' <=> InIndex(s)) /\ (Stall(s)' <=> Stall(s))
  BY <1>1 DEF Live, Stored, Doing, InIndex, Stall
<1>3. \A t, s : (Shuts(t, s)' <=> Shuts(t, s)) /\ (Clears(t, s)' <=> Clears(t, s))
  BY <1>1 DEF Shuts, Clears
<1>4. Wares'
  <2>1. \A t \in Threads : Task(t)'  BY <1>1 DEF KInv, Wares, Task
  <2> QED BY <1>1, <1>2, <2>1 DEF KInv, Wares
<1>5. ASSUME Settled PROVE Settled'
  <2>1. \A s \in Hired : EmptiedAt(s)' /\ FoundAt(s)' /\ OwnedAt(s)'
    BY <1>1, <1>2, <1>3, <1>5 DEF Settled, EmptiedAt, FoundAt, OwnedAt
  <2>2. \A o \in Owners : LoadingAt(o)'  BY <1>1, <1>5 DEF Settled, LoadingAt, HasMerchant
  <2>3. \A t \in Threads : DealingAt(t)'
    <3> TAKE t \in Threads
    <3>1. DealingAt(t)  BY <1>5 DEF Settled
    <3>2. PICK q : q = pc[t] OBVIOUS
    <3>3. q = pc'[t] /\ (Live(q.s)' <=> Live(q.s))  BY <1>1, <1>2, <3>2
    <3> QED BY <1>1, <3>1, <3>2, <3>3 DEF DealingAt, Live, Stored, Doing
  <2> QED BY <1>1, <2>1, <2>2, <2>3 DEF Settled
<1>6. ASSUME NEW home, NEW low, Account(home, low) PROVE Account(home, low)'
  <2>1. \A l, s : Debt(l)' = Debt(l) /\ Value(l, s)' = Value(l, s)
    BY <1>1 DEF Debt, Owed, Value, OnList, BeingTaken
  <2>2. \A l, s, k : Covered(l, s, k) => Covered(l, s, k)'  BY <1>1, <1>2, <2>1 DEF Covered
  <2>3. AtHome(home)'  BY <1>1, <1>6 DEF Account, AtHome
  <2>4. Enough(low)'  BY <1>1, <1>6 DEF Account, Enough, AllOf, Unclaimed
  <2>5. \A l \in DOMAIN left : Covered(l, home[l], low[l])'
    <3> TAKE l \in DOMAIN left
    <3>1. PICK s, k : s = home[l] /\ k = low[l] OBVIOUS
    <3>2. Covered(l, s, k)  BY <1>6, <3>1 DEF Account
    <3>3. Covered(l, s, k)'  BY <2>2, <3>2
    <3> QED BY <3>1, <3>3
  <2> QED BY <1>1, <1>6, <2>3, <2>4, <2>5 DEF Account
<1>7. ASSUME Neat PROVE Neat'
  <2>1. ASSUME NEW t \in Threads PROVE NeatAt(t)'
    <3>1. NeatAt(t) /\ pc'[t] = pc[t]  BY <1>1, <1>7 DEF Neat
    <3>2. Untouched(pc[t].s)  BY <1>1, <1>2 DEF Untouched
    <3> QED BY <3>1, <3>2, NeatStays
  <2> QED BY <1>1, <1>7, <2>1 DEF Neat
<1>8. ASSUME Coined PROVE Coined'
  BY <1>1, <1>8 DEF Coined, AllMesos, Till, Unclaimed, Stored, Doing, Hired
<1> QED BY <1>1, <1>4, <1>5, <1>6, <1>7, <1>8 DEF KInv

\* The account holds after every step.
LEMMA StepKInv ==
    ASSUME IInv, KInv, AccountsAssumption, [Next]_vars
    PROVE  KInv'
<1>0. Types  BY DEF IInv, Orderly
<1>1. ASSUME NEW o \in Owners, Owner(o) PROVE KInv'
  <2>0. o \in Threads  BY DEF Threads, Players
  <2>1. CASE AskPackage(o) \/ AskMerchant(o)
    BY <2>1, AskingKeeps
  <2>2. CASE Create(o)
    BY <2>2, CreateKeeps
  <2>3. CASE Open(o)
    BY <2>3, OpenKeeps
  <2>4. CASE Reopen(o)
    BY <2>0, <2>4, DoorsKeep
  <2>5. CASE TakenBack(o)
    BY <2>5, TakenBackKeeps
  <2>6. CASE Withdraw(o)
    BY <2>6, WithdrawKeeps
  <2>7. CASE Withdrawn(o)
    BY <2>7, WithdrawnKeeps
  <2>8. CASE Close(o)
    BY <2>0, <2>8, ClosingsKeep
  <2>9. CASE Disconnect(o)
    <3>1. CASE shop[at[o]].avail
      BY <2>0, <2>9, <3>1, DoorsKeep
    <3>2. CASE ~shop[at[o]].avail
      BY <2>0, <2>9, <3>2, ClosingsKeep
    <3> QED BY <3>1, <3>2
  <2>10. CASE Load(o)
    BY <2>10, LoadKeeps
  <2>11. CASE Claim(o)
    BY <2>11, ClaimKeeps
  <2>12. CASE \E s \in Hired : Enter(o, s)
    BY <2>0, <2>12, DoorsKeep
  <2>13. CASE \E n \in 1 .. Stock : Put(o, n)
    BY <2>13, PutUpKeeps
  <2>14. CASE \E i \in 1 .. MaxListings : TakeBack(o, i)
    BY <2>14, TakeBackKeeps
  <2> QED
    BY <1>1, <2>1, <2>2, <2>3, <2>4, <2>5, <2>6, <2>7, <2>8, <2>9, <2>10, <2>11, <2>12, <2>13, <2>14
    DEF Owner
<1>2. ASSUME NEW b \in Buyers, Buyer(b) PROVE KInv'
  <2>0. b \in Threads  BY DEF Threads, Players
  <2>1. CASE StepIn(b)
    BY <2>0, <2>1, DoorsKeep
  <2>2. CASE Handed(b)
    BY <2>2, HandedKeeps
  <2>3. CASE CountDown(b)
    BY <2>3, CountDownKeeps
  <2>4. CASE Paid(b)
    BY <2>4, PaidKeeps
  <2>5. CASE \E s \in Hired : Knock(b, s)
    BY <2>0, <2>5, DoorsKeep
  <2>6. CASE \E i \in 1 .. MaxListings, n \in 1 .. Coins : Buy(b, i, n)
    BY <2>6, BuyKeeps
  <2> QED BY <1>2, <2>1, <2>2, <2>3, <2>4, <2>5, <2>6 DEF Buyer
<1>3. ASSUME NEW p \in Players, Leave(p) PROVE KInv'
  <2>1. p \in Threads  BY DEF Threads
  <2>2. CASE shop[at[p]].avail
    BY <1>3, <2>1, <2>2, DoorsKeep
  <2>3. CASE ~shop[at[p]].avail
    BY <1>3, <2>3, LeaveEarlyKeeps
  <2> QED BY <2>2, <2>3
<1>4. ASSUME NEW t \in Threads, Closing(t) PROVE KInv'
  BY <1>4, SaveKeeps, ClearKeeps, StrikeKeeps DEF Closing
<1>5. ASSUME NEW s \in Hired, Ring(s) PROVE KInv'
  <2>1. s \in Threads  BY <1>0 DEF Types, Listing, Threads, Alarms, Shops
  <2> QED BY <1>5, <2>1, ClosingsKeep
<1>6. CASE CloseAll
  <2>1. Console \in Threads  BY DEF Threads
  <2> QED BY <1>6, <2>1, ClosingsKeep
<1>7. CASE UNCHANGED vars
  BY <1>7, StutterKeeps
<1> QED BY <1>1, <1>2, <1>3, <1>4, <1>5, <1>6, <1>7 DEF Next

\* At every state of every run the goods are accounted for.
THEOREM Accounted == Spec => [](IInv /\ KInv)
<1>1. Init => IInv /\ KInv  BY InitIInv, InitKInv, AccountsAssumption
<1>2. (IInv /\ KInv) /\ [Next]_vars => (IInv /\ KInv)'
  BY StepIInv, StepKInv, AccountsAssumption
<1> QED BY <1>1, <1>2, PTL DEF Spec

\* What buyers hold of the goods G of s is what is owed of each.
LEMMA HandedOut ==
    ASSUME Types, Wares, AccountsAssumption, NEW home, AtHome(home), NEW s \in Hired,
           NEW G \in SUBSET DOMAIN left, \A l \in DOMAIN left : l \in G <=> home[l] = s,
           NEW a, \A l \in G : a[l] = Debt(l)
    PROVE  /\ Sum([t \in Threads |-> pc[t].n], Doing("handed", s)) = Sum(a, G)
           /\ Sum(a, G) \in Int
<1>1. IsFiniteSet(Threads) /\ IsFiniteSet(G)  BY Finite, GoodsFinite, FS_Subset
<1>2. PICK f : f = [t \in Threads |-> pc[t].n] OBVIOUS
<1>3. PICK X : X = Doing("handed", s) OBVIOUS
<1>4. X \in SUBSET Threads /\ \A t \in Threads : t \in X <=> pc[t].op = "handed" /\ pc[t].s = s
  BY <1>3 DEF Doing
<1>5. IsFiniteSet(X)  BY <1>1, <1>4, FS_Subset
<1>6. \A t \in Threads : f[t] \in Int  BY <1>2 DEF Wares, Task
<1>7. PICK k : k = [t \in Threads |-> pc[t].l] OBVIOUS
<1>8. \A t \in X : k[t] \in G
  <2> TAKE t \in X
  <2>1. pc[t].l \in DOMAIN left  BY <1>4 DEF Wares, Task
  <2>2. home[pc[t].l] = s  BY <1>4 DEF AtHome
  <2> QED BY <1>4, <1>7, <2>1, <2>2
<1>9. PICK C : C = [l \in G |-> {t \in X : k[t] = l}] OBVIOUS
<1>10. \A l \in G : C[l] \in SUBSET X /\ \A t \in X : t \in C[l] <=> k[t] = l  BY <1>9
<1>11. \A l \in G : a[l] = Sum(f, C[l])
  <2> TAKE l \in G
  <2>1. PICK w : w = [t \in Threads |-> Owed(t, l)] OBVIOUS
  <2>2. PICK c \in SUBSET Threads : c = C[l]
    BY <1>4, <1>10
  <2>3. \A t \in Threads : t \in c <=> pc[t].op = "handed" /\ pc[t].l = l
    <3> TAKE t \in Threads
    <3>1. ASSUME pc[t].op = "handed", pc[t].l = l PROVE pc[t].s = s
      BY <3>1 DEF AtHome
    <3>2. t \in c <=> t \in X /\ pc[t].l = l  BY <1>7, <1>9, <2>2, <1>4
    <3> QED BY <1>4, <3>1, <3>2
  <2>4. \A t \in Threads : w[t] \in Int  BY <2>1, DebtIs
  <2>5. \A t \in c : f[t] = w[t]  BY <1>2, <2>1, <2>3 DEF Owed
  <2>6. \A t \in Threads \ c : w[t] = 0  BY <2>1, <2>3 DEF Owed
  <2>7. Sum(w, Threads) = Sum(f, c)  BY <1>1, <2>4, <2>5, <2>6, SumWithin
  <2>8. a[l] = Sum(w, Threads)  BY <2>1 DEF Debt
  <2> QED BY <2>2, <2>7, <2>8
<1>12. \A t \in X : f[t] \in Int  BY <1>4, <1>6
<1>13. Sum(a, G) = Sum(f, X)  BY <1>1, <1>5, <1>8, <1>10, <1>11, <1>12, SumGroups
<1>14. Sum(f, X) \in Int  BY <1>5, <1>12, SumInt
<1> QED BY <1>2, <1>3, <1>13, <1>14

\* What the owner of s is taking back.
LEMMA TakenOut ==
    ASSUME Types, Wares, Settled, AccountsAssumption, NEW home, AtHome(home), NEW s \in Hired,
           NEW G \in SUBSET DOMAIN left, \A l \in DOMAIN left : l \in G <=> home[l] = s,
           NEW a, \A l \in G : a[l] = IF BeingTaken(l) THEN left[l] ELSE 0
    PROVE  /\ Sum([t \in Threads |-> IF pc[t].l = 0 THEN 0 ELSE left[pc[t].l]], Doing("takeback", s))
                = Sum(a, G)
           /\ Sum(a, G) \in Int
<1>1. IsFiniteSet(G) /\ G \subseteq Nat \ {0}  BY GoodsFinite, FS_Subset
<1>2. PICK f : f = [t \in Threads |-> IF pc[t].l = 0 THEN 0 ELSE left[pc[t].l]]
  OBVIOUS
<1>3. PICK X : X = Doing("takeback", s) OBVIOUS
<1>4. X \in SUBSET Threads /\ \A t \in Threads : t \in X <=> pc[t].op = "takeback" /\ pc[t].s = s
  BY <1>3 DEF Doing
<1>5. PICK o : o = shop[s].owner OBVIOUS
<1>6. \A t \in X : t = o  BY <1>4, <1>5 DEF Settled, DealingAt
<1>7. \A t \in X : pc[t].l \in G  BY <1>4 DEF Wares, Task, AtHome
<1>8. \A l \in G : BeingTaken(l) => o \in X /\ pc[o].l = l
  <2> SUFFICES ASSUME NEW l \in G, BeingTaken(l) PROVE o \in X /\ pc[o].l = l
    OBVIOUS
  <2>1. PICK t \in Threads : pc[t].op = "takeback" /\ pc[t].l = l
    BY DEF BeingTaken
  <2>2. pc[t].s = s  BY <2>1 DEF AtHome
  <2> QED BY <1>4, <1>6, <2>1, <2>2
<1>9. \A l \in G : left[l] \in Int  BY DEF Wares
<1>10. \A l \in G : a[l] \in Int  BY <1>9
<1>11. Sum(a, G) \in Int  BY <1>1, <1>10, SumInt
<1>12. CASE X = {}
  <2>1. \A l \in G : a[l] = 0  BY <1>8, <1>12
  <2>2. Sum(a, G) = 0 * Cardinality(G) /\ Cardinality(G) \in Nat
    BY <1>1, <2>1, SumConst, FS_CardinalityType
  <2>3. Sum(f, {}) = 0  BY FS_EmptySet, SumParts
  <2> QED
    <3>1. PICK c \in Nat : c = Cardinality(G)
      BY <2>2
    <3>2. Sum(a, G) = 0  BY <2>2, <3>1
    <3>3. Sum(f, X) = 0  BY <1>12, <2>3
    <3> QED BY <1>2, <1>3, <3>2, <3>3
<1>13. CASE X # {}
  <2>1. X = {o} /\ o \in Threads  BY <1>4, <1>6, <1>13
  <2>2. PICK l \in G : l = pc[o].l
    BY <1>7, <2>1
  <2>3. BeingTaken(l)  BY <1>4, <2>1, <2>2 DEF BeingTaken
  <2>4. a[l] = left[l] /\ f[o] = left[l] /\ left[l] \in Int
    BY <1>1, <1>2, <1>9, <2>1, <2>2, <2>3
  <2>5. \A x \in G \ {l} : a[x] = 0  BY <1>8, <2>2
  <2>6. Sum(a, G) = Sum(a, {l})
    <3>1. {l} \in SUBSET G OBVIOUS
    <3>2. \A x \in {l} : a[x] = a[x] OBVIOUS
    <3> QED BY <1>1, <1>10, <2>5, <3>1, <3>2, SumWithin
  <2>7. Sum(a, {l}) = a[l] /\ Sum(f, {o}) = f[o]  BY <2>4, SumOne
  <2> QED BY <1>2, <1>3, <1>11, <2>1, <2>4, <2>6, <2>7
<1> QED BY <1>12, <1>13

\* What s holds of the goods G, which are its own.
LEMMA HeldOf ==
    ASSUME Types, Wares, AccountsAssumption, NEW home, AtHome(home), NEW s \in Hired,
           NEW G \in SUBSET DOMAIN left, \A l \in DOMAIN left : l \in G <=> home[l] = s,
           NEW a, \A l \in G : a[l] = Held(l, s)
    PROVE  Holding(s) = Sum(a, G) /\ Sum(a, G) \in Int
<1>1. PICK f : f = [l \in DOMAIN left |-> Held(l, s)] OBVIOUS
<1>2. Holding(s) = Sum(f, DOMAIN left) /\ \A l \in DOMAIN left : f[l] \in Int
  BY <1>1, HoldingIs
<1>3. IsFiniteSet(DOMAIN left)  BY GoodsFinite
<1>4. \A l \in DOMAIN left \ G : f[l] = 0  BY <1>1 DEF AtHome, Held, OnList
<1>5. \A l \in G : a[l] = f[l]  BY <1>1
<1>6. PICK D : D = DOMAIN left OBVIOUS
<1>7. Sum(f, D) = Sum(a, G)  BY <1>2, <1>3, <1>4, <1>5, <1>6, SumWithin
<1>8. Sum(f, D) \in Int  BY <1>2, <1>3, <1>6, SumInt
<1> QED BY <1>2, <1>6, <1>7, <1>8
\* What can still be had of a good is what is held of it, less what others have already.
LEMMA HadOf ==
    ASSUME Types, Wares, Settled, AccountsAssumption, NEW home, NEW low, Account(home, low),
           NEW s \in Hired, Live(s), NEW l \in DOMAIN left, home[l] = s,
           NEW h, h = Held(l, s), NEW b, b = IF BeingTaken(l) THEN left[l] ELSE 0,
           NEW a, a = Debt(l)
    PROVE  /\ h \in Int /\ b \in Int /\ a \in Int /\ low[l] \in Int
           /\ low[l] + a + b <= h
           /\ ~overlapped /\ Neat => low[l] + a + b = h
<1>1. PICK w : w = Value(l, s) OBVIOUS
<1>2. PICK k : k = low[l] OBVIOUS
<1>3. PICK v : v = left[l] OBVIOUS
<1>4. /\ k \in Int /\ a \in Int /\ w \in Int /\ k + a <= w /\ (~overlapped => k + a = w)
  BY <1>1, <1>2, CoverIs
<1>5. v \in Int /\ h \in Int /\ (Neat => v >= 0)
  <2>1. v \in Int  BY <1>3 DEF Wares
  <2>2. h \in Int  BY HoldingIs
  <2>3. Neat => v >= 0  BY <1>3 DEF Neat
  <2> QED BY <2>1, <2>2, <2>3
<1>6. CASE BeingTaken(l)
  <2>1. PICK t \in Threads : pc[t].op = "takeback" /\ pc[t].l = l
    BY <1>6 DEF BeingTaken
  <2>2. pc[t].s = s  BY <2>1 DEF Account, AtHome
  <2>3. pc[t].n \in DOMAIN shop[s].items /\ shop[s].items[pc[t].n] = l
    BY <2>1, <2>2 DEF Settled, DealingAt
  <2>4. OnList(l, s)  BY <2>3 DEF OnList, ToSet
  <2>5. h = Positive(v) /\ w = 0 /\ b = v  BY <1>1, <1>3, <1>6, <2>4 DEF Held, Value
  <2> QED BY <1>2, <1>4, <1>5, <2>5 DEF Positive
<1>7. CASE ~BeingTaken(l)
  <2>1. h = w /\ b = 0  BY <1>1, <1>7 DEF Held, Value
  <2> QED BY <1>2, <1>4, <1>5, <2>1
<1> QED BY <1>6, <1>7

\* What is on sale at s is at least, and without overlaps is, what can still be had.
LEMMA OnSaleIs ==
    ASSUME Types, Wares, Settled, AccountsAssumption, NEW home, NEW low, Account(home, low),
           NEW s \in Hired, NEW G \in SUBSET DOMAIN left,
           \A l \in DOMAIN left : l \in G <=> home[l] = s
    PROVE  /\ OnSale(s) \in Int /\ Sum(low, G) \in Int /\ Sum(low, G) <= OnSale(s)
           /\ ~overlapped /\ Neat => OnSale(s) = Sum(low, G)
<1>1. IsFiniteSet(G) /\ AtHome(home) /\ low \in [DOMAIN left -> Int]
  BY GoodsFinite, FS_Subset DEF Account
<1>2. \A l \in G : low[l] \in Int  BY <1>1
<1>3. Sum(low, G) \in Int  BY <1>1, <1>2, SumInt
<1>4. CASE ~Live(s)
  <2>1. OnSale(s) = 0  BY <1>4 DEF OnSale, Live
  <2>2. \A l \in G : low[l] = 0
    <3> TAKE l \in G
    <3>1. Covered(l, s, low[l])  BY DEF Account
    <3> QED BY <1>4, <3>1 DEF Covered
  <2>3. PICK c \in Nat : c = Cardinality(G)
    BY <1>1, FS_CardinalityType
  <2>4. Sum(low, G) = 0 * c  BY <1>1, <2>2, <2>3, SumConst
  <2>5. Sum(low, G) = 0  BY <2>3, <2>4
  <2> QED BY <2>1, <2>5
<1>5. CASE Live(s)
  <2>1. PICK h : h = [l \in G |-> Held(l, s)] OBVIOUS
  <2>2. PICK b : b = [l \in G |-> IF BeingTaken(l) THEN left[l] ELSE 0] OBVIOUS
  <2>3. PICK a : a = [l \in G |-> Debt(l)] OBVIOUS
  <2>4. PICK m : m = [l \in G |-> low[l] + a[l]] OBVIOUS
  <2>5. PICK n : n = [l \in G |-> m[l] + b[l]] OBVIOUS
  <2>6. ASSUME NEW l \in G
        PROVE  /\ h[l] \in Int /\ b[l] \in Int /\ a[l] \in Int
               /\ low[l] + a[l] + b[l] <= h[l]
               /\ ~overlapped /\ Neat => low[l] + a[l] + b[l] = h[l]
    <3>1. PICK hh, bb, aa : hh = h[l] /\ bb = b[l] /\ aa = a[l] OBVIOUS
    <3>2. l \in DOMAIN left /\ home[l] = s OBVIOUS
    <3>3. hh = Held(l, s) /\ bb = (IF BeingTaken(l) THEN left[l] ELSE 0) /\ aa = Debt(l)
      BY <2>1, <2>2, <2>3, <3>1
    <3>4. /\ hh \in Int /\ bb \in Int /\ aa \in Int
          /\ low[l] + aa + bb <= hh
          /\ ~overlapped /\ Neat => low[l] + aa + bb = hh
      BY <1>5, <3>2, <3>3, HadOf
    <3> QED BY <3>1, <3>4
  <2>7. \A l \in G : m[l] \in Int /\ m[l] = low[l] + a[l] /\ n[l] \in Int /\ n[l] = m[l] + b[l]
    BY <1>2, <2>4, <2>5, <2>6
  <2>8. Sum(m, G) = Sum(low, G) + Sum(a, G)  BY <1>1, <1>2, <2>6, <2>7, SumPlus
  <2>9. Sum(n, G) = Sum(m, G) + Sum(b, G)  BY <1>1, <2>6, <2>7, SumPlus
  <2>10. Sum(n, G) <= Sum(h, G)
    <3>1. \A l \in G : n[l] <= h[l]  BY <1>2, <2>6, <2>7
    <3> QED BY <1>1, <2>6, <2>7, <3>1, SumLeq
  <2>11. ASSUME ~overlapped, Neat PROVE Sum(n, G) = Sum(h, G)
    <3>1. \A l \in G : n[l] = h[l]  BY <1>2, <2>6, <2>7, <2>11
    <3> QED BY <1>1, <2>6, <3>1, SumSame
  <2>12. Holding(s) = Sum(h, G) /\ Sum(h, G) \in Int  BY <1>1, <2>1, HeldOf
  <2>13. PICK x \in Int : x = Sum(a, G) /\ x = Sum([t \in Threads |-> pc[t].n], Doing("handed", s))
    BY <1>1, <2>3, HandedOut
  <2>14. PICK y \in Int :
           /\ y = Sum(b, G)
           /\ y = Sum([t \in Threads |-> IF pc[t].l = 0 THEN 0 ELSE left[pc[t].l]], Doing("takeback", s))
    <3>1. \A l \in G : b[l] = IF BeingTaken(l) THEN left[l] ELSE 0  BY <2>2
    <3>2. AtHome(home)  BY <1>1
    <3>3. /\ Sum([t \in Threads |-> IF pc[t].l = 0 THEN 0 ELSE left[pc[t].l]], Doing("takeback", s))
               = Sum(b, G)
          /\ Sum(b, G) \in Int
      BY <3>1, <3>2, TakenOut
    <3> QED BY <3>3
  <2>15. InHand(s) = x + y  BY <2>13, <2>14 DEF InHand
  <2>16. OnSale(s) = Holding(s) - (x + y)  BY <1>5, <2>15 DEF OnSale, Live
  <2>17. PICK z \in Int : z = Sum(low, G)
    BY <1>3
  <2>18. PICK e \in Int : e = Sum(h, G)
    BY <2>12
  <2>19. Sum(n, G) = z + x + y /\ OnSale(s) = e - (x + y)
    BY <2>8, <2>9, <2>12, <2>13, <2>14, <2>16, <2>17, <2>18
  <2>20. z + x + y <= e /\ (~overlapped /\ Neat => z + x + y = e)
    BY <2>10, <2>11, <2>18, <2>19
  <2> QED BY <2>17, <2>19, <2>20
<1> QED BY <1>4, <1>5

\* All that is on sale, by merchants.
LEMMA AllOnSale ==
    ASSUME Types, Wares, Settled, AccountsAssumption, NEW home, NEW low, Account(home, low)
    PROVE  /\ Sum([s \in Hired |-> OnSale(s)], Hired) \in Int
           /\ Sum([s \in Hired |-> OnSale(s)], Hired) >= Sum(low, DOMAIN left)
           /\ ~overlapped /\ Neat =>
                Sum([s \in Hired |-> OnSale(s)], Hired) = Sum(low, DOMAIN left)
<1>1. PICK D : D = DOMAIN left OBVIOUS
<1>2. PICK f : f = [s \in Hired |-> OnSale(s)] OBVIOUS
<1>3. PICK C : C = [s \in Hired |-> {l \in D : home[l] = s}] OBVIOUS
<1>4. PICK g : g = [s \in Hired |-> Sum(low, C[s])] OBVIOUS
<1>5. IsFiniteSet(D) /\ IsFiniteSet(Hired) /\ home \in [D -> Hired] /\ low \in [D -> Int]
  BY <1>1, GoodsFinite, Finite DEF Account
<1>6. \A s \in Hired : C[s] \in SUBSET D /\ \A l \in D : l \in C[s] <=> home[l] = s  BY <1>3
<1>7. Sum(g, Hired) = Sum(low, D)
  <2>1. \A l \in D : low[l] \in Int /\ home[l] \in Hired  BY <1>5
  <2>2. \A s \in Hired : g[s] = Sum(low, C[s])  BY <1>4
  <2> QED BY <1>5, <1>6, <2>1, <2>2, SumGroups
<1>8. ASSUME NEW s \in Hired
      PROVE  f[s] \in Int /\ g[s] \in Int /\ g[s] <= f[s] /\ (~overlapped /\ Neat => f[s] = g[s])
  <2>1. PICK G : G = C[s] OBVIOUS
  <2>2. G \in SUBSET DOMAIN left /\ \A l \in DOMAIN left : l \in G <=> home[l] = s
    BY <1>1, <1>6, <2>1
  <2>3. /\ OnSale(s) \in Int /\ Sum(low, G) \in Int /\ Sum(low, G) <= OnSale(s)
        /\ ~overlapped /\ Neat => OnSale(s) = Sum(low, G)
    BY <2>2, OnSaleIs
  <2> QED BY <1>2, <1>4, <2>1, <2>3
<1>9. Sum(f, Hired) \in Int  BY <1>5, <1>8, SumInt
<1>10. Sum(g, Hired) <= Sum(f, Hired)  BY <1>5, <1>8, SumLeq
<1>11. ASSUME ~overlapped, Neat PROVE Sum(f, Hired) = Sum(g, Hired)
  BY <1>5, <1>8, <1>11, SumSame
<1>12. Sum(g, Hired) \in Int  BY <1>5, <1>8, SumInt
<1> QED BY <1>1, <1>2, <1>7, <1>9, <1>10, <1>11, <1>12

\* Kept: no unit of goods is lost unless an unopened merchant is left, goods are
\* put into a closed one or a package is replaced; none appears, and no meso is
\* lost or made, as long as no two threads are busy with one merchant
\* (HiredMerchant.buy and closeShop, PlayerInteractionHandler's taking back and
\* withdrawing, HiredMerchantHandler's fetching of the package).
THEOREM KeptHolds == Spec => []Kept
<1>1. IInv /\ KInv => Kept
  <2> SUFFICES ASSUME IInv, KInv, lapses = {}
               PROVE  /\ AllGoods >= Everything
                      /\ ~overlapped => AllGoods = Everything /\ Coined
    BY DEF Kept, Everything, Coined
  <2>1. Types /\ Wares /\ Settled /\ (~overlapped => Neat /\ Coined)
    BY DEF IInv, Orderly, KInv
  <2>2. PICK home, low : Account(home, low)
    BY DEF KInv
  <2>3. PICK x : x = Sum([s \in Hired |-> OnSale(s)], Hired) OBVIOUS
  <2>4. PICK y : y = Sum(low, DOMAIN left) OBVIOUS
  <2>5. x \in Int /\ x >= y /\ (~overlapped /\ Neat => x = y)
    BY <2>1, <2>2, <2>3, <2>4, AllOnSale, AccountsAssumption
  <2>6. low \in [DOMAIN left -> Int] /\ Enough(low)  BY <2>2 DEF Account
  <2>7. PICK b, u \in Int : b = Sum(bag, Players) /\ u = Unclaimed("goods")
    BY <2>1, <2>6, AllOfType, AccountsAssumption
  <2>8. y \in Int  BY <2>1, <2>4, <2>6, AllOfType, AccountsAssumption
  <2>9. AllOf(low) = b + y + u /\ AllGoods = b + x + u
    BY <2>3, <2>4, <2>7 DEF AllOf, AllGoods
  <2>10. PICK e \in Nat : e = Everything
    BY EverythingType, AccountsAssumption
  <2>11. b + y + u >= e /\ (~overlapped => b + y + u = e)  BY <2>6, <2>9, <2>10 DEF Enough
  <2>12. b + x + u >= e /\ (~overlapped => b + x + u = e)  BY <2>1, <2>5, <2>7, <2>8, <2>11
  <2> QED BY <2>1, <2>9, <2>10, <2>12
<1> QED BY <1>1, Accounted, PTL

=============================================================================
