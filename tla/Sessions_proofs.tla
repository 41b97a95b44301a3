--------------------------- MODULE Sessions_proofs ---------------------------
EXTENDS Sessions, FiniteSetTheorems, WellFoundedInduction, TLAPS

-----------------------------------------------------------------------------
(* The inductive invariant.                                                 *)

Under == {"loading", "entering", "joining"}
Away == {"moving", "leaving"}
There == {"idle", "joined", "moving"}

Worlds ==
    [cl : [Client -> MapleClient], online : [Place -> [Char -> Client \cup {None}]],
     find : [Char -> Place \cup {None}], state : {0, 1, 2, 5, 6},
     saved : [Char -> 0..MaxPlay]]
Parcels == [Place -> [Char -> Copy \cup {None}]]

\* What a connection can be in the middle of.
Shape(k) ==
    /\ k.player # None =>
         k.server \in Place /\ k.at \notin {"login", "loading", "entering", "gone"}
    /\ k.at \in Under \cup Away \cup {"joined"} => k.carry # None /\ k.server \in Place
    /\ k.at = "moving" => k.server \in Channel
    /\ k.at = "login" => k.server = Login
    /\ k.at \in Away => k.to \in Place
    /\ k.at = "joining" => k.player = k.carry
    /\ k.at \in Away /\ k.player # None => k.player = k.carry

\* Who is in a server has registered there.
Entered(w) == \A p \in Place, c \in Char :
    w.online[p][c] # None => w.cl[w.online[p][c]].at \notin Under

Sound == {w \in Worlds : (\A x \in Client : Shape(w.cl[x])) /\ Entered(w)}

\* A transfer lies under the name of its character.
Addressed(pe) == \A p \in Place, c \in Char : pe[p][c] # None => pe[p][c].chr = c

\* The session of the login server is not a player's connection.
Known == registered # None => cl[registered].server = Login /\ cl[registered].player = None

Usable(t) == t # None /\ t.current
Has(k, c) == k.player # None /\ k.player.chr = c

\* A connection has a character, or is about to get it, or is letting go of it.
Holds(k, c) ==
    \/ Has(k, c)
    \/ k.at \in {"loading", "moving", "leaving"} /\ k.carry.chr = c
    \/ k.at = "entering" /\ k.carry.chr = c /\ k.carry.current

Single(w) == \A a, b \in Client, c \in Char : Holds(w.cl[a], c) /\ Holds(w.cl[b], c) => a = b
OneEntry(w) == \A a, b \in Client : w.cl[a].at \in Under /\ w.cl[b].at \in Under => a = b

\* A transfer with the keys of the account is the only copy of its character, or
\* the handler that left it is not over.
OnlyParcel(w, pe) == \A p \in Place, c \in Char : Usable(pe[p][c]) =>
    /\ \A q \in Place : Usable(pe[q][c]) => q = p
    /\ \A x \in Client : Holds(w.cl[x], c) => w.cl[x].at \in Away
    /\ pe[p][c].ver = played[c]

\* Whoever selects a character makes all copies of it worthless.
Selected(w, pe, ti) == \A c \in ti :
    /\ \A p \in Place : ~Usable(pe[p][c])
    /\ \A x \in Client :
         /\ Has(w.cl[x], c) => ~w.cl[x].player.current
         /\ w.cl[x].at \in {"entering", "moving", "leaving"} /\ w.cl[x].carry.chr = c =>
              ~w.cl[x].carry.current

\* A connection with a character is found ...
Registered(w) == \A x \in Client :
    w.cl[x].player # None /\ w.cl[x].at \in There =>
      /\ w.online[w.cl[x].server][w.cl[x].player.chr] = x
      /\ ~w.cl[x].serverTransition

\* ... and who is found has it, or was kicked out of the cash shop.
FoundAt(w, pe, p, c) == LET k == w.cl[w.online[p][c]] IN
    \/ k.server = p /\ Has(k, c) /\ k.at \in There
    \/ /\ p = Shop /\ k.player = None /\ k.at \notin Under \cup Away
       /\ \A q \in Place : ~Usable(pe[q][c])
Found(w, pe) == \A p \in Place, c \in Char : w.online[p][c] # None =>
    /\ w.find[c] = p
    /\ \A x \in Client : Holds(w.cl[x], c) => x = w.online[p][c]
    /\ FoundAt(w, pe, p, c)

Newest(w) == \A x \in Client :
    /\ w.cl[x].player # None => w.cl[x].player.ver = played[w.cl[x].player.chr]
    /\ w.cl[x].at \in Away \/ (w.cl[x].at = "entering" /\ w.cl[x].carry.current) =>
         w.cl[x].carry.ver = played[w.cl[x].carry.chr]

\* Only who plays a character, or has just left the cash shop, has more of it
\* than the database.
Unsaved(k, c) ==
    \/ k.at = "idle" /\ Has(k, c)
    \/ k.at = "leaving" /\ k.server = Shop /\ k.carry.chr = c
Stored(w) == \A c \in Char :
    /\ w.saved[c] <= played[c]
    /\ w.saved[c] # played[c] => \E x \in Client : Unsaved(w.cl[x], c)

OneListed(w) ==
    /\ \A p, q \in Channel, c, d \in listed :
         w.online[p][c] # None /\ w.online[q][d] # None => c = d
    /\ (\E x \in Client : w.cl[x].at = "joining") =>
         \A p \in Channel, c \in listed : w.online[p][c] = None

Good(w, pe, ti) ==
    /\ Single(w) /\ OneEntry(w) /\ OnlyParcel(w, pe) /\ Selected(w, pe, ti)
    /\ Registered(w) /\ Found(w, pe) /\ Newest(w) /\ Stored(w) /\ OneListed(w)

Orderly == TypeOK /\ World \in Sound /\ Addressed(pending) /\ Known
IInv == Orderly /\ (NoLapse => Good(World, pending, ticket))

-----------------------------------------------------------------------------
(* Kicking: what a fold over the characters of the account keeps.           *)

Pick(s) == CHOOSE x \in s : TRUE

\* A claim about the subsets of a finite set holds if no smallest subset refutes it.
LEMMA Smallest ==
    ASSUME NEW S, IsFiniteSet(S), NEW B \in SUBSET (SUBSET S), B # {}
    PROVE  \E s \in B : \A t \in B : ~(t \subseteq s /\ t # s)
<1>1. B \subseteq FiniteSubsetsOf(S)
  BY FS_FiniteSubsetsOfFinite
<1>2. PICK s \in B : \A t \in B : <<t, s>> \notin StrictSubsetOrdering(S)
  BY <1>1, WFMin, FS_StrictSubsetOrderingWellFounded
<1> QED BY <1>2 DEF StrictSubsetOrdering

\* What each element keeps, a fold over the set keeps.
LEMMA FoldKeeps ==
    ASSUME NEW S, IsFiniteSet(S), NEW W, NEW g, g[{}] \in W,
           \A s \in SUBSET S : s # {} /\ g[s \ {Pick(s)}] \in W => g[s] \in W
    PROVE  g[S] \in W
<1> DEFINE B == {s \in SUBSET S : g[s] \notin W}
<1>1. CASE B = {}
  BY <1>1
<1>2. CASE B # {}
  <2>0. B \in SUBSET (SUBSET S) OBVIOUS
  <2>1. PICK s \in B : \A t \in B : ~(t \subseteq s /\ t # s)
    <3> HIDE DEF B
    <3> QED BY <1>2, <2>0, Smallest
  <2>2. s # {}
    BY <2>1
  <2>3. Pick(s) \in s
    BY <2>2 DEF Pick
  <2>4. s \ {Pick(s)} \notin B
    BY <2>1, <2>3
  <2> QED BY <2>1, <2>2, <2>4
<1> QED BY <1>1, <1>2

\* A fold is defined on the subsets with no more than n elements ...
Partial(g, n, S, W, base, F) ==
    LET D == {t \in SUBSET S : Cardinality(t) <= n}
    IN  /\ g \in [D -> W]
        /\ \A t \in D : g[t] = IF t = {} THEN base ELSE F[Pick(t)][g[t \ {Pick(t)}]]

\* ... and so on all subsets.
IsFold(g, S, W, base, F) ==
    /\ g \in [SUBSET S -> W]
    /\ \A s \in SUBSET S : g[s] = IF s = {} THEN base ELSE F[Pick(s)][g[s \ {Pick(s)}]]

LEMMA FoldExists ==
    ASSUME NEW S, IsFiniteSet(S), NEW W, NEW base \in W, NEW F \in [S -> [W -> W]]
    PROVE  \E g : IsFold(g, S, W, base, F)
<1> DEFINE D(n) == {t \in SUBSET S : Cardinality(t) <= n}
<1> DEFINE B == {s \in SUBSET S : ~ \E g : Partial(g, Cardinality(s), S, W, base, F)}
<1>1. \A t \in SUBSET S : IsFiniteSet(t) /\ Cardinality(t) \in Nat /\ (Cardinality(t) = 0 <=> t = {})
  BY FS_Subset, FS_CardinalityType, FS_EmptySet
<1>2. \A t \in SUBSET S : t # {} =>
         /\ Pick(t) \in t /\ t \ {Pick(t)} \in SUBSET S
         /\ Cardinality(t \ {Pick(t)}) = Cardinality(t) - 1
  <2> SUFFICES ASSUME NEW t \in SUBSET S, t # {}
               PROVE  /\ Pick(t) \in t /\ t \ {Pick(t)} \in SUBSET S
                      /\ Cardinality(t \ {Pick(t)}) = Cardinality(t) - 1
    OBVIOUS
  <2>1. Pick(t) \in t
    BY DEF Pick
  <2> QED BY <2>1, <1>1, FS_RemoveElement
<1>3. B = {}
  <2> SUFFICES ASSUME B # {}
               PROVE  FALSE
    OBVIOUS
  <2>0. B \in SUBSET (SUBSET S) OBVIOUS
  <2>1. PICK s \in B : \A t \in B : ~(t \subseteq s /\ t # s)
    <3> HIDE DEF B
    <3> QED BY <2>0, Smallest
  <2> DEFINE n == Cardinality(s)
  <2>2. s \in SUBSET S /\ n \in Nat
    BY <1>1
  <2>3. CASE s = {}
    <3> DEFINE g == [t \in D(n) |-> base]
    <3>1. \A t \in D(n) : t = {}
      BY <1>1, <2>2, <2>3
    <3>2. Partial(g, n, S, W, base, F)
      BY <3>1 DEF Partial
    <3> QED BY <3>2
  <2>4. CASE s # {}
    <3>1. s \ {Pick(s)} \notin B /\ Cardinality(s \ {Pick(s)}) = n - 1 /\ s \ {Pick(s)} \in SUBSET S
      BY <1>2, <2>1, <2>2, <2>4
    <3>2. PICK f : Partial(f, n - 1, S, W, base, F)
      BY <3>1
    <3> DEFINE g == [t \in D(n) |-> IF t = {} THEN base ELSE F[Pick(t)][f[t \ {Pick(t)}]]]
    <3>3. \A t \in D(n) : t # {} => Pick(t) \in S /\ t \ {Pick(t)} \in D(n - 1)
      <4> SUFFICES ASSUME NEW t \in D(n), t # {}
                   PROVE  Pick(t) \in S /\ t \ {Pick(t)} \in D(n - 1)
        OBVIOUS
      <4>1. Pick(t) \in t /\ t \ {Pick(t)} \in SUBSET S
        BY <1>2
      <4>2. Cardinality(t \ {Pick(t)}) = Cardinality(t) - 1
        BY <1>2
      <4>3. Cardinality(t) \in Nat /\ Cardinality(t) <= n
        BY <1>1
      <4>4. Cardinality(t \ {Pick(t)}) <= n - 1
        BY <4>2, <4>3, <2>2
      <4> QED BY <4>1, <4>4
    <3>4. f \in [D(n - 1) -> W]
      BY <3>2 DEF Partial
    <3>5. g \in [D(n) -> W]
      BY <3>3, <3>4
    <3>6. D(n - 1) \subseteq D(n)
      BY <1>1, <2>2
    <3>7. \A t \in D(n - 1) : g[t] = f[t]
      BY <3>2, <3>6 DEF Partial
    <3>8. \A t \in D(n) : g[t] = IF t = {} THEN base ELSE F[Pick(t)][g[t \ {Pick(t)}]]
      BY <3>3, <3>7
    <3>9. Partial(g, n, S, W, base, F)
      <4> HIDE DEF g
      <4> QED BY <3>5, <3>8 DEF Partial
    <3> QED BY <3>9
  <2> QED BY <2>3, <2>4
<1>4. PICK g : Partial(g, Cardinality(S), S, W, base, F)
  BY <1>3
<1>5. D(Cardinality(S)) = SUBSET S
  BY FS_Subset
<1> QED BY <1>4, <1>5 DEF Partial, IsFold

\* forceRemovePlayer, connection by connection.
Kick(w, h, me) == IF h \in {None, me} THEN w ELSE unLockDisconnect(w, h)
FromChannel(w, p, c, me) ==
    LET h == w.online[p][c]
        k == Kick(w, h, me)
    IN  IF h # None /\ k.online[p][c] = h THEN deregisterPlayer(k, p, c) ELSE k
FromShop(w, c, me) == Kick(w, w.online[Shop][c], me)

\* What every kick keeps, kicking the account's characters keeps.
LEMMA ForceRemoveKeeps ==
    ASSUME NEW W, NEW w0 \in W, NEW me,
           \A w \in W : \A p \in Channel, c \in Char : FromChannel(w, p, c, me) \in W,
           \A w \in W : \A c \in Char : FromShop(w, c, me) \in W
    PROVE  forceRemovePlayer(w0, me) \in W
<1> DEFINE S == Channel \X Char
<1> DEFINE Rec(f) == f = [s \in SUBSET S |-> IF s = {} THEN w0 ELSE
                            LET x == CHOOSE x \in s : TRUE
                            IN  FromChannel(f[s \ {x}], x[1], x[2], me)]
<1> DEFINE g == CHOOSE f : Rec(f)
<1> DEFINE w1 == g[S]
<1> DEFINE Rec2(f) == f = [s \in SUBSET Char |-> IF s = {} THEN w1 ELSE
                             LET x == CHOOSE x \in s : TRUE
                             IN  FromShop(f[s \ {x}], x, me)]
<1> DEFINE g2 == CHOOSE f : Rec2(f)
<1>1. forceRemovePlayer(w0, me) = g2[Char]
  BY DEF forceRemovePlayer, FoldSet, MapThenFoldSet, FromChannel, FromShop, Kick
<1>2. g[S] \in W
  <2>9. \A x \in S : x[1] \in Channel /\ x[2] \in Char OBVIOUS
  <2> DEFINE F == [x \in S |-> [w \in W |-> FromChannel(w, x[1], x[2], me)]]
  <2>1. F \in [S -> [W -> W]] /\ IsFiniteSet(S)
    BY SessionsAssumption, FS_Product
  <2>2. PICK h : IsFold(h, S, W, w0, F)
    <3> HIDE DEF F, S
    <3> QED BY <2>1, FoldExists
  <2>3. \A s \in SUBSET S : s # {} => Pick(s) \in S
    BY DEF Pick
  <2>4. \A s \in SUBSET S : h[s] = IF s = {} THEN w0 ELSE
          FromChannel(h[s \ {Pick(s)}], Pick(s)[1], Pick(s)[2], me)
    <3> HIDE DEF S
    <3> QED BY <2>2, <2>3, <2>9 DEF IsFold
  <2>5. Rec(h)
    <3> HIDE DEF F, S
    <3> QED BY <2>2, <2>4 DEF Pick, IsFold
  <2>6. Rec(g)
    <3> HIDE DEF Rec
    <3> QED BY <2>5
  <2>7. g[{}] = w0 /\ \A s \in SUBSET S : s # {} =>
          g[s] = FromChannel(g[s \ {Pick(s)}], Pick(s)[1], Pick(s)[2], me)
    <3> HIDE DEF g, S
    <3> QED BY <2>6 DEF Pick
  <2> HIDE DEF g, S
  <2>8. \A s \in SUBSET S : s # {} /\ g[s \ {Pick(s)}] \in W => g[s] \in W
    <3> SUFFICES ASSUME NEW s \in SUBSET S, s # {}, g[s \ {Pick(s)}] \in W
                 PROVE  g[s] \in W
      OBVIOUS
    <3>1. Pick(s)[1] \in Channel /\ Pick(s)[2] \in Char
      BY <2>3, <2>9
    <3>2. g[s] = FromChannel(g[s \ {Pick(s)}], Pick(s)[1], Pick(s)[2], me)
      BY <2>7
    <3> QED BY <3>1, <3>2
  <2> QED BY <2>1, <2>7, <2>8, FoldKeeps
<1>3. g2[Char] \in W
  <2> DEFINE F == [x \in Char |-> [w \in W |-> FromShop(w, x, me)]]
  <2>1. F \in [Char -> [W -> W]] /\ IsFiniteSet(Char)
    BY SessionsAssumption
  <2>2. PICK h : IsFold(h, Char, W, w1, F)
    <3> HIDE DEF F, w1
    <3> QED
      <4>1. w1 \in W
        BY <1>2 DEF w1
      <4> QED BY <2>1, <4>1, FoldExists
  <2>3. \A s \in SUBSET Char : s # {} => Pick(s) \in Char
    BY DEF Pick
  <2>4. \A s \in SUBSET Char : h[s] = IF s = {} THEN w1 ELSE
          FromShop(h[s \ {Pick(s)}], Pick(s), me)
    <3> HIDE DEF w1
    <3> QED BY <2>2, <2>3 DEF IsFold
  <2>5. Rec2(h)
    <3> HIDE DEF F, w1
    <3> QED BY <2>2, <2>4 DEF Pick, IsFold
  <2>6. Rec2(g2)
    <3> HIDE DEF Rec2
    <3> QED BY <2>5
  <2>7. g2[{}] = w1 /\ \A s \in SUBSET Char : s # {} =>
          g2[s] = FromShop(g2[s \ {Pick(s)}], Pick(s), me)
    <3> HIDE DEF g2, w1
    <3> QED BY <2>6 DEF Pick
  <2> HIDE DEF g2, w1
  <2>8. \A s \in SUBSET Char : s # {} /\ g2[s \ {Pick(s)}] \in W => g2[s] \in W
    BY <2>3, <2>7
  <2> QED BY <2>1, <2>7, <2>8, FoldKeeps, <1>2 DEF w1
<1> QED BY <1>1, <1>3

-----------------------------------------------------------------------------
(* What a step does to the connections and the servers, and that the        *)
(* invariant survives it.  w is the state before, v the state after.        *)

USE SessionsAssumption, NoneAssumption

Nobody(k) == k.player = None /\ k.at \notin Under \cup Away
Others(w, v, s) == \A x \in Client \ {s} : v.cl[x] = w.cl[x]
SameMaps(w, v) == v.online = w.online /\ v.find = w.find
SameDoing(k, l) ==
    /\ l.server = k.server /\ l.at = k.at /\ l.player = k.player /\ l.carry = k.carry
    /\ l.to = k.to
Alike(k, l) == \/ SameDoing(k, l) /\ (l.serverTransition => k.serverTransition)
               \/ Nobody(k) /\ Nobody(l)

LEMMA SoundIs ==
    ASSUME NEW w \in Sound
    PROVE  /\ w \in Worlds
           /\ \A x \in Client : w.cl[x] \in MapleClient /\ Shape(w.cl[x])
           /\ \A p \in Place, c \in Char : w.online[p][c] # None => w.online[p][c] \in Client
           /\ \A x \in Client : w.cl[x].player # None =>
                 w.cl[x].player \in Copy /\ w.cl[x].player.chr \in Char /\ w.cl[x].server \in Place
           /\ \A x \in Client : w.cl[x].at \in Under \cup Away =>
                 w.cl[x].carry \in Copy /\ w.cl[x].carry.chr \in Char /\ w.cl[x].server \in Place
<1>1. w \in Worlds /\ \A x \in Client : w.cl[x] \in MapleClient /\ Shape(w.cl[x])
  BY DEF Sound, Worlds
<1>2. \A p \in Place, c \in Char : w.online[p][c] # None => w.online[p][c] \in Client
  BY <1>1 DEF Worlds
<1> QED BY <1>1, <1>2 DEF MapleClient, Shape, Copy

\* Nothing happens to those who have or may get a character.
Quiet(w, v) ==
    /\ v \in Sound /\ SameMaps(w, v) /\ v.saved = w.saved
    /\ \A x \in Client : Alike(w.cl[x], v.cl[x])

LEMMA QuietGood ==
    ASSUME NEW w \in Sound, NEW v, NEW pe, NEW ti \in SUBSET Char, Good(w, pe, ti), Quiet(w, v)
    PROVE  Good(v, pe, ti)
<1>1. \A x \in Client :
        /\ v.cl[x].player = w.cl[x].player
        /\ \A c : Holds(v.cl[x], c) <=> Holds(w.cl[x], c)
        /\ \A c : Has(v.cl[x], c) <=> Has(w.cl[x], c)
        /\ \A c : Unsaved(v.cl[x], c) <=> Unsaved(w.cl[x], c)
        /\ v.cl[x].at \in Under \cup Away \/ w.cl[x].at \in Under \cup Away =>
              v.cl[x].at = w.cl[x].at /\ v.cl[x].carry = w.cl[x].carry
        /\ w.cl[x].player # None => SameDoing(w.cl[x], v.cl[x])
              /\ (v.cl[x].serverTransition => w.cl[x].serverTransition)
  BY DEF Quiet, Alike, SameDoing, Nobody, Holds, Has, Unsaved, Under, Away
<1> USE <1>1 DEF Good
<1>2. Single(v)
  BY DEF Single
<1>3. OneEntry(v)
  BY DEF OneEntry
<1>4. OnlyParcel(v, pe)
  BY DEF OnlyParcel, Holds, Has, Under, Away
<1>5. Selected(v, pe, ti)
  BY DEF Selected, Under, Away
<1>6. Registered(v)
  BY DEF Registered, Quiet, SameMaps, SameDoing
<1>7. Found(v, pe)
  <2> SUFFICES ASSUME NEW p \in Place, NEW c \in Char, v.online[p][c] # None
               PROVE  /\ v.find[c] = p
                      /\ \A x \in Client : Holds(v.cl[x], c) => x = v.online[p][c]
                      /\ FoundAt(v, pe, p, c)
    BY DEF Found, FoundAt
  <2>1. v.online = w.online /\ v.find = w.find /\ w.online[p][c] \in Client
    BY SoundIs DEF Quiet, SameMaps
  <2>2. w.find[c] = p /\ FoundAt(w, pe, p, c) /\ \A x \in Client : Holds(w.cl[x], c) => x = w.online[p][c]
    BY <2>1 DEF Found, FoundAt
  <2>3. FoundAt(v, pe, p, c)
    BY <2>1, <2>2 DEF FoundAt, SameDoing, Has
  <2> QED BY <2>1, <2>2, <2>3
<1>8. Newest(v)
  BY DEF Newest, Under, Away
<1>9. Stored(v)
  BY DEF Stored, Quiet
<1>10. OneListed(v)
  BY DEF OneListed, Quiet, SameMaps, Under, Away
<1> QED BY <1>2, <1>3, <1>4, <1>5, <1>6, <1>7, <1>8, <1>9, <1>10

\* An entry is refused, or a handler that has sent its client on is over.
Fades(w, v, s) ==
    /\ v \in Sound /\ SameMaps(w, v) /\ Others(w, v, s) /\ Nobody(v.cl[s])
    /\ w.cl[s].at \in {"entering", "leaving"}
    /\ v.saved = IF w.cl[s].at = "leaving" /\ w.cl[s].server = Shop
                 THEN [w.saved EXCEPT ![w.cl[s].carry.chr] = w.cl[s].carry.ver] ELSE w.saved

LEMMA FadesGood ==
    ASSUME TypeOK, NEW w \in Sound, NEW v, NEW pe, NEW ti \in SUBSET Char, Good(w, pe, ti),
           NEW s \in Client, Fades(w, v, s)
    PROVE  Good(v, pe, ti)
<1>1. \A c : ~Holds(v.cl[s], c) /\ ~Has(v.cl[s], c) /\ ~Unsaved(v.cl[s], c)
  BY DEF Fades, Nobody, Holds, Has, Unsaved, Under, Away
<1>2. \A x \in Client \ {s} : v.cl[x] = w.cl[x]
  BY DEF Fades, Others
<1>3. v.cl[s].player = None /\ v.cl[s].at \notin Under \cup Away
  BY DEF Fades, Nobody
<1>4. v.online = w.online /\ v.find = w.find
  BY DEF Fades, SameMaps
<1>5. w.cl[s].at \notin There
  BY DEF Fades, There
<1> USE DEF Good
<1>6. Single(v)
  BY <1>1, <1>2 DEF Single
<1>7. OneEntry(v)
  BY <1>2, <1>3 DEF OneEntry
<1>8. OnlyParcel(v, pe)
  BY <1>1, <1>2 DEF OnlyParcel
<1>9. Selected(v, pe, ti)
  BY <1>1, <1>2, <1>3 DEF Selected, Under, Away
<1>10. Registered(v)
  BY <1>2, <1>3, <1>4 DEF Registered
<1>11. Found(v, pe)
  <2> SUFFICES ASSUME NEW p \in Place, NEW c \in Char, v.online[p][c] # None
               PROVE  /\ v.find[c] = p
                      /\ \A x \in Client : Holds(v.cl[x], c) => x = v.online[p][c]
                      /\ FoundAt(v, pe, p, c)
    BY DEF Found
  <2>1. w.online[p][c] \in Client /\ v.online[p][c] = w.online[p][c]
    BY <1>4, SoundIs
  <2>2. w.find[c] = p /\ FoundAt(w, pe, p, c) /\ \A x \in Client : Holds(w.cl[x], c) => x = w.online[p][c]
    BY <2>1 DEF Found
  <2>3. w.online[p][c] # s
    BY <2>1, <2>2, <1>5 DEF FoundAt, Fades, Under, Away
  <2> QED BY <1>1, <1>2, <1>4, <2>1, <2>2, <2>3 DEF FoundAt
<1>12. Newest(v)
  BY <1>2, <1>3 DEF Newest, Under, Away
<1>13. Stored(v)
  <2> SUFFICES ASSUME NEW c \in Char
               PROVE  /\ v.saved[c] <= played[c]
                      /\ v.saved[c] # played[c] => \E x \in Client : Unsaved(v.cl[x], c)
    BY DEF Stored
  <2>1. w.saved[c] <= played[c] /\ (w.saved[c] # played[c] => \E x \in Client : Unsaved(w.cl[x], c))
    BY DEF Stored
  <2>2. CASE w.cl[s].at = "leaving" /\ w.cl[s].server = Shop
    <3>1. w.cl[s].carry.ver = played[w.cl[s].carry.chr]
      BY <2>2 DEF Newest, Away
    <3>2. w.saved \in [Char -> 0..MaxPlay]
      BY SoundIs DEF Worlds
    <3>3. CASE c = w.cl[s].carry.chr
      <4>1. v.saved[c] = played[c]
        BY <2>2, <3>1, <3>2, <3>3 DEF Fades
      <4>2. played[c] \in Nat
        BY DEF TypeOK
      <4> QED BY <4>1, <4>2
    <3>4. CASE c # w.cl[s].carry.chr
      <4>1. v.saved[c] = w.saved[c]
        BY <2>2, <3>2, <3>4 DEF Fades
      <4>2. ~Unsaved(w.cl[s], c)
        BY <2>2, <3>4 DEF Unsaved
      <4> QED BY <1>2, <2>1, <4>1, <4>2
    <3> QED BY <3>3, <3>4
  <2>3. CASE ~(w.cl[s].at = "leaving" /\ w.cl[s].server = Shop)
    <3>1. v.saved = w.saved
      BY <2>3 DEF Fades
    <3>2. ~Unsaved(w.cl[s], c)
      BY <2>3 DEF Fades, Unsaved
    <3> QED BY <1>2, <2>1, <3>1, <3>2
  <2> QED BY <2>2, <2>3
<1>14. OneListed(v)
  BY <1>2, <1>3, <1>4 DEF OneListed, Under, Away
<1> QED BY <1>6, <1>7, <1>8, <1>9, <1>10, <1>11, <1>12, <1>13, <1>14

\* A connection loses its character: it is saved, and taken out of the server
\* unless that is the cash shop's and the connection is kicked.
Loses(w, v, s, p, c) ==
    /\ v \in Sound /\ Others(w, v, s)
    /\ p \in Place /\ c \in Char /\ w.online[p][c] = s /\ Has(w.cl[s], c)
    /\ w.cl[s].server = p /\ w.cl[s].at \in There
    /\ v.cl[s].player = None
    /\ \/ v.cl[s].at = w.cl[s].at /\ v.cl[s].carry = w.cl[s].carry /\ v.cl[s].server = p
       \/ w.cl[s].at # "moving" /\ v.cl[s].at = "gone"
    /\ v.saved = [w.saved EXCEPT ![c] = w.cl[s].player.ver]
    /\ \/ SameMaps(w, v) /\ p = Shop
       \/ /\ v.online = [w.online EXCEPT ![p][c] = None]
          /\ v.find = [w.find EXCEPT ![c] = None]

LEMMA LosesGood ==
    ASSUME TypeOK, NEW w \in Sound, NEW v, NEW pe, NEW ti \in SUBSET Char, Good(w, pe, ti),
           NEW s \in Client, NEW p \in Place, NEW c \in Char, Loses(w, v, s, p, c)
    PROVE  Good(v, pe, ti)
<1>1. \A d : ~Has(v.cl[s], d) /\ ~Unsaved(v.cl[s], d) /\ (Holds(v.cl[s], d) => Holds(w.cl[s], d))
  BY DEF Loses, Holds, Has, Unsaved, There
<1>2. \A x \in Client \ {s} : v.cl[x] = w.cl[x]
  BY DEF Loses, Others
<1>3. /\ v.cl[s].player = None
      /\ v.cl[s].at \in Under \cup Away =>
           v.cl[s].at = w.cl[s].at /\ v.cl[s].carry = w.cl[s].carry /\ v.cl[s].at = "moving"
      /\ v.cl[s].at \notin Under
  BY DEF Loses, There, Under, Away
<1>4. /\ w.online \in [Place -> [Char -> Client \cup {None}]] /\ w.find \in [Char -> Place \cup {None}]
      /\ w.saved \in [Char -> 0..MaxPlay]
  BY SoundIs DEF Worlds
<1>5. /\ \A q \in Place, d \in Char : v.online[q][d] \in {w.online[q][d], None}
      /\ \A q \in Place, d \in Char : q # p \/ d # c => v.online[q][d] = w.online[q][d]
      /\ \A d \in Char \ {c} : v.find[d] = w.find[d]
      /\ p # Shop => v.online[p][c] = None
      /\ v.online[p][c] # None => v.find = w.find /\ p = Shop
  BY <1>4 DEF Loses, SameMaps
<1>6. \A q \in Place : w.online[q][c] # None => q = p
  BY DEF Loses, Good, Found
<1>7. \A q \in Place, d \in Char : w.online[q][d] = s => q = p /\ d = c
  <2> SUFFICES ASSUME NEW q \in Place, NEW d \in Char, w.online[q][d] = s
               PROVE  q = p /\ d = c
    OBVIOUS
  <2>1. s # None
    BY DEF SessionsAssumption
  <2>2. FoundAt(w, pe, q, d)
    BY <2>1 DEF Good, Found
  <2> QED BY <2>2 DEF FoundAt, Loses, Has
<1> USE DEF Good
<1>8. Single(v)
  BY <1>1, <1>2 DEF Single
<1>9. OneEntry(v)
  BY <1>2, <1>3 DEF OneEntry
<1>10. OnlyParcel(v, pe)
  <2> SUFFICES ASSUME NEW q \in Place, NEW d \in Char, Usable(pe[q][d]),
                      NEW x \in Client, Holds(v.cl[x], d)
               PROVE  v.cl[x].at \in Away
    BY DEF OnlyParcel
  <2>1. w.cl[x].at \in Away
    BY <1>1, <1>2 DEF OnlyParcel
  <2>2. CASE x # s
    BY <1>2, <2>1, <2>2
  <2>3. CASE x = s
    <3>1. v.cl[s].at \in Under \cup Away
      BY <1>1, <2>3 DEF Holds, Under, Away
    <3> QED BY <1>3, <2>3, <3>1 DEF Away
  <2> QED BY <2>2, <2>3
<1>11. Selected(v, pe, ti)
  BY <1>1, <1>2, <1>3 DEF Selected, Under, Away
<1>12. Registered(v)
  <2> SUFFICES ASSUME NEW x \in Client, v.cl[x].player # None, v.cl[x].at \in There
               PROVE  /\ v.online[v.cl[x].server][v.cl[x].player.chr] = x
                      /\ ~v.cl[x].serverTransition
    BY DEF Registered
  <2>1. x # s /\ v.cl[x] = w.cl[x]
    BY <1>2, <1>3
  <2>2. /\ w.online[w.cl[x].server][w.cl[x].player.chr] = x /\ ~w.cl[x].serverTransition
        /\ w.cl[x].server \in Place /\ w.cl[x].player.chr \in Char
    BY <2>1, SoundIs DEF Registered
  <2>3. w.online[p][c] = s
    BY DEF Loses
  <2> QED BY <1>5, <2>1, <2>2, <2>3
<1>13. Found(v, pe)
  <2> SUFFICES ASSUME NEW q \in Place, NEW d \in Char, v.online[q][d] # None
               PROVE  /\ v.find[d] = q
                      /\ \A x \in Client : Holds(v.cl[x], d) => x = v.online[q][d]
                      /\ FoundAt(v, pe, q, d)
    BY DEF Found
  <2>1. w.online[q][d] \in Client /\ v.online[q][d] = w.online[q][d] /\ w.online[q][d] # None
    BY <1>5, SoundIs
  <2>2. w.find[d] = q /\ FoundAt(w, pe, q, d) /\ \A x \in Client : Holds(w.cl[x], d) => x = w.online[q][d]
    BY <2>1 DEF Found
  <2>3. \A x \in Client : Holds(v.cl[x], d) => x = v.online[q][d]
    BY <1>1, <1>2, <2>1, <2>2
  <2>4. CASE w.online[q][d] # s
    <3>1. d # c
      BY <1>5, <1>6, <2>1, <2>4 DEF Loses
    <3> QED BY <1>2, <1>5, <2>1, <2>2, <2>3, <2>4, <3>1 DEF FoundAt
  <2>5. CASE w.online[q][d] = s
    <3>1. q = p /\ d = c /\ p = Shop /\ v.find = w.find
      BY <1>5, <1>7, <2>1, <2>5
    <3>2. w.cl[s].at # "moving"
      BY <3>1, SoundIs DEF Shape, Loses, SessionsAssumption
    <3>3. v.cl[s].at \notin Under \cup Away
      BY <1>3, <3>2
    <3>4. \A r \in Place : ~Usable(pe[r][c])
      <4>1. Holds(w.cl[s], c) /\ w.cl[s].at \notin Away
        BY <3>2 DEF Loses, Holds, There, Away
      <4> QED BY <4>1 DEF OnlyParcel
    <3>5. FoundAt(v, pe, q, d)
      BY <1>3, <2>1, <2>5, <3>1, <3>3, <3>4 DEF FoundAt
    <3> QED BY <2>2, <2>3, <3>1, <3>5
  <2> QED BY <2>4, <2>5
<1>14. Newest(v)
  BY <1>2, <1>3 DEF Newest, Under, Away
<1>15. Stored(v)
  <2> SUFFICES ASSUME NEW d \in Char
               PROVE  /\ v.saved[d] <= played[d]
                      /\ v.saved[d] # played[d] => \E x \in Client : Unsaved(v.cl[x], d)
    BY DEF Stored
  <2>1. w.saved[d] <= played[d] /\ (w.saved[d] # played[d] => \E x \in Client : Unsaved(w.cl[x], d))
    BY DEF Stored
  <2>2. CASE d = c
    <3>1. v.saved[c] = played[c]
      BY <1>4 DEF Loses, Newest, Has
    <3> QED BY <2>2, <3>1 DEF TypeOK
  <2>3. CASE d # c
    <3>1. v.saved[d] = w.saved[d]
      BY <1>4, <2>3 DEF Loses
    <3>2. ~Unsaved(w.cl[s], d)
      BY <2>3 DEF Loses, Unsaved, Has, There
    <3> QED BY <1>2, <2>1, <3>1, <3>2
  <2> QED BY <2>2, <2>3
<1>16. OneListed(v)
  <2>1. \A q \in Channel, d \in listed : q \in Place /\ d \in Char
    BY DEF TypeOK, Place
  <2> QED BY <1>2, <1>3, <1>5, <2>1 DEF OneListed, Under, Away
<1> QED BY <1>8, <1>9, <1>10, <1>11, <1>12, <1>13, <1>14, <1>15, <1>16

\* A key is drawn: the copies and the transfers that may be left are outdated.
Worthless(k, l) ==
    /\ l.server = k.server /\ l.at = k.at /\ l.to = k.to
    /\ l.player = Outdated(k.player) /\ l.carry = Outdated(k.carry)
    /\ l.serverTransition = k.serverTransition
Outdates(w, v, pe, pe2) ==
    /\ v \in Sound /\ SameMaps(w, v) /\ v.saved = w.saved
    /\ \A x \in Client : Worthless(w.cl[x], v.cl[x])
    /\ \A p \in Place, c \in Char : pe2[p][c] \in {Outdated(pe[p][c]), None}

LEMMA OutdatedIs ==
    ASSUME NEW c \in Copy \cup {None}
    PROVE  /\ Outdated(c) \in Copy \cup {None} /\ (Outdated(c) = None <=> c = None)
           /\ c # None => /\ Outdated(c).chr = c.chr /\ Outdated(c).ver = c.ver
                          /\ Outdated(c).home = c.home /\ ~Outdated(c).current
BY DEF Outdated, Copy

LEMMA OutdatesGood ==
    ASSUME NEW w \in Sound, NEW v, NEW pe \in Parcels, NEW pe2, NEW ti \in SUBSET Char,
           NEW ti2 \in SUBSET Char, Good(w, pe, ti), Outdates(w, v, pe, pe2)
    PROVE  Good(v, pe2, ti2)
<1>1. \A x \in Client : w.cl[x].player \in Copy \cup {None} /\ w.cl[x].carry \in Copy \cup {None}
  BY SoundIs DEF MapleClient
<1>2. \A x \in Client : LET k == w.cl[x]  l == v.cl[x] IN
        /\ l.server = k.server /\ l.at = k.at /\ l.serverTransition = k.serverTransition
        /\ l.player # None => /\ k.player # None /\ l.player.chr = k.player.chr
                              /\ l.player.ver = k.player.ver /\ ~l.player.current
        /\ k.player # None => l.player # None /\ l.player.chr = k.player.chr
        /\ l.at \in Under \cup Away => /\ l.carry.chr = k.carry.chr /\ l.carry.ver = k.carry.ver
                                       /\ ~l.carry.current
  BY <1>1, SoundIs, OutdatedIs DEF Outdates, Worthless, Shape
<1>3. \A x \in Client : \A c : /\ Holds(v.cl[x], c) => Holds(w.cl[x], c)
                               /\ Has(v.cl[x], c) <=> Has(w.cl[x], c)
                               /\ Unsaved(v.cl[x], c) <=> Unsaved(w.cl[x], c)
  BY <1>2 DEF Holds, Has, Unsaved, Under, Away
<1>4. \A p \in Place, c \in Char : ~Usable(pe2[p][c])
  BY OutdatedIs DEF Outdates, Usable, Parcels
<1>5. v.online = w.online /\ v.find = w.find /\ v.saved = w.saved
  BY DEF Outdates, SameMaps
<1> USE DEF Good
<1>6. Single(v)
  BY <1>3 DEF Single
<1>7. OneEntry(v)
  BY <1>2 DEF OneEntry
<1>8. OnlyParcel(v, pe2)
  BY <1>4 DEF OnlyParcel
<1>9. Selected(v, pe2, ti2)
  BY <1>2, <1>4 DEF Selected, Has, Under, Away
<1>10. Registered(v)
  BY <1>2, <1>5 DEF Registered
<1>11. Found(v, pe2)
  <2> SUFFICES ASSUME NEW p \in Place, NEW c \in Char, v.online[p][c] # None
               PROVE  /\ v.find[c] = p
                      /\ \A x \in Client : Holds(v.cl[x], c) => x = v.online[p][c]
                      /\ FoundAt(v, pe2, p, c)
    BY DEF Found
  <2>1. w.online[p][c] \in Client /\ v.online[p][c] = w.online[p][c]
    BY <1>5, SoundIs
  <2>2. w.find[c] = p /\ FoundAt(w, pe, p, c) /\ \A x \in Client : Holds(w.cl[x], c) => x = w.online[p][c]
    BY <2>1 DEF Found
  <2> QED BY <1>2, <1>3, <1>4, <1>5, <2>1, <2>2 DEF FoundAt
<1>12. Newest(v)
  BY <1>2 DEF Newest, Under, Away
<1>13. Stored(v)
  BY <1>3, <1>5 DEF Stored
<1>14. OneListed(v)
  BY <1>2, <1>5 DEF OneListed
<1> QED BY <1>6, <1>7, <1>8, <1>9, <1>10, <1>11, <1>12, <1>13, <1>14

\* Transfers are forgotten.
Expires(pe, pe2) == \A p \in Place, c \in Char : pe2[p][c] \in {pe[p][c], None}

LEMMA ExpiresGood ==
    ASSUME NEW w \in Sound, NEW pe, NEW pe2, NEW ti \in SUBSET Char,
           Good(w, pe, ti), Expires(pe, pe2)
    PROVE  Good(w, pe2, ti)
<1>1. \A p \in Place, c \in Char : Usable(pe2[p][c]) => Usable(pe[p][c]) /\ pe2[p][c] = pe[p][c]
  BY DEF Expires, Usable
<1>2. OnlyParcel(w, pe2)
  BY <1>1 DEF Good, OnlyParcel
<1>3. Selected(w, pe2, ti)
  BY <1>1 DEF Good, Selected
<1>4. Found(w, pe2)
  BY <1>1 DEF Good, Found, FoundAt
<1> QED BY <1>2, <1>3, <1>4 DEF Good

\* A new connection, with a transfer or with the character that was selected.
Comes(w, v, s, p, c) ==
    /\ v \in Sound /\ SameMaps(w, v) /\ Others(w, v, s) /\ v.saved = w.saved
    /\ p \in Place /\ c \in Char /\ w.cl[s].at = "gone"
    /\ \A x \in Client : w.cl[x].at \notin Under
    /\ \A x \in Client : w.cl[x].at \in Away => w.cl[x].carry.chr # c
    /\ \A q \in Place, d \in Char : w.online[q][d] # s
    /\ v.cl[s].player = None /\ v.cl[s].server = p /\ v.cl[s].carry.chr = c
Takes(w, v, pe, pe2, s, p, c) ==
    /\ Comes(w, v, s, p, c)
    /\ v.cl[s].at = "entering" /\ v.cl[s].carry = pe[p][c] /\ pe[p][c] # None
    /\ pe2 = [pe EXCEPT ![p][c] = None]
Selects(w, v, ti, s, p, c) ==
    /\ Comes(w, v, s, p, c)
    /\ v.cl[s].at = "loading" /\ ~v.cl[s].carry.current /\ c \in ti
    /\ \A q \in Place, d \in Char : w.online[q][d] = None

LEMMA ComesGood ==
    ASSUME TypeOK, NEW w \in Sound, NEW v, NEW pe \in Parcels, NEW pe2, NEW ti \in SUBSET Char,
           Good(w, pe, ti), NEW s \in Client, NEW p \in Place, NEW c \in Char,
           Takes(w, v, pe, pe2, s, p, c) \/ (Selects(w, v, ti, s, p, c) /\ pe2 = pe)
    PROVE  Good(v, pe2, ti)
<1>1. Comes(w, v, s, p, c)
  BY DEF Takes, Selects
<1>2. \A x \in Client \ {s} : v.cl[x] = w.cl[x]
  BY <1>1 DEF Comes, Others
<1>3. /\ v.cl[s].player = None /\ v.cl[s].at \in {"entering", "loading"}
      /\ v.cl[s].carry.chr = c
      /\ \A d : ~Has(v.cl[s], d) /\ ~Unsaved(v.cl[s], d) /\ (Holds(v.cl[s], d) => d = c)
  BY <1>1 DEF Comes, Takes, Selects, Has, Unsaved, Holds
<1>4. /\ \A q \in Place, d \in Char : Usable(pe2[q][d]) => Usable(pe[q][d]) /\ pe2[q][d] = pe[q][d]
      /\ v.cl[s].at = "entering" => /\ v.cl[s].carry = pe[p][c] /\ ~Usable(pe2[p][c])
                                    /\ pe[p][c] # None
  <2>1. CASE Takes(w, v, pe, pe2, s, p, c)
    BY <2>1 DEF Takes, Parcels, Usable
  <2>2. CASE Selects(w, v, ti, s, p, c) /\ pe2 = pe
    BY <2>2 DEF Selects
  <2> QED BY <2>1, <2>2
<1>5. v.online = w.online /\ v.find = w.find /\ v.saved = w.saved
  BY <1>1 DEF Comes, SameMaps
<1> USE DEF Good
\* Nobody has the character, nor a transfer of it.
<1>6. Holds(v.cl[s], c) =>
        /\ \A x \in Client \ {s} : ~Holds(w.cl[x], c)
        /\ \A q \in Place : ~Usable(pe2[q][c])
        /\ \A q \in Place : w.online[q][c] = None
  <2> SUFFICES ASSUME Holds(v.cl[s], c)
               PROVE  /\ \A x \in Client \ {s} : ~Holds(w.cl[x], c)
                      /\ \A q \in Place : ~Usable(pe2[q][c])
                      /\ \A q \in Place : w.online[q][c] = None
    OBVIOUS
  <2>1. \A x \in Client : Holds(w.cl[x], c) => Has(w.cl[x], c) /\ w.cl[x].at \notin Away
    BY <1>1, SoundIs DEF Comes, Holds, Under, Away, Has, Shape
  <2>2. CASE Takes(w, v, pe, pe2, s, p, c)
    <3>1. Usable(pe[p][c])
      BY <1>3, <1>4, <2>2 DEF Holds, Has, Usable, Takes
    <3>2. \A x \in Client : ~Holds(w.cl[x], c)
      BY <2>1, <3>1 DEF OnlyParcel
    <3>3. \A q \in Place : ~Usable(pe2[q][c])
      BY <1>4, <2>2, <3>1 DEF OnlyParcel, Takes
    <3>4. \A q \in Place : w.online[q][c] = None
      <4> SUFFICES ASSUME NEW q \in Place, w.online[q][c] # None
                   PROVE  FALSE
        OBVIOUS
      <4>1. FoundAt(w, pe, q, c) /\ w.online[q][c] \in Client
        BY SoundIs DEF Found
      <4>2. ~Has(w.cl[w.online[q][c]], c)
        BY <3>2, <4>1 DEF Holds
      <4> QED BY <3>1, <4>1, <4>2 DEF FoundAt
    <3> QED BY <3>2, <3>3, <3>4
  <2>3. CASE Selects(w, v, ti, s, p, c) /\ pe2 = pe
    <3>1. \A x \in Client : ~Has(w.cl[x], c)
      <4> SUFFICES ASSUME NEW x \in Client, Has(w.cl[x], c)
                   PROVE  FALSE
        OBVIOUS
      <4>1. w.cl[x].player # None /\ w.cl[x].server \in Place /\ x # None
        BY SoundIs DEF Has, SessionsAssumption
      <4>2. w.cl[x].at \notin There
        BY <2>3, <4>1 DEF Registered, Selects, Has
      <4>3. w.cl[x].at = "leaving"
        BY <1>1, <4>1, <4>2, SoundIs DEF Shape, Comes, Under, Away, There, MapleClient, At
      <4> QED BY <1>1, <4>1, <4>3, SoundIs DEF Shape, Comes, Away, Has
    <3> QED BY <2>1, <2>3, <3>1 DEF Selected, Selects
  <2> QED BY <2>2, <2>3
<1>7. Single(v)
  BY <1>2, <1>3, <1>6 DEF Single
<1>8. OneEntry(v)
  BY <1>1, <1>2 DEF OneEntry, Comes
<1>9. OnlyParcel(v, pe2)
  BY <1>2, <1>3, <1>4, <1>6 DEF OnlyParcel
<1>10. Selected(v, pe2, ti)
  <2>1. c \in ti /\ v.cl[s].at = "entering" => ~v.cl[s].carry.current
    BY <1>4 DEF Selected, Usable
  <2> QED BY <1>2, <1>3, <1>4, <2>1 DEF Selected
<1>11. Registered(v)
  BY <1>2, <1>3, <1>5 DEF Registered
<1>12. Found(v, pe2)
  <2> SUFFICES ASSUME NEW q \in Place, NEW d \in Char, v.online[q][d] # None
               PROVE  /\ v.find[d] = q
                      /\ \A x \in Client : Holds(v.cl[x], d) => x = v.online[q][d]
                      /\ FoundAt(v, pe2, q, d)
    BY DEF Found
  <2>1. w.online[q][d] \in Client /\ v.online[q][d] = w.online[q][d] /\ w.online[q][d] # s
    BY <1>1, <1>5, SoundIs DEF Comes
  <2>2. w.find[d] = q /\ FoundAt(w, pe, q, d) /\ \A x \in Client : Holds(w.cl[x], d) => x = w.online[q][d]
    BY <1>5, <2>1 DEF Found
  <2>3. ~Holds(v.cl[s], d)
    BY <1>3, <1>5, <1>6, <2>1
  <2>4. FoundAt(v, pe2, q, d)
    BY <1>2, <1>4, <2>1, <2>2 DEF FoundAt
  <2> QED BY <1>2, <1>5, <2>1, <2>2, <2>3, <2>4
<1>13. Newest(v)
  <2>1. v.cl[s].at = "entering" /\ v.cl[s].carry.current => v.cl[s].carry.ver = played[c]
    BY <1>4 DEF OnlyParcel, Usable
  <2> QED BY <1>2, <1>3, <2>1 DEF Newest, Away
<1>14. Stored(v)
  <2>1. \A d : ~Unsaved(w.cl[s], d)
    BY <1>1 DEF Comes, Unsaved
  <2> QED BY <1>2, <1>5, <2>1 DEF Stored
<1>15. OneListed(v)
  BY <1>2, <1>3, <1>5 DEF OneListed
<1> QED BY <1>7, <1>8, <1>9, <1>10, <1>11, <1>12, <1>13, <1>14, <1>15

\* What only one connection's own handler does, and nobody is found or forgotten.
Alone(w, v, s) ==
    /\ v \in Sound /\ SameMaps(w, v) /\ Others(w, v, s) /\ v.saved = w.saved
    /\ v.cl[s].server = w.cl[s].server

\* The character is loaded, and no longer selected.
Loads(w, v, s, c) ==
    /\ Alone(w, v, s)
    /\ c \in Char /\ w.cl[s].at = "loading" /\ w.cl[s].carry.chr = c
    /\ v.cl[s].at = "entering" /\ v.cl[s].player = None
    /\ v.cl[s].carry.chr = c /\ v.cl[s].carry.ver = w.saved[c]

LEMMA LoadsGood ==
    ASSUME TypeOK, NEW w \in Sound, NEW v, NEW pe, NEW ti \in SUBSET Char, Good(w, pe, ti),
           NEW s \in Client, NEW c \in Char, Loads(w, v, s, c)
    PROVE  Good(v, pe, ti \ {c})
<1>1. \A x \in Client \ {s} : v.cl[x] = w.cl[x]
  BY DEF Loads, Alone, Others
<1>2. /\ w.cl[s].player = None /\ w.cl[s].at = "loading" /\ w.cl[s].carry.chr = c
      /\ v.cl[s].player = None /\ v.cl[s].at = "entering" /\ v.cl[s].carry.chr = c
      /\ v.cl[s].carry.ver = w.saved[c]
  BY SoundIs DEF Loads, Shape
<1>3. /\ Holds(w.cl[s], c)
      /\ \A d : Holds(v.cl[s], d) => d = c
      /\ \A d : ~Has(v.cl[s], d) /\ ~Unsaved(v.cl[s], d) /\ ~Unsaved(w.cl[s], d)
  BY <1>2 DEF Holds, Has, Unsaved
<1>4. v.online = w.online /\ v.find = w.find /\ v.saved = w.saved
  BY DEF Loads, Alone, SameMaps
<1> USE DEF Good
<1>5. \A x \in Client : Holds(w.cl[x], c) => x = s
  BY <1>3 DEF Single
<1>6. \A q \in Place : ~Usable(pe[q][c])
  BY <1>2, <1>3 DEF OnlyParcel, Away
<1>7. \A q \in Place : w.online[q][c] = None
  <2> SUFFICES ASSUME NEW q \in Place, w.online[q][c] # None
               PROVE  FALSE
    OBVIOUS
  <2>1. w.online[q][c] = s /\ FoundAt(w, pe, q, c)
    BY <1>3 DEF Found
  <2> QED BY <1>2, <2>1 DEF FoundAt, There, Under
<1>8. w.saved[c] = played[c]
  BY <1>3, <1>5 DEF Stored, Unsaved, Holds
<1>9. Single(v)
  BY <1>1, <1>3, <1>5 DEF Single
<1>10. OneEntry(v)
  BY <1>1, <1>2 DEF OneEntry, Under
<1>11. OnlyParcel(v, pe)
  BY <1>1, <1>3, <1>6 DEF OnlyParcel
<1>12. Selected(v, pe, ti \ {c})
  BY <1>1, <1>2, <1>3 DEF Selected
<1>13. Registered(v)
  BY <1>1, <1>2, <1>4 DEF Registered
<1>14. Found(v, pe)
  <2> SUFFICES ASSUME NEW q \in Place, NEW d \in Char, v.online[q][d] # None
               PROVE  /\ v.find[d] = q
                      /\ \A x \in Client : Holds(v.cl[x], d) => x = v.online[q][d]
                      /\ FoundAt(v, pe, q, d)
    BY DEF Found
  <2>1. w.online[q][d] \in Client /\ v.online[q][d] = w.online[q][d]
    BY <1>4, SoundIs
  <2>2. w.find[d] = q /\ FoundAt(w, pe, q, d) /\ \A x \in Client : Holds(w.cl[x], d) => x = w.online[q][d]
    BY <1>4, <2>1 DEF Found
  <2>3. d # c /\ w.online[q][d] # s
    BY <1>2, <1>4, <1>7, <2>2 DEF FoundAt, There, Under
  <2> QED BY <1>1, <1>3, <1>4, <2>1, <2>2, <2>3 DEF FoundAt
<1>15. Newest(v)
  BY <1>1, <1>2, <1>8 DEF Newest, Away
<1>16. Stored(v)
  BY <1>1, <1>3, <1>4 DEF Stored
<1>17. OneListed(v)
  BY <1>1, <1>2, <1>4 DEF OneListed
<1> QED BY <1>9, <1>10, <1>11, <1>12, <1>13, <1>14, <1>15, <1>16, <1>17

\* The keys match, and no character of the second world is in a channel.
Joins(w, v, s) ==
    /\ Alone(w, v, s)
    /\ w.cl[s].at = "entering" /\ w.cl[s].carry.current
    /\ v.cl[s].at = "joining" /\ v.cl[s].carry = w.cl[s].carry /\ v.cl[s].player = w.cl[s].carry
    /\ \A p \in Channel, c \in listed : w.online[p][c] = None

LEMMA JoinsGood ==
    ASSUME NEW w \in Sound, NEW v, NEW pe, NEW ti \in SUBSET Char, Good(w, pe, ti),
           NEW s \in Client, Joins(w, v, s)
    PROVE  Good(v, pe, ti)
<1> DEFINE k == w.cl[s].carry
<1>1. \A x \in Client \ {s} : v.cl[x] = w.cl[x]
  BY DEF Joins, Alone, Others
<1>2. /\ w.cl[s].player = None /\ w.cl[s].at = "entering" /\ k.current /\ k # None
      /\ v.cl[s].player = k /\ v.cl[s].at = "joining" /\ v.cl[s].carry = k
  BY SoundIs DEF Joins, Shape, Under
<1>3. /\ \A d : Holds(v.cl[s], d) <=> Holds(w.cl[s], d)
      /\ \A d : ~Unsaved(v.cl[s], d) /\ ~Unsaved(w.cl[s], d)
      /\ \A d : Has(v.cl[s], d) <=> d = k.chr
  BY <1>2 DEF Holds, Has, Unsaved
<1>4. v.online = w.online /\ v.find = w.find /\ v.saved = w.saved
  BY DEF Joins, Alone, SameMaps
<1> HIDE DEF k
<1> USE DEF Good
<1>5. Single(v)
  BY <1>1, <1>3 DEF Single
<1>6. OneEntry(v)
  BY <1>1, <1>2 DEF OneEntry, Under
<1>7. OnlyParcel(v, pe)
  BY <1>1, <1>2, <1>3 DEF OnlyParcel, Away
<1>8. Selected(v, pe, ti)
  <2>1. k.chr \notin ti
    BY <1>2 DEF Selected, k
  <2> QED BY <1>1, <1>2, <1>3, <2>1 DEF Selected
<1>9. Registered(v)
  BY <1>1, <1>2, <1>4 DEF Registered, There
<1>10. Found(v, pe)
  <2> SUFFICES ASSUME NEW q \in Place, NEW d \in Char, v.online[q][d] # None
               PROVE  /\ v.find[d] = q
                      /\ \A x \in Client : Holds(v.cl[x], d) => x = v.online[q][d]
                      /\ FoundAt(v, pe, q, d)
    BY DEF Found
  <2>1. w.online[q][d] \in Client /\ v.online[q][d] = w.online[q][d]
    BY <1>4, SoundIs
  <2>2. w.find[d] = q /\ FoundAt(w, pe, q, d) /\ \A x \in Client : Holds(w.cl[x], d) => x = w.online[q][d]
    BY <1>4, <2>1 DEF Found
  <2>3. w.online[q][d] # s
    BY <1>2, <2>2 DEF FoundAt, There, Under
  <2> QED BY <1>1, <1>3, <1>4, <2>1, <2>2, <2>3 DEF FoundAt
<1>11. Newest(v)
  BY <1>1, <1>2 DEF Newest, Away, k
<1>12. Stored(v)
  BY <1>1, <1>3, <1>4 DEF Stored
<1>13. OneListed(v)
  BY <1>4 DEF OneListed, Joins
<1> QED BY <1>5, <1>6, <1>7, <1>8, <1>9, <1>10, <1>11, <1>12, <1>13

Registers(w, v, s) ==
    LET c == w.cl[s].carry.chr  p == w.cl[s].server IN
    /\ v \in Sound /\ Others(w, v, s) /\ v.saved = w.saved
    /\ w.cl[s].at = "joining" /\ v.cl[s].at = "joined" /\ v.cl[s].server = p
    /\ v.cl[s].player = w.cl[s].player /\ ~v.cl[s].serverTransition
    /\ v.online = [w.online EXCEPT ![p][c] = s] /\ v.find = [w.find EXCEPT ![c] = p]

LEMMA RegistersGood ==
    ASSUME TypeOK, NEW w \in Sound, NEW v, NEW pe, NEW ti \in SUBSET Char, Good(w, pe, ti),
           NEW s \in Client, Registers(w, v, s)
    PROVE  Good(v, pe, ti)
<1> DEFINE c == w.cl[s].carry.chr  p == w.cl[s].server
<1>1. \A x \in Client \ {s} : v.cl[x] = w.cl[x]
  BY DEF Registers, Others
<1>2. /\ w.cl[s].player = w.cl[s].carry /\ w.cl[s].at = "joining" /\ w.cl[s].player # None
      /\ v.cl[s].player = w.cl[s].player /\ v.cl[s].at = "joined" /\ v.cl[s].server = p
      /\ ~v.cl[s].serverTransition /\ w.cl[s].player.chr = c
      /\ p \in Place /\ c \in Char
  BY SoundIs DEF Registers, Shape, Under
<1>3. /\ \A d : Holds(v.cl[s], d) <=> Holds(w.cl[s], d)
      /\ \A d : ~Unsaved(v.cl[s], d) /\ ~Unsaved(w.cl[s], d)
      /\ \A d : Has(v.cl[s], d) <=> d = c
      /\ \A d : Has(w.cl[s], d) <=> d = c
      /\ \A d : Holds(w.cl[s], d) <=> d = c
  BY <1>2 DEF Holds, Has, Unsaved
<1>4. v.saved = w.saved
  BY DEF Registers
<1> USE DEF Good
<1>5. \A q \in Place : w.online[q][c] = None
  <2> SUFFICES ASSUME NEW q \in Place, w.online[q][c] # None
               PROVE  FALSE
    OBVIOUS
  <2>1. w.online[q][c] = s /\ FoundAt(w, pe, q, c)
    BY <1>2, <1>3 DEF Found
  <2> QED BY <1>2, <2>1 DEF FoundAt, There, Under
<1>6. /\ \A q \in Place, d \in Char : d # c => v.online[q][d] = w.online[q][d] /\ v.find[d] = w.find[d]
      /\ v.online[p][c] = s /\ v.find[c] = p
      /\ \A q \in Place : q # p => v.online[q][c] = None
  <2>1. w.online \in [Place -> [Char -> Client \cup {None}]] /\ w.find \in [Char -> Place \cup {None}]
    BY SoundIs DEF Worlds
  <2>2. v.online = [w.online EXCEPT ![p][c] = s] /\ v.find = [w.find EXCEPT ![c] = p]
    BY DEF Registers
  <2> HIDE DEF p, c
  <2> QED BY <1>2, <1>5, <2>1, <2>2
<1> HIDE DEF p, c
<1>7. Single(v)
  BY <1>1, <1>3 DEF Single
<1>8. OneEntry(v)
  BY <1>1, <1>2 DEF OneEntry, Under
<1>9. OnlyParcel(v, pe)
  BY <1>1, <1>2, <1>3 DEF OnlyParcel, Away
<1>10. Selected(v, pe, ti)
  BY <1>1, <1>2, <1>3 DEF Selected
<1>11. Registered(v)
  <2> SUFFICES ASSUME NEW x \in Client, v.cl[x].player # None, v.cl[x].at \in There
               PROVE  /\ v.online[v.cl[x].server][v.cl[x].player.chr] = x
                      /\ ~v.cl[x].serverTransition
    BY DEF Registered
  <2>1. CASE x = s
    BY <1>2, <1>6, <2>1
  <2>2. CASE x # s
    <3>1. v.cl[x] = w.cl[x] /\ w.cl[x].server \in Place /\ w.cl[x].player.chr \in Char /\ x # None
      BY <1>1, <2>2, SoundIs DEF SessionsAssumption
    <3>2. w.online[w.cl[x].server][w.cl[x].player.chr] = x /\ ~w.cl[x].serverTransition
      BY <3>1 DEF Registered
    <3> QED BY <1>5, <1>6, <3>1, <3>2
  <2> QED BY <2>1, <2>2
<1>12. Found(v, pe)
  <2> SUFFICES ASSUME NEW q \in Place, NEW d \in Char, v.online[q][d] # None
               PROVE  /\ v.find[d] = q
                      /\ \A x \in Client : Holds(v.cl[x], d) => x = v.online[q][d]
                      /\ FoundAt(v, pe, q, d)
    BY DEF Found
  <2>1. CASE d = c
    <3>1. q = p /\ v.online[q][d] = s /\ v.find[d] = q
      BY <1>6, <2>1
    <3>2. \A x \in Client : Holds(v.cl[x], d) => x = s
      BY <1>1, <1>3, <2>1 DEF Single
    <3> QED BY <1>2, <1>3, <2>1, <3>1, <3>2 DEF FoundAt, There
  <2>2. CASE d # c
    <3>1. v.online[q][d] = w.online[q][d] /\ v.find[d] = w.find[d] /\ w.online[q][d] \in Client
      BY <1>6, <2>2, SoundIs
    <3>2. w.find[d] = q /\ FoundAt(w, pe, q, d) /\ \A x \in Client : Holds(w.cl[x], d) => x = w.online[q][d]
      BY <3>1 DEF Found
    <3>3. w.online[q][d] # s
      BY <1>2, <3>2 DEF FoundAt, There, Under
    <3> QED BY <1>1, <1>3, <3>1, <3>2, <3>3 DEF FoundAt
  <2> QED BY <2>1, <2>2
<1>13. Newest(v)
  BY <1>1, <1>2 DEF Newest, Away
<1>14. Stored(v)
  BY <1>1, <1>3, <1>4 DEF Stored
<1>15. OneListed(v)
  <2>1. \A x \in Client : v.cl[x].at # "joining"
    BY <1>1, <1>2 DEF OneEntry, Under
  <2>2. \A q \in Channel, d \in listed : q \in Place /\ d \in Char /\ w.online[q][d] = None
    BY <1>2 DEF OneListed, TypeOK, Place
  <2> QED BY <1>6, <2>1, <2>2 DEF OneListed
<1> QED BY <1>7, <1>8, <1>9, <1>10, <1>11, <1>12, <1>13, <1>14, <1>15

\* Once registered, the handler is over.
Enters(w, v, s) ==
    /\ Alone(w, v, s)
    /\ w.cl[s].at = "joined" /\ v.cl[s].at = "idle"
    /\ v.cl[s].player = w.cl[s].player
    /\ v.cl[s].serverTransition = w.cl[s].serverTransition

LEMMA EntersGood ==
    ASSUME NEW w \in Sound, NEW v, NEW pe, NEW ti \in SUBSET Char, Good(w, pe, ti),
           NEW s \in Client, Enters(w, v, s)
    PROVE  Good(v, pe, ti)
<1>1. \A x \in Client \ {s} : v.cl[x] = w.cl[x]
  BY DEF Enters, Alone, Others
<1>2. /\ w.cl[s].at = "joined" /\ v.cl[s].at = "idle" /\ v.cl[s].player = w.cl[s].player
      /\ v.cl[s].server = w.cl[s].server /\ v.cl[s].serverTransition = w.cl[s].serverTransition
  BY DEF Enters, Alone
<1>3. /\ \A d : Holds(v.cl[s], d) <=> Holds(w.cl[s], d)
      /\ \A d : Has(v.cl[s], d) <=> Has(w.cl[s], d)
      /\ \A d : ~Unsaved(w.cl[s], d)
  BY <1>2 DEF Holds, Has, Unsaved
<1>4. v.online = w.online /\ v.find = w.find /\ v.saved = w.saved
  BY DEF Enters, Alone, SameMaps
<1> USE DEF Good
<1>5. Single(v)
  BY <1>1, <1>3 DEF Single
<1>6. OneEntry(v)
  BY <1>1, <1>2 DEF OneEntry, Under
<1>7. OnlyParcel(v, pe)
  BY <1>1, <1>2, <1>3 DEF OnlyParcel, Away
<1>8. Selected(v, pe, ti)
  BY <1>1, <1>2, <1>3 DEF Selected
<1>9. Registered(v)
  BY <1>1, <1>2, <1>4 DEF Registered, There
<1>10. Found(v, pe)
  <2> SUFFICES ASSUME NEW q \in Place, NEW d \in Char, v.online[q][d] # None
               PROVE  /\ v.find[d] = q
                      /\ \A x \in Client : Holds(v.cl[x], d) => x = v.online[q][d]
                      /\ FoundAt(v, pe, q, d)
    BY DEF Found
  <2>1. w.online[q][d] \in Client /\ v.online[q][d] = w.online[q][d]
    BY <1>4, SoundIs
  <2>2. w.find[d] = q /\ FoundAt(w, pe, q, d) /\ \A x \in Client : Holds(w.cl[x], d) => x = w.online[q][d]
    BY <1>4, <2>1 DEF Found
  <2> QED BY <1>1, <1>2, <1>3, <1>4, <2>1, <2>2 DEF FoundAt, There, Under, Away
<1>11. Newest(v)
  BY <1>1, <1>2 DEF Newest, Away
<1>12. Stored(v)
  BY <1>1, <1>3, <1>4 DEF Stored
<1>13. OneListed(v)
  BY <1>1, <1>2, <1>4 DEF OneListed
<1> QED BY <1>5, <1>6, <1>7, <1>8, <1>9, <1>10, <1>11, <1>12, <1>13

\* A player sets out from a channel: saved, and a transfer left behind.
Crosses(w, v, pe, pe2, s, to) ==
    LET k == w.cl[s].player IN
    /\ v \in Sound /\ SameMaps(w, v) /\ Others(w, v, s)
    /\ w.cl[s].at = "idle" /\ k # None /\ to \in Place
    /\ v.cl[s].at = "moving" /\ v.cl[s].carry = k /\ v.cl[s].player = k
    /\ v.cl[s].server = w.cl[s].server /\ v.cl[s].serverTransition = w.cl[s].serverTransition
    /\ v.saved = [w.saved EXCEPT ![k.chr] = k.ver]
    /\ pe2 = [pe EXCEPT ![to][k.chr] = [k EXCEPT !.home = w.cl[s].server]]

\* A player leaves the cash shop; saving comes later.
Leaves(w, v, pe, pe2, s) ==
    LET k == w.cl[s].player IN
    /\ v \in Sound /\ Others(w, v, s) /\ v.saved = w.saved
    /\ w.cl[s].at = "idle" /\ k # None /\ w.cl[s].server = Shop
    /\ v.cl[s].at = "leaving" /\ v.cl[s].carry = k /\ v.cl[s].player = k /\ v.cl[s].server = Shop
    /\ v.online = [w.online EXCEPT ![Shop][k.chr] = None]
    /\ v.find = [w.find EXCEPT ![k.chr] = None]
    /\ pe2 = [pe EXCEPT ![k.home][k.chr] = k]

LEMMA SetsOutGood ==
    ASSUME TypeOK, NEW w \in Sound, NEW v, NEW pe \in Parcels, NEW pe2, NEW ti \in SUBSET Char,
           Good(w, pe, ti), NEW s \in Client,
           (\E to \in Place : Crosses(w, v, pe, pe2, s, to)) \/ Leaves(w, v, pe, pe2, s)
    PROVE  Good(v, pe2, ti)
<1> DEFINE k == w.cl[s].player  c == w.cl[s].player.chr  p == w.cl[s].server
<1>1. \A x \in Client \ {s} : v.cl[x] = w.cl[x]
  BY DEF Crosses, Leaves, Others
<1>2. /\ w.cl[s].at = "idle" /\ k # None /\ k \in Copy /\ c \in Char /\ p \in Place
      /\ v.cl[s].at \in Away /\ v.cl[s].carry = k /\ v.cl[s].player = k /\ v.cl[s].server = p
      /\ w.online[p][c] = s /\ k.ver = played[c]
      /\ v.cl[s].at = "moving" => v.cl[s].serverTransition = w.cl[s].serverTransition
      /\ ~w.cl[s].serverTransition
  BY SoundIs DEF Crosses, Leaves, Away, Good, Registered, There, Newest
\* What becomes of the transfers ...
<1>3. \E to \in Place : \A q \in Place, d \in Char :
        /\ Usable(pe2[q][d]) => Usable(pe[q][d]) \/ (q = to /\ d = c /\ k.current)
        /\ d # c => pe2[q][d] = pe[q][d]
        /\ Usable(pe2[q][c]) /\ q = to => pe2[q][c].ver = k.ver
  <2>1. CASE \E to \in Place : Crosses(w, v, pe, pe2, s, to)
    <3>1. PICK to \in Place : Crosses(w, v, pe, pe2, s, to)
      BY <2>1
    <3> DEFINE n == [k EXCEPT !.home = w.cl[s].server]
    <3>2. n.current = k.current /\ n.ver = k.ver
      BY <1>2 DEF Copy
    <3>3. pe2 = [pe EXCEPT ![to][c] = n]
      BY <3>1 DEF Crosses
    <3> HIDE DEF n, k, c
    <3> QED BY <1>2, <3>2, <3>3 DEF Parcels, Usable
  <2>2. CASE Leaves(w, v, pe, pe2, s)
    <3>1. pe2 = [pe EXCEPT ![k.home][c] = k] /\ k.home \in Place
      BY <1>2, <2>2 DEF Leaves, Copy, Place
    <3> HIDE DEF k, c
    <3> QED BY <1>2, <3>1 DEF Parcels, Usable
  <2> QED BY <2>1, <2>2
\* ... of the maps, and of what is saved.
<1>4. \/ v.online = w.online /\ v.find = w.find /\ v.cl[s].at = "moving"
      \/ /\ v.online = [w.online EXCEPT ![p][c] = None] /\ v.find = [w.find EXCEPT ![c] = None]
         /\ v.cl[s].at = "leaving" /\ p = Shop
  BY DEF Crosses, Leaves, SameMaps
<1>5. \A d \in Char :
        /\ d # c => v.saved[d] = w.saved[d]
        /\ v.saved[c] = played[c] \/ (v.saved = w.saved /\ Unsaved(v.cl[s], c))
  <2>1. CASE \E to \in Place : Crosses(w, v, pe, pe2, s, to)
    <3>1. w.saved \in [Char -> 0..MaxPlay] /\ v.saved = [w.saved EXCEPT ![c] = k.ver]
      BY <2>1, SoundIs DEF Crosses, Worlds
    <3> QED BY <1>2, <3>1
  <2>2. CASE Leaves(w, v, pe, pe2, s)
    <3>1. Unsaved(v.cl[s], c)
      BY <2>2 DEF Leaves, Unsaved
    <3> QED BY <2>2, <3>1 DEF Leaves
  <2> QED BY <2>1, <2>2
<1> HIDE DEF k, c, p
<1>6. w.online \in [Place -> [Char -> Client \cup {None}]] /\ w.find \in [Char -> Place \cup {None}]
  BY SoundIs DEF Worlds
<1>7. /\ \A d : Holds(v.cl[s], d) <=> d = c
      /\ \A d : Holds(w.cl[s], d) <=> d = c
      /\ \A d : Has(v.cl[s], d) <=> d = c
      /\ \A d : Has(w.cl[s], d) <=> d = c
      /\ \A d : Unsaved(v.cl[s], d) => d = c
      /\ \A d : Unsaved(w.cl[s], d) => d = c
  BY <1>2 DEF Holds, Has, Unsaved, Away, k, c
<1> USE DEF Good
\* No transfer of the character was left before.
<1>8. (\A q \in Place : ~Usable(pe[q][c])) /\ \A x \in Client : Holds(w.cl[x], c) => x = s
  BY <1>2, <1>7 DEF OnlyParcel, Single, Away
<1>9. Single(v)
  BY <1>1, <1>7, <1>8 DEF Single
<1>10. OneEntry(v)
  BY <1>1, <1>2 DEF OneEntry, Under, Away
<1>11. OnlyParcel(v, pe2)
  <2>1. PICK to \in Place : \A q \in Place, d \in Char :
        /\ Usable(pe2[q][d]) => Usable(pe[q][d]) \/ (q = to /\ d = c /\ k.current)
        /\ d # c => pe2[q][d] = pe[q][d]
        /\ Usable(pe2[q][c]) /\ q = to => pe2[q][c].ver = k.ver
    BY <1>3
  <2> SUFFICES ASSUME NEW q \in Place, NEW d \in Char, Usable(pe2[q][d])
               PROVE  /\ \A r \in Place : Usable(pe2[r][d]) => r = q
                      /\ \A x \in Client : Holds(v.cl[x], d) => v.cl[x].at \in Away
                      /\ pe2[q][d].ver = played[d]
    BY DEF OnlyParcel
  <2>2. CASE d = c
    BY <1>1, <1>2, <1>7, <1>8, <2>1, <2>2
  <2>3. CASE d # c
    BY <1>1, <1>7, <2>1, <2>3 DEF OnlyParcel
  <2> QED BY <2>2, <2>3
<1>12. Selected(v, pe2, ti)
  <2>1. c \in ti => ~k.current
    BY <1>2, <1>7 DEF Selected, k
  <2>2. \A d \in ti : \A q \in Place : ~Usable(pe2[q][d])
    BY <1>3, <2>1 DEF Selected
  <2>3. \A d : Has(v.cl[s], d) \/ v.cl[s].carry.chr = d => d = c
    BY <1>2, <1>7 DEF k, c
  <2> QED BY <1>1, <1>2, <2>1, <2>2, <2>3 DEF Selected
<1>13. Registered(v)
  <2> SUFFICES ASSUME NEW x \in Client, v.cl[x].player # None, v.cl[x].at \in There
               PROVE  /\ v.online[v.cl[x].server][v.cl[x].player.chr] = x
                      /\ ~v.cl[x].serverTransition
    BY DEF Registered
  <2>1. CASE x = s
    BY <1>2, <1>4, <2>1 DEF There, Away, k, c
  <2>2. CASE x # s
    <3>1. v.cl[x] = w.cl[x] /\ w.cl[x].server \in Place /\ w.cl[x].player.chr \in Char
      BY <1>1, <2>2, SoundIs
    <3>2. w.online[w.cl[x].server][w.cl[x].player.chr] = x /\ ~w.cl[x].serverTransition
      BY <3>1 DEF Registered
    <3> QED BY <1>2, <1>4, <1>6, <2>2, <3>1, <3>2
  <2> QED BY <2>1, <2>2
<1>14. Found(v, pe2)
  <2> SUFFICES ASSUME NEW q \in Place, NEW d \in Char, v.online[q][d] # None
               PROVE  /\ v.find[d] = q
                      /\ \A x \in Client : Holds(v.cl[x], d) => x = v.online[q][d]
                      /\ FoundAt(v, pe2, q, d)
    BY DEF Found
  <2>1. w.online[q][d] \in Client /\ v.online[q][d] = w.online[q][d]
    BY <1>2, <1>4, <1>6
  <2>2. w.find[d] = q /\ FoundAt(w, pe, q, d) /\ \A x \in Client : Holds(w.cl[x], d) => x = w.online[q][d]
    BY <2>1 DEF Found
  <2>3. CASE d # c
    <3>1. v.find[d] = q /\ w.online[q][d] # s
      BY <1>2, <1>4, <1>6, <1>7, <2>2, <2>3 DEF FoundAt, k
    <3>2. \A r \in Place : pe2[r][d] = pe[r][d]
      BY <1>3, <2>3
    <3> QED BY <1>1, <1>7, <2>1, <2>2, <2>3, <3>1, <3>2 DEF FoundAt
  <2>4. CASE d = c
    <3>1. q = p
      BY <1>2, <2>2, <2>4, SoundIs DEF Found, SessionsAssumption
    <3>2. v.online = w.online /\ v.find = w.find /\ v.cl[s].at = "moving"
      BY <1>2, <1>4, <1>6, <2>4, <3>1
    <3> QED BY <1>1, <1>2, <1>7, <1>8, <2>1, <2>2, <2>4, <3>1, <3>2 DEF FoundAt, There
  <2> QED BY <2>3, <2>4
<1>15. Newest(v)
  BY <1>1, <1>2 DEF Newest, k, c
<1>16. Stored(v)
  <2> SUFFICES ASSUME NEW d \in Char
               PROVE  /\ v.saved[d] <= played[d]
                      /\ v.saved[d] # played[d] => \E x \in Client : Unsaved(v.cl[x], d)
    BY DEF Stored
  <2>1. w.saved[d] <= played[d] /\ (w.saved[d] # played[d] => \E x \in Client : Unsaved(w.cl[x], d))
    BY DEF Stored
  <2>2. played[d] \in Nat
    BY DEF TypeOK
  <2>3. CASE d = c
    BY <1>5, <2>1, <2>2, <2>3
  <2>4. CASE d # c
    BY <1>1, <1>5, <1>7, <2>1, <2>4
  <2> QED BY <2>3, <2>4
<1>17. OneListed(v)
  <2>1. \A q \in Channel, d \in listed : q \in Place /\ d \in Char
    BY DEF TypeOK, Place
  <2>2. \A q \in Place, d \in Char : v.online[q][d] \in {w.online[q][d], None}
    BY <1>2, <1>4, <1>6
  <2>3. \A x \in Client : v.cl[x].at = "joining" => w.cl[x].at = "joining"
    BY <1>1, <1>2 DEF Away
  <2> QED BY <2>1, <2>2, <2>3 DEF OneListed
<1> QED BY <1>9, <1>10, <1>11, <1>12, <1>13, <1>14, <1>15, <1>16, <1>17

\* Somebody is taken out of a server: the character that has just set out, or
\* what is left in the cash shop of one that was kicked.
Clears(w, v, p, c) ==
    /\ v \in Sound /\ v.saved = w.saved
    /\ v.online = [w.online EXCEPT ![p][c] = None] /\ v.find = [w.find EXCEPT ![c] = None]
Departs(w, v, s, p, c) ==
    /\ Clears(w, v, p, c) /\ Others(w, v, s)
    /\ w.cl[s].at = "moving" /\ v.cl[s].at = "leaving"
    /\ p = w.cl[s].server /\ c = w.cl[s].carry.chr
    /\ v.cl[s].server = p /\ v.cl[s].player = w.cl[s].player /\ v.cl[s].carry = w.cl[s].carry
Evicts(w, v, c) ==
    /\ Clears(w, v, Shop, c) /\ v.cl = w.cl
    /\ w.online[Shop][c] # None /\ w.cl[w.online[Shop][c]].player = None

LEMMA ClearsGood ==
    ASSUME TypeOK, NEW w \in Sound, NEW v, NEW pe, NEW ti \in SUBSET Char, Good(w, pe, ti),
           NEW p \in Place, NEW c \in Char,
           (\E s \in Client : Departs(w, v, s, p, c)) \/ (Evicts(w, v, c) /\ p = Shop)
    PROVE  Good(v, pe, ti)
<1>1. v.online = [w.online EXCEPT ![p][c] = None] /\ v.find = [w.find EXCEPT ![c] = None]
      /\ v.saved = w.saved
  BY DEF Departs, Evicts, Clears
<1>2. w.online \in [Place -> [Char -> Client \cup {None}]] /\ w.find \in [Char -> Place \cup {None}]
  BY SoundIs DEF Worlds
<1>3. /\ \A q \in Place, d \in Char : v.online[q][d] \in {w.online[q][d], None}
      /\ \A q \in Place, d \in Char : q # p \/ d # c => v.online[q][d] = w.online[q][d]
      /\ \A d \in Char \ {c} : v.find[d] = w.find[d]
      /\ v.online[p][c] = None
  BY <1>1, <1>2
<1>4. \A x \in Client : LET k == w.cl[x]  l == v.cl[x] IN
        /\ l.server = k.server /\ l.player = k.player
        /\ l.at = k.at \/ (k.at = "moving" /\ l.at = "leaving" /\ k.server = p
                           /\ k.carry.chr = c /\ p \in Channel)
        /\ l.at = k.at => l = k
        /\ l.at \in Away => l.carry = k.carry
  BY SoundIs DEF Departs, Evicts, Others, Away, Shape
<1>5. \A x \in Client, d \in Char : /\ Holds(v.cl[x], d) <=> Holds(w.cl[x], d)
                                    /\ Has(v.cl[x], d) <=> Has(w.cl[x], d)
                                    /\ Unsaved(v.cl[x], d) <=> Unsaved(w.cl[x], d)
  <2>1. p \in Channel => p # Shop
    BY DEF SessionsAssumption
  <2> QED BY <1>4, <2>1 DEF Holds, Has, Unsaved, Away
<1> USE DEF Good
\* Nobody else is found under this name.
<1>6. \A q \in Place : v.online[q][c] = None
  <2> SUFFICES ASSUME NEW q \in Place, v.online[q][c] # None
               PROVE  FALSE
    OBVIOUS
  <2>1. q # p /\ w.online[q][c] # None /\ w.online[q][c] \in Client
    BY <1>2, <1>3
  <2>2. FoundAt(w, pe, q, c) /\ w.find[c] = q /\ \A x \in Client : Holds(w.cl[x], c) => x = w.online[q][c]
    BY <2>1 DEF Found
  <2>3. w.online[p][c] = None
    BY <2>1, <2>2 DEF Found
  <2>4. PICK s \in Client : Departs(w, v, s, p, c)
    BY <2>3 DEF Evicts
  <2>5. w.online[q][c] = s /\ w.cl[s].server = p /\ w.cl[s].at = "moving"
    BY <2>2, <2>4 DEF Departs, Holds
  <2> QED BY <2>1, <2>2, <2>5 DEF FoundAt, Away, Under
\* Who has this character is on the way, and not to be found.
<1>7. \A x \in Client : Has(v.cl[x], c) => v.cl[x].at \notin There
  <2> SUFFICES ASSUME NEW x \in Client, Has(v.cl[x], c), v.cl[x].at \in There
               PROVE  FALSE
    OBVIOUS
  <2>1. w.cl[x].at \in There /\ Has(w.cl[x], c) /\ v.cl[x].at = w.cl[x].at
    BY <1>4, <1>5 DEF There
  <2>2. w.online[w.cl[x].server][c] = x /\ w.cl[x].server \in Place /\ x # None
    BY <2>1, SoundIs DEF Registered, Has, SessionsAssumption
  <2>3. w.cl[x].server = p
    BY <1>3, <1>6, <2>2
  <2>4. CASE Evicts(w, v, c) /\ p = Shop
    BY <2>1, <2>2, <2>3, <2>4 DEF Evicts, Has
  <2>5. CASE \E s \in Client : Departs(w, v, s, p, c)
    <3>1. PICK s \in Client : Departs(w, v, s, p, c)
      BY <2>5
    <3>2. x = s
      BY <2>1, <3>1 DEF Single, Holds, Departs
    <3> QED BY <2>1, <3>1, <3>2 DEF Departs, There
  <2> QED BY <2>4, <2>5
<1>8. Single(v)
  BY <1>5 DEF Single
<1>9. OneEntry(v)
  BY <1>4 DEF OneEntry, Under
<1>10. OnlyParcel(v, pe)
  BY <1>4, <1>5 DEF OnlyParcel, Away
<1>11. Selected(v, pe, ti)
  <2> SUFFICES ASSUME NEW d \in ti, NEW x \in Client
               PROVE  /\ Has(v.cl[x], d) => ~v.cl[x].player.current
                      /\ v.cl[x].at \in {"entering", "moving", "leaving"} /\ v.cl[x].carry.chr = d =>
                           ~v.cl[x].carry.current
    BY DEF Selected
  <2>1. Has(v.cl[x], d) => ~v.cl[x].player.current
    BY <1>4, <1>5 DEF Selected
  <2>2. CASE v.cl[x].at = w.cl[x].at
    BY <1>4, <2>1, <2>2 DEF Selected
  <2>3. CASE v.cl[x].at # w.cl[x].at
    <3>1. w.cl[x].at = "moving" /\ v.cl[x].at = "leaving" /\ v.cl[x].carry = w.cl[x].carry
      BY <1>4, <2>3 DEF Away
    <3> QED BY <2>1, <3>1 DEF Selected
  <2> QED BY <2>2, <2>3
<1>12. Registered(v)
  <2> SUFFICES ASSUME NEW x \in Client, v.cl[x].player # None, v.cl[x].at \in There
               PROVE  /\ v.online[v.cl[x].server][v.cl[x].player.chr] = x
                      /\ ~v.cl[x].serverTransition
    BY DEF Registered
  <2>1. v.cl[x] = w.cl[x] /\ w.cl[x].server \in Place /\ w.cl[x].player.chr \in Char
    BY <1>4, SoundIs DEF There
  <2>2. w.online[w.cl[x].server][w.cl[x].player.chr] = x /\ ~w.cl[x].serverTransition
    BY <2>1 DEF Registered
  <2>3. w.cl[x].player.chr # c
    BY <1>7, <2>1 DEF Has
  <2> QED BY <1>3, <2>1, <2>2, <2>3
<1>13. Found(v, pe)
  <2> SUFFICES ASSUME NEW q \in Place, NEW d \in Char, v.online[q][d] # None
               PROVE  /\ v.find[d] = q
                      /\ \A x \in Client : Holds(v.cl[x], d) => x = v.online[q][d]
                      /\ FoundAt(v, pe, q, d)
    BY DEF Found
  <2>1. d # c /\ w.online[q][d] \in Client /\ v.online[q][d] = w.online[q][d] /\ v.find[d] = w.find[d]
    BY <1>2, <1>3, <1>6
  <2>2. w.find[d] = q /\ FoundAt(w, pe, q, d) /\ \A x \in Client : Holds(w.cl[x], d) => x = w.online[q][d]
    BY <2>1 DEF Found
  <2>3. CASE w.cl[v.online[q][d]].at = v.cl[v.online[q][d]].at
    BY <1>4, <1>5, <2>1, <2>2, <2>3 DEF FoundAt
  <2>4. CASE w.cl[v.online[q][d]].at # v.cl[v.online[q][d]].at
    <3> DEFINE h == v.online[q][d]
    <3>1. h \in Client /\ w.cl[h].at = "moving" /\ w.cl[h].carry.chr = c
      BY <1>4, <2>1, <2>4
    <3>2. Has(w.cl[h], d)
      BY <2>1, <2>2, <3>1 DEF FoundAt, Away
    <3>3. w.cl[h].player = w.cl[h].carry
      BY <3>1, <3>2, SoundIs DEF Shape, Away, Has
    <3> QED BY <2>1, <3>1, <3>2, <3>3 DEF Has
  <2> QED BY <2>3, <2>4
<1>14. Newest(v)
  BY <1>4 DEF Newest, Away
<1>15. Stored(v)
  BY <1>1, <1>5 DEF Stored
<1>16. OneListed(v)
  <2>1. \A q \in Channel, d \in listed : q \in Place /\ d \in Char
    BY DEF TypeOK, Place
  <2> QED BY <1>3, <1>4, <2>1 DEF OneListed
<1> QED BY <1>8, <1>9, <1>10, <1>11, <1>12, <1>13, <1>14, <1>15, <1>16

\* A player plays, and is the only one.
Plays(s, c) ==
    /\ World' \in Sound /\ UNCHANGED <<listed, online, find, saved, pending, ticket>>
    /\ Others(World, World', s)
    /\ cl[s].at = "idle" /\ Has(cl[s], c) /\ cl'[s].at = "idle" /\ cl'[s].server = cl[s].server
    /\ cl'[s].serverTransition = cl[s].serverTransition
    /\ cl'[s].player # None /\ cl'[s].player.chr = c /\ cl'[s].player.current = cl[s].player.current
    /\ cl'[s].player.ver = played[c] + 1
    /\ played' = [played EXCEPT ![c] = @ + 1]

LEMMA PlaysGood ==
    ASSUME TypeOK, World \in Sound, Good(World, pending, ticket),
           NEW s \in Client, NEW c \in Char, Plays(s, c)
    PROVE  Good(World, pending, ticket)'
<1> DEFINE w == World
<1>0. World.cl = cl /\ World.online = online /\ World.find = find /\ World.saved = saved
  BY DEF World
<1>00. World.cl' = cl' /\ World.online' = online' /\ World.find' = find' /\ World.saved' = saved'
  BY DEF World
<1>1. \A x \in Client \ {s} : cl'[x] = cl[x]
  BY <1>0, <1>00 DEF Plays, Others
<1>2. /\ \A d : Holds(cl'[s], d) <=> d = c
      /\ \A d : Holds(cl[s], d) <=> d = c
      /\ \A d : Has(cl'[s], d) <=> d = c
      /\ \A d : Unsaved(cl[s], d) <=> d = c
      /\ \A d : Unsaved(cl'[s], d) <=> d = c
      /\ cl[s].at = "idle" /\ cl'[s].at = "idle" /\ cl'[s].server = cl[s].server
      /\ cl[s].player # None /\ cl'[s].player # None
      /\ cl[s].player.chr = c /\ cl'[s].player.chr = c
  BY DEF Plays, Holds, Has, Unsaved
<1>3. /\ UNCHANGED <<online, find, saved, pending, ticket, listed>>
      /\ \A d \in Char : d # c => played'[d] = played[d]
      /\ played'[c] = played[c] + 1 /\ played \in [Char -> Nat]
  BY DEF Plays, TypeOK
<1> USE DEF Good
<1>4. \A x \in Client : Holds(cl[x], c) => x = s
  BY <1>0, <1>2 DEF Single
<1>5. \A q \in Place : ~Usable(pending[q][c])
  BY <1>0, <1>2 DEF OnlyParcel, Away
<1>6. \A x \in Client, d \in Char : Holds(cl'[x], d) <=> Holds(cl[x], d)
  BY <1>1, <1>2
<1>7. Single(World)'
  BY <1>0, <1>00, <1>6 DEF Single
<1>8. OneEntry(World)'
  BY <1>0, <1>00, <1>1, <1>2 DEF OneEntry, Under
<1>9. OnlyParcel(World, pending)'
  <2> SUFFICES ASSUME NEW p \in Place, NEW d \in Char, Usable(pending[p][d])
               PROVE  /\ \A q \in Place : Usable(pending[q][d]) => q = p
                      /\ \A x \in Client : Holds(cl'[x], d) => cl'[x].at \in Away
                      /\ pending[p][d].ver = played'[d]
    BY <1>00, <1>3 DEF OnlyParcel
  <2>1. d # c
    BY <1>5
  <2> QED BY <1>0, <1>1, <1>2, <1>3, <2>1 DEF OnlyParcel
<1>10. Selected(World, pending, ticket)'
  <2>1. c \in ticket => ~cl'[s].player.current
    BY <1>0, <1>2 DEF Selected, Plays, Has
  <2> QED BY <1>0, <1>00, <1>1, <1>2, <1>3, <2>1 DEF Selected
<1>11. Registered(World)'
  BY <1>0, <1>00, <1>1, <1>2, <1>3 DEF Registered, Plays, There
<1>12. Found(World, pending)'
  <2> SUFFICES ASSUME NEW p \in Place, NEW d \in Char, online[p][d] # None
               PROVE  /\ find[d] = p
                      /\ \A x \in Client : Holds(cl'[x], d) => x = online[p][d]
                      /\ FoundAt(World, pending, p, d)'
    BY <1>00, <1>3 DEF Found
  <2>1. online[p][d] \in Client /\ find[d] = p /\ FoundAt(World, pending, p, d)
        /\ \A x \in Client : Holds(cl[x], d) => x = online[p][d]
    BY <1>0, SoundIs DEF Found
  <2>2. FoundAt(World, pending, p, d)'
    BY <1>0, <1>00, <1>1, <1>2, <1>3, <2>1 DEF FoundAt, There, Has
  <2> QED BY <1>6, <2>1, <2>2
<1>13. Newest(World)'
  <2> SUFFICES ASSUME NEW x \in Client
               PROVE  /\ cl'[x].player # None => cl'[x].player.ver = played'[cl'[x].player.chr]
                      /\ cl'[x].at \in Away \/ (cl'[x].at = "entering" /\ cl'[x].carry.current) =>
                           cl'[x].carry.ver = played'[cl'[x].carry.chr]
    BY <1>00 DEF Newest
  <2>1. CASE x = s
    BY <1>2, <1>3, <2>1 DEF Plays, Away
  <2>2. CASE x # s
    <3>1. cl'[x] = cl[x] /\ ~Holds(cl[x], c)
      BY <1>1, <1>4, <2>2
    <3>2. cl[x].player # None => cl[x].player.chr \in Char /\ cl[x].player.chr # c
      BY <1>0, <3>1, SoundIs DEF Holds, Has
    <3>3. cl[x].at \in Away \/ (cl[x].at = "entering" /\ cl[x].carry.current) =>
            cl[x].carry.chr \in Char /\ cl[x].carry.chr # c
      BY <1>0, <3>1, SoundIs DEF Holds, Away, Under
    <3> QED BY <1>0, <1>3, <3>1, <3>2, <3>3 DEF Newest
  <2> QED BY <2>1, <2>2
<1>14. Stored(World)'
  <2> SUFFICES ASSUME NEW d \in Char
               PROVE  /\ saved[d] <= played'[d]
                      /\ saved[d] # played'[d] => \E x \in Client : Unsaved(cl'[x], d)
    BY <1>00, <1>3 DEF Stored
  <2>1. saved[d] <= played[d] /\ (saved[d] # played[d] => \E x \in Client : Unsaved(cl[x], d))
    BY <1>0 DEF Stored
  <2>2. saved[d] \in Nat
    BY DEF TypeOK
  <2>3. CASE d = c
    BY <1>2, <1>3, <2>1, <2>2, <2>3
  <2>4. CASE d # c
    BY <1>1, <1>2, <1>3, <2>1, <2>4
  <2> QED BY <2>3, <2>4
<1>15. OneListed(World)'
  BY <1>0, <1>00, <1>1, <1>2, <1>3 DEF OneListed
<1> QED BY <1>7, <1>8, <1>9, <1>10, <1>11, <1>12, <1>13, <1>14, <1>15

-----------------------------------------------------------------------------
(* The operations that handlers share.                                      *)

\* The record of one connection is replaced.
LEMMA AtClient ==
    ASSUME NEW w \in Worlds, NEW s \in Client, NEW k
    PROVE  LET v == [w EXCEPT !.cl[s] = k] IN
           /\ v.cl = [w.cl EXCEPT ![s] = k] /\ v.cl[s] = k /\ Others(w, v, s) /\ SameMaps(w, v)
           /\ v.saved = w.saved /\ v.state = w.state
           /\ k \in MapleClient => v \in Worlds
BY DEF Worlds, Others, SameMaps

LEMMA StaysSound ==
    ASSUME NEW w \in Sound, NEW v \in Worlds, NEW s \in Client, Others(w, v, s), Shape(v.cl[s]),
           \A p \in Place, c \in Char : v.online[p][c] \in {w.online[p][c], None},
           v.cl[s].at \in Under => \A p \in Place, c \in Char : v.online[p][c] # s
    PROVE  v \in Sound
<1>1. \A x \in Client : Shape(v.cl[x])
  BY SoundIs DEF Others
<1>2. Entered(v)
  <2> SUFFICES ASSUME NEW p \in Place, NEW c \in Char, v.online[p][c] # None
               PROVE  v.cl[v.online[p][c]].at \notin Under
    BY DEF Entered
  <2>1. v.online[p][c] = w.online[p][c] /\ w.online[p][c] \in Client
    BY SoundIs
  <2>2. w.cl[w.online[p][c]].at \notin Under
    BY <2>1 DEF Sound, Entered
  <2> QED BY <2>1, <2>2 DEF Others
<1> QED BY <1>1, <1>2 DEF Sound

\* Only the flags of a connection change.
Flags(w, v, s) ==
    /\ v \in Sound /\ SameMaps(w, v) /\ Others(w, v, s) /\ v.saved = w.saved
    /\ SameDoing(w.cl[s], v.cl[s])

LEMMA SameShape ==
    ASSUME NEW k, NEW l, SameDoing(k, l)
    PROVE  Shape(l) <=> Shape(k)
BY DEF SameDoing, Shape

\* A step touches no more than the record of one connection and the account's state.
Touches(w, v, s) == v \in Worlds /\ SameMaps(w, v) /\ Others(w, v, s) /\ v.saved = w.saved

LEMMA LoginStateAt ==
    ASSUME NEW w \in Worlds, NEW s \in Client, NEW n \in {0, 1, 2, 5, 6}
    PROVE  LET v == updateLoginState(w, s, n) IN
           /\ Touches(w, v, s) /\ SameDoing(w.cl[s], v.cl[s])
           /\ v.cl[s].serverTransition <=> n \in {1, 6}
<1> DEFINE k == [w.cl[s] EXCEPT !.serverTransition = n \in {1, 6}, !.loggedIn = n \notin {0, 1, 6}]
<1> DEFINE u == [w EXCEPT !.cl[s] = k]
<1> DEFINE st == IF w.cl[s].acc THEN n ELSE w.state
<1> DEFINE v == [u EXCEPT !.state = st]
<1>1. w.cl[s] \in MapleClient
  BY DEF Worlds
<1>2. k \in MapleClient /\ SameDoing(w.cl[s], k) /\ (k.serverTransition <=> n \in {1, 6})
  <2> DEFINE b == n \in {1, 6}  e == n \notin {0, 1, 6}
  <2>1. b \in BOOLEAN /\ e \in BOOLEAN OBVIOUS
  <2>2. k = [w.cl[s] EXCEPT !.serverTransition = b, !.loggedIn = e] OBVIOUS
  <2>3. b <=> n \in {1, 6} OBVIOUS
  <2> HIDE DEF b, e, k
  <2>4. k \in MapleClient
    BY <1>1, <2>1, <2>2 DEF MapleClient
  <2>5. SameDoing(w.cl[s], k) /\ k.serverTransition = b
    BY <1>1, <2>1, <2>2 DEF MapleClient, SameDoing
  <2> QED BY <2>3, <2>4, <2>5
<1>3. updateLoginState(w, s, n) = v
  BY <1>1 DEF updateLoginState, Worlds
<1>4. st \in {0, 1, 2, 5, 6}
  BY <1>1 DEF Worlds
<1> HIDE DEF k, st
<1>5. u \in Worlds /\ u.cl[s] = k /\ Others(w, u, s) /\ SameMaps(w, u) /\ u.saved = w.saved
  BY <1>1, <1>2, AtClient
<1> HIDE DEF u
<1>6. v \in Worlds /\ v.cl = u.cl /\ v.online = u.online /\ v.find = u.find /\ v.saved = u.saved
  BY <1>4, <1>5 DEF Worlds
<1> HIDE DEF v
<1>7. Others(w, v, s) /\ SameMaps(w, v) /\ v.saved = w.saved /\ v.cl[s] = k
  BY <1>5, <1>6 DEF Others, SameMaps
<1> QED BY <1>2, <1>3, <1>6, <1>7 DEF Touches

LEMMA LoginState ==
    ASSUME NEW w \in Sound, NEW s \in Client, NEW n \in {0, 1, 2, 5, 6}
    PROVE  LET v == updateLoginState(w, s, n) IN
           Flags(w, v, s) /\ (v.cl[s].serverTransition <=> n \in {1, 6})
<1> DEFINE v == updateLoginState(w, s, n)
<1>1. w \in Worlds /\ w.cl[s] \in MapleClient /\ Shape(w.cl[s])
  BY SoundIs
<1>2. Touches(w, v, s) /\ SameDoing(w.cl[s], v.cl[s]) /\ (v.cl[s].serverTransition <=> n \in {1, 6})
  BY <1>1, LoginStateAt
<1> HIDE DEF v
<1>3. Shape(v.cl[s]) /\ v.online = w.online
  BY <1>1, <1>2, SameShape DEF Touches, SameMaps
<1>4. v.cl[s].at \in Under => \A p \in Place, c \in Char : v.online[p][c] # s
  BY <1>2, <1>3 DEF SameDoing, Sound, Entered, SessionsAssumption
<1>5. v \in Sound
  BY <1>2, <1>3, <1>4, StaysSound DEF Touches
<1> QED BY <1>2, <1>5 DEF Flags, Touches, v

\* Closing does not touch what the others see.
LEMMA FlagsQuiet ==
    ASSUME NEW w, NEW v, NEW s \in Client, Flags(w, v, s),
           v.cl[s].serverTransition => w.cl[s].serverTransition
    PROVE  Quiet(w, v)
BY DEF Flags, Quiet, Others, Alike, SameDoing

\* The server that a disconnected character is taken out of.
From(w, s, fromCS) ==
    IF w.cl[s].server = Shop
    THEN IF fromCS /\ w.find[w.cl[s].player.chr] \notin Channel THEN Shop ELSE w.cl[s].player.home
    ELSE w.cl[s].server
Removes(w, s, remove, fromCS) ==
    remove /\ (From(w, s, fromCS) = Shop => w.find[w.cl[s].player.chr] = Shop)

\* What disconnecting does.
Parted(k, l) ==
    /\ l.server = k.server /\ l.at = k.at /\ l.carry = k.carry /\ l.to = k.to /\ l.player = None
    /\ l.serverTransition => k.serverTransition
Disconnected(w, v, s, remove, fromCS) ==
    LET p == w.cl[s].player  from == From(w, s, fromCS) IN
    /\ v \in Sound /\ Others(w, v, s) /\ Parted(w.cl[s], v.cl[s])
    /\ p = None => SameMaps(w, v) /\ v.saved = w.saved
    /\ p # None =>
         /\ v.saved = [w.saved EXCEPT ![p.chr] = p.ver]
         /\ IF Removes(w, s, remove, fromCS)
            THEN /\ v.online = [w.online EXCEPT ![from][p.chr] = None]
                 /\ v.find = [w.find EXCEPT ![p.chr] = None]
            ELSE SameMaps(w, v)

LEMMA Dropped ==
    ASSUME NEW w \in Worlds, NEW p \in Place, NEW c \in Char
    PROVE  LET v == deregisterPlayer(w, p, c) IN
           /\ v \in Worlds /\ v.cl = w.cl /\ v.saved = w.saved
           /\ v.online = [w.online EXCEPT ![p][c] = None]
           /\ v.find = [w.find EXCEPT ![c] = None]
           /\ \A q \in Place, d \in Char : v.online[q][d] \in {w.online[q][d], None}
BY DEF deregisterPlayer, Worlds

LEMMA Disconnects ==
    ASSUME NEW w \in Sound, NEW s \in Client, w.cl[s].at \notin Under,
           NEW remove \in BOOLEAN, NEW fromCS \in BOOLEAN
    PROVE  Disconnected(w, disconnect(w, s, remove, fromCS), s, remove, fromCS)
<1> DEFINE p == w.cl[s].player
           from == From(w, s, fromCS)
           m == [w EXCEPT !.saved = [w.saved EXCEPT ![p.chr] = p.ver]]
           k == [w.cl[s] EXCEPT !.player = None]
           saves == [m EXCEPT !.cl[s] = k]
           left == IF Removes(w, s, remove, fromCS) THEN deregisterPlayer(saves, from, p.chr) ELSE saves
           done == IF p = None THEN w ELSE left
           v == IF ~done.cl[s].serverTransition /\ done.cl[s].loggedIn
                THEN updateLoginState(done, s, 0) ELSE done
<1>1. /\ w \in Worlds /\ w.cl[s] \in MapleClient /\ Shape(w.cl[s])
      /\ p # None => p \in Copy /\ p.chr \in Char /\ w.cl[s].server \in Place
  BY SoundIs
<1>2. disconnect(w, s, remove, fromCS) = v
  <2>1. saves = [w EXCEPT !.saved[p.chr] = p.ver, !.cl[s].player = None]
    BY <1>1 DEF Worlds
  <2> QED BY <2>1 DEF disconnect, From, Removes
<1> HIDE DEF v
<1>3. CASE p = None
  <2>1. done = w
    BY <1>3
  <2>2. Flags(w, v, s) /\ (v.cl[s].serverTransition => w.cl[s].serverTransition)
    <3>1. CASE v = w
      BY <1>1, <3>1 DEF Flags, SameMaps, Others, SameDoing
    <3>2. CASE v = updateLoginState(w, s, 0)
      BY <3>2, LoginState
    <3> QED BY <2>1, <3>1, <3>2 DEF v
  <2>3. v.cl[s].player = None
    BY <1>3, <2>2 DEF Flags, SameDoing
  <2> QED BY <1>2, <1>3, <2>2, <2>3 DEF Disconnected, Flags, SameDoing, Parted
<1>4. CASE p # None
  <2>1. /\ m \in Worlds /\ m.cl = w.cl /\ m.online = w.online /\ m.find = w.find
        /\ m.saved = [w.saved EXCEPT ![p.chr] = p.ver]
    BY <1>1, <1>4 DEF Worlds, Copy
  <2>2. k \in MapleClient /\ Parted(w.cl[s], k) /\ k.serverTransition = w.cl[s].serverTransition
    BY <1>1 DEF MapleClient, Parted
  <2> HIDE DEF k, m
  <2>3. /\ saves \in Worlds /\ saves.cl[s] = k /\ Others(w, saves, s) /\ SameMaps(w, saves)
        /\ saves.saved = [w.saved EXCEPT ![p.chr] = p.ver]
    <3>1. Others(m, saves, s) /\ SameMaps(m, saves) /\ saves \in Worlds /\ saves.cl[s] = k
          /\ saves.saved = m.saved
      BY <2>1, <2>2, AtClient
    <3> HIDE DEF saves
    <3> QED BY <2>1, <3>1 DEF Others, SameMaps
  <2> HIDE DEF saves
  <2>4. from \in Place
    BY <1>1, <1>4 DEF From, Copy, Place
  <2>5. /\ left \in Worlds /\ left.cl = saves.cl /\ left.saved = saves.saved
        /\ IF Removes(w, s, remove, fromCS)
            THEN /\ left.online = [w.online EXCEPT ![from][p.chr] = None]
                 /\ left.find = [w.find EXCEPT ![p.chr] = None]
            ELSE SameMaps(w, left)
        /\ \A q \in Place, d \in Char : left.online[q][d] \in {w.online[q][d], None}
    <3>1. CASE Removes(w, s, remove, fromCS)
      <4> DEFINE c == p.chr
      <4>1. left = deregisterPlayer(saves, from, c)
        BY <3>1
      <4>2. c \in Char
        BY <1>1, <1>4
      <4> HIDE DEF left, from, c
      <4>3. /\ left \in Worlds /\ left.cl = saves.cl /\ left.saved = saves.saved
            /\ left.online = [saves.online EXCEPT ![from][c] = None]
            /\ left.find = [saves.find EXCEPT ![c] = None]
            /\ \A q \in Place, d \in Char : left.online[q][d] \in {saves.online[q][d], None}
        BY <2>3, <2>4, <4>1, <4>2, Dropped
      <4>4. saves.online = w.online /\ saves.find = w.find
        BY <2>3 DEF SameMaps
      <4>5. left.online = [w.online EXCEPT ![from][p.chr] = None] /\ left.find = [w.find EXCEPT ![p.chr] = None]
        BY <4>3, <4>4 DEF c
      <4> QED BY <3>1, <4>3, <4>4, <4>5
    <3>2. CASE ~Removes(w, s, remove, fromCS)
      <4>1. left = saves
        BY <3>2
      <4> HIDE DEF left
      <4> QED BY <2>3, <3>2, <4>1 DEF SameMaps
    <3> QED BY <3>1, <3>2
  <2> HIDE DEF left, p
  <2>6. done = left
    BY <1>4
  <2> HIDE DEF done
  <2>7. Others(w, left, s) /\ left.cl[s] = k
    BY <2>3, <2>5 DEF Others
  <2>8. Shape(k) /\ k.at \notin Under
    BY <1>1, <2>2 DEF Shape, Parted, Under, Away
  <2>9. left \in Sound
    BY <2>5, <2>7, <2>8, StaysSound
  <2>10. Flags(left, v, s) /\ (v.cl[s].serverTransition => left.cl[s].serverTransition)
    <3>1. CASE v = left
      BY <2>9, <3>1 DEF Flags, SameMaps, Others, SameDoing
    <3>2. CASE v = updateLoginState(left, s, 0)
      BY <2>9, <3>2, LoginState
    <3> QED BY <2>6, <3>1, <3>2 DEF v
  <2>11. v \in Sound /\ Others(w, v, s) /\ Parted(w.cl[s], v.cl[s]) /\ SameMaps(left, v)
         /\ v.saved = left.saved
    BY <2>2, <2>7, <2>10 DEF Flags, Others, SameDoing, Parted
  <2>12. v.saved = [w.saved EXCEPT ![w.cl[s].player.chr] = w.cl[s].player.ver]
    BY <2>3, <2>5, <2>11 DEF p
  <2>13. IF Removes(w, s, remove, fromCS)
         THEN /\ v.online = [w.online EXCEPT ![From(w, s, fromCS)][w.cl[s].player.chr] = None]
              /\ v.find = [w.find EXCEPT ![w.cl[s].player.chr] = None]
         ELSE SameMaps(w, v)
    BY <2>5, <2>11 DEF p, SameMaps
  <2> QED BY <1>2, <1>4, <2>11, <2>12, <2>13 DEF Disconnected, p
<1> QED BY <1>3, <1>4

\* Kicking takes characters away and moves nobody.
Follows(w, v) == \A x \in Client :
    /\ v.cl[x].server = w.cl[x].server /\ v.cl[x].at = w.cl[x].at /\ v.cl[x].carry = w.cl[x].carry
    /\ v.cl[x].to = w.cl[x].to
    /\ w.cl[x].player = None => v.cl[x].player = None

LEMMA Kicks ==
    ASSUME NEW w \in Sound, NEW s \in Client, w.cl[s].at \notin Under
    PROVE  LET v == unLockDisconnect(w, s) IN
           Disconnected(w, v, s, w.cl[s].serverTransition, FALSE) /\ Follows(w, v)
<1> DEFINE b == w.cl[s].serverTransition
           d == disconnect(w, s, b, FALSE)
           k == [d.cl[s] EXCEPT !.open = FALSE, !.closed = TRUE]
           v == [d EXCEPT !.cl[s] = k]
<1>1. b \in BOOLEAN
  BY SoundIs DEF MapleClient
<1> HIDE DEF b
<1>2. Disconnected(w, d, s, b, FALSE)
  BY <1>1, Disconnects
<1> HIDE DEF d
<1>3. d \in Sound /\ d \in Worlds /\ d.cl[s] \in MapleClient /\ Parted(w.cl[s], d.cl[s])
  BY <1>2, SoundIs DEF Disconnected
<1>4. k \in MapleClient /\ SameDoing(d.cl[s], k) /\ (k.serverTransition <=> d.cl[s].serverTransition)
  BY <1>3 DEF MapleClient, SameDoing
<1>5. unLockDisconnect(w, s) = v
  BY <1>3 DEF unLockDisconnect, Worlds, d, b
<1> HIDE DEF k
<1>6. v \in Worlds /\ v.cl[s] = k /\ Others(d, v, s) /\ SameMaps(d, v) /\ v.saved = d.saved
  BY <1>3, <1>4, AtClient
<1> HIDE DEF v
<1>7. Parted(w.cl[s], v.cl[s]) /\ Shape(v.cl[s]) /\ v.cl[s].at \notin Under
  BY <1>3, <1>4, <1>6, SoundIs, SameShape DEF Parted, SameDoing
<1>8. v \in Sound
  BY <1>3, <1>6, <1>7, StaysSound DEF SameMaps
<1>9. Others(w, v, s)
  BY <1>2, <1>6 DEF Others, Disconnected
<1>10. Disconnected(w, v, s, b, FALSE)
  BY <1>2, <1>6, <1>7, <1>8, <1>9 DEF Disconnected, SameMaps
<1>11. Follows(w, v)
  BY <1>7, <1>9 DEF Follows, Parted, Others
<1> QED BY <1>5, <1>10, <1>11 DEF b

LEMMA KickFollows ==
    ASSUME NEW w \in Sound, NEW h, NEW me, h # None => h \in Client /\ w.cl[h].at \notin Under
    PROVE  Kick(w, h, me) \in Sound /\ Follows(w, Kick(w, h, me))
<1>1. CASE h \in {None, me}
  BY <1>1 DEF Kick, Follows
<1>2. CASE h \notin {None, me}
  BY <1>2, Kicks DEF Kick, Disconnected
<1> QED BY <1>1, <1>2

LEMMA ChannelFollows ==
    ASSUME NEW w \in Sound, NEW p \in Channel, NEW c \in Char, NEW me
    PROVE  FromChannel(w, p, c, me) \in Sound /\ Follows(w, FromChannel(w, p, c, me))
<1> DEFINE h == w.online[p][c]
           k == Kick(w, h, me)
           v == deregisterPlayer(k, p, c)
<1>1. p \in Place /\ (h # None => h \in Client /\ w.cl[h].at \notin Under)
  BY SoundIs DEF Sound, Entered, Place
<1> HIDE DEF h
<1>2. k \in Sound /\ k \in Worlds /\ Follows(w, k)
  BY <1>1, KickFollows, SoundIs
<1> HIDE DEF k
<1>3. v.cl = k.cl /\ v \in Worlds /\ \A q \in Place, d \in Char : v.online[q][d] \in {k.online[q][d], None}
  <2>1. p \in Place /\ k \in Worlds
    BY <1>1, <1>2
  <2>2. v = deregisterPlayer(k, p, c) OBVIOUS
  <2> HIDE DEF v
  <2> QED
    <3>1. deregisterPlayer(k, p, c) \in Worlds
      BY <2>1, Dropped
    <3>3. v.cl = k.cl
      BY <2>1, <2>2 DEF deregisterPlayer, Worlds
    <3>2. ASSUME NEW q \in Place, NEW d \in Char PROVE v.online[q][d] \in {k.online[q][d], None}
      BY <2>1, <2>2, Dropped
    <3> QED BY <2>2, <3>1, <3>2, <3>3
<1> HIDE DEF v
<1>4. CASE h # None
  <2>1. Others(k, v, h) /\ Shape(v.cl[h]) /\ v.cl[h].at \notin Under
    BY <1>1, <1>2, <1>3, <1>4, SoundIs DEF Others, Follows
  <2>2. v \in Sound
    BY <1>1, <1>2, <1>3, <1>4, <2>1, StaysSound
  <2>3. Follows(w, v)
    BY <1>2, <1>3 DEF Follows
  <2> QED BY <1>2, <2>2, <2>3 DEF FromChannel, h, k, v
<1>5. CASE h = None
  BY <1>2, <1>5 DEF FromChannel, h, k
<1> QED BY <1>4, <1>5

LEMMA ShopFollows ==
    ASSUME NEW w \in Sound, NEW c \in Char, NEW me
    PROVE  FromShop(w, c, me) \in Sound /\ Follows(w, FromShop(w, c, me))
<1>1. LET h == w.online[Shop][c] IN h # None => h \in Client /\ w.cl[h].at \notin Under
  BY SoundIs DEF Sound, Entered, Place
<1> QED BY <1>1, KickFollows DEF FromShop

LEMMA ForceRemoveFollows ==
    ASSUME NEW w0 \in Sound, NEW me
    PROVE  forceRemovePlayer(w0, me) \in Sound /\ Follows(w0, forceRemovePlayer(w0, me))
<1> DEFINE W == {w \in Sound : Follows(w0, w)}
<1>1. w0 \in W
  BY DEF Follows
<1>2. \A w \in W : \A p \in Channel, c \in Char : FromChannel(w, p, c, me) \in W
  <2> SUFFICES ASSUME NEW w \in Sound, Follows(w0, w), NEW p \in Channel, NEW c \in Char
               PROVE  FromChannel(w, p, c, me) \in Sound /\ Follows(w0, FromChannel(w, p, c, me))
    OBVIOUS
  <2> DEFINE v == FromChannel(w, p, c, me)
  <2>1. v \in Sound /\ Follows(w, v)
    BY ChannelFollows
  <2> HIDE DEF v
  <2> QED BY <2>1 DEF Follows, v
<1>3. \A w \in W : \A c \in Char : FromShop(w, c, me) \in W
  <2> SUFFICES ASSUME NEW w \in Sound, Follows(w0, w), NEW c \in Char
               PROVE  FromShop(w, c, me) \in Sound /\ Follows(w0, FromShop(w, c, me))
    OBVIOUS
  <2> DEFINE v == FromShop(w, c, me)
  <2>1. v \in Sound /\ Follows(w, v)
    BY ShopFollows
  <2> HIDE DEF v
  <2> QED BY <2>1 DEF Follows, v
<1> HIDE DEF W
<1>4. forceRemovePlayer(w0, me) \in W
  BY <1>1, <1>2, <1>3, ForceRemoveKeeps
<1> QED BY <1>4 DEF W

\* Saving is never of an older copy.
Forward(w, v) == \A c \in Char : w.saved[c] <= v.saved[c]

LEMMA SameForward ==
    ASSUME NEW w \in Sound, NEW v, v.saved = w.saved
    PROVE  Forward(w, v)
BY SoundIs DEF Forward, Worlds

LEMMA LosesForward ==
    ASSUME TypeOK, NEW w \in Sound, NEW v, NEW pe, NEW ti, Good(w, pe, ti),
           NEW s \in Client, NEW p \in Place, NEW c \in Char, Loses(w, v, s, p, c)
    PROVE  Forward(w, v)
<1>1. w.saved \in [Char -> 0..MaxPlay] /\ played \in [Char -> 0..MaxPlay]
  BY SoundIs DEF Worlds, TypeOK
<1>2. v.saved = [w.saved EXCEPT ![c] = played[c]] /\ w.saved[c] <= played[c]
  BY DEF Loses, Has, Good, Newest, Stored
<1> QED BY <1>1, <1>2 DEF Forward

\* What is found in a channel is played by its connection, and loses to a kick.
LEMMA ChannelGood ==
    ASSUME TypeOK, NEW w \in Sound, NEW pe, NEW ti \in SUBSET Char, Good(w, pe, ti),
           NEW p \in Channel, NEW c \in Char, NEW me \in Client, w.cl[me].server = Login
    PROVE  Good(FromChannel(w, p, c, me), pe, ti) /\ Forward(w, FromChannel(w, p, c, me))
<1> DEFINE h == w.online[p][c]
           k == Kick(w, h, me)
           v == FromChannel(w, p, c, me)
<1>1. CASE h = None
  <2>1. v = w
    BY <1>1 DEF FromChannel, Kick
  <2> QED BY <2>1, SameForward
<1>2. CASE h # None
  <2>1. p \in Place /\ p # Shop /\ p # Login /\ h \in Client
    BY <1>2, SoundIs DEF Place
  <2>2. w.cl[h].server = p /\ Has(w.cl[h], c) /\ w.cl[h].at \in There
    BY <1>2, <2>1 DEF Good, Found, FoundAt
  <2>3. h # me /\ ~w.cl[h].serverTransition /\ w.cl[h].at \notin Under
    BY <2>1, <2>2 DEF Good, Registered, Has, There, Under
  <2>4. v \in Sound /\ v \in Worlds
    BY ChannelFollows, SoundIs
  <2>5. k = unLockDisconnect(w, h)
    BY <1>2, <2>3 DEF Kick
  <2>6. v = IF k.online[p][c] = h THEN deregisterPlayer(k, p, c) ELSE k
    BY <1>2 DEF FromChannel
  <2> HIDE DEF h, k, v
  <2>7. Disconnected(w, k, h, w.cl[h].serverTransition, FALSE)
    BY <2>1, <2>3, <2>5, Kicks
  <2>8. /\ k \in Worlds /\ Others(w, k, h) /\ Parted(w.cl[h], k.cl[h])
        /\ k.online = w.online /\ k.find = w.find
        /\ k.saved = [w.saved EXCEPT ![c] = w.cl[h].player.ver]
    BY <2>2, <2>3, <2>7, SoundIs DEF Disconnected, Removes, Has, SameMaps
  <2>9. /\ v.cl = k.cl /\ v.saved = k.saved
        /\ v.online = [w.online EXCEPT ![p][c] = None] /\ v.find = [w.find EXCEPT ![c] = None]
    BY <2>1, <2>6, <2>8 DEF deregisterPlayer, Worlds, h
  <2>10. Loses(w, v, h, p, c)
    BY <2>1, <2>2, <2>4, <2>8, <2>9 DEF Loses, Others, Parted, h
  <2> QED BY <2>1, <2>10, LosesGood, LosesForward DEF v
<1> QED BY <1>1, <1>2

\* What is found in the cash shop may have been kicked already.
LEMMA ShopGood ==
    ASSUME TypeOK, NEW w \in Sound, NEW pe, NEW ti \in SUBSET Char, Good(w, pe, ti),
           NEW c \in Char, NEW me \in Client
    PROVE  Good(FromShop(w, c, me), pe, ti) /\ Forward(w, FromShop(w, c, me))
<1> DEFINE h == w.online[Shop][c]
           v == FromShop(w, c, me)
<1>1. CASE h \in {None, me}
  <2>1. v = w
    BY <1>1 DEF FromShop, Kick
  <2> QED BY <2>1, SameForward
<1>2. CASE h \notin {None, me}
  <2>1. Shop \in Place /\ h \in Client
    BY <1>2, SoundIs DEF Place
  <2>2. FoundAt(w, pe, Shop, c)
    BY <1>2, <2>1 DEF Good, Found
  <2>3. w.cl[h].at \notin Under
    BY <2>2 DEF FoundAt, There, Under
  <2>4. v = unLockDisconnect(w, h)
    BY <1>2 DEF Kick, FromShop
  <2> HIDE DEF v
  <2>5. Disconnected(w, v, h, w.cl[h].serverTransition, FALSE)
    BY <2>1, <2>3, <2>4, Kicks
  <2>6. CASE w.cl[h].server = Shop /\ Has(w.cl[h], c) /\ w.cl[h].at \in There
    <3>1. ~w.cl[h].serverTransition
      BY <2>1, <2>6 DEF Good, Registered, Has
    <3>2. Loses(w, v, h, Shop, c)
      BY <2>1, <2>5, <2>6, <3>1, SoundIs DEF Disconnected, Removes, Has, Loses, Parted
    <3> QED BY <2>1, <3>2, LosesGood, LosesForward DEF v
  <2>7. CASE w.cl[h].player = None /\ w.cl[h].at \notin Under \cup Away
    <3>1. Quiet(w, v)
      BY <2>5, <2>7 DEF Disconnected, Quiet, Others, Alike, SameDoing, Nobody, Parted
    <3> QED BY <3>1, QuietGood, SameForward DEF v, Quiet
  <2> QED BY <2>2, <2>6, <2>7 DEF FoundAt
<1> QED BY <1>1, <1>2

LEMMA ForwardForward ==
    ASSUME NEW u \in Sound, NEW w \in Sound, NEW v \in Sound, Forward(u, w), Forward(w, v)
    PROVE  Forward(u, v)
<1>1. \A x \in Sound : x.saved \in [Char -> 0..MaxPlay]
  BY SoundIs DEF Worlds
<1> QED BY <1>1 DEF Forward

LEMMA ForceRemoveGood ==
    ASSUME TypeOK, NEW w0 \in Sound, NEW pe, NEW ti \in SUBSET Char, Good(w0, pe, ti),
           NEW me \in Client, w0.cl[me].server = Login
    PROVE  Good(forceRemovePlayer(w0, me), pe, ti) /\ Forward(w0, forceRemovePlayer(w0, me))
<1> DEFINE W == {w \in Sound : Follows(w0, w) /\ Good(w, pe, ti) /\ Forward(w0, w)}
<1>1. w0 \in W
  BY SameForward DEF Follows
<1>2. \A w \in W : \A p \in Channel, c \in Char : FromChannel(w, p, c, me) \in W
  <2> SUFFICES ASSUME NEW w \in Sound, Follows(w0, w), Good(w, pe, ti), Forward(w0, w), NEW p \in Channel, NEW c \in Char
               PROVE  LET v == FromChannel(w, p, c, me) IN
                      v \in Sound /\ Follows(w0, v) /\ Good(v, pe, ti) /\ Forward(w0, v)
    OBVIOUS
  <2> DEFINE v == FromChannel(w, p, c, me)
  <2>1. v \in Sound /\ Follows(w, v)
    BY ChannelFollows
  <2>2. w.cl[me].server = Login
    BY DEF Follows
  <2>3. Good(v, pe, ti) /\ Forward(w, v)
    BY <2>2, ChannelGood
  <2> HIDE DEF v
  <2> QED BY <2>1, <2>3, ForwardForward DEF Follows, v
<1>3. \A w \in W : \A c \in Char : FromShop(w, c, me) \in W
  <2> SUFFICES ASSUME NEW w \in Sound, Follows(w0, w), Good(w, pe, ti), Forward(w0, w), NEW c \in Char
               PROVE  LET v == FromShop(w, c, me) IN
                      v \in Sound /\ Follows(w0, v) /\ Good(v, pe, ti) /\ Forward(w0, v)
    OBVIOUS
  <2> DEFINE v == FromShop(w, c, me)
  <2>1. v \in Sound /\ Follows(w, v)
    BY ShopFollows
  <2>2. Good(v, pe, ti) /\ Forward(w, v)
    BY ShopGood
  <2> HIDE DEF v
  <2> QED BY <2>1, <2>2, ForwardForward DEF Follows, v
<1> HIDE DEF W
<1>4. forceRemovePlayer(w0, me) \in W
  BY <1>1, <1>2, <1>3, ForceRemoveKeeps
<1> QED BY <1>4 DEF W

\* The session that is registered has no character to lose.
LEMMA ForceRemoveClient ==
    ASSUME NEW w \in Sound, NEW me,
           registered # None => /\ registered \in Client
                                /\ w.cl[registered].server = Login /\ w.cl[registered].player = None
    PROVE  /\ Quiet(w, forceRemoveClient(w, me)) /\ Follows(w, forceRemoveClient(w, me))
           /\ forceRemoveClient(w, me) \in Sound
<1> DEFINE v == forceRemoveClient(w, me)
<1>1. CASE registered \in {None, me}
  <2>1. v = w
    BY <1>1 DEF forceRemoveClient
  <2> QED BY <2>1 DEF Quiet, Follows, SameMaps, Alike, SameDoing
<1>2. CASE registered \notin {None, me}
  <2>1. v = unLockDisconnect(w, registered)
    BY <1>2 DEF forceRemoveClient
  <2>2. w.cl[registered].at \notin Under \cup Away
    BY <1>2, SoundIs DEF Place
  <2> HIDE DEF v
  <2>3. Disconnected(w, v, registered, w.cl[registered].serverTransition, FALSE) /\ Follows(w, v)
    BY <1>2, <2>1, <2>2, Kicks
  <2>4. Quiet(w, v)
    BY <1>2, <2>2, <2>3 DEF Disconnected, Quiet, Others, Alike, SameDoing, Nobody, Parted
  <2> QED BY <2>3, <2>4 DEF Quiet, v
<1> QED BY <1>1, <1>2

\* The session of the login server stays one without a character.
Session(w, r) == r # None => w.cl[r].server = Login /\ w.cl[r].player = None

LEMMA SessionKeeps ==
    ASSUME TypeOK, NEW w, NEW v, Session(w, registered),
           \A x \in Client : x = registered =>
              /\ v.cl[x].server = w.cl[x].server /\ (w.cl[x].player = None => v.cl[x].player = None)
    PROVE  Session(v, registered)
BY DEF TypeOK, Session

\* A step of the account: where it arrives, in terms of the state before.
Sure == IInv' /\ (NoLapse => \A c \in Char : saved'[c] >= saved[c])

LEMMA WorldIs ==
    ASSUME TypeOK
    PROVE  /\ World \in Worlds /\ World.cl = cl /\ World.online = online /\ World.find = find
           /\ World.state = state /\ World.saved = saved
           /\ pending \in Parcels /\ ticket \in SUBSET Char /\ saved \in [Char -> 0..MaxPlay]
BY DEF TypeOK, World, Worlds, Parcels

LEMMA Arrives ==
    ASSUME IInv, NEW w \in Sound, NEW pe \in Parcels, NEW ti \in SUBSET Char, NEW r \in Client \cup {None},
           Become(w), pending' = pe, ticket' = ti, registered' = r, UNCHANGED listed,
           played' \in [Char -> 0..MaxPlay], NoLapse' => played' = played,
           logins' \in 0..MaxLogin, invites' \subseteq [to : Place, chr : Char],
           lapse \subseteq lapse', lapse' \subseteq Lapse,
           Addressed(pe), Session(w, r),
           NoLapse => Forward(World, w), NoLapse' => Good(w, pe, ti)
    PROVE  Sure
<1>1. w \in Worlds /\ TypeOK
  BY SoundIs DEF IInv, Orderly
<1>2. World' = w
  BY <1>1 DEF World, Become, Worlds
<1>3. TypeOK'
  BY <1>1 DEF TypeOK, Become, Worlds, Parcels
<1>4. Addressed(pending)' /\ Known'
  BY <1>2 DEF Addressed, Known, Session, Become
<1>5. (World \in Sound)'
  <2>1. Sound' = Sound
    BY DEF Sound, Shape, Entered
  <2> QED BY <1>2, <2>1
<1>6. NoLapse' => Good(World, pending, ticket)'
  <2> SUFFICES ASSUME Good(w, pe, ti), played' = played
               PROVE  Good(World, pending, ticket)'
    OBVIOUS
  <2>1. Single(World)' /\ OneEntry(World)'
    BY <1>2 DEF Good, Single, OneEntry
  <2>2. OnlyParcel(World, pending)'
    BY <1>2 DEF Good, OnlyParcel
  <2>3. Selected(World, pending, ticket)'
    BY <1>2 DEF Good, Selected
  <2>4. Registered(World)'
    BY <1>2 DEF Good, Registered
  <2>5. Found(World, pending)'
    BY <1>2 DEF Good, Found, FoundAt
  <2>6. Newest(World)' /\ Stored(World)'
    BY <1>2 DEF Good, Newest, Stored
  <2>7. OneListed(World)'
    BY <1>2 DEF Good, OneListed
  <2> QED BY <2>1, <2>2, <2>3, <2>4, <2>5, <2>6, <2>7 DEF Good
<1>7. NoLapse => \A c \in Char : saved'[c] >= saved[c]
  <2> SUFFICES ASSUME NoLapse, NEW c \in Char
               PROVE  saved'[c] >= saved[c]
    OBVIOUS
  <2>1. w.saved[c] \in 0..MaxPlay /\ saved[c] \in 0..MaxPlay
    BY <1>1 DEF Worlds, TypeOK
  <2> QED BY <2>1, <1>1, WorldIs DEF Forward, Become
<1> QED BY <1>3, <1>4, <1>5, <1>6, <1>7 DEF Sure, IInv, Orderly

LEMMA Moves ==
    ASSUME IInv, NEW w \in Sound, Become(w),
           UNCHANGED <<listed, pending, ticket, logins, registered>>,
           played' \in [Char -> 0..MaxPlay], NoLapse' => played' = played,
           invites' \subseteq [to : Place, chr : Char],
           lapse \subseteq lapse', lapse' \subseteq Lapse, Session(w, registered),
           NoLapse => Forward(World, w), NoLapse' => Good(w, pending, ticket)
    PROVE  Sure
<1>1. TypeOK /\ Addressed(pending)
  BY DEF IInv, Orderly
<1>2. pending \in Parcels /\ ticket \in SUBSET Char /\ registered \in Client \cup {None} /\ logins \in 0..MaxLogin
  BY <1>1 DEF TypeOK, Parcels
<1> QED BY <1>1, <1>2, Arrives

\* What holds before every step.
LEMMA Before ==
    ASSUME IInv
    PROVE  /\ TypeOK /\ World \in Sound /\ World \in Worlds /\ World.cl = cl
           /\ Session(World, registered) /\ Addressed(pending)
           /\ NoLapse => Good(World, pending, ticket)
BY WorldIs DEF IInv, Orderly, Known, Session

LEMMA LapseGrows ==
    ASSUME lapse \subseteq lapse', NoLapse'
    PROVE  NoLapse
BY DEF NoLapse

LEMMA Replaced ==
    ASSUME NEW w \in Sound, NEW s \in Client, NEW k \in MapleClient, Shape(k),
           k.at \in Under => \A p \in Place, c \in Char : w.online[p][c] # s
    PROVE  LET v == [w EXCEPT !.cl[s] = k] IN
           /\ v \in Sound /\ v.cl[s] = k /\ Others(w, v, s) /\ SameMaps(w, v)
           /\ v.saved = w.saved /\ v.state = w.state
<1> DEFINE v == [w EXCEPT !.cl[s] = k]
<1>1. w \in Worlds
  BY SoundIs
<1>2. v \in Worlds /\ v.cl[s] = k /\ Others(w, v, s) /\ SameMaps(w, v) /\ v.saved = w.saved /\ v.state = w.state
  BY <1>1, AtClient
<1> HIDE DEF v
<1>3. v \in Sound
  BY <1>2, StaysSound DEF SameMaps
<1> QED BY <1>2, <1>3 DEF v

LEMMA ClosesAt ==
    ASSUME NEW w \in Worlds, NEW s \in Client
    PROVE  LET v == Close(w, s) IN
           /\ Touches(w, v, s) /\ SameDoing(w.cl[s], v.cl[s])
           /\ v.cl[s].serverTransition = w.cl[s].serverTransition
<1> DEFINE k == [w.cl[s] EXCEPT !.open = FALSE]
           v == [w EXCEPT !.cl[s] = k]
<1>1. w.cl[s] \in MapleClient
  BY DEF Worlds
<1>2. Close(w, s) = v
  BY <1>1 DEF Close, Worlds
<1>3. k \in MapleClient /\ SameDoing(w.cl[s], k) /\ k.serverTransition = w.cl[s].serverTransition
  BY <1>1 DEF MapleClient, SameDoing
<1> HIDE DEF k
<1> QED BY <1>2, <1>3, AtClient DEF Touches

LEMMA Closes ==
    ASSUME NEW w \in Sound, NEW s \in Client
    PROVE  Flags(w, Close(w, s), s) /\ Quiet(w, Close(w, s)) /\ Close(w, s) \in Sound
           /\ Close(w, s).cl[s].serverTransition = w.cl[s].serverTransition
<1> DEFINE v == Close(w, s)
<1>1. w \in Worlds /\ Shape(w.cl[s])
  BY SoundIs
<1>2. /\ Touches(w, v, s) /\ SameDoing(w.cl[s], v.cl[s])
      /\ v.cl[s].serverTransition = w.cl[s].serverTransition
  BY <1>1, ClosesAt
<1> HIDE DEF v
<1>3. Shape(v.cl[s]) /\ v.online = w.online
  BY <1>1, <1>2, SameShape DEF Touches, SameMaps
<1>4. v.cl[s].at \in Under => \A p \in Place, c \in Char : v.online[p][c] # s
  BY <1>2, <1>3 DEF SameDoing, Sound, Entered, SessionsAssumption
<1>5. v \in Sound
  BY <1>2, <1>3, <1>4, StaysSound DEF Touches
<1>6. Flags(w, v, s)
  BY <1>2, <1>5 DEF Flags, Touches
<1> QED BY <1>2, <1>5, <1>6, FlagsQuiet DEF v

\* The handler goes on to another place in it.
Turned(k, l, a) ==
    /\ l.server = k.server /\ l.at = a /\ l.player = k.player /\ l.carry = k.carry /\ l.to = k.to
    /\ l.serverTransition = k.serverTransition

LEMMA GoesAt ==
    ASSUME NEW w \in Worlds, NEW s \in Client, NEW a \in At
    PROVE  LET v == Goto(w, s, a) IN
           /\ Touches(w, v, s) /\ Turned(w.cl[s], v.cl[s], a)
           /\ v.cl[s] = [w.cl[s] EXCEPT !.at = a]
<1> DEFINE k == [w.cl[s] EXCEPT !.at = a]
           v == [w EXCEPT !.cl[s] = k]
<1>1. w.cl[s] \in MapleClient
  BY DEF Worlds
<1>2. Goto(w, s, a) = v
  BY <1>1 DEF Goto, Worlds
<1>3. k \in MapleClient /\ Turned(w.cl[s], k, a)
  BY <1>1 DEF MapleClient, Turned
<1> HIDE DEF k
<1>4. Touches(w, v, s) /\ v.cl[s] = k
  BY <1>3, AtClient DEF Touches
<1> HIDE DEF v
<1> QED BY <1>2, <1>3, <1>4 DEF k

LEMMA Goes ==
    ASSUME NEW w \in Sound, NEW s \in Client, NEW a \in At \ Under, Shape([w.cl[s] EXCEPT !.at = a])
    PROVE  LET v == Goto(w, s, a) IN
           /\ v \in Sound /\ Others(w, v, s) /\ SameMaps(w, v) /\ v.saved = w.saved
           /\ Turned(w.cl[s], v.cl[s], a)
<1> DEFINE v == Goto(w, s, a)
<1>1. w \in Worlds
  BY SoundIs
<1>2. Touches(w, v, s) /\ Turned(w.cl[s], v.cl[s], a) /\ Shape(v.cl[s])
  BY <1>1, GoesAt
<1> HIDE DEF v
<1>3. v \in Sound
  BY <1>2, StaysSound DEF Touches, Turned, SameMaps
<1> QED BY <1>2, <1>3 DEF v, Touches

LEMMA AddsKey ==
    ASSUME NEW w \in Sound, NEW s \in Client, NEW key \in {"login", "server", "client"}
    PROVE  LET v == AddKey(w, s, key) IN
           /\ v \in Sound /\ SameMaps(w, v) /\ v.saved = w.saved
           /\ \A x \in Client : Worthless(w.cl[x], v.cl[x])
<1> DEFINE K(x) == IF x = s THEN w.cl[x].keys \cup ({key} \ {"client"}) ELSE w.cl[x].keys \ {key}
           k(x) == [w.cl[x] EXCEPT !.keys = K(x), !.player = Outdated(w.cl[x].player),
                                   !.carry = Outdated(w.cl[x].carry)]
           f == [x \in Client |-> k(x)]
           v == [w EXCEPT !.cl = f]
<1>1. w \in Worlds /\ \A x \in Client : w.cl[x] \in MapleClient /\ Shape(w.cl[x])
  BY SoundIs
<1>2. AddKey(w, s, key) = v
  BY <1>1 DEF AddKey, Worlds, MapleClient
<1>3. \A x \in Client : K(x) \in SUBSET {"login", "server"}
  BY <1>1 DEF MapleClient
<1> HIDE DEF K
<1>4. \A x \in Client : k(x) \in MapleClient /\ Worthless(w.cl[x], k(x))
  <2> SUFFICES ASSUME NEW x \in Client
               PROVE  k(x) \in MapleClient /\ Worthless(w.cl[x], k(x))
    OBVIOUS
  <2> DEFINE pl == Outdated(w.cl[x].player)
             ca == Outdated(w.cl[x].carry)
  <2>1. w.cl[x] \in MapleClient /\ K(x) \in SUBSET {"login", "server"}
    BY <1>1, <1>3
  <2>2. w.cl[x].player \in Copy \cup {None} /\ w.cl[x].carry \in Copy \cup {None}
    BY <2>1 DEF MapleClient
  <2>3. pl \in Copy \cup {None} /\ ca \in Copy \cup {None}
    BY <2>2, OutdatedIs
  <2>4. k(x) = [w.cl[x] EXCEPT !.keys = K(x), !.player = pl, !.carry = ca] OBVIOUS
  <2>5. Worthless(w.cl[x], [w.cl[x] EXCEPT !.keys = K(x), !.player = pl, !.carry = ca])
    BY <2>1 DEF Worthless, MapleClient
  <2> HIDE DEF pl, ca, k
  <2> QED BY <2>1, <2>3, <2>4, <2>5 DEF MapleClient
<1>5. \A x \in Client : Shape(k(x)) /\ k(x).at = w.cl[x].at
  <2> SUFFICES ASSUME NEW x \in Client
               PROVE  Shape(k(x)) /\ k(x).at = w.cl[x].at
    OBVIOUS
  <2> DEFINE m == w.cl[x]
  <2> HIDE DEF k
  <2>1. Worthless(m, k(x)) /\ m \in MapleClient /\ Shape(m)
    BY <1>1, <1>4
  <2>2. m.player \in Copy \cup {None} /\ m.carry \in Copy \cup {None}
    BY <2>1 DEF MapleClient
  <2>3. (k(x).player = None <=> m.player = None) /\ (k(x).carry = None <=> m.carry = None)
    BY <2>1, <2>2, OutdatedIs DEF Worthless
  <2>4. k(x).player = Outdated(m.player) /\ k(x).carry = Outdated(m.carry)
    BY <2>1 DEF Worthless
  <2> HIDE DEF m
  <2> QED BY <2>1, <2>3, <2>4 DEF Worthless, Shape, m
<1> HIDE DEF k
<1>6. f \in [Client -> MapleClient]
  BY <1>4
<1>7. v \in Worlds /\ v.cl = f /\ v.online = w.online /\ v.find = w.find /\ v.saved = w.saved
  BY <1>1, <1>6 DEF Worlds
<1>8. \A x \in Client : v.cl[x] = k(x)
  BY <1>7
<1> HIDE DEF v, f
<1>9. Entered(v)
  BY <1>5, <1>7, <1>8, SoundIs DEF Sound, Entered
<1>10. v \in Sound
  BY <1>5, <1>7, <1>8, <1>9 DEF Sound
<1> QED BY <1>2, <1>4, <1>7, <1>8, <1>10 DEF SameMaps

\* What a drawn key does to the transfers that may be left.
Stale(pe) == \A p \in Place, c \in Char : pe[p][c] \in {Outdated(pending[p][c]), None}

LEMMA PendingStale ==
    ASSUME TypeOK, Addressed(pending)
    PROVE  OutdatedPending \in Parcels /\ Addressed(OutdatedPending) /\ Stale(OutdatedPending)
<1>1. \A p \in Place, c \in Char : pending[p][c] \in Copy \cup {None}
  BY DEF TypeOK
<1>2. \A p \in Place, c \in Char : Outdated(pending[p][c]) \in Copy \cup {None}
  BY <1>1, OutdatedIs
<1>3. OutdatedPending \in Parcels /\ Stale(OutdatedPending)
  BY <1>2 DEF OutdatedPending, Parcels, Stale
<1>4. \A p \in Place, c \in Char : OutdatedPending[p][c] # None => OutdatedPending[p][c].chr = c
  BY <1>1, OutdatedIs DEF OutdatedPending, Addressed
<1> QED BY <1>3, <1>4 DEF Addressed

LEMMA PendingCleared ==
    ASSUME TypeOK, Addressed(pending), clearChannelChangeData
    PROVE  \E pe \in Parcels : pending' = pe /\ Addressed(pe) /\ Stale(pe)
<1>1. PICK left \in SUBSET Transfers :
        pending' = [p \in Place |-> [c \in Char |-> IF <<p, c>> \in left THEN OutdatedPending[p][c] ELSE None]]
  BY DEF clearChannelChangeData
<1> DEFINE pe == [p \in Place |-> [c \in Char |-> IF <<p, c>> \in left THEN OutdatedPending[p][c] ELSE None]]
<1>2. OutdatedPending \in Parcels /\ Addressed(OutdatedPending) /\ Stale(OutdatedPending)
  BY PendingStale
<1>3. pe \in Parcels /\ Addressed(pe) /\ Stale(pe)
  BY <1>2 DEF Parcels, Addressed, Stale
<1> HIDE DEF pe
<1> QED BY <1>1, <1>3 DEF pe

LEMMA KeyGood ==
    ASSUME TypeOK, NEW w \in Sound, NEW s \in Client, NEW key \in {"login", "server", "client"},
           NEW pe, Stale(pe), NEW ti \in SUBSET Char, Good(w, pending, ticket)
    PROVE  Good(AddKey(w, s, key), pe, ti)
<1> DEFINE v == AddKey(w, s, key)
<1>1. Outdates(w, v, pending, pe)
  BY AddsKey DEF Outdates, Stale
<1> HIDE DEF v
<1>2. pending \in Parcels /\ ticket \in SUBSET Char
  BY WorldIs
<1>3. Good(v, pe, ti)
  BY <1>1, <1>2, OutdatesGood
<1> QED BY <1>3 DEF v

-----------------------------------------------------------------------------
(* The login server's handlers.                                             *)

\* What every step that leaves the counters alone has to show.
LEMMA Unmoved ==
    ASSUME IInv, UNCHANGED <<invites, lapse>>
    PROVE  /\ invites' \subseteq [to : Place, chr : Char]
           /\ lapse \subseteq lapse' /\ lapse' \subseteq Lapse /\ (NoLapse' <=> NoLapse)
BY DEF IInv, Orderly, TypeOK, NoLapse

\* What a kicked character still does counts only if something lapsed.
LEMMA PlayedOnIs ==
    ASSUME TypeOK, NEW w, PlayedOn(w)
    PROVE  /\ played' \in [Char -> 0..MaxPlay] /\ (NoLapse' => played' = played)
           /\ lapse \subseteq lapse' /\ lapse' \subseteq Lapse
<1>1. played \in [Char -> 0..MaxPlay] /\ lapse \subseteq Lapse /\ "kicked" \in Lapse /\ MaxPlay \in Nat
  BY SessionsAssumption DEF TypeOK, Lapse
<1>2. CASE UNCHANGED <<played, lapse>>
  BY <1>1, <1>2
<1>3. CASE lapse' = lapse \cup {"kicked"}
           /\ \E late \in SUBSET {c \in Kicked(w) : played[c] < MaxPlay} :
                played' = [c \in Char |-> IF c \in late THEN played[c] + 1 ELSE played[c]]
  <2>1. PICK late \in SUBSET {c \in Kicked(w) : played[c] < MaxPlay} :
          played' = [c \in Char |-> IF c \in late THEN played[c] + 1 ELSE played[c]]
    BY <1>3
  <2>2. \A c \in Char : played[c] \in 0..MaxPlay /\ (c \in late => played[c] < MaxPlay)
    BY <1>1, <2>1
  <2>3. played' \in [Char -> 0..MaxPlay]
    BY <1>1, <2>1, <2>2
  <2>4. ~NoLapse'
    BY <1>3 DEF NoLapse
  <2> QED BY <1>1, <1>3, <2>3, <2>4
<1> QED BY <1>2, <1>3 DEF PlayedOn

LEMMA Unplayed ==
    ASSUME IInv, UNCHANGED played
    PROVE  played' \in [Char -> 0..MaxPlay] /\ (NoLapse' => played' = played)
BY DEF IInv, Orderly, TypeOK

LEMMA LoginSure ==
    ASSUME IInv, NEW s \in Client, login(s), UNCHANGED listed
    PROVE  Sure
<1> DEFINE k == [NewClient(Login) EXCEPT !.at = "login", !.acc = TRUE, !.canloginpw = TRUE]
           w1 == [World EXCEPT !.cl[s] = k]
           w2 == forceRemovePlayer(w1, s)
           w3 == updateLoginState(w2, s, 0)
<1>1. /\ TypeOK /\ World \in Sound /\ World \in Worlds /\ World.cl = cl
      /\ Session(World, registered) /\ Addressed(pending)
      /\ NoLapse => Good(World, pending, ticket)
  BY Before
<1>2. /\ cl[s].at = "gone" /\ registered # s /\ Become(w3) /\ logins' = logins + 1 /\ logins < MaxLogin
      /\ UNCHANGED <<pending, ticket, registered, invites>>
      /\ played' \in [Char -> 0..MaxPlay] /\ (NoLapse' => played' = played)
      /\ lapse \subseteq lapse' /\ lapse' \subseteq Lapse
  <2>1. /\ cl[s].at = "gone" /\ registered # s /\ Become(w3) /\ logins' = logins + 1 /\ logins < MaxLogin
        /\ UNCHANGED <<pending, ticket, registered, invites>> /\ PlayedOn(w3)
    BY DEF login, Fresh
  <2> HIDE DEF w3
  <2> QED BY <1>1, <2>1, PlayedOnIs
<1>3. k \in MapleClient /\ Shape(k) /\ k.at = "login" /\ k.player = None /\ k.server = Login
  BY DEF MapleClient, NewClient, At, Shape, Under, Away
<1>4. Nobody(k) /\ k.at \notin Under
  BY <1>3 DEF Nobody, Under, Away
<1> HIDE DEF k
<1>5. w1 \in Sound /\ w1.cl[s] = k /\ Others(World, w1, s) /\ SameMaps(World, w1) /\ w1.saved = World.saved
  BY <1>1, <1>3, <1>4, Replaced
<1> HIDE DEF w1
<1>6. Nobody(World.cl[s])
  BY <1>1, <1>2, SoundIs DEF Nobody, Under, Away, Shape
<1>7. Quiet(World, w1)
  BY <1>4, <1>5, <1>6 DEF Quiet, Others, Alike, SameDoing
<1>8. w2 \in Sound /\ Follows(w1, w2)
  BY <1>5, ForceRemoveFollows
<1>9. NoLapse => Good(w2, pending, ticket) /\ Forward(World, w2)
  <2> SUFFICES ASSUME NoLapse
               PROVE  Good(w2, pending, ticket) /\ Forward(World, w2)
    OBVIOUS
  <2>1. ticket \in SUBSET Char
    BY <1>1, WorldIs
  <2>2. Good(w1, pending, ticket)
    BY <1>1, <1>7, <2>1, QuietGood
  <2>3. Good(w2, pending, ticket) /\ Forward(w1, w2)
    BY <1>1, <1>3, <1>5, <2>1, <2>2, ForceRemoveGood
  <2> QED BY <1>5, <2>3 DEF Forward
<1> HIDE DEF w2
<1>10. Flags(w2, w3, s) /\ ~w3.cl[s].serverTransition /\ w3 \in Sound
  BY <1>8, LoginState DEF Flags
<1> HIDE DEF w3
<1>11. Session(w3, registered)
  BY <1>1, <1>2, <1>5, <1>8, <1>10, SessionKeeps DEF Others, Follows, Flags, SameDoing, Session, TypeOK
<1>12. NoLapse => Good(w3, pending, ticket) /\ Forward(World, w3)
  <2>1. Quiet(w2, w3)
    BY <1>10, FlagsQuiet
  <2>2. ticket \in SUBSET Char
    BY <1>1, WorldIs
  <2> QED BY <1>8, <1>9, <1>10, <2>1, <2>2, QuietGood DEF Forward, Flags
<1>13. /\ NoLapse' => NoLapse
       /\ pending \in Parcels /\ ticket \in SUBSET Char /\ registered \in Client \cup {None}
       /\ logins' \in 0..MaxLogin
       /\ invites' \subseteq [to : Place, chr : Char] /\ lapse \subseteq lapse' /\ lapse' \subseteq Lapse
  BY <1>1, <1>2 DEF TypeOK, NoLapse, Parcels
<1> QED BY <1>1, <1>2, <1>10, <1>11, <1>12, <1>13, Arrives

\* A quiet step is sure.
LEMMA QuietSure ==
    ASSUME IInv, NEW w, Become(w), Quiet(World, w), Session(w, registered),
           UNCHANGED <<listed, played, pending, ticket, logins, registered, invites, lapse>>
    PROVE  Sure
<1>0. played' \in [Char -> 0..MaxPlay]
  BY Unplayed
<1>1. /\ TypeOK /\ World \in Sound /\ w \in Sound /\ ticket \in SUBSET Char
      /\ NoLapse => Good(World, pending, ticket)
  BY Before, WorldIs DEF Quiet
<1>2. NoLapse => Good(w, pending, ticket)
  BY <1>1, QuietGood
<1>3. Forward(World, w)
  BY <1>1, SameForward DEF Quiet
<1> QED BY <1>0, <1>1, <1>2, <1>3, Unplayed, Unmoved, Moves

LEMMA RefusedSure ==
    ASSUME IInv, NEW s \in Client, loginRefused(s), UNCHANGED listed
    PROVE  Sure
<1> DEFINE w == Goto(World, s, "idle")
<1>1. /\ TypeOK /\ World \in Sound /\ World \in Worlds /\ World.cl = cl /\ Session(World, registered)
      /\ cl[s] \in MapleClient /\ Shape(cl[s])
  BY Before, SoundIs
<1>2. cl[s].at = "login" /\ Become(w)
      /\ UNCHANGED <<played, pending, ticket, logins, registered, invites, lapse>>
  BY DEF loginRefused
<1>3. cl[s].player = None
  BY <1>1, <1>2 DEF Shape
<1>4. Shape([cl[s] EXCEPT !.at = "idle"]) /\ "idle" \in At \ Under
  BY <1>1, <1>3 DEF Shape, MapleClient, At, Under, Away
<1>5. w \in Sound /\ Others(World, w, s) /\ SameMaps(World, w) /\ w.saved = World.saved
      /\ Turned(cl[s], w.cl[s], "idle")
  BY <1>1, <1>4, Goes
<1> HIDE DEF w
<1>6. Quiet(World, w)
  BY <1>1, <1>2, <1>3, <1>5 DEF Quiet, Others, Alike, Nobody, SameDoing, Turned, Under, Away
<1>7. Session(w, registered)
  BY <1>1, <1>5, SessionKeeps DEF Others, Turned
<1> QED BY <1>2, <1>6, <1>7, QuietSure

LEMMA ServerListSure ==
    ASSUME IInv, NEW s \in Client, ServerListRequest(s), UNCHANGED listed
    PROVE  Sure
<1> DEFINE w == forceRemoveClient(World, s)
<1>1. Become(w) /\ UNCHANGED <<played, pending, ticket, logins, registered, invites, lapse>>
  BY DEF ServerListRequest
<1>2. TypeOK /\ World \in Sound /\ Session(World, registered)
  BY Before
<1>3. Quiet(World, w) /\ Follows(World, w)
  BY <1>2, ForceRemoveClient DEF Session, TypeOK
<1> HIDE DEF w
<1>4. Session(w, registered)
  BY <1>2, <1>3, SessionKeeps DEF Follows
<1> QED BY <1>1, <1>3, <1>4, QuietSure

\* Kicking the account's characters is sure when the handler's own connection
\* is one to the login server.
LEMMA KickedGood ==
    ASSUME TypeOK, NEW w \in Sound, NEW s \in Client, w.cl[s].server = Login, Session(w, registered),
           NEW pe, NEW ti \in SUBSET Char
    PROVE  LET v == forceRemovePlayer(w, s) IN
           /\ v \in Sound /\ Follows(w, v) /\ Session(v, registered) /\ v.cl[s].server = Login
           /\ Good(w, pe, ti) => Good(v, pe, ti) /\ Forward(w, v)
<1> DEFINE v == forceRemovePlayer(w, s)
<1>1. v \in Sound /\ Follows(w, v)
  BY ForceRemoveFollows
<1>2. Good(w, pe, ti) => Good(v, pe, ti) /\ Forward(w, v)
  BY ForceRemoveGood
<1> HIDE DEF v
<1>3. Session(v, registered)
  BY <1>1, SessionKeeps DEF Follows
<1> QED BY <1>1, <1>2, <1>3 DEF v, Follows

LEMMA UnregisteredGood ==
    ASSUME TypeOK, NEW w \in Sound, NEW s \in Client, w.cl[s].server = Login, Session(w, registered),
           NEW pe, NEW ti \in SUBSET Char
    PROVE  LET v == forceRemoveClient(w, s) IN
           /\ v \in Sound /\ Follows(w, v) /\ Session(v, registered) /\ v.cl[s].server = Login
           /\ Forward(w, v) /\ (Good(w, pe, ti) => Good(v, pe, ti))
<1> DEFINE v == forceRemoveClient(w, s)
<1>1. v \in Sound /\ Follows(w, v) /\ Quiet(w, v)
  BY ForceRemoveClient DEF TypeOK, Session
<1>2. (Good(w, pe, ti) => Good(v, pe, ti)) /\ Forward(w, v)
  BY <1>1, QuietGood, SameForward DEF Quiet
<1> HIDE DEF v
<1>3. Session(v, registered)
  BY <1>1, SessionKeeps DEF Follows
<1> QED BY <1>1, <1>2, <1>3 DEF v, Follows

LEMMA ServerStatusSure ==
    ASSUME IInv, NEW s \in Client, ServerStatusRequest(s), UNCHANGED listed
    PROVE  Sure
<1> DEFINE w1 == forceRemoveClient(World, s)
           w2 == forceRemovePlayer(w1, s)
<1>1. Become(w2) /\ UNCHANGED <<pending, ticket, logins, registered, invites>>
      /\ cl[s].server = Login /\ PlayedOn(w2)
  BY DEF ServerStatusRequest, LoginIdle
<1>2. /\ TypeOK /\ World \in Sound /\ Session(World, registered) /\ World.cl = cl
      /\ ticket \in SUBSET Char /\ (NoLapse => Good(World, pending, ticket))
  BY Before, WorldIs
<1>3. /\ w1 \in Sound /\ Session(w1, registered) /\ w1.cl[s].server = Login
      /\ Forward(World, w1) /\ (NoLapse => Good(w1, pending, ticket))
  BY <1>1, <1>2, UnregisteredGood
<1> HIDE DEF w1
<1>4. /\ w2 \in Sound /\ Session(w2, registered)
      /\ NoLapse => Good(w2, pending, ticket) /\ Forward(w1, w2)
  BY <1>2, <1>3, KickedGood
<1> HIDE DEF w2
<1>5. NoLapse => Forward(World, w2)
  BY <1>2, <1>3, <1>4, ForwardForward
<1>6. /\ played' \in [Char -> 0..MaxPlay] /\ (NoLapse' => played' = played)
      /\ lapse \subseteq lapse' /\ lapse' \subseteq Lapse
  BY <1>1, <1>2, PlayedOnIs
<1>7. (NoLapse' => NoLapse) /\ invites' \subseteq [to : Place, chr : Char]
  BY <1>1, <1>2, <1>6, LapseGrows DEF TypeOK
<1> QED BY <1>1, <1>4, <1>5, <1>6, <1>7, Moves

LEMMA Keyed ==
    ASSUME TypeOK, NEW w \in Sound, NEW s \in Client, NEW key \in {"login", "server", "client"},
           Session(w, registered), NEW pe, Stale(pe), NEW ti \in SUBSET Char
    PROVE  LET v == AddKey(w, s, key) IN
           /\ v \in Sound /\ Session(v, registered) /\ Forward(w, v) /\ SameMaps(w, v)
           /\ v.cl[s].server = w.cl[s].server /\ v.cl[s].at = w.cl[s].at
           /\ \A x \in Client : w.cl[x].player = None => v.cl[x].player = None
           /\ Good(w, pending, ticket) => Good(v, pe, ti)
<1> DEFINE v == AddKey(w, s, key)
<1>1. /\ v \in Sound /\ SameMaps(w, v) /\ v.saved = w.saved
      /\ \A x \in Client : Worthless(w.cl[x], v.cl[x])
  BY AddsKey
<1>2. Good(w, pending, ticket) => Good(v, pe, ti)
  BY KeyGood
<1> HIDE DEF v
<1>3. \A x \in Client : /\ v.cl[x].server = w.cl[x].server /\ v.cl[x].at = w.cl[x].at
                        /\ (w.cl[x].player = None => v.cl[x].player = None)
  BY <1>1 DEF Worthless, Outdated
<1>4. Session(v, registered) /\ Forward(w, v)
  BY <1>1, <1>3, SessionKeeps, SameForward
<1> QED BY <1>1, <1>2, <1>3, <1>4 DEF v

LEMMA CharlistSure ==
    ASSUME IInv, NEW s \in Client, CharlistRequest(s), UNCHANGED listed
    PROVE  Sure
<1> DEFINE w1 == forceRemovePlayer(World, s)
           w2 == forceRemoveClient(w1, s)
           w3 == AddKey(w2, s, "server")
<1>1. /\ cl[s].server = Login /\ UNCHANGED <<ticket, logins, registered, invites>> /\ PlayedOn(w2)
      /\ \/ Become(w3) /\ pending' = OutdatedPending
         \/ Become(w2) /\ UNCHANGED pending
  BY DEF CharlistRequest, LoginIdle
<1>2. /\ TypeOK /\ World \in Sound /\ Session(World, registered) /\ World.cl = cl /\ Addressed(pending)
      /\ ticket \in SUBSET Char /\ (NoLapse => Good(World, pending, ticket))
      /\ registered \in Client \cup {None} /\ logins \in 0..MaxLogin
  BY Before, WorldIs DEF TypeOK
<1>3. /\ w1 \in Sound /\ Session(w1, registered) /\ w1.cl[s].server = Login
      /\ NoLapse => Good(w1, pending, ticket) /\ Forward(World, w1)
  BY <1>1, <1>2, KickedGood
<1> HIDE DEF w1
<1>4. /\ w2 \in Sound /\ Session(w2, registered) /\ Forward(w1, w2)
      /\ NoLapse => Good(w2, pending, ticket)
  BY <1>2, <1>3, UnregisteredGood
<1> HIDE DEF w2
<1>5. /\ OutdatedPending \in Parcels /\ Addressed(OutdatedPending) /\ Stale(OutdatedPending)
  BY <1>2, PendingStale
<1> DEFINE pe == OutdatedPending
<1> HIDE DEF pe
<1>6. /\ w3 \in Sound /\ Session(w3, registered) /\ Forward(w2, w3)
      /\ NoLapse => Good(w3, pe, ticket)
  BY <1>2, <1>4, <1>5, Keyed DEF pe
<1> HIDE DEF w3
<1>7. NoLapse => Forward(World, w2) /\ Forward(World, w3)
  BY <1>2, <1>3, <1>4, <1>6, ForwardForward
<1>10. /\ played' \in [Char -> 0..MaxPlay] /\ (NoLapse' => played' = played)
       /\ lapse \subseteq lapse' /\ lapse' \subseteq Lapse
  BY <1>1, <1>2, PlayedOnIs
<1>11. (NoLapse' => NoLapse) /\ invites' \subseteq [to : Place, chr : Char]
  BY <1>1, <1>2, <1>10, LapseGrows DEF TypeOK
<1>8. CASE Become(w3) /\ pending' = OutdatedPending
  <2>1. pe \in Parcels /\ pending' = pe /\ Addressed(pe) /\ ticket' = ticket /\ registered' = registered
        /\ logins' \in 0..MaxLogin
    BY <1>1, <1>2, <1>5, <1>8 DEF pe
  <2> QED BY <1>1, <1>2, <1>6, <1>7, <1>8, <1>10, <1>11, <2>1, Arrives
<1>9. CASE Become(w2) /\ UNCHANGED pending
  BY <1>1, <1>4, <1>7, <1>9, <1>10, <1>11, Moves
<1> QED BY <1>1, <1>8, <1>9

LEMMA FinishSure ==
    ASSUME IInv, NEW s \in Client, finishLogin(s), UNCHANGED listed
    PROVE  Sure
<1> DEFINE k == [cl[s] EXCEPT !.at = "idle", !.loginKey = TRUE]
           w1 == [World EXCEPT !.cl[s] = k]
           w2 == AddKey(w1, s, "login")
           w3 == updateLoginState(w2, s, 2)
           w4 == forceRemoveClient(w3, s)
           w5 == forceRemovePlayer(w4, s)
           l == [w2.cl[s] EXCEPT !.loggedIn = FALSE]
           u == [w2 EXCEPT !.cl[s] = l]
<1>1. /\ TypeOK /\ World \in Sound /\ World \in Worlds /\ World.cl = cl /\ Session(World, registered)
      /\ cl[s] \in MapleClient /\ Shape(cl[s]) /\ Addressed(pending)
      /\ ticket \in SUBSET Char /\ registered \in Client \cup {None} /\ logins \in 0..MaxLogin
      /\ NoLapse => Good(World, pending, ticket)
  BY Before, SoundIs, WorldIs DEF TypeOK
<1>2. [Goto(World, s, "idle") EXCEPT !.cl[s].loginKey = TRUE] = w1
  BY <1>1 DEF Goto, Worlds, MapleClient
<1>3. /\ cl[s].at = "login" /\ UNCHANGED <<ticket, logins, invites>>
      /\ \/ Become(w5) /\ registered' = s /\ clearChannelChangeData
         \/ Become([w2 EXCEPT !.cl[s].loggedIn = FALSE]) /\ pending' = OutdatedPending /\ UNCHANGED registered
      /\ played' \in [Char -> 0..MaxPlay] /\ (NoLapse' => played' = played)
      /\ lapse \subseteq lapse' /\ lapse' \subseteq Lapse
  <2>1. /\ cl[s].at = "login" /\ UNCHANGED <<ticket, logins, invites>>
        /\ \/ Become(w5) /\ PlayedOn(w5) /\ registered' = s /\ clearChannelChangeData
           \/ /\ Become([w2 EXCEPT !.cl[s].loggedIn = FALSE]) /\ pending' = OutdatedPending
              /\ UNCHANGED <<played, registered, lapse>>
    BY <1>2 DEF finishLogin
  <2>2. played \in [Char -> 0..MaxPlay] /\ lapse \subseteq Lapse
    BY <1>1 DEF TypeOK
  <2> HIDE DEF w5, w2
  <2> QED BY <1>1, <2>1, <2>2, PlayedOnIs
<1>12. (NoLapse' => NoLapse) /\ invites' \subseteq [to : Place, chr : Char]
  BY <1>1, <1>3, LapseGrows DEF TypeOK
<1>4. k \in MapleClient /\ Shape(k) /\ k.at = "idle" /\ k.player = None /\ k.server = Login
      /\ Nobody(cl[s]) /\ Nobody(k) /\ cl[s].server = Login
  BY <1>1, <1>3 DEF MapleClient, Shape, At, Nobody, Under, Away
<1> HIDE DEF k
<1>5. w1 \in Sound /\ w1.cl[s] = k /\ Others(World, w1, s) /\ SameMaps(World, w1) /\ w1.saved = World.saved
  BY <1>1, <1>4, Replaced DEF Nobody
<1> HIDE DEF w1
<1>6. Session(w1, registered) /\ Forward(World, w1) /\ (NoLapse => Good(w1, pending, ticket))
  <2>1. Session(w1, registered)
    BY <1>1, <1>4, <1>5, SessionKeeps DEF Others
  <2>2. Quiet(World, w1)
    BY <1>1, <1>4, <1>5 DEF Quiet, Others, Alike, SameDoing
  <2> QED BY <1>1, <1>5, <2>1, <2>2, QuietGood, SameForward
<1>7. \E pe \in Parcels : pending' = pe /\ Addressed(pe) /\ Stale(pe)
  BY <1>1, <1>3, PendingCleared, PendingStale
<1>8. PICK pe \in Parcels : pending' = pe /\ Addressed(pe) /\ Stale(pe)
  BY <1>7
<1>9. /\ w2 \in Sound /\ Session(w2, registered) /\ Forward(w1, w2) /\ SameMaps(w1, w2)
      /\ w2.cl[s].server = Login /\ w2.cl[s].at = "idle" /\ w2.cl[s].player = None
      /\ NoLapse => Good(w2, pe, ticket)
  BY <1>1, <1>4, <1>5, <1>6, <1>8, Keyed
<1> HIDE DEF w2
\* Whoever is registered, the session that logs in is now.
<1>10. CASE Become(w5) /\ registered' = s
  <2>1. Flags(w2, w3, s) /\ ~w3.cl[s].serverTransition /\ w3 \in Sound
    BY <1>9, LoginState DEF Flags
  <2> HIDE DEF w3
  <2>2. /\ Session(w3, registered) /\ w3.cl[s].server = Login /\ w3.cl[s].player = None
        /\ Forward(w2, w3) /\ (NoLapse => Good(w3, pe, ticket))
    <3>1. Quiet(w2, w3)
      BY <2>1, FlagsQuiet
    <3>2. Session(w3, registered) /\ w3.cl[s].server = Login /\ w3.cl[s].player = None
      BY <1>1, <1>9, <2>1, SessionKeeps DEF Flags, Others, SameDoing
    <3> QED BY <1>1, <1>9, <2>1, <3>1, <3>2, QuietGood, SameForward DEF Flags
  <2>3. /\ w4 \in Sound /\ Follows(w3, w4) /\ Session(w4, registered) /\ w4.cl[s].server = Login
        /\ Forward(w3, w4) /\ (NoLapse => Good(w4, pe, ticket))
    BY <1>1, <2>1, <2>2, UnregisteredGood
  <2> HIDE DEF w4
  <2>4. /\ w5 \in Sound /\ Follows(w4, w5)
        /\ NoLapse => Good(w5, pe, ticket) /\ Forward(w4, w5)
    BY <1>1, <2>3, KickedGood
  <2> HIDE DEF w5
  <2>5. Session(w5, s)
    BY <2>2, <2>3, <2>4 DEF Session, Follows
  <2>6. NoLapse => Forward(World, w5)
    BY <1>1, <1>5, <1>6, <1>9, <2>1, <2>2, <2>3, <2>4, ForwardForward
  <2>7. s \in Client \cup {None} /\ logins' \in 0..MaxLogin /\ ticket' = ticket
    BY <1>1, <1>3
  <2> QED BY <1>1, <1>3, <1>8, <1>10, <1>12, <2>4, <2>5, <2>6, <2>7, Arrives
<1>11. CASE Become([w2 EXCEPT !.cl[s].loggedIn = FALSE]) /\ UNCHANGED registered
  <2>1. w2 \in Worlds /\ w2.cl[s] \in MapleClient /\ Shape(w2.cl[s])
    BY <1>9, SoundIs
  <2>2. l \in MapleClient /\ SameDoing(w2.cl[s], l) /\ (l.serverTransition <=> w2.cl[s].serverTransition)
    BY <2>1 DEF MapleClient, SameDoing
  <2>3. [w2 EXCEPT !.cl[s].loggedIn = FALSE] = u
    BY <2>1 DEF Worlds
  <2> HIDE DEF l
  <2>4. Shape(l) /\ l.at \notin Under
    BY <1>9, <2>1, <2>2, SameShape DEF SameDoing, Under
  <2>5. u \in Sound /\ u.cl[s] = l /\ Others(w2, u, s) /\ SameMaps(w2, u) /\ u.saved = w2.saved
    BY <1>9, <2>2, <2>4, Replaced
  <2> HIDE DEF u
  <2>6. Session(u, registered)
    BY <1>1, <1>9, <2>2, <2>5, SessionKeeps DEF Others, SameDoing
  <2>7. Quiet(w2, u)
    BY <2>2, <2>5 DEF Quiet, Others, Alike, SameDoing
  <2>8. NoLapse => Good(u, pe, ticket) /\ Forward(World, u)
    BY <1>1, <1>5, <1>6, <1>9, <2>5, <2>7, QuietGood, SameForward, ForwardForward
  <2>9. Become(u) /\ registered' = registered /\ logins' \in 0..MaxLogin /\ ticket' = ticket
    BY <1>1, <1>3, <1>11, <2>3
  <2> QED BY <1>1, <1>3, <1>8, <1>12, <2>5, <2>6, <2>8, <2>9, Arrives
<1> QED BY <1>3, <1>10, <1>11

LEMMA SelectSure ==
    ASSUME IInv, NEW s \in Client, NEW c \in Char, NEW ch \in Channel, SelectCharacter(s, c, ch),
           UNCHANGED listed
    PROVE  Sure
<1> DEFINE w == AddKey(World, s, "client")
           pe == OutdatedPending
           ti == ticket \cup {c}
<1>1. /\ TypeOK /\ World \in Sound /\ Session(World, registered) /\ World.cl = cl /\ Addressed(pending)
      /\ World.online = online
      /\ ticket \in SUBSET Char /\ ti \in SUBSET Char /\ (NoLapse => Good(World, pending, ticket))
      /\ registered \in Client \cup {None} /\ logins \in 0..MaxLogin
      /\ invites \subseteq [to : Place, chr : Char] /\ lapse \subseteq Lapse
  BY Before, WorldIs DEF TypeOK
<1>2. /\ cl[s].at = "idle" /\ cl[s].server = Login /\ pending' = pe
      /\ UNCHANGED <<played, logins, registered>>
      /\ \/ /\ Become(updateLoginState(w, s, 1)) /\ ticket' = ti
            /\ invites' = invites \cup {[to |-> ch, chr |-> c]} /\ UNCHANGED lapse
         \/ Become(Close(w, s)) /\ UNCHANGED <<ticket, invites, lapse>>
         \/ \E victim \in Char :
               /\ online[Shop][victim] # None
               /\ Become(Close(deregisterPlayer(w, Shop, victim), s))
               /\ lapse' = IF cl[online[Shop][victim]].player = None
                           THEN lapse ELSE lapse \cup {"evicted"}
               /\ UNCHANGED <<ticket, invites>>
  BY DEF SelectCharacter, LoginIdle, Idle
<1>3. cl[s].player = None
  BY <1>1, <1>2, SoundIs DEF Place
<1>4. pe \in Parcels /\ Addressed(pe) /\ Stale(pe)
  BY <1>1, PendingStale
<1> HIDE DEF ti, pe
<1>5. /\ w \in Sound /\ Session(w, registered) /\ Forward(World, w) /\ SameMaps(World, w)
      /\ w.cl[s].at = "idle" /\ w.cl[s].player = None /\ w.cl[s].server = Login
      /\ \A x \in Client : World.cl[x].player = None => w.cl[x].player = None
      /\ NoLapse => Good(w, pe, ticket) /\ Good(w, pe, ti)
  BY <1>1, <1>2, <1>3, <1>4, Keyed
<1> HIDE DEF w
<1>6. /\ ticket \in SUBSET Char /\ registered' = registered /\ logins' \in 0..MaxLogin
      /\ pending' = pe /\ UNCHANGED <<listed, played>> /\ registered \in Client \cup {None}
  BY <1>1, <1>2
\* Nobody is connected: the client is sent on.
<1>7. CASE /\ Become(updateLoginState(w, s, 1)) /\ ticket' = ti
           /\ invites' = invites \cup {[to |-> ch, chr |-> c]} /\ UNCHANGED lapse
  <2> DEFINE v == updateLoginState(w, s, 1)
  <2>1. Flags(w, v, s) /\ v \in Sound
    BY <1>5, LoginState DEF Flags
  <2> HIDE DEF v
  <2>2. Session(v, registered)
    BY <1>1, <1>5, <2>1, SessionKeeps DEF Flags, Others, SameDoing
  <2>3. Quiet(w, v)
    BY <1>5, <2>1 DEF Flags, Quiet, Others, Alike, SameDoing, Nobody, Under, Away
  <2>4. NoLapse => Good(v, pe, ti) /\ Forward(World, v)
    BY <1>1, <1>5, <2>1, <2>3, QuietGood, SameForward, ForwardForward DEF Flags
  <2>5. /\ invites' \subseteq [to : Place, chr : Char]
        /\ lapse \subseteq lapse' /\ lapse' \subseteq Lapse /\ (NoLapse' <=> NoLapse)
    BY <1>1, <1>7 DEF NoLapse, Place
  <2>6. Become(v)
    BY <1>7 DEF v
  <2> QED BY <1>1, <1>2, <1>4, <1>6, <1>7, <2>1, <2>2, <2>4, <2>5, <2>6, Unplayed, Arrives
\* The account is in a channel: the client is dropped.
<1>8. CASE Become(Close(w, s)) /\ UNCHANGED <<ticket, invites, lapse>>
  <2> DEFINE v == Close(w, s)
  <2>1. Flags(w, v, s) /\ v \in Sound /\ Quiet(w, v)
    BY <1>5, Closes
  <2> HIDE DEF v
  <2>2. Session(v, registered)
    BY <1>1, <1>5, <2>1, SessionKeeps DEF Flags, Others, SameDoing
  <2>3. NoLapse => Good(v, pe, ticket) /\ Forward(World, v)
    BY <1>1, <1>5, <2>1, QuietGood, SameForward, ForwardForward DEF Flags
  <2>4. Become(v) /\ ticket' = ticket
    BY <1>8 DEF v
  <2>5. /\ invites' \subseteq [to : Place, chr : Char]
        /\ lapse \subseteq lapse' /\ lapse' \subseteq Lapse /\ (NoLapse' <=> NoLapse)
    BY <1>8, Unmoved
  <2> QED BY <1>4, <1>6, <2>1, <2>2, <2>3, <2>4, <2>5, Unplayed, Arrives
\* It is in the cash shop: its character is taken out of the shop's storage.
<1>9. ASSUME NEW victim \in Char, online[Shop][victim] # None,
             Become(Close(deregisterPlayer(w, Shop, victim), s)),
             lapse' = IF cl[online[Shop][victim]].player = None THEN lapse ELSE lapse \cup {"evicted"},
             UNCHANGED <<ticket, invites>>
      PROVE  Sure
  <2> DEFINE u == deregisterPlayer(w, Shop, victim)
             v == Close(u, s)
  <2>1. w \in Worlds /\ Shop \in Place /\ Shape(w.cl[s])
    BY <1>5, SoundIs DEF Place
  <2>2. /\ u \in Worlds /\ u.cl = w.cl /\ u.saved = w.saved
        /\ u.online = [w.online EXCEPT ![Shop][victim] = None]
        /\ u.find = [w.find EXCEPT ![victim] = None]
        /\ \A q \in Place, d \in Char : u.online[q][d] \in {w.online[q][d], None}
    BY <2>1 DEF deregisterPlayer, Worlds
  <2> HIDE DEF u
  <2>3. u \in Sound
    BY <1>5, <2>1, <2>2, StaysSound DEF Others, Under
  <2>4. Flags(u, v, s) /\ v \in Sound /\ Quiet(u, v)
    BY <2>3, Closes
  <2> HIDE DEF v
  <2>5. Session(v, registered)
    <3>1. Session(u, registered)
      BY <1>5, <2>2 DEF Session
    <3> QED BY <1>1, <2>4, <3>1, SessionKeeps DEF Flags, Others, SameDoing
  <2>6. Forward(World, v)
    BY <1>1, <1>5, <2>2, <2>3, <2>4, SameForward, ForwardForward DEF Flags
  <2>7. NoLapse' => Good(v, pe, ticket)
    <3> SUFFICES ASSUME NoLapse'
                 PROVE  Good(v, pe, ticket)
      OBVIOUS
    <3>1. NoLapse /\ cl[online[Shop][victim]].player = None
      BY <1>9 DEF NoLapse
    <3>2. w.online = online /\ online[Shop][victim] \in Client
      BY <1>1, <1>5, <1>9, <2>1, SoundIs DEF SameMaps
    <3>3. Evicts(w, u, victim)
      BY <1>1, <1>5, <1>9, <2>2, <2>3, <3>1, <3>2 DEF Evicts, Clears
    <3>4. Good(u, pe, ticket)
      BY <1>1, <1>5, <2>1, <3>1, <3>3, ClearsGood
    <3> QED BY <1>1, <2>3, <2>4, <3>4, QuietGood
  <2>8. /\ invites' \subseteq [to : Place, chr : Char] /\ ticket' = ticket
        /\ lapse \subseteq lapse' /\ lapse' \subseteq Lapse
    BY <1>1, <1>9 DEF Lapse
  <2>9. Become(v)
    BY <1>9 DEF v, u
  <2> QED BY <1>4, <1>6, <2>4, <2>5, <2>6, <2>7, <2>8, <2>9, Unplayed, Arrives
<1> QED BY <1>2, <1>7, <1>8, <1>9

-----------------------------------------------------------------------------
(* Entering a server.                                                       *)

LEMMA ConnectSure ==
    ASSUME IInv, NEW s \in Client, NEW i \in invites, connect(s, i), UNCHANGED listed
    PROVE  Sure
<1> DEFINE p == i.to
           c == i.chr
           t == pending[p][c]
           e == [NewClient(p) EXCEPT !.at = "entering", !.carry = t]
           f == [NewClient(p) EXCEPT !.open = FALSE]
           b == [chr |-> c, ver |-> 0, current |-> FALSE, home |-> p]
           l == [NewClient(p) EXCEPT !.at = "loading", !.carry = b]
           refused == p = Shop \/ Online(World, Place) \/ c \notin ticket
           pe == [pending EXCEPT ![p][c] = None]
           v(k) == [World EXCEPT !.cl[s] = k]
<1>1. /\ TypeOK /\ World \in Sound /\ World \in Worlds /\ World.cl = cl /\ Session(World, registered)
      /\ World.online = online
      /\ Addressed(pending) /\ pending \in Parcels /\ ticket \in SUBSET Char
      /\ registered \in Client \cup {None} /\ logins \in 0..MaxLogin
      /\ invites \subseteq [to : Place, chr : Char] /\ lapse \subseteq Lapse
      /\ NoLapse => Good(World, pending, ticket)
  BY Before, WorldIs DEF TypeOK
<1>2. p \in Place /\ c \in Char
  BY <1>1
<1>3. /\ cl[s].at = "gone" /\ registered # s /\ \A q \in Place, d \in Char : online[q][d] # s
      /\ invites' = invites \ {i}
      /\ lapse' = lapse \cup {x \in {"entries", "tail"} :
              \/ x = "entries" /\ \E y \in Client : Entering(y)
              \/ x = "tail" /\ \E y \in Client : Sending(y) /\ cl[y].carry.chr = c}
      /\ UNCHANGED <<played, ticket, logins, registered>>
      /\ IF t # None THEN Become(v(e)) /\ pending' = pe
         ELSE Become(v(IF refused THEN f ELSE l)) /\ UNCHANGED pending
  BY DEF connect, Fresh
<1>4. /\ lapse \subseteq lapse' /\ lapse' \subseteq Lapse /\ (NoLapse' => NoLapse)
      /\ invites' \subseteq [to : Place, chr : Char]
      /\ NoLapse' => /\ \A x \in Client : cl[x].at \notin Under
                     /\ \A x \in Client : cl[x].at \in Away => cl[x].carry.chr # c
  BY <1>1, <1>3 DEF Lapse, NoLapse, Entering, Sending, Under, Away
<1> HIDE DEF p, c
\* A connection that has just been made.
<1>5. ASSUME NEW k \in MapleClient, Shape(k), k.server = p, k.player = None
      PROVE  /\ v(k) \in Sound /\ v(k).cl[s] = k /\ Others(World, v(k), s) /\ SameMaps(World, v(k))
             /\ v(k).saved = World.saved /\ Session(v(k), registered) /\ Forward(World, v(k))
  <2> DEFINE u == v(k)
  <2>1. /\ u \in Sound /\ u.cl[s] = k /\ Others(World, u, s) /\ SameMaps(World, u)
        /\ u.saved = World.saved
    BY <1>1, <1>3, <1>5, Replaced
  <2> HIDE DEF u
  <2>2. Session(u, registered)
    BY <1>1, <1>3, <2>1, SessionKeeps DEF Others
  <2> QED BY <1>1, <2>1, <2>2, SameForward DEF u
<1>6. CASE t # None
  <2>1. t \in Copy /\ t.chr = c
    BY <1>1, <1>2, <1>6 DEF Addressed, Parcels
  <2> HIDE DEF t
  <2>2. e \in MapleClient /\ Shape(e) /\ e.server = p /\ e.player = None /\ e.at = "entering" /\ e.carry = t
    BY <1>2, <1>6, <2>1 DEF NewClient, MapleClient, At, Shape, Under, Away
  <2> HIDE DEF e
  <2> DEFINE u == v(e)
  <2>3. /\ u \in Sound /\ u.cl[s] = e /\ Others(World, u, s) /\ SameMaps(World, u)
        /\ u.saved = World.saved /\ Session(u, registered) /\ Forward(World, u)
    BY <1>5, <2>2
  <2>4. pe \in Parcels /\ Addressed(pe)
    BY <1>1, <1>2 DEF Parcels, Addressed
  <2>5. Become(u) /\ pending' = pe /\ ticket' = ticket /\ registered' = registered /\ logins' \in 0..MaxLogin
        /\ UNCHANGED <<listed, played>>
    BY <1>1, <1>3, <1>6
  <2> HIDE DEF u
  <2>6. NoLapse' => Takes(World, u, pending, pe, s, p, c)
    BY <1>1, <1>2, <1>3, <1>4, <1>6, <2>1, <2>2, <2>3 DEF Takes, Comes, t
  <2> HIDE DEF pe
  <2>7. NoLapse' => Good(u, pe, ticket)
    BY <1>1, <1>2, <1>4, <2>6, ComesGood
  <2> QED BY <1>1, <1>4, <2>3, <2>4, <2>5, <2>7, Unplayed, Arrives
<1>7. CASE t = None /\ refused
  <2>1. f \in MapleClient /\ Shape(f) /\ f.server = p /\ Nobody(f)
    BY <1>2 DEF NewClient, MapleClient, At, Shape, Nobody, Under, Away
  <2> HIDE DEF f
  <2> DEFINE u == v(f)
  <2>2. /\ u \in Sound /\ u.cl[s] = f /\ Others(World, u, s) /\ SameMaps(World, u)
        /\ u.saved = World.saved /\ Session(u, registered) /\ Forward(World, u)
    BY <1>5, <2>1 DEF Nobody
  <2>3. Become(u) /\ UNCHANGED <<listed, played, pending, ticket, logins, registered>>
    BY <1>3, <1>7
  <2> HIDE DEF u
  <2>4. Nobody(World.cl[s])
    BY <1>1, <1>3, SoundIs DEF Nobody, Under, Away, Shape
  <2>5. Quiet(World, u)
    BY <1>3, <2>1, <2>2, <2>4 DEF Quiet, Others, Alike, SameDoing
  <2>6. NoLapse => Good(u, pending, ticket)
    BY <1>1, <2>5, QuietGood
  <2> QED BY <1>4, <2>2, <2>3, <2>6, Unplayed, Moves
<1>8. CASE t = None /\ ~refused
  <2>1. p \in Channel /\ c \in ticket /\ \A q \in Place, d \in Char : online[q][d] = None
    BY <1>1, <1>2, <1>8 DEF Online, Place
  <2>2. b \in Copy /\ b.chr = c /\ ~b.current
    BY <1>2, <2>1 DEF Copy
  <2> HIDE DEF b
  <2>3. l \in MapleClient /\ Shape(l) /\ l.server = p /\ l.player = None /\ l.at = "loading" /\ l.carry = b
    BY <1>2, <2>2 DEF NewClient, MapleClient, At, Shape, Under, Away
  <2> HIDE DEF l
  <2> DEFINE u == v(l)
  <2>4. /\ u \in Sound /\ u.cl[s] = l /\ Others(World, u, s) /\ SameMaps(World, u)
        /\ u.saved = World.saved /\ Session(u, registered) /\ Forward(World, u)
    BY <1>5, <2>3
  <2>5. Become(u) /\ UNCHANGED <<listed, played, pending, ticket, logins, registered>>
    BY <1>3, <1>8
  <2> HIDE DEF u
  <2>6. NoLapse' => Selects(World, u, ticket, s, p, c)
    BY <1>1, <1>2, <1>3, <1>4, <2>1, <2>2, <2>3, <2>4 DEF Selects, Comes
  <2>7. NoLapse' => Good(u, pending, ticket)
    BY <1>1, <1>2, <1>4, <2>6, ComesGood
  <2> QED BY <1>4, <2>4, <2>5, <2>7, Unplayed, Moves
<1> QED BY <1>6, <1>7, <1>8

LEMMA LoadSure ==
    ASSUME IInv, NEW s \in Client, loadCharFromDB(s), UNCHANGED listed
    PROVE  Sure
<1> DEFINE c == cl[s].carry.chr
           d == [cl[s].carry EXCEPT !.ver = saved[c], !.current = TRUE]
           k == [cl[s] EXCEPT !.at = "entering", !.carry = d]
           v == [World EXCEPT !.cl[s] = k]
           ti == ticket \ {c}
<1>1. /\ TypeOK /\ World \in Sound /\ World \in Worlds /\ World.cl = cl /\ Session(World, registered)
      /\ World.saved = saved /\ saved \in [Char -> 0..MaxPlay]
      /\ cl[s] \in MapleClient /\ Shape(cl[s])
      /\ Addressed(pending) /\ pending \in Parcels /\ ticket \in SUBSET Char
      /\ registered \in Client \cup {None} /\ logins \in 0..MaxLogin
      /\ NoLapse => Good(World, pending, ticket)
  BY Before, WorldIs, SoundIs DEF TypeOK
<1>2. /\ cl[s].at = "loading" /\ ticket' = ti
      /\ Become([Goto(World, s, "entering") EXCEPT !.cl[s].carry.ver = saved[c], !.cl[s].carry.current = TRUE])
      /\ UNCHANGED <<played, pending, logins, registered, invites, lapse>>
  BY DEF loadCharFromDB
<1>3. cl[s].carry \in Copy /\ c \in Char /\ cl[s].server \in Place /\ cl[s].player = None
  BY <1>1, <1>2, SoundIs DEF Under, Shape
<1>4. [Goto(World, s, "entering") EXCEPT !.cl[s].carry.ver = saved[c], !.cl[s].carry.current = TRUE] = v
  <2> DEFINE k1 == [cl[s] EXCEPT !.at = "entering"]
             d1 == [cl[s].carry EXCEPT !.ver = saved[c]]
             k2 == [k1 EXCEPT !.carry = d1]
             w1 == [World EXCEPT !.cl[s] = k1]
             w2 == [World EXCEPT !.cl[s] = k2]
             a == saved[c]
  <2>1. Goto(World, s, "entering") = w1
    BY <1>1 DEF Goto, Worlds
  <2>2. k1.carry = cl[s].carry /\ k2.carry = d1 /\ d = [d1 EXCEPT !.current = TRUE]
        /\ k = [k2 EXCEPT !.carry = d]
    BY <1>1, <1>3 DEF MapleClient, Copy
  <2>3. w1 \in [cl : [Client -> {k1} \cup MapleClient], online : {online}, find : {find},
                state : {state}, saved : {saved}] /\ w1.cl[s] = k1
    BY <1>1, WorldIs DEF Worlds
  <2>4. w2 \in [cl : [Client -> {k2} \cup MapleClient], online : {online}, find : {find},
                state : {state}, saved : {saved}] /\ w2.cl[s] = k2
    BY <1>1, WorldIs DEF Worlds
  <2>5. w2 = [w1 EXCEPT !.cl[s] = k2] /\ v = [w2 EXCEPT !.cl[s] = k]
    BY <1>1 DEF Worlds
  <2>6. [Goto(World, s, "entering") EXCEPT !.cl[s].carry.ver = a, !.cl[s].carry.current = TRUE]
        = [[w1 EXCEPT !.cl[s].carry.ver = a] EXCEPT !.cl[s].carry.current = TRUE]
    BY <2>1
  <2> HIDE DEF w1, w2, k1, d1, d, k2, k, a
  <2>7. [w1 EXCEPT !.cl[s].carry.ver = a] = w2
    BY <2>2, <2>3, <2>5 DEF k2, d1, a
  <2>8. [w2 EXCEPT !.cl[s].carry.current = TRUE] = v
    BY <2>2, <2>4, <2>5
  <2> QED BY <2>6, <2>7, <2>8 DEF a
<1>5. d \in Copy /\ d.chr = c /\ d.ver = saved[c]
  BY <1>1, <1>3 DEF Copy
<1> HIDE DEF d
<1>6. k \in MapleClient /\ k.at = "entering" /\ k.carry = d /\ k.player = None /\ k.server = cl[s].server
  BY <1>1, <1>3, <1>5 DEF MapleClient, At
<1> HIDE DEF k
<1>7. Shape(k) /\ \A p \in Place, e \in Char : World.online[p][e] # s
  BY <1>1, <1>2, <1>3, <1>5, <1>6 DEF Shape, Under, Away, Sound, Entered
<1>8. v \in Sound /\ v.cl[s] = k /\ Others(World, v, s) /\ SameMaps(World, v) /\ v.saved = World.saved
  BY <1>1, <1>6, <1>7, Replaced
<1> HIDE DEF v
<1>9. Session(v, registered) /\ Forward(World, v)
  BY <1>1, <1>3, <1>6, <1>8, SessionKeeps, SameForward DEF Others
<1>10. Loads(World, v, s, c)
  BY <1>1, <1>2, <1>3, <1>5, <1>6, <1>8 DEF Loads, Alone
<1> HIDE DEF c
<1>11. NoLapse => Good(v, pending, ti)
  BY <1>1, <1>3, <1>10, LoadsGood
<1>12. ti \in SUBSET Char /\ Become(v) /\ pending' = pending /\ registered' = registered
       /\ logins' \in 0..MaxLogin /\ UNCHANGED <<listed, played>>
  BY <1>1, <1>2, <1>4
<1> HIDE DEF ti
<1> QED BY <1>1, <1>2, <1>8, <1>9, <1>11, <1>12, Unplayed, Unmoved, Arrives

LEMMA TouchesSound ==
    ASSUME NEW w \in Sound, NEW v, NEW s \in Client, Touches(w, v, s), Shape(v.cl[s]),
           v.cl[s].at \in Under => w.cl[s].at \in Under
    PROVE  v \in Sound
<1>1. v.cl[s].at \in Under => \A p \in Place, c \in Char : v.online[p][c] # s
  BY DEF Touches, SameMaps, Sound, Entered
<1> QED BY <1>1, StaysSound DEF Touches, SameMaps

LEMMA TouchesTouches ==
    ASSUME NEW u, NEW w, NEW v, NEW s, Touches(u, w, s), Touches(w, v, s)
    PROVE  Touches(u, v, s)
BY DEF Touches, SameMaps, Others

\* Once the keys are looked at: who the connection is, and what it has.
LEMMA KnownAccount ==
    ASSUME TypeOK, NEW s \in Client, NEW st \in {0, 1, 2, 5, 6}, cl[s].at = "entering"
    PROVE  LET w == [World EXCEPT !.cl[s].acc = TRUE, !.cl[s].player = cl[s].carry]
               read == IF st = state THEN w ELSE updateLoginState(w, s, 0)
               v == [read EXCEPT !.cl[s].loggedIn = st = 2]
           IN /\ Touches(World, v, s) /\ w.online = online
              /\ v.cl[s].server = cl[s].server /\ v.cl[s].at = "entering"
              /\ v.cl[s].player = cl[s].carry /\ v.cl[s].carry = cl[s].carry
<1> DEFINE k == [cl[s] EXCEPT !.acc = TRUE, !.player = cl[s].carry]
           w == [World EXCEPT !.cl[s].acc = TRUE, !.cl[s].player = cl[s].carry]
           u == [World EXCEPT !.cl[s] = k]
           read == IF st = state THEN w ELSE updateLoginState(w, s, 0)
           b == st = 2
           l == [read.cl[s] EXCEPT !.loggedIn = b]
           v == [read EXCEPT !.cl[s] = l]
<1>1. World \in Worlds /\ World.cl = cl /\ World.online = online /\ cl[s] \in MapleClient
  BY WorldIs DEF Worlds
<1>2. w = u
  BY <1>1 DEF Worlds
<1>3. /\ k \in MapleClient /\ k.server = cl[s].server /\ k.at = "entering"
      /\ k.player = cl[s].carry /\ k.carry = cl[s].carry
  BY <1>1 DEF MapleClient
<1> HIDE DEF k
<1>4. Touches(World, u, s) /\ u.cl[s] = k
  BY <1>1, <1>3, AtClient DEF Touches
<1> HIDE DEF w, u
<1>5. w \in Worlds /\ w.online = online
  BY <1>1, <1>2, <1>4 DEF Touches, SameMaps
<1>6. Touches(w, read, s) /\ SameDoing(w.cl[s], read.cl[s])
  <2>1. CASE read = w
    BY <1>5, <2>1 DEF Touches, SameMaps, Others, SameDoing
  <2>2. CASE read = updateLoginState(w, s, 0)
    <3> HIDE DEF read
    <3> QED BY <1>5, <2>2, LoginStateAt
  <2> QED BY <2>1, <2>2
<1>7. [read EXCEPT !.cl[s].loggedIn = st = 2] = v
  BY <1>6 DEF Touches, Worlds
<1> HIDE DEF read
<1>8. read \in Worlds /\ read.cl[s] \in MapleClient
  BY <1>6 DEF Touches, Worlds
<1>9. b \in BOOLEAN OBVIOUS
<1> HIDE DEF b
<1>10. l \in MapleClient /\ SameDoing(read.cl[s], l)
  BY <1>8, <1>9 DEF MapleClient, SameDoing
<1> HIDE DEF l
<1>11. Touches(read, v, s) /\ v.cl[s] = l
  BY <1>8, <1>10, AtClient DEF Touches
<1> HIDE DEF v
<1>12. Touches(World, v, s)
  BY <1>2, <1>4, <1>6, <1>11, TouchesTouches
<1>13. /\ v.cl[s].server = cl[s].server /\ v.cl[s].at = "entering"
       /\ v.cl[s].player = cl[s].carry /\ v.cl[s].carry = cl[s].carry
  BY <1>2, <1>3, <1>4, <1>6, <1>10, <1>11 DEF SameDoing
<1> QED BY <1>5, <1>7, <1>12, <1>13 DEF w, read, v, l, b

\* The connection is closed and its handler over.
LEMMA Refuses ==
    ASSUME NEW w \in Worlds, NEW v \in Worlds, NEW s \in Client, Touches(w, v, s)
    PROVE  LET u == Goto(Close(v, s), s, "idle") IN
           /\ Touches(w, u, s) /\ u.cl[s].at = "idle" /\ u.cl[s].server = v.cl[s].server
           /\ u.cl[s].player = v.cl[s].player
<1> DEFINE m == Close(v, s)
           u == Goto(m, s, "idle")
<1>1. Touches(v, m, s) /\ SameDoing(v.cl[s], m.cl[s])
  BY ClosesAt
<1> HIDE DEF m
<1>2. m \in Worlds /\ "idle" \in At
  BY <1>1 DEF Touches, At
<1>3. Touches(m, u, s) /\ Turned(m.cl[s], u.cl[s], "idle")
  BY <1>2, GoesAt
<1> HIDE DEF u
<1>4. Touches(w, u, s)
  BY <1>1, <1>3, TouchesTouches
<1> QED BY <1>1, <1>3, <1>4 DEF u, m, SameDoing, Turned

LEMMA AllowSure ==
    ASSUME IInv, NEW s \in Client, allowLogin(s), UNCHANGED listed
    PROVE  Sure
<1>1. /\ TypeOK /\ World \in Sound /\ World \in Worlds /\ World.cl = cl /\ Session(World, registered)
      /\ World.online = online /\ World.saved = saved
      /\ cl[s] \in MapleClient /\ Shape(cl[s]) /\ ticket \in SUBSET Char
      /\ lapse \subseteq Lapse /\ invites \subseteq [to : Place, chr : Char]
      /\ NoLapse => Good(World, pending, ticket)
  BY Before, WorldIs, SoundIs DEF TypeOK
<1>2. cl[s].at = "entering" /\ UNCHANGED <<played, pending, ticket, logins, registered, invites>>
  BY DEF allowLogin
<1> DEFINE w == [World EXCEPT !.cl[s].acc = TRUE, !.cl[s].player = cl[s].carry]
           read(st) == IF st = state THEN w ELSE updateLoginState(w, s, 0)
           known(st) == [read(st) EXCEPT !.cl[s].loggedIn = st = 2]
           left(st) == [known(st) EXCEPT !.cl[s].player = None]
           refuse(v) == Goto(Close(v, s), s, "idle")
           shop == cl[s].server = Shop
<1>3. PICK st \in LoginStates :
        \/ Become(refuse(World)) /\ UNCHANGED lapse
        \/ Become(refuse(left(st))) /\ UNCHANGED lapse
        \/ shop /\ Become(refuse(known(st))) /\ lapse' = lapse \cup {"kept"}
        \/ /\ ~isCharacterListConnected(w) /\ KeysMatch(s) /\ Become(Goto(known(st), s, "joining"))
           /\ UNCHANGED lapse
  BY DEF allowLogin
<1>4. st \in {0, 1, 2, 5, 6}
  BY <1>1 DEF LoginStates, TypeOK
<1> DEFINE v == known(st)
<1>5. /\ Touches(World, v, s) /\ w.online = online
      /\ v.cl[s].server = cl[s].server /\ v.cl[s].at = "entering"
      /\ v.cl[s].player = cl[s].carry /\ v.cl[s].carry = cl[s].carry
  BY <1>1, <1>2, <1>4, KnownAccount
<1>6. cl[s].carry \in Copy /\ cl[s].carry # None /\ cl[s].server \in Place /\ cl[s].player = None
  BY <1>1, <1>2, SoundIs DEF Under, Shape
<1>7. v \in Worlds /\ v.cl[s] \in MapleClient
  BY <1>5 DEF Touches, Worlds
\* Whatever the connection is left with, it is no session of the login server.
<1>8. ASSUME NEW u, Touches(World, u, s), Shape(u.cl[s]), u.cl[s].at \in {"idle", "joining"},
             u.cl[s].server = cl[s].server
      PROVE  u \in Sound /\ Session(u, registered) /\ Forward(World, u)
  <2>1. u \in Sound
    BY <1>1, <1>2, <1>8, TouchesSound DEF Under
  <2>2. s # registered \/ registered = None
    BY <1>1, <1>6 DEF Session, Place
  <2>3. Session(u, registered)
    BY <1>1, <1>8, <2>2, SessionKeeps DEF Touches, Others, TypeOK
  <2> QED BY <1>1, <1>8, <2>1, <2>3, SameForward DEF Touches
\* Refused, and empty-handed.
<1>9. ASSUME NEW m \in Worlds, Touches(World, m, s), m.cl[s].player = None, m.cl[s].server = cl[s].server,
             Become(refuse(m)), UNCHANGED lapse
      PROVE  Sure
  <2> DEFINE u == refuse(m)
  <2>1. Touches(World, u, s) /\ u.cl[s].at = "idle" /\ u.cl[s].server = cl[s].server /\ u.cl[s].player = None
    BY <1>1, <1>9, Refuses
  <2>2. Become(u)
    BY <1>9
  <2> HIDE DEF u
  <2>3. Shape(u.cl[s]) /\ Nobody(u.cl[s])
    BY <2>1 DEF Shape, Nobody, Under, Away
  <2>4. u \in Sound /\ Session(u, registered) /\ Forward(World, u)
    BY <1>8, <2>1, <2>3
  <2>5. Fades(World, u, s)
    BY <1>1, <1>2, <2>1, <2>3, <2>4 DEF Fades, Touches
  <2>6. NoLapse => Good(u, pending, ticket)
    BY <1>1, <2>5, FadesGood
  <2> QED BY <1>2, <1>9, <2>2, <2>4, <2>6, Unplayed, Unmoved, Moves
<1> HIDE DEF known
<1>10. CASE Become(refuse(World)) /\ UNCHANGED lapse
  <2>1. Touches(World, World, s) /\ World.cl[s].player = None /\ World.cl[s].server = cl[s].server
    BY <1>1, <1>6 DEF Touches, SameMaps, Others
  <2> QED BY <1>1, <1>9, <1>10, <2>1
<1>11. CASE Become(refuse(left(st))) /\ UNCHANGED lapse
  <2> DEFINE k == [v.cl[s] EXCEPT !.player = None]
             m == [v EXCEPT !.cl[s] = k]
  <2>1. left(st) = m
    BY <1>7 DEF Worlds
  <2>2. k \in MapleClient /\ k.player = None /\ k.server = cl[s].server
    BY <1>5, <1>7 DEF MapleClient
  <2> HIDE DEF k, v
  <2>3. Touches(v, m, s) /\ m.cl[s] = k
    BY <1>7, <2>2, AtClient DEF Touches
  <2> HIDE DEF m
  <2>4. Touches(World, m, s) /\ m \in Worlds
    BY <1>5, <2>3, TouchesTouches DEF Touches
  <2>5. Become(refuse(m))
    BY <1>11, <2>1
  <2> QED BY <1>9, <1>11, <2>2, <2>3, <2>4, <2>5
\* Refused by the cash shop with the character still in hand.
<1>12. CASE shop /\ Become(refuse(v)) /\ lapse' = lapse \cup {"kept"}
  <2> HIDE DEF v
  <2> DEFINE u == refuse(v)
  <2>1. Touches(World, u, s) /\ u.cl[s].at = "idle" /\ u.cl[s].server = cl[s].server
    BY <1>1, <1>5, <1>7, Refuses
  <2>2. Become(u)
    BY <1>12
  <2> HIDE DEF u
  <2>3. Shape(u.cl[s])
    BY <1>6, <2>1 DEF Shape, Under, Away
  <2>4. u \in Sound /\ Session(u, registered) /\ Forward(World, u)
    BY <1>8, <2>1, <2>3
  <2>5. lapse \subseteq lapse' /\ lapse' \subseteq Lapse /\ ~NoLapse'
    BY <1>1, <1>12 DEF Lapse, NoLapse
  <2> QED BY <1>1, <1>2, <2>2, <2>4, <2>5, Unplayed, Moves
<1>13. CASE /\ ~isCharacterListConnected(w) /\ KeysMatch(s) /\ Become(Goto(v, s, "joining"))
            /\ UNCHANGED lapse
  <2>1. \A p \in Channel, c \in listed : online[p][c] = None
    BY <1>5, <1>13 DEF isCharacterListConnected
  <2> HIDE DEF v, w
  <2> DEFINE u == Goto(v, s, "joining")
  <2>2. "joining" \in At
    BY DEF At
  <2>3. Touches(v, u, s) /\ Turned(v.cl[s], u.cl[s], "joining")
    BY <1>7, <2>2, GoesAt
  <2>4. Become(u)
    BY <1>13
  <2> HIDE DEF u
  <2>5. Touches(World, u, s) /\ u.cl[s].at = "joining" /\ u.cl[s].server = cl[s].server
        /\ u.cl[s].player = cl[s].carry /\ u.cl[s].carry = cl[s].carry
    BY <1>5, <2>3, TouchesTouches DEF Turned
  <2>6. Shape(u.cl[s])
    BY <1>6, <2>5 DEF Shape, Under, Away
  <2>7. u \in Sound /\ Session(u, registered) /\ Forward(World, u)
    BY <1>8, <2>5, <2>6
  <2>8. Joins(World, u, s)
    BY <1>1, <1>2, <1>13, <2>1, <2>5, <2>7 DEF Joins, Alone, Touches, KeysMatch
  <2>9. NoLapse => Good(u, pending, ticket)
    BY <1>1, <2>8, JoinsGood
  <2> QED BY <1>2, <1>13, <2>4, <2>7, <2>9, Unplayed, Unmoved, Moves
<1> QED BY <1>3, <1>10, <1>11, <1>12, <1>13

LEMMA RegisterSure ==
    ASSUME IInv, NEW s \in Client, registerPlayer(s), UNCHANGED listed
    PROVE  Sure
<1> DEFINE p == cl[s].server
           c == cl[s].carry.chr
           n == IF p = Shop THEN 5 ELSE 2
           w == updateLoginState(World, s, n)
           m == Goto(w, s, "joined")
           v == [m EXCEPT !.online[p][c] = s, !.find[c] = p]
<1>1. /\ TypeOK /\ World \in Sound /\ World \in Worlds /\ World.cl = cl /\ Session(World, registered)
      /\ World.online = online /\ World.saved = saved /\ World.find = find
      /\ cl[s] \in MapleClient /\ Shape(cl[s]) /\ ticket \in SUBSET Char
      /\ NoLapse => Good(World, pending, ticket)
  BY Before, WorldIs, SoundIs
<1>2. /\ cl[s].at = "joining" /\ Become(v)
      /\ UNCHANGED <<played, pending, ticket, logins, registered, invites, lapse>>
  BY DEF registerPlayer
<1>3. c \in Char /\ p \in Place /\ cl[s].carry # None /\ cl[s].player = cl[s].carry
  BY <1>1, <1>2, SoundIs DEF Under, Shape
<1>4. n \in {2, 5} /\ n \in {0, 1, 2, 5, 6} /\ "joined" \in At
  BY DEF At
<1> HIDE DEF n, c, p
<1>5. Touches(World, w, s) /\ SameDoing(cl[s], w.cl[s]) /\ ~w.cl[s].serverTransition
  BY <1>1, <1>4, LoginStateAt
<1> HIDE DEF w
<1>6. w \in Worlds
  BY <1>5 DEF Touches
<1>7. Touches(w, m, s) /\ Turned(w.cl[s], m.cl[s], "joined")
  BY <1>4, <1>6, GoesAt
<1> HIDE DEF m
<1>8. /\ Touches(World, m, s) /\ m \in Worlds /\ m.cl[s].at = "joined" /\ m.cl[s].server = cl[s].server
      /\ m.cl[s].player = cl[s].player /\ m.cl[s].carry = cl[s].carry /\ ~m.cl[s].serverTransition
      /\ m.online = online /\ m.find = find /\ m.saved = saved
  BY <1>1, <1>5, <1>7, TouchesTouches DEF Touches, Turned, SameDoing, SameMaps
<1>9. /\ v \in Worlds /\ v.cl = m.cl /\ v.saved = saved
      /\ v.online = [online EXCEPT ![p][c] = s] /\ v.find = [find EXCEPT ![c] = p]
  BY <1>3, <1>8 DEF Worlds
<1> HIDE DEF v
<1>10. Others(World, v, s)
  BY <1>8, <1>9 DEF Touches, Others
<1>11. Shape(v.cl[s])
  BY <1>3, <1>8, <1>9 DEF Shape, Under, Away, p
<1>12. v \in Sound
  <2>1. \A x \in Client : Shape(v.cl[x])
    BY <1>1, <1>10, <1>11, SoundIs DEF Others
  <2>2. ASSUME NEW q \in Place, NEW d \in Char, v.online[q][d] # None
        PROVE  v.cl[v.online[q][d]].at \notin Under
    <3>1. v.online[q][d] \in {online[q][d], s} /\ v.online[q][d] \in Client
      BY <1>1, <1>3, <1>9, <2>2 DEF Worlds
    <3>2. CASE v.online[q][d] = s
      BY <1>8, <1>9, <3>2 DEF Under
    <3>3. CASE v.online[q][d] # s
      BY <1>1, <1>10, <2>2, <3>1, <3>3 DEF Others, Sound, Entered
    <3> QED BY <3>2, <3>3
  <2> QED BY <1>9, <2>1, <2>2 DEF Sound, Entered
<1>13. Session(v, registered)
  <2>1. s # registered \/ registered = None
    BY <1>1, <1>3 DEF Session, Place, p
  <2> QED BY <1>1, <1>10, <2>1, SessionKeeps DEF Others, TypeOK
<1>14. Registers(World, v, s)
  BY <1>1, <1>2, <1>8, <1>9, <1>10, <1>12 DEF Registers, p, c
<1>15. NoLapse => Good(v, pending, ticket)
  BY <1>1, <1>14, RegistersGood
<1>16. Forward(World, v)
  BY <1>1, <1>9, SameForward
<1> QED BY <1>2, <1>12, <1>13, <1>15, <1>16, Unplayed, Unmoved, Moves

\* A handler is over and forgets the character it was about.
LEMMA Ends ==
    ASSUME NEW w \in Worlds, NEW s \in Client
    PROVE  LET v == [Goto(w, s, "idle") EXCEPT !.cl[s].carry = None] IN
           /\ Touches(w, v, s) /\ v.cl[s].at = "idle" /\ v.cl[s].server = w.cl[s].server
           /\ v.cl[s].player = w.cl[s].player /\ v.cl[s].carry = None
           /\ v.cl[s].serverTransition = w.cl[s].serverTransition
<1> DEFINE m == Goto(w, s, "idle")
           k == [m.cl[s] EXCEPT !.carry = None]
           v == [m EXCEPT !.cl[s] = k]
<1>1. "idle" \in At
  BY DEF At
<1>2. Touches(w, m, s) /\ Turned(w.cl[s], m.cl[s], "idle")
  BY <1>1, GoesAt
<1> HIDE DEF m
<1>3. m \in Worlds /\ m.cl[s] \in MapleClient
  BY <1>2 DEF Touches, Worlds
<1>4. [m EXCEPT !.cl[s].carry = None] = v
  BY <1>3 DEF Worlds
<1>5. /\ k \in MapleClient /\ k.at = m.cl[s].at /\ k.server = m.cl[s].server
      /\ k.player = m.cl[s].player /\ k.carry = None
      /\ k.serverTransition = m.cl[s].serverTransition
  BY <1>3 DEF MapleClient
<1> HIDE DEF k
<1>6. Touches(m, v, s) /\ v.cl[s] = k
  BY <1>3, <1>5, AtClient DEF Touches
<1> HIDE DEF v
<1>7. Touches(w, v, s)
  BY <1>2, <1>6, TouchesTouches
<1> QED BY <1>2, <1>4, <1>5, <1>6, <1>7 DEF Turned, m

LEMMA EnteredSure ==
    ASSUME IInv, NEW s \in Client, entered(s), UNCHANGED listed
    PROVE  Sure
<1> DEFINE w == [Goto(World, s, "idle") EXCEPT !.cl[s].carry = None]
           u == Close(w, s)
<1>1. /\ TypeOK /\ World \in Sound /\ World \in Worlds /\ World.cl = cl /\ Session(World, registered)
      /\ cl[s] \in MapleClient /\ Shape(cl[s]) /\ ticket \in SUBSET Char
      /\ NoLapse => Good(World, pending, ticket)
  BY Before, SoundIs, WorldIs
<1>2. /\ cl[s].at = "joined" /\ (Become(w) \/ Become(u))
      /\ UNCHANGED <<played, pending, ticket, logins, registered, invites, lapse>>
  BY DEF entered
<1>3. /\ Touches(World, w, s) /\ w.cl[s].at = "idle" /\ w.cl[s].server = cl[s].server
      /\ w.cl[s].player = cl[s].player /\ w.cl[s].serverTransition = cl[s].serverTransition
      /\ w.cl[s].carry = None
  BY <1>1, Ends
<1> HIDE DEF w
<1>4. Shape(w.cl[s])
  BY <1>1, <1>2, <1>3 DEF Shape, Under, Away
<1>5. w \in Sound
  BY <1>1, <1>3, <1>4, TouchesSound DEF Under
<1>6. Enters(World, w, s)
  BY <1>1, <1>2, <1>3, <1>5 DEF Enters, Alone, Touches
<1>7. Session(w, registered) /\ Forward(World, w)
  BY <1>1, <1>3, SessionKeeps, SameForward DEF Touches, Others
<1>8. NoLapse => Good(w, pending, ticket)
  BY <1>1, <1>6, EntersGood
<1>9. u \in Sound /\ Flags(w, u, s) /\ Quiet(w, u)
  BY <1>5, Closes
<1> HIDE DEF u
<1>10. Session(u, registered)
  BY <1>1, <1>7, <1>9, SessionKeeps DEF Flags, Others, SameDoing
<1>11. Forward(World, u) /\ (NoLapse => Good(u, pending, ticket))
  BY <1>1, <1>5, <1>7, <1>8, <1>9, QuietGood, SameForward, ForwardForward DEF Flags
<1>12. CASE Become(w)
  BY <1>2, <1>5, <1>7, <1>8, <1>12, Unplayed, Unmoved, Moves
<1>13. CASE Become(u)
  BY <1>2, <1>9, <1>10, <1>11, <1>13, Unplayed, Unmoved, Moves
<1> QED BY <1>2, <1>12, <1>13

LEMMA DropSure ==
    ASSUME IInv, NEW s \in Client, Drop(s), UNCHANGED listed
    PROVE  Sure
<1> DEFINE w == Close(World, s)
<1>1. TypeOK /\ World \in Sound /\ Session(World, registered)
  BY Before
<1>2. Become(w) /\ UNCHANGED <<played, pending, ticket, logins, registered, invites, lapse>>
  BY DEF Drop
<1>3. Flags(World, w, s) /\ Quiet(World, w)
  BY <1>1, Closes
<1> HIDE DEF w
<1>4. Session(w, registered)
  BY <1>1, <1>3, SessionKeeps DEF Flags, Others, SameDoing
<1> QED BY <1>2, <1>3, <1>4, QuietSure

LEMMA PingSure ==
    ASSUME IInv, NEW s \in Client, PingTimeout(s), UNCHANGED listed
    PROVE  Sure
<1> DEFINE w == updateLoginState(World, s, 0)
           k == [w.cl[s] EXCEPT !.closed = TRUE, !.receiving = FALSE]
           v == [w EXCEPT !.cl[s] = k]
           u == Close(v, s)
<1>1. TypeOK /\ World \in Sound /\ Session(World, registered)
  BY Before
<1>2. Flags(World, w, s) /\ ~w.cl[s].serverTransition
  BY <1>1, LoginState
<1> HIDE DEF w
<1>3. w \in Sound /\ w \in Worlds /\ w.cl[s] \in MapleClient /\ Shape(w.cl[s])
  BY <1>2, SoundIs DEF Flags
<1>4. [w EXCEPT !.cl[s].closed = TRUE, !.cl[s].receiving = FALSE] = v
  BY <1>3 DEF Worlds
<1>5. Become(u) /\ UNCHANGED <<played, pending, ticket, logins, registered, invites, lapse>>
  BY <1>4 DEF PingTimeout, w
<1>6. k \in MapleClient /\ SameDoing(w.cl[s], k) /\ ~k.serverTransition
  BY <1>2, <1>3 DEF MapleClient, SameDoing
<1> HIDE DEF k
<1>7. Touches(w, v, s) /\ v.cl[s] = k
  BY <1>3, <1>6, AtClient DEF Touches
<1> HIDE DEF v
<1>8. v \in Sound
  BY <1>3, <1>6, <1>7, SameShape, TouchesSound DEF SameDoing
<1>9. Flags(v, u, s) /\ Quiet(v, u) /\ u.cl[s].serverTransition = v.cl[s].serverTransition
  BY <1>8, Closes
<1> HIDE DEF u
<1>10. Flags(World, u, s) /\ ~u.cl[s].serverTransition
  BY <1>2, <1>6, <1>7, <1>9 DEF Flags, Touches, SameMaps, Others, SameDoing
<1>11. Quiet(World, u)
  BY <1>10, FlagsQuiet
<1>12. Session(u, registered)
  BY <1>1, <1>10, SessionKeeps DEF Flags, Others, SameDoing
<1> QED BY <1>5, <1>11, <1>12, QuietSure

LEMMA PersistingSure ==
    ASSUME IInv, NEW p \in Place, NEW c \in Char, PersistingTask(p, c), UNCHANGED listed
    PROVE  Sure
<1> DEFINE pe == [pending EXCEPT ![p][c] = None]
<1>1. /\ TypeOK /\ World \in Sound /\ Session(World, registered) /\ Addressed(pending) /\ pending \in Parcels
      /\ World.cl = cl /\ World.online = online /\ World.find = find /\ World.state = state /\ World.saved = saved
      /\ ticket \in SUBSET Char /\ registered \in Client \cup {None} /\ logins \in 0..MaxLogin
      /\ NoLapse => Good(World, pending, ticket)
  BY Before, WorldIs DEF TypeOK
<1>2. pe \in Parcels /\ Addressed(pe) /\ Expires(pending, pe)
  BY <1>1 DEF Parcels, Addressed, Expires
<1>3. /\ Become(World) /\ pending' = pe /\ ticket' = ticket /\ registered' = registered
      /\ logins' \in 0..MaxLogin /\ UNCHANGED <<listed, played, invites, lapse>>
  BY <1>1 DEF PersistingTask, Become
<1> HIDE DEF pe
<1>4. NoLapse => Good(World, pe, ticket)
  BY <1>1, <1>2, ExpiresGood
<1>5. Forward(World, World)
  BY <1>1, SameForward
<1> QED BY <1>1, <1>2, <1>3, <1>4, <1>5, Unplayed, Unmoved, Arrives

-----------------------------------------------------------------------------
(* In the game, and out of it.                                              *)

LEMMA PlaySure ==
    ASSUME IInv, NEW s \in Client, Play(s), UNCHANGED listed
    PROVE  Sure
<1> DEFINE c == cl[s].player.chr
           n == played[c] + 1
           d == [cl[s].player EXCEPT !.ver = n]
           k == [cl[s] EXCEPT !.player = d]
           v == [World EXCEPT !.cl[s] = k]
<1>1. /\ TypeOK /\ World \in Sound /\ World \in Worlds /\ World.cl = cl /\ Session(World, registered)
      /\ World.online = online /\ World.saved = saved /\ World.find = find
      /\ cl[s] \in MapleClient /\ Shape(cl[s]) /\ ticket \in SUBSET Char /\ Addressed(pending) /\ Known
      /\ NoLapse => Good(World, pending, ticket)
  BY Before, SoundIs, WorldIs DEF IInv, Orderly
<1>2. /\ cl[s].at = "idle" /\ cl[s].player # None /\ played[c] < MaxPlay
      /\ played' = [played EXCEPT ![c] = @ + 1]
      /\ Become([World EXCEPT !.cl[s].player.ver = n])
      /\ UNCHANGED <<pending, ticket, logins, registered, invites, lapse>>
  BY DEF Play, Playing, Idle
<1>3. cl[s].player \in Copy /\ c \in Char /\ cl[s].server \in Place
  BY <1>1, <1>2, SoundIs
<1>4. n \in 0..MaxPlay /\ played' \in [Char -> 0..MaxPlay]
  BY <1>1, <1>2, <1>3 DEF TypeOK
<1>5. [World EXCEPT !.cl[s].player.ver = n] = v
  BY <1>1, <1>3 DEF Worlds, MapleClient, Copy
<1> HIDE DEF n
<1>6. d \in Copy /\ d.chr = c /\ d.ver = n /\ d.current = cl[s].player.current /\ d # None
  BY <1>3, <1>4 DEF Copy
<1> HIDE DEF d
<1>7. /\ k \in MapleClient /\ k.at = "idle" /\ k.player = d /\ k.server = cl[s].server
      /\ k.serverTransition = cl[s].serverTransition
  BY <1>1, <1>2, <1>6 DEF MapleClient
<1> HIDE DEF k
<1>8. Touches(World, v, s) /\ v.cl[s] = k
  BY <1>1, <1>7, AtClient DEF Touches
<1>9. Become(v)
  BY <1>2, <1>5
<1> HIDE DEF v
<1>10. Shape(v.cl[s])
  BY <1>3, <1>7, <1>8 DEF Shape, Under, Away
<1>11. v \in Sound
  BY <1>1, <1>7, <1>8, <1>10, TouchesSound DEF Under
<1>12. World' = v /\ v \in Worlds
  BY <1>8, <1>9 DEF World, Become, Worlds, Touches
<1>13. (World \in Sound)' /\ World' \in Sound
  <2>1. Sound' = Sound
    BY DEF Sound, Shape, Entered
  <2> QED BY <1>11, <1>12, <2>1
<1>14. TypeOK'
  BY <1>1, <1>2, <1>4, <1>9, <1>12 DEF TypeOK, Become, Worlds
<1>15. /\ cl' = v.cl /\ UNCHANGED <<online, find, saved>>
  BY <1>1, <1>8, <1>9 DEF Become, Touches, SameMaps
<1>16. Known'
  BY <1>1, <1>2, <1>3, <1>7, <1>8, <1>15 DEF Known, Touches, Others, Place, TypeOK
<1>17. Addressed(pending)'
  BY <1>1, <1>2 DEF Addressed
<1>18. Plays(s, c)
  BY <1>1, <1>2, <1>6, <1>7, <1>8, <1>12, <1>13, <1>15 DEF Plays, Has, Touches, n
<1> HIDE DEF c
<1>19. NoLapse => Good(World, pending, ticket)'
  BY <1>1, <1>3, <1>18, PlaysGood
<1>20. NoLapse' <=> NoLapse
  BY <1>2 DEF NoLapse
<1>21. \A d0 \in Char : saved'[d0] >= saved[d0]
  BY <1>1, <1>15 DEF TypeOK
<1> QED BY <1>13, <1>14, <1>16, <1>17, <1>19, <1>20, <1>21 DEF Sure, IInv, Orderly

LEMMA TransferSure ==
    ASSUME IInv, NEW s \in Client, NEW to \in Place, transfer(s, to), UNCHANGED listed
    PROVE  Sure
<1> DEFINE p == cl[s].player
           c == p.chr
           e == [p EXCEPT !.home = cl[s].server]
           pe == [pending EXCEPT ![to][c] = e]
           m == Goto(World, s, "moving")
           u == [m EXCEPT !.saved = [m.saved EXCEPT ![c] = p.ver]]
           k == [u.cl[s] EXCEPT !.carry = p, !.to = to]
           v == [u EXCEPT !.cl[s] = k]
<1>1. /\ TypeOK /\ World \in Sound /\ World \in Worlds /\ World.cl = cl /\ Session(World, registered)
      /\ World.online = online /\ World.saved = saved /\ World.find = find
      /\ cl[s] \in MapleClient /\ Shape(cl[s]) /\ ticket \in SUBSET Char /\ Addressed(pending)
      /\ pending \in Parcels /\ registered \in Client \cup {None} /\ logins \in 0..MaxLogin
      /\ saved \in [Char -> 0..MaxPlay]
      /\ NoLapse => Good(World, pending, ticket)
  BY Before, SoundIs, WorldIs DEF TypeOK
<1>2. /\ cl[s].at = "idle" /\ p # None /\ cl[s].server \in Channel
      /\ Become([m EXCEPT !.saved[c] = p.ver, !.cl[s].carry = p, !.cl[s].to = to])
      /\ pending' = pe /\ UNCHANGED <<played, ticket, logins, registered, invites, lapse>>
  BY DEF transfer, Playing, Idle
<1>3. p \in Copy /\ c \in Char /\ p.ver \in 0..MaxPlay
  BY <1>1, <1>2, SoundIs DEF Copy
<1>4. e \in Copy /\ e.chr = c
  BY <1>2, <1>3 DEF Copy
<1>5. pe \in Parcels /\ Addressed(pe)
  <2> HIDE DEF e, c
  <2> QED BY <1>1, <1>3, <1>4 DEF Parcels, Addressed
<1>6. Touches(World, m, s) /\ Turned(cl[s], m.cl[s], "moving")
  <2>1. "moving" \in At
    BY DEF At
  <2> QED BY <1>1, <2>1, GoesAt
<1> HIDE DEF m
<1>7. m \in Worlds /\ m.cl[s] \in MapleClient
  BY <1>6 DEF Touches, Worlds
<1>8. [m EXCEPT !.saved[c] = p.ver, !.cl[s].carry = p, !.cl[s].to = to] = v
  BY <1>7 DEF Worlds, MapleClient
<1>9. /\ u \in Worlds /\ u.cl = m.cl /\ u.online = m.online /\ u.find = m.find
      /\ u.saved = [m.saved EXCEPT ![c] = p.ver]
  BY <1>3, <1>7 DEF Worlds
<1> HIDE DEF u
<1>10. /\ k \in MapleClient /\ k.at = "moving" /\ k.carry = p /\ k.to = to
       /\ k.player = p /\ k.server = cl[s].server /\ k.serverTransition = cl[s].serverTransition
  BY <1>3, <1>6, <1>7, <1>9 DEF MapleClient, Turned
<1> HIDE DEF k
<1>11. v \in Worlds /\ v.cl[s] = k /\ Others(u, v, s) /\ SameMaps(u, v) /\ v.saved = u.saved
  BY <1>9, <1>10, AtClient
<1>12. Become(v)
  BY <1>2, <1>8
<1> HIDE DEF v
<1>13. /\ Others(World, v, s) /\ SameMaps(World, v) /\ v.saved = [saved EXCEPT ![c] = p.ver]
  BY <1>1, <1>6, <1>9, <1>11 DEF Touches, Others, SameMaps
<1>14. Shape(v.cl[s]) /\ v.cl[s].at \notin Under
  BY <1>2, <1>10, <1>11 DEF Shape, Under, Away, Place
<1>15. v \in Sound
  BY <1>1, <1>11, <1>13, <1>14, StaysSound DEF SameMaps
<1>16. Session(v, registered)
  <2>1. s # registered \/ registered = None
    BY <1>1, <1>2 DEF Session
  <2> QED BY <1>1, <1>13, <2>1, SessionKeeps DEF Others
<1>17. Crosses(World, v, pending, pe, s, to)
  BY <1>1, <1>2, <1>10, <1>11, <1>13, <1>15 DEF Crosses
<1> HIDE DEF pe
<1>18. NoLapse => Good(v, pe, ticket)
  BY <1>1, <1>5, <1>17, SetsOutGood
<1>19. NoLapse => Forward(World, v)
  <2> SUFFICES ASSUME NoLapse
               PROVE  Forward(World, v)
    OBVIOUS
  <2>1. p.ver = played[c] /\ saved[c] <= played[c]
    BY <1>1, <1>2, <1>3 DEF Good, Newest, Stored
  <2> QED BY <1>1, <1>3, <1>13, <2>1 DEF Forward
<1>20. ticket' = ticket /\ registered' = registered /\ logins' \in 0..MaxLogin /\ pending' = pe
       /\ UNCHANGED <<listed, played>>
  BY <1>1, <1>2
<1> QED
  BY <1>1, <1>2, <1>5, <1>12, <1>15, <1>16, <1>18, <1>19, <1>20, Unplayed, Unmoved, Arrives

LEMMA Invites ==
    ASSUME TypeOK, NEW s, NEW to \in Place, NEW c \in Char, Invite(s, to, c)
    PROVE  invites' \subseteq [to : Place, chr : Char]
BY DEF TypeOK, Invite

LEMMA DepartSure ==
    ASSUME IInv, NEW s \in Client, depart(s), UNCHANGED listed
    PROVE  Sure
<1> DEFINE c == cl[s].carry.chr
           p == cl[s].server
           w == deregisterPlayer(World, p, c)
           u == updateLoginState(w, s, 6)
           v == Goto(u, s, "leaving")
<1>1. /\ TypeOK /\ World \in Sound /\ World \in Worlds /\ World.cl = cl /\ Session(World, registered)
      /\ World.online = online /\ World.saved = saved /\ World.find = find
      /\ cl[s] \in MapleClient /\ Shape(cl[s]) /\ ticket \in SUBSET Char /\ lapse \subseteq Lapse
      /\ NoLapse => Good(World, pending, ticket)
  BY Before, SoundIs, WorldIs DEF TypeOK
<1>2. /\ cl[s].at = "moving" /\ Become(v) /\ Invite(s, cl[s].to, c)
      /\ UNCHANGED <<played, pending, ticket, logins, registered, lapse>>
  BY DEF depart
<1>3. c \in Char /\ p \in Place /\ cl[s].to \in Place /\ cl[s].carry # None
  BY <1>1, <1>2, SoundIs DEF Away, Shape
<1>4. invites' \subseteq [to : Place, chr : Char]
  BY <1>1, <1>2, <1>3, Invites
<1> HIDE DEF p, c
<1>5. /\ w \in Worlds /\ w.cl = cl /\ w.saved = saved
      /\ w.online = [online EXCEPT ![p][c] = None] /\ w.find = [find EXCEPT ![c] = None]
      /\ \A q \in Place, d \in Char : w.online[q][d] \in {World.online[q][d], None}
  BY <1>1, <1>3 DEF deregisterPlayer, Worlds
<1> HIDE DEF w
<1>6. Touches(w, u, s) /\ SameDoing(w.cl[s], u.cl[s])
  BY <1>5, LoginStateAt
<1> HIDE DEF u
<1>7. Touches(u, v, s) /\ Turned(u.cl[s], v.cl[s], "leaving")
  <2>1. "leaving" \in At /\ u \in Worlds
    BY <1>6 DEF At, Touches
  <2> QED BY <2>1, GoesAt
<1> HIDE DEF v
<1>8. /\ v \in Worlds /\ Others(World, v, s) /\ v.saved = saved
      /\ v.online = [online EXCEPT ![p][c] = None] /\ v.find = [find EXCEPT ![c] = None]
      /\ v.online = w.online
      /\ v.cl[s].at = "leaving" /\ v.cl[s].server = cl[s].server /\ v.cl[s].player = cl[s].player
      /\ v.cl[s].carry = cl[s].carry /\ v.cl[s].to = cl[s].to
  BY <1>1, <1>5, <1>6, <1>7 DEF Touches, SameMaps, Others, Turned, SameDoing
<1>9. Shape(v.cl[s]) /\ v.cl[s].at \notin Under
  BY <1>1, <1>2, <1>3, <1>8 DEF Shape, Under, Away, p
<1>10. v \in Sound
  BY <1>1, <1>5, <1>8, <1>9, StaysSound
<1>11. Session(v, registered) /\ Forward(World, v)
  BY <1>1, <1>8, <1>10, SessionKeeps, SameForward DEF Others
<1>12. Departs(World, v, s, p, c)
  BY <1>1, <1>2, <1>8, <1>10 DEF Departs, Clears, p, c
<1>13. NoLapse => Good(v, pending, ticket)
  BY <1>1, <1>3, <1>12, ClearsGood
<1>14. NoLapse' <=> NoLapse
  BY <1>2 DEF NoLapse
<1> QED BY <1>1, <1>2, <1>4, <1>10, <1>11, <1>13, <1>14, Unplayed, Moves

LEMMA LeaveSure ==
    ASSUME IInv, NEW s \in Client, LeaveCashShop(s), UNCHANGED listed
    PROVE  Sure
<1> DEFINE p == cl[s].player
           c == p.chr
           pe == [pending EXCEPT ![p.home][c] = p]
           w == deregisterPlayer(World, Shop, c)
           u == updateLoginState(w, s, 1)
           m == Goto(u, s, "leaving")
           k == [m.cl[s] EXCEPT !.carry = p, !.to = p.home]
           v == [m EXCEPT !.cl[s] = k]
<1>1. /\ TypeOK /\ World \in Sound /\ World \in Worlds /\ World.cl = cl /\ Session(World, registered)
      /\ World.online = online /\ World.saved = saved /\ World.find = find
      /\ cl[s] \in MapleClient /\ Shape(cl[s]) /\ ticket \in SUBSET Char /\ lapse \subseteq Lapse
      /\ pending \in Parcels /\ Addressed(pending) /\ registered \in Client \cup {None}
      /\ logins \in 0..MaxLogin
      /\ NoLapse => Good(World, pending, ticket)
  BY Before, SoundIs, WorldIs DEF TypeOK
<1>2. /\ cl[s].at = "idle" /\ p # None /\ cl[s].server = Shop
      /\ Become([m EXCEPT !.cl[s].carry = p, !.cl[s].to = p.home])
      /\ pending' = pe /\ Invite(s, p.home, c)
      /\ UNCHANGED <<played, ticket, logins, registered, lapse>>
  BY DEF LeaveCashShop, Playing, Idle
<1>3. p \in Copy /\ c \in Char /\ p.home \in Place /\ Shop \in Place
  BY <1>1, <1>2, SoundIs DEF Copy, Place
<1>4. pe \in Parcels /\ Addressed(pe)
  <2> DEFINE h == p.home
  <2>1. h \in Place /\ p.chr = c
    BY <1>3
  <2> HIDE DEF c, h
  <2> QED BY <1>1, <1>3, <2>1 DEF Parcels, Addressed, h
<1>5. invites' \subseteq [to : Place, chr : Char]
  BY <1>1, <1>2, <1>3, Invites
<1>6. /\ w \in Worlds /\ w.cl = cl /\ w.saved = saved
      /\ w.online = [online EXCEPT ![Shop][c] = None] /\ w.find = [find EXCEPT ![c] = None]
      /\ \A q \in Place, d \in Char : w.online[q][d] \in {World.online[q][d], None}
  <2> HIDE DEF c
  <2> QED BY <1>1, <1>3 DEF deregisterPlayer, Worlds
<1> HIDE DEF w
<1>7. Touches(w, u, s) /\ SameDoing(w.cl[s], u.cl[s])
  BY <1>6, LoginStateAt
<1> HIDE DEF u
<1>8. Touches(u, m, s) /\ Turned(u.cl[s], m.cl[s], "leaving")
  <2>1. "leaving" \in At /\ u \in Worlds
    BY <1>7 DEF At, Touches
  <2> QED BY <2>1, GoesAt
<1> HIDE DEF m
<1>9. m \in Worlds /\ m.cl[s] \in MapleClient
  BY <1>8 DEF Touches, Worlds
<1>10. [m EXCEPT !.cl[s].carry = p, !.cl[s].to = p.home] = v
  BY <1>9 DEF Worlds, MapleClient
<1>11. /\ k \in MapleClient /\ k.at = "leaving" /\ k.carry = p /\ k.to = p.home
       /\ k.player = p /\ k.server = Shop
  BY <1>2, <1>3, <1>6, <1>7, <1>8, <1>9 DEF MapleClient, Turned, SameDoing
<1> HIDE DEF k
<1>12. Touches(m, v, s) /\ v.cl[s] = k
  BY <1>9, <1>11, AtClient DEF Touches
<1>13. Become(v)
  BY <1>2, <1>10
<1> HIDE DEF v
<1>14. Touches(w, v, s)
  BY <1>7, <1>8, <1>12, TouchesTouches
<1>15. /\ v \in Worlds /\ Others(World, v, s) /\ v.saved = saved
       /\ v.online = [online EXCEPT ![Shop][c] = None] /\ v.find = [find EXCEPT ![c] = None]
       /\ v.online = w.online
  BY <1>1, <1>6, <1>14 DEF Touches, SameMaps, Others
<1>16. Shape(v.cl[s]) /\ v.cl[s].at \notin Under
  BY <1>2, <1>3, <1>11, <1>12 DEF Shape, Under, Away
<1>17. v \in Sound
  BY <1>1, <1>6, <1>15, <1>16, StaysSound
<1>18. Session(v, registered)
  <2>1. s # registered \/ registered = None
    BY <1>1, <1>2 DEF Session
  <2> QED BY <1>1, <1>15, <2>1, SessionKeeps DEF Others
<1>19. Forward(World, v)
  BY <1>1, <1>15, SameForward
<1>20. Leaves(World, v, pending, pe, s)
  BY <1>1, <1>2, <1>11, <1>12, <1>15, <1>17 DEF Leaves
<1> HIDE DEF pe
<1>21. NoLapse => Good(v, pe, ticket)
  BY <1>1, <1>20, SetsOutGood
<1>22. ticket' = ticket /\ registered' = registered /\ logins' \in 0..MaxLogin /\ pending' = pe
       /\ UNCHANGED <<listed, played>> /\ lapse \subseteq lapse' /\ lapse' \subseteq Lapse
       /\ (NoLapse' <=> NoLapse)
  BY <1>1, <1>2 DEF NoLapse
<1> QED BY <1>1, <1>4, <1>5, <1>13, <1>17, <1>18, <1>19, <1>21, <1>22, Unplayed, Arrives

LEMMA LetGoSure ==
    ASSUME IInv, NEW s \in Client, letGo(s), UNCHANGED listed
    PROVE  Sure
<1> DEFINE p == cl[s].carry
           c == p.chr
           w == [Goto(World, s, "idle") EXCEPT !.cl[s].carry = None]
           k == [w.cl[s] EXCEPT !.player = None, !.receiving = FALSE]
           gone == [w EXCEPT !.cl[s].player = None, !.cl[s].receiving = FALSE]
           m == [w EXCEPT !.cl[s] = k]
           n == [m EXCEPT !.saved = [saved EXCEPT ![c] = p.ver]]
           u == Close(w, s)
<1>1. /\ TypeOK /\ World \in Sound /\ World \in Worlds /\ World.cl = cl /\ Session(World, registered)
      /\ World.online = online /\ World.saved = saved /\ World.find = find
      /\ cl[s] \in MapleClient /\ Shape(cl[s]) /\ ticket \in SUBSET Char /\ lapse \subseteq Lapse
      /\ saved \in [Char -> 0..MaxPlay] /\ invites \subseteq [to : Place, chr : Char]
      /\ NoLapse => Good(World, pending, ticket)
  BY Before, SoundIs, WorldIs DEF TypeOK
<1>2. /\ cl[s].at = "leaving" /\ UNCHANGED <<played, pending, ticket, logins, registered, invites>>
      /\ \/ cl[s].server = Shop /\ Become([gone EXCEPT !.saved[c] = p.ver]) /\ UNCHANGED lapse
         \/ cl[s].server # Shop /\ Become(gone) /\ UNCHANGED lapse
         \/ /\ cl[s].server # Shop /\ Become(u)
            /\ lapse' = IF cl[s].player = None THEN lapse ELSE lapse \cup {"kept"}
  BY DEF letGo
<1>3. p \in Copy /\ c \in Char /\ p.ver \in 0..MaxPlay /\ cl[s].server \in Place
  BY <1>1, <1>2, SoundIs DEF Away, Copy
<1>4. /\ Touches(World, w, s) /\ w.cl[s].at = "idle" /\ w.cl[s].server = cl[s].server
      /\ w.cl[s].player = cl[s].player /\ w.cl[s].carry = None
  BY <1>1, Ends
<1> HIDE DEF w
<1>5. w \in Worlds /\ w.cl[s] \in MapleClient
  BY <1>4 DEF Touches, Worlds
<1>6. gone = m
  BY <1>5 DEF Worlds, MapleClient
<1>7. k \in MapleClient /\ k.at = "idle" /\ k.player = None /\ k.server = cl[s].server
  BY <1>4, <1>5 DEF MapleClient
<1> HIDE DEF k
<1>8. Touches(w, m, s) /\ m.cl[s] = k
  BY <1>5, <1>7, AtClient DEF Touches
<1> HIDE DEF m, gone
<1>9. Touches(World, m, s) /\ m \in Worlds /\ m.saved = saved
  BY <1>1, <1>4, <1>8, TouchesTouches DEF Touches
<1>10. Shape(k) /\ Nobody(k)
  BY <1>7 DEF Shape, Nobody, Under, Away
<1>11. s # registered \/ registered = None
  BY <1>1, <1>3 DEF Session, Place
<1>12. CASE cl[s].server = Shop /\ Become([gone EXCEPT !.saved[c] = p.ver]) /\ UNCHANGED lapse
  <2>1. [gone EXCEPT !.saved[c] = p.ver] = n
    BY <1>6, <1>9 DEF Worlds
  <2>2. /\ n \in Worlds /\ n.cl = m.cl /\ n.online = m.online /\ n.find = m.find
        /\ n.saved = [saved EXCEPT ![c] = p.ver]
    BY <1>1, <1>3, <1>9 DEF Worlds
  <2>3. Become(n)
    BY <1>12, <2>1
  <2> HIDE DEF n
  <2>4. Others(World, n, s) /\ SameMaps(World, n) /\ n.cl[s] = k
    BY <1>8, <1>9, <2>2 DEF Touches, Others, SameMaps
  <2>5. n \in Sound
    BY <1>1, <1>10, <2>2, <2>4, StaysSound DEF Nobody, SameMaps
  <2>6. Session(n, registered)
    BY <1>1, <1>11, <2>4, SessionKeeps DEF Others, TypeOK
  <2>7. Fades(World, n, s)
    BY <1>1, <1>2, <1>10, <1>12, <2>2, <2>4, <2>5 DEF Fades
  <2>8. NoLapse => Good(n, pending, ticket)
    BY <1>1, <2>7, FadesGood
  <2>9. NoLapse => Forward(World, n)
    <3> SUFFICES ASSUME NoLapse
                 PROVE  Forward(World, n)
      OBVIOUS
    <3>1. p.ver = played[c] /\ saved[c] <= played[c]
      BY <1>1, <1>2, <1>3 DEF Good, Newest, Stored, Away
    <3> QED BY <1>1, <1>3, <2>2, <3>1 DEF Forward
  <2> QED BY <1>2, <1>12, <2>3, <2>5, <2>6, <2>8, <2>9, Unplayed, Unmoved, Moves
<1>13. CASE cl[s].server # Shop /\ Become(gone) /\ UNCHANGED lapse
  <2>1. Become(m)
    BY <1>6, <1>13
  <2>2. m \in Sound
    BY <1>1, <1>8, <1>9, <1>10, TouchesSound DEF Nobody
  <2>3. Session(m, registered) /\ Forward(World, m)
    BY <1>1, <1>9, <1>11, <2>2, SessionKeeps, SameForward DEF Touches, Others, TypeOK
  <2>4. Fades(World, m, s)
    BY <1>1, <1>2, <1>8, <1>9, <1>10, <1>13, <2>2 DEF Fades, Touches
  <2>5. NoLapse => Good(m, pending, ticket)
    BY <1>1, <2>4, FadesGood
  <2> QED BY <1>2, <1>13, <2>1, <2>2, <2>3, <2>5, Unplayed, Unmoved, Moves
\* The move is refused after it has been made.
<1>14. CASE /\ cl[s].server # Shop /\ Become(u)
            /\ lapse' = IF cl[s].player = None THEN lapse ELSE lapse \cup {"kept"}
  <2>1. Shape(w.cl[s]) /\ w.cl[s].at \notin Under
    BY <1>1, <1>2, <1>3, <1>4 DEF Shape, Under, Away
  <2>2. w \in Sound
    BY <1>1, <1>4, <2>1, TouchesSound
  <2>3. Flags(w, u, s) /\ u \in Sound
    BY <2>2, Closes DEF Flags
  <2>4. Become(u)
    BY <1>14
  <2> HIDE DEF u
  <2>5. Others(World, u, s) /\ SameMaps(World, u) /\ u.saved = saved
        /\ u.cl[s].at = "idle" /\ u.cl[s].server = cl[s].server /\ u.cl[s].player = cl[s].player
    BY <1>1, <1>4, <2>3 DEF Flags, Touches, Others, SameMaps, SameDoing
  <2>6. Session(u, registered) /\ Forward(World, u)
    BY <1>1, <1>11, <2>3, <2>5, SessionKeeps, SameForward DEF Others, TypeOK
  <2>7. lapse \subseteq lapse' /\ lapse' \subseteq Lapse /\ (NoLapse' => NoLapse /\ cl[s].player = None)
        /\ invites' \subseteq [to : Place, chr : Char]
    BY <1>1, <1>2, <1>14 DEF Lapse, NoLapse
  <2>8. NoLapse' => Good(u, pending, ticket)
    <3> SUFFICES ASSUME NoLapse'
                 PROVE  Good(u, pending, ticket)
      OBVIOUS
    <3>1. Fades(World, u, s)
      BY <1>1, <1>2, <1>14, <2>3, <2>5, <2>7 DEF Fades, Nobody, Under, Away
    <3> QED BY <1>1, <2>7, <3>1, FadesGood
  <2> QED BY <1>2, <2>3, <2>4, <2>6, <2>7, <2>8, Unplayed, Moves
<1> QED BY <1>2, <1>12, <1>13, <1>14

LEMMA InactiveSure ==
    ASSUME IInv, NEW s \in Client, channelInactive(s), UNCHANGED listed
    PROVE  Sure
<1> DEFINE b == cl[s].server = Shop
           p == cl[s].player
           c == p.chr
           srv == cl[s].server
           w == disconnect(World, s, TRUE, b)
           v == [w EXCEPT !.cl[s] = GoneClient]
           r == IF registered = s THEN None ELSE registered
<1>1. /\ TypeOK /\ World \in Sound /\ World \in Worlds /\ World.cl = cl /\ Session(World, registered)
      /\ World.online = online /\ World.saved = saved /\ World.find = find
      /\ cl[s] \in MapleClient /\ Shape(cl[s]) /\ ticket \in SUBSET Char
      /\ saved \in [Char -> 0..MaxPlay] /\ logins \in 0..MaxLogin
      /\ pending \in Parcels /\ Addressed(pending)
      /\ NoLapse => Good(World, pending, ticket)
  BY Before, SoundIs, WorldIs DEF TypeOK
<1>2. /\ cl[s].at = "idle" /\ Become(v) /\ registered' = r
      /\ UNCHANGED <<played, pending, ticket, logins, invites, lapse>>
  BY DEF channelInactive
<1>3. b \in BOOLEAN /\ r \in Client \cup {None}
  BY <1>1 DEF TypeOK
<1>4. Disconnected(World, w, s, TRUE, b)
  <2> HIDE DEF b
  <2> QED BY <1>1, <1>2, <1>3, Disconnects DEF Under
<1> HIDE DEF w
<1>5. w \in Sound /\ Others(World, w, s)
  BY <1>4 DEF Disconnected
<1>6. GoneClient \in MapleClient /\ Shape(GoneClient) /\ Nobody(GoneClient) /\ GoneClient.at = "gone"
      /\ GoneClient.player = None
  BY DEF GoneClient, NewClient, MapleClient, At, Shape, Nobody, Under, Away
<1>7. /\ v \in Sound /\ v.cl[s] = GoneClient /\ Others(w, v, s) /\ SameMaps(w, v) /\ v.saved = w.saved
  BY <1>5, <1>6, Replaced DEF Nobody
<1> HIDE DEF v
<1>8. Others(World, v, s)
  BY <1>5, <1>7 DEF Others
<1>9. Session(v, r)
  BY <1>1, <1>8 DEF Session, Others, TypeOK
<1>10. NoLapse => Good(v, pending, ticket) /\ Forward(World, v)
  <2> SUFFICES ASSUME NoLapse
               PROVE  Good(v, pending, ticket) /\ Forward(World, v)
    OBVIOUS
  <2>1. CASE p = None
    <3>1. SameMaps(World, v) /\ v.saved = saved
      BY <1>1, <1>4, <1>7, <2>1 DEF Disconnected, SameMaps
    <3>2. Nobody(cl[s])
      BY <1>2, <2>1 DEF Nobody, Under, Away
    <3>3. Quiet(World, v)
      BY <1>1, <1>6, <1>7, <1>8, <3>1, <3>2 DEF Quiet, Others, Alike, SameDoing
    <3> QED BY <1>1, <1>7, <3>1, <3>3, QuietGood, SameForward
  <2>2. CASE p # None
    <3>1. c \in Char /\ srv \in Place /\ p \in Copy
      BY <1>1, <2>2, SoundIs
    <3>2. online[srv][c] = s /\ find[c] = srv
      BY <1>1, <1>2, <2>2, <3>1 DEF Good, Registered, Found, There
    <3>3. From(World, s, b) = srv
      BY <1>1, <3>2 DEF From, Place
    <3>4. Removes(World, s, TRUE, b)
      BY <1>1, <3>2, <3>3 DEF Removes
    <3>5. /\ v.saved = [saved EXCEPT ![c] = p.ver]
          /\ v.online = [online EXCEPT ![srv][c] = None] /\ v.find = [find EXCEPT ![c] = None]
      BY <1>1, <1>4, <1>7, <2>2, <3>3, <3>4 DEF Disconnected, SameMaps
    <3>6. Loses(World, v, s, srv, c)
      BY <1>1, <1>2, <1>6, <1>7, <1>8, <2>2, <3>1, <3>2, <3>5 DEF Loses, Has, There
    <3> HIDE DEF c, srv
    <3> QED BY <1>1, <3>1, <3>6, LosesGood, LosesForward
  <2> QED BY <2>1, <2>2
<1>11. ticket' = ticket /\ pending' = pending /\ logins' \in 0..MaxLogin /\ UNCHANGED <<listed, played>>
  BY <1>1, <1>2
<1> HIDE DEF r
<1> QED BY <1>1, <1>2, <1>3, <1>7, <1>9, <1>10, <1>11, Unplayed, Unmoved, Arrives

-----------------------------------------------------------------------------
(* The theorems.                                                            *)

\* Before the first login nobody is connected and nothing is under way.
LEMMA Starts ==
    ASSUME Init
    PROVE  IInv
<1>1. TypeOK
  <2>1. {None} \cap Char = {} /\ 0 \in 0..MaxPlay /\ 0 \in 0..MaxLogin
    BY SessionsAssumption
  <2>2. GoneClient \in MapleClient
    BY DEF GoneClient, NewClient, MapleClient, At, Place
  <2> QED BY <2>1, <2>2 DEF Init, TypeOK, Place, Lapse
<1>2. World \in Worlds /\ World.cl = cl /\ World.online = online /\ World.find = find /\ World.saved = saved
  BY <1>1, WorldIs
<1>3. \A x \in Client :
        /\ cl[x].at = "gone" /\ cl[x].player = None /\ cl[x].carry = None
  BY DEF Init, GoneClient, NewClient
<1>4. \A p \in Place, c \in Char : online[p][c] = None /\ pending[p][c] = None
  BY DEF Init
<1>5. saved = played /\ \A c \in Char : saved[c] \in 0..MaxPlay /\ saved[c] <= played[c]
  BY SessionsAssumption DEF Init
<1>6. World \in Sound /\ Addressed(pending) /\ Known
  BY <1>2, <1>3, <1>4 DEF Sound, Shape, Entered, Under, Away, Addressed, Known, Init
<1>7. \A x \in Client, c \in Char : ~Holds(cl[x], c)
  BY <1>3 DEF Holds, Has
<1>8. Good(World, pending, ticket)
  <2>1. Single(World) /\ OneEntry(World)
    BY <1>2, <1>3, <1>7 DEF Single, OneEntry, Under
  <2>2. OnlyParcel(World, pending) /\ Selected(World, pending, ticket)
    BY <1>4 DEF OnlyParcel, Selected, Usable, Init
  <2>3. Registered(World) /\ Found(World, pending)
    BY <1>2, <1>3, <1>4 DEF Registered, Found
  <2>4. Newest(World) /\ Stored(World)
    BY <1>2, <1>3, <1>5 DEF Newest, Stored, Away
  <2>5. OneListed(World)
    <3>1. listed \subseteq Char
      BY <1>1 DEF TypeOK
    <3> QED BY <1>2, <1>3, <1>4, <3>1 DEF OneListed, Place
  <2> QED BY <2>1, <2>2, <2>3, <2>4, <2>5 DEF Good
<1> QED BY <1>1, <1>6, <1>8 DEF IInv, Orderly

LEMMA Stutters ==
    ASSUME IInv, UNCHANGED vars
    PROVE  Sure
<1>1. TypeOK
  BY DEF IInv, Orderly
<1>2. World' = World /\ TypeOK'
  BY <1>1 DEF vars, World, TypeOK
<1>3. Quiet(World, World)
  <2>1. \A k : Alike(k, k)
    BY DEF Alike, SameDoing
  <2>2. SameMaps(World, World)
    BY DEF SameMaps
  <2> QED BY <2>1, <2>2, Before DEF Quiet
<1>4. Become(World) /\ logins' \in 0..MaxLogin /\ lapse \subseteq Lapse /\ invites \subseteq [to : Place, chr : Char]
  BY <1>1 DEF Become, World, vars, TypeOK
<1> QED BY <1>3, <1>4, Before, QuietSure DEF vars

\* Every step of the account keeps the invariant and takes nothing back from the
\* database.
LEMMA Steps ==
    ASSUME IInv, [Next]_vars
    PROVE  Sure
<1>1. CASE UNCHANGED vars
  BY <1>1, Stutters
<1>2. CASE Step /\ UNCHANGED listed
  <2>1. CASE \E p \in Place, c \in Char : PersistingTask(p, c)
    BY <1>2, <2>1, PersistingSure
  <2>2. ASSUME NEW s \in Client,
               \/ login(s) \/ loginRefused(s) \/ finishLogin(s)
               \/ ServerListRequest(s) \/ ServerStatusRequest(s) \/ CharlistRequest(s)
        PROVE  Sure
    BY <1>2, <2>2, LoginSure, RefusedSure, FinishSure, ServerListSure, ServerStatusSure, CharlistSure
  <2>3. ASSUME NEW s \in Client, \E c \in Char, ch \in Channel : SelectCharacter(s, c, ch)
        PROVE  Sure
    BY <1>2, <2>3, SelectSure
  <2>4. ASSUME NEW s \in Client, \E i \in invites : connect(s, i)
        PROVE  Sure
    BY <1>2, <2>4, ConnectSure
  <2>5. ASSUME NEW s \in Client,
               \/ loadCharFromDB(s) \/ allowLogin(s) \/ registerPlayer(s) \/ entered(s)
        PROVE  Sure
    BY <1>2, <2>5, LoadSure, AllowSure, RegisterSure, EnteredSure
  <2>6. ASSUME NEW s \in Client, \/ Play(s) \/ depart(s) \/ LeaveCashShop(s) \/ letGo(s)
        PROVE  Sure
    BY <1>2, <2>6, PlaySure, DepartSure, LeaveSure, LetGoSure
  <2>7. ASSUME NEW s \in Client, \E to \in Place : transfer(s, to)
        PROVE  Sure
    BY <1>2, <2>7, TransferSure
  <2>8. ASSUME NEW s \in Client, \/ Drop(s) \/ PingTimeout(s) \/ channelInactive(s)
        PROVE  Sure
    BY <1>2, <2>8, DropSure, PingSure, InactiveSure
  <2> QED BY <1>2, <2>1, <2>2, <2>3, <2>4, <2>5, <2>6, <2>7, <2>8 DEF Step
<1> QED BY <1>1, <1>2 DEF Next

\* The invariant is one: the connections, the storages of the servers, the
\* transfers and the database agree in every state of the account's life.
THEOREM Invariance == Spec => []IInv
<1>1. Init => IInv
  BY Starts
<1>2. IInv /\ [Next]_vars => IInv'
  BY Steps DEF Sure
<1> QED BY <1>1, <1>2, PTL DEF Spec

\* Type correctness of the whole account, for any number of connections,
\* characters and channels.
THEOREM TypeCorrect == Spec => []TypeOK
<1>1. IInv => TypeOK
  BY DEF IInv, Orderly
<1> QED BY <1>1, Invariance, PTL

\* Two connections never play one character, nor two of the second world in the
\* channels (forceRemovePlayer, allowLogin and the keys of LoginServer).
THEOREM OneCopyHolds == Spec => []OneCopy
<1>1. IInv => OneCopy
  <2> SUFFICES ASSUME IInv, NoLapse, NEW a \in Client, NEW b \in Client,
                      a # b, Playing(a), Playing(b)
               PROVE  /\ cl[a].player.chr # cl[b].player.chr
                      /\ ~({cl[a].player.chr, cl[b].player.chr} \subseteq listed
                           /\ Shop \notin {cl[a].server, cl[b].server})
    BY DEF OneCopy
  <2> DEFINE c == cl[a].player.chr
             d == cl[b].player.chr
  <2>1. Good(World, pending, ticket) /\ World \in Sound /\ World.cl = cl /\ World.online = online
    BY Before, WorldIs
  <2>2. /\ cl[a].player # None /\ cl[b].player # None
        /\ cl[a].at = "idle" /\ cl[b].at = "idle"
    BY DEF Playing, Idle
  <2>3. /\ c \in Char /\ d \in Char /\ cl[a].server \in Place /\ cl[b].server \in Place
    BY <2>1, <2>2, SoundIs
  <2>4. c # d
    BY <2>1, <2>2, <2>3 DEF Good, Single, Holds, Has
  <2>5. online[cl[a].server][c] = a /\ online[cl[b].server][d] = b
    BY <2>1, <2>2 DEF Good, Registered, There
  <2>6. ASSUME c \in listed, d \in listed, cl[a].server # Shop, cl[b].server # Shop
        PROVE  FALSE
    <3>1. cl[a].server \in Channel /\ cl[b].server \in Channel /\ a # None /\ b # None
      BY <2>3, <2>6, SessionsAssumption DEF Place
    <3> HIDE DEF c, d
    <3> QED BY <2>1, <2>4, <2>5, <2>6, <3>1 DEF Good, OneListed
  <2> QED BY <2>4, <2>6
<1> QED BY <1>1, Invariance, PTL

\* Whoever plays a character plays its latest copy, whatever came before: changes
\* of server, kicks, lost connections, transfers taken or timed out.
THEOREM LatestHolds == Spec => []Latest
<1>1. IInv => Latest
  <2> SUFFICES ASSUME IInv, NoLapse, NEW a \in Client, Playing(a)
               PROVE  cl[a].player.ver = played[cl[a].player.chr]
    BY DEF Latest
  <2>1. Good(World, pending, ticket) /\ World.cl = cl
    BY Before
  <2> QED BY <2>1 DEF Good, Newest, Playing
<1> QED BY <1>1, Invariance, PTL

\* World.Find names the server that has the character, and no channel keeps one
\* whose connection is gone: removing by id is safe.
THEOREM LocatedHolds == Spec => []Located
<1>1. IInv => Located
  <2> SUFFICES ASSUME IInv, NoLapse, NEW p \in Place, NEW c \in Char, online[p][c] # None
               PROVE  find[c] = p /\ (p = Shop \/ cl[online[p][c]].at # "gone")
    BY DEF Located
  <2>1. /\ Good(World, pending, ticket) /\ World.cl = cl
        /\ World.online = online /\ World.find = find
    BY Before, WorldIs
  <2>2. find[c] = p /\ FoundAt(World, pending, p, c)
    BY <2>1 DEF Good, Found
  <2> QED BY <2>1, <2>2 DEF FoundAt, There
<1> QED BY <1>1, Invariance, PTL

\* No step of any connection puts an older copy of a character in the database.
THEOREM SavesForwardHolds == Spec => SavesForward
<1>1. IInv /\ [Next]_vars => [NoLapse => \A c \in Char : saved'[c] >= saved[c]]_vars
  BY Steps DEF Sure
<1> QED BY <1>1, Invariance, PTL DEF Spec, SavesForward
=============================================================================
