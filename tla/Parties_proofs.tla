--------------------------- MODULE Parties_proofs ---------------------------
(***************************************************************************)
(* Theorems about Parties for any set of characters, any number of parties *)
(* and any size of a party.                                                *)
(*                                                                         *)
(* Who leads a party is a matter of single steps, given the types.  That   *)
(* the lists of members, the references and the online flags agree is not: *)
(* it needs to be known where a membership is kept while its character is  *)
(* in none of the channels: the transfer, the database or the cash shop.   *)
(***************************************************************************)
EXTENDS Parties, TLAPS

USE PartiesAssumption

-----------------------------------------------------------------------------
LEMMA TypeInit == Init => TypeOK
BY DEF Init, TypeOK, Id, None, At

LEMMA SetPartyType ==
    ASSUME TypeOK, NEW M, NEW p \in Id \cup {None}
    PROVE  SetParty(M, p, ref) \in [Char -> Id \cup {None}]
BY DEF TypeOK, SetParty

\* A step of an operation on a party keeps the types.
LEMMA TypeOperation ==
    ASSUME TypeOK, NEW c \in Char,
           \/ createParty(c) \/ disband(c) \/ leave(c) \/ silentPartyUpdate(c) \/ unstick(c)
           \/ \E p \in Id : join(c, p)
           \/ \E e \in Char : expel(c, e) \/ changeLeader(c, e)
    PROVE  TypeOK'
<1> USE DEF TypeOK
<1>1. CASE createParty(c)
  BY <1>1 DEF createParty, Kicked, Id
<1>2. CASE disband(c)
  <2> DEFINE p == ref[c]
  <2>1. p \in Id
    BY <1>2 DEF disband, None
  <2>2. SetParty(members[p], None, ref) \in [Char -> Id \cup {None}]
    BY <2>1, SetPartyType
  <2>3. ref' \in [Char -> Id \cup {None}]
    BY <1>2, <2>2 DEF disband
  <2>4. lapse' \subseteq {"arriving", "kicked", "unstuck"}
    BY <1>2 DEF disband, Missed
  <2> QED BY <1>2, <2>1, <2>3, <2>4 DEF disband
<1>3. CASE leave(c)
  <2> DEFINE p == ref[c]
  <2>1. p \in Id
    BY <1>3 DEF leave, None
  <2>2. SetParty(members[p], p, ref) \in [Char -> Id \cup {None}]
    BY <2>1, SetPartyType
  <2>3. ref' \in [Char -> Id \cup {None}]
    BY <1>3, <2>2 DEF leave
  <2> QED BY <1>3, <2>1, <2>3 DEF leave, Remove, party
<1>4. CASE silentPartyUpdate(c)
  BY <1>4, SetPartyType DEF silentPartyUpdate, Update, Show
<1>5. CASE unstick(c)
  BY <1>5 DEF unstick, party
<1>6. ASSUME NEW p \in Id, join(c, p)
      PROVE  TypeOK'
  <2>1. ref' \in [Char -> Id \cup {None}]
    BY <1>6, SetPartyType DEF join
  <2> QED BY <1>6, <2>1 DEF join, Show, Kicked
<1>7. ASSUME NEW e \in Char, expel(c, e)
      PROVE  TypeOK'
  <2> DEFINE p == ref[c]
  <2>1. p \in Id
    BY <1>7 DEF expel
  <2>2. SetParty(members[p] \ {e}, p, ref) \in [Char -> Id \cup {None}]
    BY <2>1, SetPartyType
  <2>3. ref' \in [Char -> Id \cup {None}]
    BY <1>7, <2>2 DEF expel
  <2>4. lapse' \subseteq {"arriving", "kicked", "unstuck"}
    BY <1>7 DEF expel, Missed
  <2> QED BY <1>7, <2>1, <2>3, <2>4 DEF expel, Remove
<1>8. ASSUME NEW e \in Char, changeLeader(c, e)
      PROVE  TypeOK'
  BY <1>8, SetPartyType DEF changeLeader
<1> QED BY <1>1, <1>2, <1>3, <1>4, <1>5, <1>6, <1>7, <1>8

\* So does a step of coming or going.
LEMMA TypeMove ==
    ASSUME TypeOK, NEW c \in Char,
           \/ login(c) \/ arrive(c) \/ refused(c) \/ registerPlayer(c) \/ enter(c)
           \/ transfer(c) \/ removePlayer(c) \/ LeaveCashShop(c)
           \/ disconnect(c) \/ logOff(c) \/ deregister(c) \/ disconnectFromCS(c)
    PROVE  TypeOK'
<1> USE DEF TypeOK, Go, At
<1>1. CASE login(c)
  BY <1>1 DEF login, PartyOf, party
<1>2. CASE arrive(c)
  BY <1>2 DEF arrive, PartyOf, party
<1>3. CASE refused(c) \/ deregister(c)
  BY <1>3 DEF refused, deregister, Vanish, party
<1>4. CASE registerPlayer(c)
  BY <1>4 DEF registerPlayer, party
<1>5. CASE enter(c)
  BY <1>5, SetPartyType DEF enter, Update, Show
<1>6. CASE transfer(c)
  BY <1>6 DEF transfer, party
<1>7. CASE removePlayer(c)
  BY <1>7 DEF removePlayer, party
<1>8. CASE LeaveCashShop(c)
  BY <1>8 DEF LeaveCashShop, party
<1>9. CASE disconnect(c)
  BY <1>9 DEF disconnect, party
<1>10. CASE logOff(c)
  <2>1. leader' \in [Id -> Char \cup {None}]
    BY <1>10 DEF logOff
  <2>2. offline' \in [Id -> SUBSET Char]
    BY <1>10 DEF logOff, Hide
  <2>3. ref' \in [Char -> Id \cup {None}]
    BY <1>10, SetPartyType DEF logOff
  <2> QED BY <1>10, <2>1, <2>2, <2>3 DEF logOff
<1>11. CASE disconnectFromCS(c)
  <2>1. offline' \in [Id -> SUBSET Char]
    BY <1>11 DEF disconnectFromCS, Hide
  <2>2. SetParty(members[ref[c]], ref[c], ref) \in [Char -> Id \cup {None}]
    BY SetPartyType
  <2>3. ref' \in [Char -> Id \cup {None}]
    BY <1>11, <2>2 DEF disconnectFromCS
  <2> QED BY <1>11, <2>1, <2>3 DEF disconnectFromCS
<1> QED BY <1>1, <1>2, <1>3, <1>4, <1>5, <1>6, <1>7, <1>8, <1>9, <1>10, <1>11

LEMMA TypeRestart == TypeOK /\ restart => TypeOK'
BY DEF TypeOK, restart, Id, None, At

LEMMA TypeNext == TypeOK /\ [Next]_vars => TypeOK'
<1> SUFFICES ASSUME TypeOK, [Next]_vars PROVE TypeOK' OBVIOUS
<1>1. CASE Next
  BY <1>1, TypeOperation, TypeMove, TypeRestart DEF Next
<1>2. CASE UNCHANGED vars
  BY <1>2 DEF vars, party, TypeOK
<1> QED BY <1>1, <1>2

\* Every state is of the types of TypeOK, and a party id is used once between two
\* starts of the server (World.Party.createParty).
THEOREM TypeCorrect == Spec => []TypeOK
BY TypeInit, TypeNext, PTL DEF Spec

-----------------------------------------------------------------------------
Listed(c, p) == p \in parties /\ c \in members[p]

\* A character object, in the game or about to be, has the party that lists it.
Made(c) == at[c] \in {"arriving", "joining", "channel", "moving", "leaving", "out"}
RefKept == \A c \in Char, p \in Id : Made(c) => (ref[c] = p <=> Listed(c, p))

\* In the cash shop it may have one that has let it go meanwhile.
ShopKept == \A c \in Char, p \in Id :
    at[c] = "shop" /\ Listed(c, p) => ref[c] = p

\* What a character will be made from once this one is gone names its party, too.
TransferKept == \A c \in Char, p \in Id :
    at[c] \in {"moving", "toChannel", "toShop"} /\ Listed(c, p) => carried[c] = p
SavedKept == \A c \in Char, p \in Id :
    /\ at[c] \in {"off", "arriving", "moving", "toChannel", "toShop", "leaving", "out"}
    /\ Listed(c, p)
    => saved[c] = p

\* Only those are shown as offline that are listed, and not in the game.
HiddenListed == \A p \in parties : offline[p] \subseteq members[p]
HiddenAway == \A c \in Char, p \in parties :
    at[c] = "channel" => c \notin offline[p]

Kept == RefKept /\ ShopKept /\ TransferKept /\ SavedKept
IInv == TypeOK /\ HiddenListed /\ (NoLapse => Kept /\ HiddenAway)

-----------------------------------------------------------------------------
\* The steps that are not operations leave lists and leaders alone, but for the
\* end of a disconnect and the restart.
Move(c) ==
    \/ login(c) \/ arrive(c) \/ refused(c) \/ registerPlayer(c) \/ enter(c)
    \/ transfer(c) \/ removePlayer(c) \/ LeaveCashShop(c)
    \/ disconnect(c) \/ deregister(c) \/ disconnectFromCS(c)

LEMMA MoveKeepsLists ==
    ASSUME NEW c \in Char, Move(c)
    PROVE  UNCHANGED <<parties, members, leader, lapse>>
BY DEF Move, login, arrive, refused, registerPlayer, enter, transfer, removePlayer,
       LeaveCashShop, disconnect, deregister, disconnectFromCS, Vanish, Update, party

\* What a step may do to who leads the parties, whether there is a step or not.
LedStep ==
    \A p \in parties' :
        \/ IsLed(p)'
        \/ p \in parties /\ ~IsLed(p)
        \/ \E c \in Char : ref[c] = p /\ expel(c, c)

LEMMA LedNext == TypeOK /\ [Next]_vars => LedStep
<1> SUFFICES ASSUME TypeOK, [Next]_vars PROVE LedStep OBVIOUS
<1> USE DEF LedStep, IsLed, TypeOK
<1>1. ASSUME NEW c \in Char, createParty(c)
      PROVE  LedStep
  BY <1>1 DEF createParty
<1>2. ASSUME NEW c \in Char, disband(c)
      PROVE  LedStep
  BY <1>2 DEF disband
<1>3. ASSUME NEW c \in Char, leave(c)
      PROVE  LedStep
  BY <1>3 DEF leave, Remove, party
<1>4. ASSUME NEW c \in Char, silentPartyUpdate(c) \/ unstick(c)
      PROVE  LedStep
  BY <1>4 DEF silentPartyUpdate, Update, unstick, party
<1>5. ASSUME NEW c \in Char, NEW p \in Id, join(c, p)
      PROVE  LedStep
  BY <1>5 DEF join
<1>6. ASSUME NEW c \in Char, NEW e \in Char, expel(c, e)
      PROVE  LedStep
  <2>1. CASE e = c
    <3>1. \A p \in parties' : p \in parties /\ (p # ref[c] => IsLed(p)' = IsLed(p))
      BY <1>6 DEF expel, Remove
    <3> QED BY <1>6, <2>1, <3>1
  <2>2. CASE e # c
    BY <1>6, <2>2 DEF expel, Remove
  <2> QED BY <2>1, <2>2
<1>7. ASSUME NEW c \in Char, NEW e \in Char, changeLeader(c, e)
      PROVE  LedStep
  BY <1>7 DEF changeLeader
<1>8. ASSUME NEW c \in Char, Move(c)
      PROVE  LedStep
  BY <1>8, MoveKeepsLists
<1>9. ASSUME NEW c \in Char, logOff(c)
      PROVE  LedStep
  <2>1. UNCHANGED <<parties, members>>
    BY <1>9 DEF logOff
  <2>2. CASE left[c] \notin parties
    BY <1>9, <2>1, <2>2 DEF logOff
  <2>3. CASE left[c] \in parties
    <3>1. PICK map \in SUBSET {m \in members[left[c]] : at[m] = "channel"} :
            IF leader[left[c]] = c /\ map # {}
            THEN \E lchr \in map : leader' = [leader EXCEPT ![left[c]] = lchr]
            ELSE UNCHANGED leader
      BY <1>9, <2>3 DEF logOff
    <3> QED BY <2>1, <3>1
  <2> QED BY <2>2, <2>3
<1>10. CASE restart
  BY <1>10 DEF restart
<1>11. CASE UNCHANGED vars
  BY <1>11 DEF vars, party
<1> QED BY <1>1, <1>2, <1>3, <1>4, <1>5, <1>6, <1>7, <1>8, <1>9, <1>10, <1>11 DEF Next, Move

\* A party is founded with a leader who is a member, and every step keeps it so but
\* that the leader expels itself: leaving, handing over, disbanding, log-off and
\* restart do not leave it to a stranger (PartyHandler, World.Party.updateParty,
\* MapleClient.disconnect).
THEOREM Led == Spec => LedByMember
<1>1. TypeOK /\ [Next]_vars => [LedStep]_vars
  BY LedNext
<1> QED BY <1>1, TypeCorrect, PTL DEF Spec, LedByMember, LedStep

-----------------------------------------------------------------------------
LEMMA HiddenListedNext == TypeOK /\ HiddenListed /\ [Next]_vars => HiddenListed'
<1> SUFFICES ASSUME TypeOK, HiddenListed, [Next]_vars PROVE HiddenListed' OBVIOUS
<1> USE DEF HiddenListed, TypeOK
<1>1. ASSUME NEW c \in Char, createParty(c)
      PROVE  HiddenListed'
  BY <1>1 DEF createParty
<1>2. ASSUME NEW c \in Char, disband(c)
      PROVE  HiddenListed'
  BY <1>2 DEF disband
<1>3. ASSUME NEW c \in Char, leave(c)
      PROVE  HiddenListed'
  BY <1>3 DEF leave, Remove, party
<1>4. ASSUME NEW c \in Char, Update(c)
      PROVE  HiddenListed'
  BY <1>4 DEF Update, Show
<1>5. ASSUME NEW c \in Char, NEW p \in Id, join(c, p)
      PROVE  HiddenListed'
  BY <1>5 DEF join, Show
<1>6. ASSUME NEW c \in Char, NEW e \in Char, expel(c, e)
      PROVE  HiddenListed'
  BY <1>6 DEF expel, Remove
<1>7. ASSUME NEW c \in Char, logOff(c) \/ disconnectFromCS(c)
      PROVE  HiddenListed'
  BY <1>7 DEF logOff, disconnectFromCS, Hide
<1>8. ASSUME UNCHANGED <<parties, members, offline>>
      PROVE  HiddenListed'
  BY <1>8
<1>9. CASE restart
  BY <1>9 DEF restart
<1>10. ASSUME NEW c \in Char,
              \/ unstick(c) \/ login(c) \/ arrive(c) \/ refused(c) \/ registerPlayer(c)
              \/ transfer(c) \/ removePlayer(c) \/ LeaveCashShop(c) \/ disconnect(c)
              \/ deregister(c) \/ \E e \in Char : changeLeader(c, e)
      PROVE  UNCHANGED <<parties, members, offline>>
  BY <1>10 DEF unstick, login, arrive, refused, registerPlayer, transfer, removePlayer,
               LeaveCashShop, disconnect, deregister, changeLeader, Vanish, party
<1>11. UNCHANGED vars => UNCHANGED <<parties, members, offline>>
  BY DEF vars, party
<1> QED
  BY <1>1, <1>2, <1>3, <1>4, <1>5, <1>6, <1>7, <1>8, <1>9, <1>10, <1>11
     DEF Next, silentPartyUpdate, enter

-----------------------------------------------------------------------------
\* Lapses are not forgotten.
LEMMA LapseGrows == [Next]_vars /\ NoLapse' => NoLapse
<1> SUFFICES ASSUME [Next]_vars PROVE lapse \subseteq lapse'
  BY DEF NoLapse
<1>1. ASSUME NEW c \in Char, NEW e \in Char,
             \/ createParty(c) \/ disband(c) \/ leave(c) \/ silentPartyUpdate(c) \/ unstick(c)
             \/ enter(c) \/ expel(c, e) \/ changeLeader(c, e) \/ logOff(c)
             \/ \E p \in Id : join(c, p)
      PROVE  lapse \subseteq lapse'
  BY <1>1 DEF createParty, disband, leave, silentPartyUpdate, unstick, enter, Update, expel,
              changeLeader, logOff, join
<1>2. ASSUME NEW c \in Char, Move(c)
      PROVE  lapse \subseteq lapse'
  BY <1>2, MoveKeepsLists
<1>3. CASE restart
  BY <1>3 DEF restart
<1>4. CASE UNCHANGED vars
  BY <1>4 DEF vars
<1> QED BY <1>1, <1>2, <1>3, <1>4 DEF Next, Move

\* Without lapses, telling members about their party tells them nothing new.
LEMMA SetPartySame ==
    ASSUME TypeOK, RefKept, NEW p \in parties, NEW M \in SUBSET members[p]
    PROVE  SetParty(M, p, ref) = ref
BY DEF TypeOK, RefKept, SetParty, InChannel, Listed, Made

LEMMA CreateKept ==
    ASSUME TypeOK, Kept, HiddenAway, NEW c \in Char, createParty(c), NoLapse'
    PROVE  (Kept /\ HiddenAway)'
<1> DEFINE p == runningPartyId
<1>1. at[c] = "channel" /\ ref[c] = None /\ p \in Id /\ p \notin parties
  BY DEF createParty, Kicked, NoLapse, TypeOK
<1>2. \A q \in Id : ~Listed(c, q)
  BY <1>1 DEF Kept, RefKept, Made, Id, None
<1>3. \A d \in Char, q \in Id : Listed(d, q)' <=> Listed(d, q) \/ (d = c /\ q = p)
  BY <1>1, <1>2 DEF createParty, Listed, TypeOK
<1>4. \A d \in Char : ref'[d] = IF d = c THEN p ELSE ref[d]
  BY DEF createParty, TypeOK
<1>5. UNCHANGED <<at, carried, saved>>
  BY DEF createParty
<1>6. RefKept'
  BY <1>1, <1>2, <1>3, <1>4, <1>5 DEF Kept, RefKept, Made, Listed
<1>7. ShopKept' /\ TransferKept' /\ SavedKept'
  BY <1>1, <1>3, <1>4, <1>5 DEF Kept, ShopKept, TransferKept, SavedKept
<1>8. HiddenAway'
  BY <1>1 DEF createParty, HiddenAway, TypeOK
<1> QED BY <1>6, <1>7, <1>8 DEF Kept

LEMMA JoinKept ==
    ASSUME TypeOK, Kept, HiddenAway, NEW c \in Char, NEW p \in Id, join(c, p), NoLapse'
    PROVE  (Kept /\ HiddenAway)'
<1>1. at[c] = "channel" /\ ref[c] = None /\ p \in parties
  BY DEF join, Kicked, NoLapse
<1>2. \A q \in Id : ~Listed(c, q)
  BY <1>1 DEF Kept, RefKept, Made, Id, None
<1>3. \A d \in Char, q \in Id : Listed(d, q)' <=> Listed(d, q) \/ (d = c /\ q = p)
  BY <1>1, <1>2 DEF join, Listed, TypeOK
<1>4. \A d \in Char : ref'[d] = IF d = c THEN p ELSE ref[d]
  BY <1>1 DEF join, SetParty, InChannel, Kept, RefKept, Made, Listed, TypeOK
<1>5. UNCHANGED <<at, carried, saved>>
  BY DEF join
<1>6. RefKept'
  BY <1>1, <1>2, <1>3, <1>4, <1>5 DEF Kept, RefKept, Made
<1>7. ShopKept' /\ TransferKept' /\ SavedKept'
  BY <1>1, <1>3, <1>4, <1>5 DEF Kept, ShopKept, TransferKept, SavedKept
<1>8. HiddenAway'
  BY DEF join, Show, HiddenAway, TypeOK
<1> QED BY <1>6, <1>7, <1>8 DEF Kept

\* What leaving, expelling and disbanding have in common: the characters of a set
\* are listed no more, and those of them that have an object lose their reference.
LEMMA LetGoKept ==
    ASSUME Kept, NEW p \in Id, NEW Gone \in SUBSET Char,
           UNCHANGED <<at, carried, saved>>,
           \A d \in Char, q \in Id :
               Listed(d, q)' <=> Listed(d, q) /\ ~(d \in Gone /\ q = p),
           \A d \in Char : Made(d) =>
               /\ d \in Gone /\ Listed(d, p) => ref'[d] = None
               /\ ~(d \in Gone /\ Listed(d, p)) => ref'[d] = ref[d],
           \A d \in Char : at[d] = "shop" => ref'[d] = ref[d]
    PROVE  Kept'
<1>1. RefKept'
  BY DEF Kept, RefKept, Made, Id, None
<1>2. ShopKept' /\ TransferKept' /\ SavedKept'
  BY DEF Kept, ShopKept, TransferKept, SavedKept
<1> QED BY <1>1, <1>2 DEF Kept

LEMMA LeaveKept ==
    ASSUME TypeOK, Kept, HiddenAway, NEW c \in Char, leave(c)
    PROVE  (Kept /\ HiddenAway)'
<1> DEFINE p == ref[c]
<1>1. Made(c) /\ Listed(c, p) /\ p \in Id
  BY DEF leave, Acting, Made, Kept, RefKept, TypeOK, None
<1>2. p \in parties /\ Remove(p, c)
  BY <1>1 DEF leave, Listed
<1>3. \A d \in Char, q \in Id : Listed(d, q)' <=> Listed(d, q) /\ ~(d \in {c} /\ q = p)
  BY <1>2 DEF Remove, Listed, TypeOK
<1>4. ref' = [ref EXCEPT ![c] = None]
  BY <1>2, SetPartySame DEF leave, Kept
<1>5. \A d \in Char : ref'[d] = IF d = c THEN None ELSE ref[d]
  BY <1>4 DEF TypeOK
<1>6. UNCHANGED <<at, carried, saved>>
  BY DEF leave
<1>7. Kept'
  BY <1>1, <1>3, <1>5, <1>6, LetGoKept DEF Made
<1>8. HiddenAway'
  BY <1>2, <1>6 DEF Remove, HiddenAway, TypeOK
<1> QED BY <1>7, <1>8

LEMMA ExpelKept ==
    ASSUME TypeOK, Kept, HiddenAway, NEW c \in Char, NEW e \in Char, expel(c, e), NoLapse'
    PROVE  (Kept /\ HiddenAway)'
<1> DEFINE p == ref[c]
<1>1. p \in parties /\ p \in Id /\ Remove(p, e) /\ Listed(e, p)
  BY DEF expel, Listed, TypeOK
<1>2. at[e] # "arriving"
  BY DEF expel, Missed, NoLapse
<1>3. \A d \in Char, q \in Id : Listed(d, q)' <=> Listed(d, q) /\ ~(d \in {e} /\ q = p)
  BY <1>1 DEF Remove, Listed, TypeOK
<1>4. ref' = [ref EXCEPT ![e] = IF InChannel(e) THEN None ELSE @]
  BY <1>1, SetPartySame DEF expel, Kept
<1>5. \A d \in Char : ref'[d] = IF d = e /\ InChannel(e) THEN None ELSE ref[d]
  BY <1>4 DEF TypeOK
<1>6. UNCHANGED <<at, carried, saved>>
  BY DEF expel
<1>7. Kept'
  BY <1>1, <1>2, <1>3, <1>5, <1>6, LetGoKept DEF Made, InChannel
<1>8. HiddenAway'
  BY <1>1, <1>6 DEF Remove, HiddenAway, TypeOK
<1> QED BY <1>7, <1>8

LEMMA DisbandKept ==
    ASSUME TypeOK, Kept, HiddenAway, NEW c \in Char, disband(c), NoLapse'
    PROVE  (Kept /\ HiddenAway)'
<1> DEFINE p == ref[c]
<1>1. Made(c) /\ Listed(c, p) /\ p \in Id /\ p \in parties
  BY DEF disband, Acting, Made, Kept, RefKept, TypeOK, None, Listed
<1>2. \A d \in Char : Listed(d, p) => at[d] # "arriving"
  BY <1>1 DEF disband, Missed, NoLapse, Kept, RefKept, Made
<1>3. \A d \in Char, q \in Id : Listed(d, q)' <=> Listed(d, q) /\ ~(d \in Char /\ q = p)
  BY <1>1 DEF disband, Listed, TypeOK
<1>4. \A d \in Char : ref'[d] = IF d = c \/ (d \in members[p] /\ InChannel(d))
                                THEN None ELSE ref[d]
  BY <1>1 DEF disband, SetParty, TypeOK
<1>5. UNCHANGED <<at, carried, saved>>
  BY DEF disband
<1>6. Kept'
  BY <1>1, <1>2, <1>3, <1>4, <1>5, LetGoKept DEF Made, InChannel, Listed
<1>7. HiddenAway'
  BY <1>1, <1>5 DEF disband, HiddenAway, TypeOK
<1> QED BY <1>6, <1>7

\* Steps that only tell a party something.
LEMMA TellKept ==
    ASSUME TypeOK, Kept, HiddenAway, NEW c \in Char,
           \/ silentPartyUpdate(c)
           \/ \E n \in Char : changeLeader(c, n)
    PROVE  (Kept /\ HiddenAway)'
<1>1. UNCHANGED <<at, carried, saved, parties, members>>
  BY DEF silentPartyUpdate, changeLeader, Update
<1>2. ref' = ref
  BY SetPartySame DEF silentPartyUpdate, changeLeader, Update, Kept
<1>3. \A p \in parties : offline'[p] \subseteq offline[p]
  BY DEF silentPartyUpdate, changeLeader, Update, Show, TypeOK
<1>4. Kept'
  BY <1>1, <1>2 DEF Kept, RefKept, ShopKept, TransferKept, SavedKept, Made, Listed
<1>5. HiddenAway'
  BY <1>1, <1>3 DEF HiddenAway
<1> QED BY <1>4, <1>5

LEMMA LogOffKept ==
    ASSUME TypeOK, Kept, HiddenAway, NEW c \in Char, logOff(c)
    PROVE  (Kept /\ HiddenAway)'
<1>1. UNCHANGED <<carried, saved, parties, members>>
  BY DEF logOff
<1>2. ref' = ref
  BY SetPartySame DEF logOff, Kept
<1>3. \A d \in Char : at'[d] = IF d = c THEN "out" ELSE at[d]
  BY DEF logOff, Go, TypeOK
<1>4. at[c] = "leaving"
  BY DEF logOff
<1>5. \A p \in parties : offline'[p] \subseteq offline[p] \cup {c}
  BY DEF logOff, Hide, TypeOK
<1>6. RefKept' /\ ShopKept'
  BY <1>1, <1>2, <1>3, <1>4 DEF Kept, RefKept, ShopKept, Made, Listed
<1>7. TransferKept' /\ SavedKept'
  BY <1>1, <1>2, <1>3, <1>4 DEF Kept, TransferKept, SavedKept, Listed
<1>8. HiddenAway'
  BY <1>1, <1>3, <1>5 DEF HiddenAway
<1> QED BY <1>6, <1>7, <1>8 DEF Kept

LEMMA EnterKept ==
    ASSUME TypeOK, HiddenListed, Kept, HiddenAway, NEW c \in Char, enter(c)
    PROVE  (Kept /\ HiddenAway)'
<1>1. UNCHANGED <<carried, saved, parties, members>>
  BY DEF enter, Update
<1>2. ref' = ref
  BY SetPartySame DEF enter, Update, Kept
<1>3. \A d \in Char : at'[d] = IF d = c THEN "channel" ELSE at[d]
  BY DEF enter, Go, TypeOK
<1>4. at[c] = "joining"
  BY DEF enter
<1>5. \A p \in parties : offline'[p] \subseteq offline[p] /\ c \notin offline'[p]
  <2> SUFFICES ASSUME NEW p \in parties
               PROVE  offline'[p] \subseteq offline[p] /\ c \notin offline'[p]
    OBVIOUS
  <2>1. CASE ref[c] = p
    BY <2>1 DEF enter, Update, Show, TypeOK
  <2>2. CASE ref[c] # p
    <3>1. c \notin offline[p]
      BY <1>4, <2>2 DEF Kept, RefKept, Made, Listed, HiddenListed, TypeOK
    <3>2. offline'[p] = offline[p]
      BY <2>2 DEF enter, Update, Show, TypeOK
    <3> QED BY <3>1, <3>2
  <2> QED BY <2>1, <2>2
<1>6. Kept'
  BY <1>1, <1>2, <1>3, <1>4 DEF Kept, RefKept, ShopKept, TransferKept, SavedKept, Made, Listed
<1>7. HiddenAway'
  BY <1>1, <1>3, <1>5 DEF HiddenAway
<1> QED BY <1>6, <1>7

LEMMA ShopDisconnectKept ==
    ASSUME TypeOK, Kept, HiddenAway, NEW c \in Char, disconnectFromCS(c)
    PROVE  (Kept /\ HiddenAway)'
<1>1. UNCHANGED <<carried, parties, members>> /\ at[c] = "shop"
  BY DEF disconnectFromCS
<1>2. \A d \in Char : ref'[d] = IF d = c THEN None ELSE ref[d]
  BY SetPartySame DEF disconnectFromCS, Kept, TypeOK
<1>3. \A d \in Char : at'[d] = IF d = c THEN "off" ELSE at[d]
  BY DEF disconnectFromCS, Go, TypeOK
<1>4. \A d \in Char : saved'[d] = IF d = c THEN ref[c] ELSE saved[d]
  BY DEF disconnectFromCS, TypeOK
<1>5. \A p \in parties : offline'[p] \subseteq offline[p] \cup {c}
  BY DEF disconnectFromCS, Hide, TypeOK
<1>6. RefKept' /\ ShopKept'
  BY <1>1, <1>2, <1>3 DEF Kept, RefKept, ShopKept, Made, Listed
<1>7. TransferKept' /\ SavedKept'
  BY <1>1, <1>3, <1>4 DEF Kept, ShopKept, TransferKept, SavedKept, Listed
<1>8. HiddenAway'
  BY <1>1, <1>3, <1>5 DEF HiddenAway
<1> QED BY <1>6, <1>7, <1>8 DEF Kept

\* The party an object is made with is the one that lists it, if the id it is made
\* from names that party.
LEMMA PartyOfListed ==
    ASSUME TypeOK, NEW c \in Char, NEW x, \A p \in Id : Listed(c, p) => x = p
    PROVE  \A p \in Id : PartyOf(c, x) = p <=> Listed(c, p)
<1>1. CASE x \in parties /\ c \in members[x]
  BY <1>1 DEF PartyOf, Listed, TypeOK
<1>2. CASE ~(x \in parties /\ c \in members[x])
  BY <1>2 DEF PartyOf, Listed, Id, None
<1> QED BY <1>1, <1>2

\* The other steps of coming and going change nothing of any party.
LEMMA MoveKept ==
    ASSUME TypeOK, Kept, HiddenAway, NEW c \in Char,
           \/ login(c) \/ arrive(c) \/ refused(c) \/ registerPlayer(c)
           \/ transfer(c) \/ removePlayer(c) \/ LeaveCashShop(c)
           \/ disconnect(c) \/ deregister(c)
    PROVE  (Kept /\ HiddenAway)'
<1> DEFINE
      RefOf(d) == \A p \in Id : Made(d) => (ref[d] = p <=> Listed(d, p))
      RestOf(d) == \A p \in Id : Listed(d, p) =>
          /\ at[d] = "shop" => ref[d] = p
          /\ at[d] \in {"moving", "toChannel", "toShop"} => carried[d] = p
          /\ at[d] \in {"off", "arriving", "moving", "toChannel", "toShop", "leaving", "out"}
               => saved[d] = p
<1>now. Kept <=> \A d \in Char : RefOf(d) /\ RestOf(d)
  BY DEF Kept, RefKept, ShopKept, TransferKept, SavedKept
<1>later. Kept' <=> \A d \in Char : RefOf(d)' /\ RestOf(d)'
  BY DEF Kept, RefKept, ShopKept, TransferKept, SavedKept
<1>1. UNCHANGED <<parties, members, offline>>
  BY DEF login, arrive, refused, registerPlayer, transfer, removePlayer, LeaveCashShop,
         disconnect, deregister, Vanish, party
<1>2. \A d \in Char \ {c} :
        at'[d] = at[d] /\ ref'[d] = ref[d] /\ carried'[d] = carried[d] /\ saved'[d] = saved[d]
  BY DEF login, arrive, refused, registerPlayer, transfer, removePlayer, LeaveCashShop,
         disconnect, deregister, Vanish, Go, TypeOK
<1>3. HiddenAway'
  BY <1>1, <1>2 DEF HiddenAway, login, arrive, refused, registerPlayer, transfer, removePlayer,
         LeaveCashShop, disconnect, deregister, Vanish, Go, TypeOK
<1>4. \A p \in Id : Listed(c, p)' <=> Listed(c, p)
  BY <1>1 DEF Listed
<1>5. \A d \in Char \ {c} : RefOf(d)' /\ RestOf(d)'
  BY <1>now, <1>1, <1>2 DEF Made, Listed
<1>6. RefOf(c) /\ RestOf(c)
  BY <1>now
<1>7. CASE login(c)
  <2>1. at[c] = "off" /\ saved' = saved /\ at'[c] = "arriving"
    BY <1>7 DEF login, Go, TypeOK
  <2>2. \A p \in Id : Listed(c, p) => saved[c] = p
    BY <1>6, <2>1
  <2>3. ref'[c] = PartyOf(c, saved[c])
    BY <1>7 DEF login, TypeOK
  <2>4. RefOf(c)'
    BY <1>4, <2>2, <2>3, PartyOfListed
  <2>5. RestOf(c)'
    BY <1>4, <2>1, <2>2
  <2> QED BY <1>3, <1>later, <1>5, <2>4, <2>5
<1>8. CASE arrive(c)
  <2>1. saved' = saved /\ at'[c] \in {"shop", "arriving"}
    BY <1>8 DEF arrive, Go, TypeOK
  <2>2. \A p \in Id : Listed(c, p) => carried[c] = p /\ saved[c] = p
    BY <1>6, <1>8 DEF arrive
  <2>3. ref'[c] = PartyOf(c, carried[c])
    BY <1>8 DEF arrive, TypeOK
  <2>4. \A p \in Id : ref'[c] = p <=> Listed(c, p)
    BY <2>2, <2>3, PartyOfListed
  <2>5. RefOf(c)' /\ RestOf(c)'
    BY <1>4, <2>1, <2>2, <2>4
  <2> QED BY <1>3, <1>later, <1>5, <2>5
<1>9. CASE refused(c)
  <2>1. RefOf(c)'
    BY <1>4, <1>6, <1>9 DEF refused, Vanish, Go, Made, Listed, TypeOK
  <2>2. RestOf(c)'
    BY <1>4, <1>6, <1>9 DEF refused, Vanish, Go, Made, Listed, TypeOK
  <2> QED BY <1>3, <1>later, <1>5, <2>1, <2>2
<1>10. CASE registerPlayer(c)
  <2>1. RefOf(c)'
    BY <1>4, <1>6, <1>10 DEF registerPlayer, Go, Made, Listed, TypeOK
  <2>2. RestOf(c)'
    BY <1>4, <1>6, <1>10 DEF registerPlayer, Go, Made, Listed, TypeOK
  <2> QED BY <1>3, <1>later, <1>5, <2>1, <2>2
<1>11. CASE transfer(c)
  <2>1. RefOf(c)'
    BY <1>4, <1>6, <1>11 DEF transfer, Go, Made, Listed, TypeOK
  <2>2. RestOf(c)'
    BY <1>4, <1>6, <1>11 DEF transfer, Go, Made, Listed, TypeOK
  <2> QED BY <1>3, <1>later, <1>5, <2>1, <2>2
<1>12. CASE removePlayer(c)
  <2>1. RefOf(c)'
    BY <1>4, <1>6, <1>12 DEF removePlayer, Go, Made, Listed, TypeOK
  <2>2. RestOf(c)'
    BY <1>4, <1>6, <1>12 DEF removePlayer, Go, Made, Listed, TypeOK
  <2> QED BY <1>3, <1>later, <1>5, <2>1, <2>2
<1>13. CASE LeaveCashShop(c)
  <2>1. RefOf(c)'
    BY <1>4, <1>6, <1>13 DEF LeaveCashShop, Go, Made, Listed, TypeOK
  <2>2. RestOf(c)'
    BY <1>4, <1>6, <1>13 DEF LeaveCashShop, Go, Made, Listed, TypeOK
  <2> QED BY <1>3, <1>later, <1>5, <2>1, <2>2
<1>14. CASE disconnect(c)
  <2>1. RefOf(c)'
    BY <1>4, <1>6, <1>14 DEF disconnect, Go, Made, Listed, TypeOK
  <2>2. RestOf(c)'
    BY <1>4, <1>6, <1>14 DEF disconnect, Go, Made, Listed, TypeOK
  <2> QED BY <1>3, <1>later, <1>5, <2>1, <2>2
<1>15. CASE deregister(c)
  <2>1. RefOf(c)'
    BY <1>4, <1>6, <1>15 DEF deregister, Vanish, Go, Made, Listed, TypeOK
  <2>2. RestOf(c)'
    BY <1>4, <1>6, <1>15 DEF deregister, Vanish, Go, Made, Listed, TypeOK
  <2> QED BY <1>3, <1>later, <1>5, <2>1, <2>2
<1> QED BY <1>7, <1>8, <1>9, <1>10, <1>11, <1>12, <1>13, <1>14, <1>15

LEMMA RestartKept ==
    ASSUME TypeOK, restart
    PROVE  (Kept /\ HiddenAway)'
<1>1. \A c \in Char, p \in Id : ~Listed(c, p)'
  BY DEF restart, Listed
<1>2. \A c \in Char : ~Made(c)'
  BY DEF restart, Made
<1>3. HiddenAway'
  BY DEF restart, HiddenAway
<1> QED BY <1>1, <1>2, <1>3 DEF Kept, RefKept, ShopKept, TransferKept, SavedKept

LEMMA InitIInv == Init => IInv
<1> SUFFICES ASSUME Init PROVE IInv OBVIOUS
<1>1. \A c \in Char, p \in Id : ~Listed(c, p)
  BY DEF Init, Listed
<1>2. Kept
  BY <1>1 DEF Init, Kept, RefKept, ShopKept, TransferKept, SavedKept, Made
<1> QED BY <1>2, TypeInit DEF Init, IInv, HiddenListed, HiddenAway

LEMMA NextIInv == IInv /\ [Next]_vars => IInv'
<1> SUFFICES ASSUME IInv, [Next]_vars PROVE IInv' OBVIOUS
<1>1. TypeOK' /\ HiddenListed'
  BY TypeNext, HiddenListedNext DEF IInv
<1>2. ASSUME NoLapse'
      PROVE  (Kept /\ HiddenAway)'
  <2>1. TypeOK /\ HiddenListed /\ Kept /\ HiddenAway
    BY <1>2, LapseGrows DEF IInv
  <2>2. ASSUME NEW c \in Char, createParty(c)
        PROVE  (Kept /\ HiddenAway)'
    BY <1>2, <2>1, <2>2, CreateKept
  <2>3. ASSUME NEW c \in Char, NEW p \in Id, join(c, p)
        PROVE  (Kept /\ HiddenAway)'
    BY <1>2, <2>1, <2>3, JoinKept
  <2>4. ASSUME NEW c \in Char, leave(c)
        PROVE  (Kept /\ HiddenAway)'
    BY <2>1, <2>4, LeaveKept
  <2>5. ASSUME NEW c \in Char, NEW e \in Char, expel(c, e)
        PROVE  (Kept /\ HiddenAway)'
    BY <1>2, <2>1, <2>5, ExpelKept
  <2>6. ASSUME NEW c \in Char, disband(c)
        PROVE  (Kept /\ HiddenAway)'
    BY <1>2, <2>1, <2>6, DisbandKept
  <2>7. ASSUME NEW c \in Char,
               silentPartyUpdate(c) \/ \E n \in Char : changeLeader(c, n)
        PROVE  (Kept /\ HiddenAway)'
    BY <2>1, <2>7, TellKept
  <2>8. ASSUME NEW c \in Char, unstick(c)
        PROVE  (Kept /\ HiddenAway)'
    BY <1>2, <2>8 DEF unstick, NoLapse
  <2>9. ASSUME NEW c \in Char, enter(c)
        PROVE  (Kept /\ HiddenAway)'
    BY <2>1, <2>9, EnterKept
  <2>10. ASSUME NEW c \in Char, logOff(c)
         PROVE  (Kept /\ HiddenAway)'
    BY <2>1, <2>10, LogOffKept
  <2>11. ASSUME NEW c \in Char, disconnectFromCS(c)
         PROVE  (Kept /\ HiddenAway)'
    BY <2>1, <2>11, ShopDisconnectKept
  <2>12. ASSUME NEW c \in Char,
                \/ login(c) \/ arrive(c) \/ refused(c) \/ registerPlayer(c)
                \/ transfer(c) \/ removePlayer(c) \/ LeaveCashShop(c)
                \/ disconnect(c) \/ deregister(c)
         PROVE  (Kept /\ HiddenAway)'
    BY <2>1, <2>12, MoveKept
  <2>13. CASE restart
    BY <2>1, <2>13, RestartKept
  <2>14. CASE UNCHANGED vars
    BY <2>1, <2>14 DEF vars, party, Kept, RefKept, ShopKept, TransferKept, SavedKept, Made,
                       Listed, HiddenAway
  <2> QED
    BY <2>2, <2>3, <2>4, <2>5, <2>6, <2>7, <2>8, <2>9, <2>10, <2>11, <2>12, <2>13, <2>14
       DEF Next
<1> QED BY <1>1, <1>2 DEF IInv

\* The inductive invariant holds in every reachable state.
THEOREM Invariance == Spec => []IInv
BY InitIInv, NextIInv, PTL DEF Spec

-----------------------------------------------------------------------------
\* A member of two parties would have to be found in both from the one place where
\* its membership is kept.
LEMMA InvOneParty == IInv => OneParty
<1> SUFFICES ASSUME IInv, NoLapse, NEW p \in parties, NEW q \in parties,
                    NEW c \in members[p] \cap members[q]
             PROVE  p = q
  BY DEF OneParty
<1>1. c \in Char /\ p \in Id /\ q \in Id /\ Listed(c, p) /\ Listed(c, q)
  BY DEF IInv, TypeOK, Listed
<1>2. at[c] \in At
  BY <1>1 DEF IInv, TypeOK
<1>3. CASE Made(c)
  BY <1>1, <1>3 DEF IInv, Kept, RefKept
<1>4. CASE at[c] = "shop"
  BY <1>1, <1>4 DEF IInv, Kept, ShopKept
<1>5. CASE at[c] \in {"off", "toChannel", "toShop"}
  BY <1>1, <1>5 DEF IInv, Kept, SavedKept
<1> QED BY <1>2, <1>3, <1>4, <1>5 DEF At, Made

LEMMA InvRefAgrees == IInv => RefAgrees
BY DEF IInv, Kept, RefKept, Made, Listed, RefAgrees

LEMMA InvShownOnline == IInv => ShownOnline
BY DEF IInv, HiddenAway, ShownOnline

\* No character is in two parties, however it got out of the last one: by leaving,
\* being expelled or a disbanding while it was in a channel, in the cash shop, on
\* its way or offline (World.Party.updateParty, MapleCharacter.ReconstructChr).
THEOREM InOneParty == Spec => []OneParty
BY Invariance, InvOneParty, PTL

\* A character in a channel refers to exactly the party that lists it
\* (MapleCharacter.getParty against MapleParty.getMembers).
THEOREM RefsAgree == Spec => []RefAgrees
BY Invariance, InvRefAgrees, PTL

\* No member that is in a channel is shown as offline (MapleParty.updateMember).
THEOREM ShownAsOnline == Spec => []ShownOnline
BY Invariance, InvShownOnline, PTL
=============================================================================
