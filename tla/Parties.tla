------------------------------ MODULE Parties -------------------------------
(***************************************************************************)
(* Parties (MapleParty, World.Party, PartyHandler) and what becomes of a   *)
(* membership when a character changes channel, visits the cash shop, logs *)
(* off, is kicked, or the server starts again.                             *)
(*                                                                         *)
(* The list of members is in the party; each character object has a        *)
(* reference of its own to the party, which World.Party.updateParty writes *)
(* for everybody it finds in a channel.  An operation on a party is one    *)
(* step: updates of one party that overlap are not modelled (the list is   *)
(* an unsynchronized LinkedList).  Entering and leaving the game are cut   *)
(* where operations of other members fall in between.                      *)
(***************************************************************************)
EXTENDS Integers, FiniteSets

CONSTANTS
    Char,      \* characters
    MaxParty,  \* bound: the highest party id
    MaxSize    \* members of a full party, 6 in the code

ASSUME PartiesAssumption == MaxParty \in Nat /\ MaxSize \in Nat /\ -1 \notin Char

VARIABLES
    at,         \* where a character is on its way through the game
    ref,        \* MapleCharacter.party, by id
    left,       \* the party that a disconnect under way has noted
    saved,      \* party id in the database
    carried,    \* party id in the transfer
    runningPartyId,
    parties,    \* ids in World.Party.parties
    members,    \* members of a party object: the list without its order
    leader,
    offline,    \* members shown as offline
    lapse       \* what has gone on at once that the code does not guard against

party == <<runningPartyId, parties, members, leader, offline>>
vars == <<at, ref, left, saved, carried, party, lapse>>

Id == 1..MaxParty
None == -1
At == {"off", "arriving", "joining", "channel", "moving", "toChannel", "toShop",
       "shop", "leaving", "out"}

\* The types, and that ids in use have been given out.
TypeOK ==
    /\ at \in [Char -> At]
    /\ ref \in [Char -> Id \cup {None}]
    /\ left \in [Char -> Id \cup {None}]
    /\ saved \in [Char -> Id \cup {None}]
    /\ carried \in [Char -> Id \cup {None}]
    /\ runningPartyId \in Nat
    /\ parties \subseteq Id \cap 0..runningPartyId - 1
    /\ members \in [Id -> SUBSET Char]
    /\ leader \in [Id -> Char \cup {None}]
    /\ offline \in [Id -> SUBSET Char]
    /\ lapse \subseteq {"arriving", "kicked", "unstuck"}

Init ==
    /\ at = [c \in Char |-> "off"]
    /\ ref = [c \in Char |-> None] /\ left = [c \in Char |-> None]
    /\ saved = [c \in Char |-> None] /\ carried = [c \in Char |-> None]
    /\ runningPartyId = 1
    /\ parties = {}
    /\ members = [p \in Id |-> {}] /\ leader = [p \in Id |-> None]
    /\ offline = [p \in Id |-> {}]
    /\ lapse = {}

-----------------------------------------------------------------------------
\* updateParty finds characters in the storages of the channels only.
InChannel(c) == at[c] \in {"joining", "channel", "moving", "leaving", "out"}

\* The loop over the members that sets their references.
SetParty(M, p, r) == [c \in Char |-> IF c \in M /\ InChannel(c) THEN p ELSE r[c]]

\* updateMember, for LOG_ONOFF and SILENT_UPDATE.
Show(p, c) == [offline EXCEPT ![p] = @ \ {c}]
Hide(p, c) == [offline EXCEPT ![p] = @ \cup (members[p] \cap {c})]

\* A client's packets are handled until its character is taken out of the game,
\* also while another login kicks it.
Acting(c) == at[c] \in {"channel", "leaving", "out"}
Kicked(c) == IF at[c] = "channel" THEN {} ELSE {"kicked"}
Missed(C) == IF \E c \in C : at[c] = "arriving" THEN {"arriving"} ELSE {}

\* PartyOperatopn, case 1.
createParty(c) ==
    LET p == runningPartyId IN
    /\ Acting(c) /\ ref[c] = None /\ p \in Id
    /\ runningPartyId' = p + 1
    /\ parties' = parties \cup {p}
    /\ members' = [members EXCEPT ![p] = {c}]
    /\ leader' = [leader EXCEPT ![p] = c]
    /\ offline' = [offline EXCEPT ![p] = {}]
    /\ ref' = [ref EXCEPT ![c] = p]
    /\ lapse' = lapse \cup Kicked(c)
    /\ UNCHANGED <<at, left, saved, carried>>

\* Mutant of join: whether the character is in a party is not asked.
joinAnother(c, p) ==
    /\ Acting(c) /\ p \in parties
    /\ Cardinality(members[p]) < MaxSize
    /\ members' = [members EXCEPT ![p] = @ \cup {c}]
    /\ offline' = Show(p, c)
    /\ ref' = SetParty(members[p] \cup {c}, p, ref)
    /\ lapse' = lapse \cup Kicked(c)
    /\ UNCHANGED <<at, left, saved, carried, runningPartyId, parties, leader>>

\* Case 3 and DenyPartyRequest; whether there was an invitation is not asked.
join(c, p) ==
    /\ Acting(c) /\ ref[c] = None /\ p \in parties
    /\ Cardinality(members[p]) < MaxSize
    /\ members' = [members EXCEPT ![p] = @ \cup {c}]
    /\ offline' = Show(p, c)
    /\ ref' = SetParty(members[p] \cup {c}, p, ref)
    /\ lapse' = lapse \cup Kicked(c)
    /\ UNCHANGED <<at, left, saved, carried, runningPartyId, parties, leader>>

\* Case 2 for the leader.  Only members found in a channel are told.  Of a party
\* that is not in the table nothing is read but, to no effect, who leads it.
disband(c) ==
    LET p == ref[c] IN
    /\ Acting(c) /\ p # None /\ leader[p] = c
    /\ parties' = parties \ {p}
    /\ members' = [members EXCEPT ![p] = {}] /\ leader' = [leader EXCEPT ![p] = None]
    /\ offline' = [offline EXCEPT ![p] = {}]
    /\ ref' = [(IF p \in parties THEN SetParty(members[p], None, ref) ELSE ref)
                 EXCEPT ![c] = None]
    /\ lapse' = lapse \cup Missed({m \in Char : ref[m] = p})
    /\ UNCHANGED <<at, left, saved, carried, runningPartyId>>

\* removeMember and the telling of those who remain.
Remove(p, c) ==
    /\ members' = [members EXCEPT ![p] = @ \ {c}]
    /\ offline' = [offline EXCEPT ![p] = @ \ {c}]
    /\ UNCHANGED <<runningPartyId, parties, leader>>

\* Case 2 for the others.
leave(c) ==
    LET p == ref[c] IN
    /\ Acting(c) /\ p # None /\ leader[p] # c
    /\ IF p \in parties THEN Remove(p, c) ELSE UNCHANGED party
    /\ ref' = [(IF p \in parties THEN SetParty(members[p], p, ref) ELSE ref)
                 EXCEPT ![c] = None]
    /\ UNCHANGED <<at, left, saved, carried, lapse>>

\* Case 5: the leader expels a member, who may be anywhere, or itself.
expel(c, e) ==
    LET p == ref[c] IN
    /\ Acting(c) /\ p \in parties /\ leader[p] = c /\ e \in members[p]
    /\ Remove(p, e)
    /\ ref' = [SetParty(members[p] \ {e}, p, ref)
                 EXCEPT ![e] = IF InChannel(e) THEN None ELSE @]
    /\ lapse' = lapse \cup Missed({e})
    /\ UNCHANGED <<at, left, saved, carried>>

\* Case 6, for any member.
changeLeader(c, n) ==
    LET p == ref[c] IN
    /\ Acting(c) /\ p \in parties /\ leader[p] = c /\ n \in members[p]
    /\ leader' = [leader EXCEPT ![p] = n]
    /\ ref' = SetParty(members[p], p, ref)
    /\ UNCHANGED <<at, left, saved, carried, runningPartyId, parties, members, offline, lapse>>

\* Updating the entry of a character: silentPartyUpdate, and LOG_ONOFF on entering.
Update(c) ==
    LET p == ref[c] IN
    /\ offline' = IF p \in parties THEN Show(p, c) ELSE offline
    /\ ref' = IF p \in parties THEN SetParty(members[p], p, ref) ELSE ref
    /\ UNCHANGED <<left, saved, carried, runningPartyId, parties, members, leader, lapse>>

silentPartyUpdate(c) == Acting(c) /\ Update(c) /\ UNCHANGED at

\* The command that lets go of the party without leaving it.
unstick(c) ==
    /\ Acting(c) /\ ref[c] # None
    /\ ref' = [ref EXCEPT ![c] = None]
    /\ lapse' = lapse \cup {"unstuck"}
    /\ UNCHANGED <<at, left, saved, carried, party>>

-----------------------------------------------------------------------------
\* Coming and going.
Go(c, a) == at' = [at EXCEPT ![c] = a]

\* Mutant of PartyOf: the list of members is not consulted.
PartyById(c, p) == IF p \in parties THEN p ELSE None

\* A character object that is made from a transfer or the database finds its
\* party if that still lists it.
PartyOf(c, p) == IF p \in parties /\ c \in members[p] THEN p ELSE None

\* loadCharFromDB.
login(c) ==
    /\ at[c] = "off"
    /\ ref' = [ref EXCEPT ![c] = PartyOf(c, saved[c])]
    /\ Go(c, "arriving")
    /\ UNCHANGED <<left, saved, carried, party, lapse>>

\* ReconstructChr, in a channel or the cash shop.
arrive(c) ==
    /\ at[c] \in {"toChannel", "toShop"}
    /\ ref' = [ref EXCEPT ![c] = PartyOf(c, carried[c])]
    /\ Go(c, IF at[c] = "toShop" THEN "shop" ELSE "arriving")
    /\ carried' = [carried EXCEPT ![c] = None]
    /\ UNCHANGED <<left, saved, party, lapse>>

Vanish(c) ==
    /\ Go(c, "off")
    /\ ref' = [ref EXCEPT ![c] = None] /\ left' = [left EXCEPT ![c] = None]
    /\ carried' = [carried EXCEPT ![c] = None]
    /\ UNCHANGED <<saved, party, lapse>>

\* The entry is refused, or a transfer is never called for.
refused(c) == at[c] \in {"arriving", "toChannel", "toShop"} /\ Vanish(c)

registerPlayer(c) ==
    /\ at[c] = "arriving"
    /\ Go(c, "joining")
    /\ UNCHANGED <<ref, left, saved, carried, party, lapse>>

\* Mutant of enter: the party is not told.
enterSilently(c) ==
    /\ at[c] = "joining"
    /\ Go(c, "channel")
    /\ UNCHANGED <<ref, left, saved, carried, party, lapse>>

\* The rest of LoggedIn.
enter(c) == at[c] = "joining" /\ Go(c, "channel") /\ Update(c)

\* changeChannel and EnterCashShop: save and leave a transfer, ...
transfer(c) ==
    /\ at[c] = "channel"
    /\ Go(c, "moving")
    /\ saved' = [saved EXCEPT ![c] = ref[c]]
    /\ carried' = [carried EXCEPT ![c] = ref[c]]
    /\ UNCHANGED <<ref, left, party, lapse>>

\* ... then leave the channel.
removePlayer(c) ==
    /\ at[c] = "moving"
    /\ \E to \in {"toChannel", "toShop"} : Go(c, to)
    /\ ref' = [ref EXCEPT ![c] = None]
    /\ UNCHANGED <<left, saved, carried, party, lapse>>

LeaveCashShop(c) ==
    /\ at[c] = "shop"
    /\ Go(c, "toChannel")
    /\ saved' = [saved EXCEPT ![c] = ref[c]]
    /\ carried' = [carried EXCEPT ![c] = ref[c]]
    /\ ref' = [ref EXCEPT ![c] = None]
    /\ UNCHANGED <<left, party, lapse>>

\* MapleClient.disconnect: note the party, leave the map and save; ...
disconnect(c) ==
    /\ at[c] = "channel"
    /\ Go(c, "leaving")
    /\ left' = [left EXCEPT ![c] = ref[c]]
    /\ saved' = [saved EXCEPT ![c] = ref[c]]
    /\ UNCHANGED <<ref, carried, party, lapse>>

\* Mutant of logOff: a disconnected leader hands over to anybody on the same map.
logOffToAnybody(c) ==
    LET p == left[c] IN
    /\ at[c] = "leaving"
    /\ Go(c, "out")
    /\ IF p \in parties
       THEN /\ offline' = Hide(p, c)
            /\ ref' = SetParty(members[p], p, ref)
            /\ \E map \in SUBSET {m \in Char : at[m] = "channel"} :
                 IF leader[p] = c /\ map # {}
                 THEN \E lchr \in map : leader' = [leader EXCEPT ![p] = lchr]
                 ELSE UNCHANGED leader
       ELSE UNCHANGED <<offline, ref, leader>>
    /\ UNCHANGED <<left, saved, carried, runningPartyId, parties, members, lapse>>

\* ... show the character as offline and, if it leads the party, hand over to a
\* member on the same map, if any; ...
logOff(c) ==
    LET p == left[c] IN
    /\ at[c] = "leaving"
    /\ Go(c, "out")
    /\ IF p \in parties
       THEN /\ offline' = Hide(p, c)
            /\ ref' = SetParty(members[p], p, ref)
            /\ \E map \in SUBSET {m \in members[p] : at[m] = "channel"} :
                 IF leader[p] = c /\ map # {}
                 THEN \E lchr \in map : leader' = [leader EXCEPT ![p] = lchr]
                 ELSE UNCHANGED leader
       ELSE UNCHANGED <<offline, ref, leader>>
    /\ UNCHANGED <<left, saved, carried, runningPartyId, parties, members, lapse>>

\* ... and leave the storage of the channel.
deregister(c) == at[c] = "out" /\ Vanish(c)

\* The disconnect of a client in the cash shop.
disconnectFromCS(c) ==
    LET p == ref[c] IN
    /\ at[c] = "shop"
    /\ Go(c, "off")
    /\ saved' = [saved EXCEPT ![c] = p]
    /\ offline' = IF p \in parties THEN Hide(p, c) ELSE offline
    /\ ref' = [(IF p \in parties THEN SetParty(members[p], p, ref) ELSE ref)
                 EXCEPT ![c] = None]
    /\ UNCHANGED <<left, carried, runningPartyId, parties, members, leader, lapse>>

\* The server stops and starts: the first party id is two above the last saved.
restart ==
    /\ \E last \in Id \cup {None} :
         /\ \A c \in Char : saved[c] <= last
         /\ \E c \in Char : saved[c] = last
         /\ runningPartyId' = last + 2
    /\ at' = [c \in Char |-> "off"]
    /\ ref' = [c \in Char |-> None] /\ left' = [c \in Char |-> None]
    /\ carried' = [c \in Char |-> None]
    /\ parties' = {}
    /\ members' = [p \in Id |-> {}] /\ leader' = [p \in Id |-> None]
    /\ offline' = [p \in Id |-> {}]
    /\ UNCHANGED <<saved, lapse>>

Next ==
    \/ \E c \in Char :
         \/ createParty(c) \/ disband(c) \/ leave(c) \/ silentPartyUpdate(c) \/ unstick(c)
         \/ \E p \in Id : join(c, p)
         \/ \E e \in Char : expel(c, e) \/ changeLeader(c, e)
         \/ login(c) \/ arrive(c) \/ refused(c) \/ registerPlayer(c) \/ enter(c)
         \/ transfer(c) \/ removePlayer(c) \/ LeaveCashShop(c)
         \/ disconnect(c) \/ logOff(c) \/ deregister(c) \/ disconnectFromCS(c)
    \/ restart

Spec == Init /\ [][Next]_vars

-----------------------------------------------------------------------------
\* What the code does not guard against; the properties are about behaviours
\* without it.
\*   arriving  a party is disbanded, or a member expelled, while the member's
\*             object has found its party but nobody finds the object yet
\*   kicked    a character joins or founds a party after the disconnect of its
\*             connection, on another thread, has noted and saved its party
\*   unstuck   the command was used
NoLapse == lapse = {}

\* A character is in one party, however it got out of the last one: by leaving,
\* being expelled or a disbanding while it was here, in the cash shop, on its way
\* or offline.
OneParty == NoLapse => \A p, q \in parties :
    members[p] \cap members[q] # {} => p = q

\* A character in the game refers to the party that lists it, and to none if
\* none does: changes made while it was away are not missed.
RefAgrees == NoLapse => \A c \in Char : at[c] = "channel" =>
    \A p \in Id : ref[c] = p <=> p \in parties /\ c \in members[p]

\* A party is founded with, and keeps, a leader who is one of its members, also
\* when leaders leave, hand over, are disconnected or kicked, and whatever has
\* lapsed: the one step that leaves a party to somebody outside it is that the
\* leader expels itself, which PartyHandler does not refuse.
IsLed(p) == leader[p] \in members[p]
LedByMember ==
    [][\A p \in parties' :
         \/ IsLed(p)'
         \/ p \in parties /\ ~IsLed(p)
         \/ \E c \in Char : ref[c] = p /\ expel(c, c)]_vars

\* No member that is in the game is shown as offline: log-off and entry of the
\* same character are not seen in the wrong order.
ShownOnline == NoLapse => \A c \in Char, p \in parties :
    at[c] = "channel" => c \notin offline[p]
=============================================================================
