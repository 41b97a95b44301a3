------------------------------ MODULE Sessions ------------------------------
(***************************************************************************)
(* One account's way through the servers: login, choice of a character,    *)
(* entry into a channel, change of channel, the cash shop and back, and    *)
(* the loss of connections (MapleClient, CharLoginHandler, LoginWorker,    *)
(* InterServerHandler, CashShopOperation, PlayerStorage).                  *)
(*                                                                         *)
(* Each connection has an event loop of its own.  The handlers that move a *)
(* character are cut where another loop can come between: before the       *)
(* connection registers (at = "loading", "entering", "joining", "joined")  *)
(* and around the packet that sends the client on ("moving", "leaving").   *)
(* What one handler does to another's connection, MapleClient.disconnect,  *)
(* is one step, and so is what the connection's own loop does to its       *)
(* character meanwhile (PlayedOn).  A connection is used once; it knows    *)
(* its account only after the password, or with its character (acc).       *)
(***************************************************************************)
EXTENDS Naturals, FiniteSets, FiniteSetsExt

CONSTANTS
    Client,    \* connections
    Char,      \* the characters of the account
    Channel,   \* game channels
    Login,     \* the login server, channel 0
    Shop,      \* the cash shop server, channel -10
    None,      \* null
    MaxPlay,   \* bound: changes of a character that are counted
    MaxLogin   \* bound: logins with the right password

ASSUME SessionsAssumption ==
    /\ MaxPlay \in Nat /\ MaxLogin \in Nat
    /\ IsFiniteSet(Char) /\ IsFiniteSet(Channel)
    /\ Login # Shop /\ {Login, Shop, None} \cap (Channel \cup Client \cup Char) = {}

VARIABLES
    listed,      \* characters of the second world, the world of a new connection
    cl,          \* MapleClient objects
    online,      \* PlayerStorage.idToChar of each server: whose character
    find,        \* World.Find.idToChannel
    state,       \* accounts.loggedin
    saved,       \* version of each character in the database
    played,      \* latest version anybody has played
    pending,     \* PlayerStorage.PendingCharacter of each server
    ticket,      \* characters whose system property is "1"
    logins,      \* logins so far
    registered,  \* AccountStorage.idToClient
    invites,     \* packets that told a client to connect to a server
    lapse        \* what has gone on at once that the code does not guard against

vars == <<listed, cl, online, find, state, saved, played, pending, ticket, logins,
          registered, invites, lapse>>

Place == Channel \cup {Shop}
Copy == [chr : Char, ver : 0..MaxPlay, current : BOOLEAN, home : Channel]
ASSUME NoneAssumption == None \notin Copy
Lapse == {"entries", "tail", "kept", "evicted", "kicked"}
At == {"idle", "login", "loading", "entering", "joining", "joined", "moving",
       "leaving", "gone"}

MapleClient ==
    [server : Place \cup {Login}, at : At, open : BOOLEAN, acc : BOOLEAN,
     player : Copy \cup {None}, carry : Copy \cup {None}, to : Place \cup {None},
     loggedIn : BOOLEAN, serverTransition : BOOLEAN, receiving : BOOLEAN,
     closed : BOOLEAN, canloginpw : BOOLEAN, loginKey : BOOLEAN,
     keys : SUBSET {"login", "server"}]

NewClient(srv) ==
    [server |-> srv, at |-> "idle", open |-> TRUE, acc |-> FALSE,
     player |-> None, carry |-> None, to |-> None, loggedIn |-> FALSE,
     serverTransition |-> FALSE, receiving |-> TRUE, closed |-> FALSE,
     canloginpw |-> FALSE, loginKey |-> FALSE,
     keys |-> {}]

GoneClient == [NewClient(Login) EXCEPT !.at = "gone", !.open = FALSE]

TypeOK ==
    /\ listed \subseteq Char
    /\ cl \in [Client -> MapleClient]
    /\ online \in [Place -> [Char -> Client \cup {None}]]
    /\ find \in [Char -> Place \cup {None}]
    /\ state \in {0, 1, 2, 5, 6}
    /\ saved \in [Char -> 0..MaxPlay] /\ played \in [Char -> 0..MaxPlay]
    /\ pending \in [Place -> [Char -> Copy \cup {None}]]
    /\ ticket \subseteq Char /\ logins \in 0..MaxLogin
    /\ registered \in Client \cup {None}
    /\ invites \subseteq [to : Place, chr : Char]
    /\ lapse \subseteq Lapse

Init ==
    /\ listed \in SUBSET Char
    /\ cl = [s \in Client |-> GoneClient]
    /\ online = [p \in Place |-> [c \in Char |-> None]]
    /\ find = [c \in Char |-> None]
    /\ state = 0
    /\ saved = [c \in Char |-> 0] /\ played = [c \in Char |-> 0]
    /\ pending = [p \in Place |-> [c \in Char |-> None]]
    /\ ticket = {} /\ logins = 0
    /\ registered = None
    /\ invites = {}
    /\ lapse = {}

-----------------------------------------------------------------------------
\* The state that disconnecting touches, threaded through the kicks of a handler.
World == [cl |-> cl, online |-> online, find |-> find, state |-> state, saved |-> saved]

Become(w) ==
    /\ cl' = w.cl /\ online' = w.online /\ find' = w.find
    /\ state' = w.state /\ saved' = w.saved

Goto(w, s, a) == [w EXCEPT !.cl[s].at = a]
Close(w, s) == [w EXCEPT !.cl[s].open = FALSE]

\* The account row is the caller's own: a connection that does not know its
\* account writes to another's.
updateLoginState(w, s, n) ==
    [w EXCEPT !.state = IF w.cl[s].acc THEN n ELSE @,
              !.cl[s].serverTransition = n \in {1, 6},
              !.cl[s].loggedIn = n \notin {0, 1, 6}]

\* getLoginState: a transition older than 70 seconds counts as logged out.
LoginStates == {state} \cup IF state \in {1, 6} THEN {0} ELSE {}

deregisterPlayer(w, p, c) == [w EXCEPT !.online[p][c] = None, !.find[c] = None]

\* The checks by character id look for every character of the account ...
Online(w, P) == \E p \in P, c \in Char : w.online[p][c] # None

\* Mutant of isCharacterListConnected: looks into the cash shop.
isCharacterListInShop(w) == \E c \in listed : w.online[Shop][c] # None

\* ... loadCharacterNames for those of the connection's world: the login server
\* sets it to the chosen world plus one, new characters get it minus one, and
\* in a channel or the cash shop it keeps the constructor's 1.
isCharacterListConnected(w) ==
    \E p \in Channel, c \in listed : w.online[p][c] # None

\* disconnect saves the character, takes it out of the server the client
\* belongs to, by id, and logs the account out unless the client is moving.
disconnect(w, s, remove, fromCS) ==
    LET p == w.cl[s].player
        place == IF w.cl[s].server = Shop
                 THEN IF fromCS /\ w.find[p.chr] \notin Channel THEN Shop ELSE p.home
                 ELSE w.cl[s].server
        saves == [w EXCEPT !.saved[p.chr] = p.ver, !.cl[s].player = None]
        left == IF remove /\ (place = Shop => w.find[p.chr] = Shop)
                THEN deregisterPlayer(saves, place, p.chr) ELSE saves
        done == IF p = None THEN w ELSE left
    IN IF ~done.cl[s].serverTransition /\ done.cl[s].loggedIn
       THEN updateLoginState(done, s, 0) ELSE done

\* Mutant of unLockDisconnect: the connection is closed, and cleans up when it notices.
unLockDisconnectLater(w, s) == [w EXCEPT !.cl[s].open = FALSE]

unLockDisconnect(w, s) ==
    [disconnect(w, s, w.cl[s].serverTransition, FALSE) EXCEPT
         !.cl[s].open = FALSE, !.cl[s].closed = TRUE]

\* forceRemovePlayerByAccId, and forceRemovePlayerByCharNameFromDataBase with
\* the names of the account's characters.
forceRemovePlayer(w0, me) ==
    LET Kick(w, h) == IF h \in {None, me} THEN w ELSE unLockDisconnect(w, h)
        FromChannel(at, w) ==
            LET h == w.online[at[1]][at[2]]
                k == Kick(w, h)
            IN IF h # None /\ k.online[at[1]][at[2]] = h
               THEN deregisterPlayer(k, at[1], at[2]) ELSE k
        FromShop(c, w) == Kick(w, w.online[Shop][c])
    IN FoldSet(FromShop, FoldSet(FromChannel, w0, Channel \X Char), Char)

forceRemoveClient(w, me) ==
    IF registered \in {None, me} THEN w ELSE unLockDisconnect(w, registered)

\* disconnect takes a character from a connection whose own loop goes on all the
\* while.  What that does before saveToDB it has done before the kick; what it does
\* between the save and player = null, in the game or on its way to another server,
\* comes after the save.
Kicked(w) == {cl[x].player.chr : x \in {y \in Client : cl[y].player # None /\ w.cl[y].player = None}}

PlayedOn(w) ==
    \/ UNCHANGED <<played, lapse>>
    \/ /\ Kicked(w) # {}
       /\ \E late \in SUBSET {c \in Kicked(w) : played[c] < MaxPlay} :
            played' = [c \in Char |-> IF c \in late THEN played[c] + 1 ELSE played[c]]
       /\ lapse' = lapse \cup {"kicked"}

Idle(s) == cl[s].at = "idle" /\ cl[s].open /\ cl[s].receiving

\* A new connection takes a name that nobody has or remembers.
Fresh(s) ==
    /\ cl[s].at = "gone" /\ registered # s
    /\ \A p \in Place, c \in Char : online[p][c] # s

\* LoginServer keeps three keys of the account, random strings that the login
\* session draws and a loaded character copies.  One that is drawn anew never
\* matches a copy of the old: keys says which of its keys are still the
\* account's, current that all three of a character are.
Outdated(c) == IF c = None THEN None ELSE [c EXCEPT !.current = FALSE]
OutdatedPending == [p \in Place |-> [c \in Char |-> Outdated(pending[p][c])]]

AddKey(w, s, k) ==
    [w EXCEPT !.cl = [x \in Client |-> [w.cl[x] EXCEPT
        !.keys = IF x = s THEN @ \cup ({k} \ {"client"}) ELSE @ \ {k},
        !.player = Outdated(@), !.carry = Outdated(@)]]]

-----------------------------------------------------------------------------
\* The login server.
\* MapleClient.login with the right password.
login(s) ==
    /\ Fresh(s) /\ logins < MaxLogin
    /\ logins' = logins + 1
    /\ LET w == [World EXCEPT !.cl[s] = [NewClient(Login) EXCEPT
                     !.at = "login", !.acc = TRUE, !.canloginpw = TRUE]]
           v == updateLoginState(forceRemovePlayer(w, s), s, 0)
       IN Become(v) /\ PlayedOn(v)
    /\ UNCHANGED <<pending, ticket, registered, invites>>

\* handleLogin refuses after the password was found right (bans, waiting times).
loginRefused(s) ==
    /\ cl[s].at = "login"
    /\ Become(Goto(World, s, "idle"))
    /\ UNCHANGED <<played, pending, ticket, logins, registered, invites, lapse>>

\* clearChannelChangeDataByAccountId removes from the maps it iterates over: the
\* exception, swallowed, may leave transfers behind once one is removed.
Transfers == {at \in Place \X Char : pending[at[1]][at[2]] # None}

clearChannelChangeData ==
    \E left \in SUBSET Transfers :
        /\ left # Transfers \/ Transfers = {}
        /\ pending' = [p \in Place |-> [c \in Char |->
                         IF <<p, c>> \in left THEN OutdatedPending[p][c] ELSE None]]

\* The rest of handleLogin, with finishLogin and LoginWorker.registerClient.
\* A state other than 0 skips the kicks, but the client may go on.
finishLogin(s) ==
    /\ cl[s].at = "login"
    /\ LET w == AddKey([Goto(World, s, "idle") EXCEPT !.cl[s].loginKey = TRUE], s, "login")
       IN IF state = 0
          THEN LET v == forceRemovePlayer(forceRemoveClient(updateLoginState(w, s, 2), s), s)
               IN /\ Become(v) /\ PlayedOn(v)
                  /\ registered' = s
                  /\ clearChannelChangeData
          ELSE /\ Become([w EXCEPT !.cl[s].loggedIn = FALSE])
               /\ pending' = OutdatedPending
               /\ UNCHANGED <<played, registered, lapse>>
    /\ UNCHANGED <<ticket, logins, invites>>

LoginIdle(s) == Idle(s) /\ cl[s].server = Login /\ cl[s].canloginpw

ServerListRequest(s) ==
    /\ LoginIdle(s) /\ cl[s].loginKey /\ state \in {0, 2}
    /\ Become(forceRemoveClient(World, s))
    /\ UNCHANGED <<played, pending, ticket, logins, registered, invites, lapse>>

ServerStatusRequest(s) ==
    /\ LoginIdle(s)
    /\ LET w == forceRemovePlayer(forceRemoveClient(World, s), s)
       IN Become(w) /\ PlayedOn(w)
    /\ UNCHANGED <<pending, ticket, logins, registered, invites>>

CharlistRequest(s) ==
    /\ LoginIdle(s) /\ ~cl[s].closed /\ cl[s].loginKey
    /\ LET w == forceRemoveClient(forceRemovePlayer(World, s), s)
       IN /\ PlayedOn(w)
          /\ IF "login" \in cl[s].keys
             THEN Become(AddKey(w, s, "server")) /\ pending' = OutdatedPending
             ELSE Become(w) /\ UNCHANGED pending
    /\ UNCHANGED <<ticket, logins, registered, invites>>

\* handleSecectCharacter; a client selects once.
SelectCharacter(s, c, ch) ==
    /\ LoginIdle(s) /\ ~cl[s].closed /\ ~cl[s].serverTransition
    /\ cl[s].keys = {"login", "server"}
    /\ pending' = OutdatedPending
    /\ LET w == AddKey(World, s, "client") IN
       \/ /\ ~Online(w, Place)
          /\ Become(updateLoginState(w, s, 1))
          /\ ticket' = ticket \cup {c}
          /\ invites' = invites \cup {[to |-> ch, chr |-> c]}
          /\ UNCHANGED lapse
       \/ /\ Online(w, Channel)
          /\ Become(Close(w, s))
          /\ UNCHANGED <<ticket, invites, lapse>>
       \/ /\ ~Online(w, Channel)
          /\ \E victim \in Char :
               /\ online[Shop][victim] # None
               /\ Become(Close(deregisterPlayer(w, Shop, victim), s))
               /\ lapse' = IF cl[online[Shop][victim]].player = None
                           THEN lapse ELSE lapse \cup {"evicted"}
          /\ UNCHANGED <<ticket, invites>>
    /\ UNCHANGED <<played, logins, registered>>

-----------------------------------------------------------------------------
\* Entering a channel (LoggedIn) or the cash shop (EnterCashShop).
Entering(s) == cl[s].at \in {"loading", "entering", "joining"}
Sending(s) == cl[s].at \in {"moving", "leaving"}

\* The first packet of a new connection: take the transfer or, in a channel,
\* look whether the character is online and was selected.
connect(s, i) ==
    LET t == pending[i.to][i.chr]
        new == NewClient(i.to)
        Arrive(c) == Become([World EXCEPT !.cl[s] = c])
    IN /\ Fresh(s) /\ i \in invites
       /\ invites' = invites \ {i}
       /\ IF t # None
          THEN /\ Arrive([new EXCEPT !.at = "entering", !.carry = t])
               /\ pending' = [pending EXCEPT ![i.to][i.chr] = None]
          ELSE /\ Arrive(IF i.to = Shop \/ Online(World, Place) \/ i.chr \notin ticket
                         THEN [new EXCEPT !.open = FALSE]
                         ELSE [new EXCEPT !.at = "loading", !.carry =
                                 [chr |-> i.chr, ver |-> 0, current |-> FALSE, home |-> i.to]])
               /\ UNCHANGED pending
       /\ lapse' = lapse \cup {l \in {"entries", "tail"} :
              \/ l = "entries" /\ \E x \in Client : Entering(x)
              \/ l = "tail" /\ \E x \in Client : Sending(x) /\ cl[x].carry.chr = i.chr}
       /\ UNCHANGED <<played, ticket, logins, registered>>

loadCharFromDB(s) ==
    LET c == cl[s].carry.chr IN
    /\ cl[s].at = "loading"
    /\ ticket' = ticket \ {c}
    /\ Become([Goto(World, s, "entering") EXCEPT
                 !.cl[s].carry.ver = saved[c], !.cl[s].carry.current = TRUE])
    /\ UNCHANGED <<played, pending, logins, registered, invites, lapse>>

\* Mutant of KeysMatch: the keys are not compared.
AnyKeys(s) == cl[s].carry # None

KeysMatch(s) == cl[s].carry.current

\* Keys, then setPlayer and setAccID, then the account's state and whether a
\* character of the account is in a channel.  The kicks in between do nothing:
\* the connection does not know its account yet.
allowLogin(s) ==
    /\ cl[s].at = "entering"
    /\ \E st \in LoginStates :
         LET w == [World EXCEPT !.cl[s].acc = TRUE, !.cl[s].player = cl[s].carry]
             read == IF st = state THEN w ELSE updateLoginState(w, s, 0)
             known == [read EXCEPT !.cl[s].loggedIn = st = 2]
             shop == cl[s].server = Shop
             ok == /\ st \in (IF shop THEN {1, 6} ELSE {0, 1, 6})
                   /\ ~isCharacterListConnected(w)
             Refuse(v) == Become(Goto(Close(v, s), s, "idle"))
         IN \/ /\ ~shop /\ ~KeysMatch(s)
               /\ Refuse(World)
               /\ UNCHANGED lapse
            \/ /\ ~ok /\ (shop \/ KeysMatch(s))
               /\ Refuse([known EXCEPT !.cl[s].player = None])
               /\ UNCHANGED lapse
            \/ /\ ok /\ shop /\ ~KeysMatch(s)
               /\ Refuse(known)
               /\ lapse' = lapse \cup {"kept"}
            \/ /\ ok /\ KeysMatch(s)
               /\ Become(Goto(known, s, "joining"))
               /\ UNCHANGED lapse
    /\ UNCHANGED <<played, pending, ticket, logins, registered, invites>>

\* updateLoginState and registerPlayer.
registerPlayer(s) ==
    LET p == cl[s].server
        c == cl[s].carry.chr
        w == updateLoginState(World, s, IF p = Shop THEN 5 ELSE 2)
    IN /\ cl[s].at = "joining"
       /\ Become([Goto(w, s, "joined") EXCEPT !.online[p][c] = s, !.find[c] = p])
       /\ UNCHANGED <<played, pending, ticket, logins, registered, invites, lapse>>

\* The second check of the keys, once registered.
entered(s) ==
    LET w == [Goto(World, s, "idle") EXCEPT !.cl[s].carry = None] IN
    /\ cl[s].at = "joined"
    /\ Become(IF KeysMatch(s) THEN w ELSE Close(w, s))
    /\ UNCHANGED <<played, pending, ticket, logins, registered, invites, lapse>>

-----------------------------------------------------------------------------
\* In the game.
Playing(s) == Idle(s) /\ ~cl[s].closed /\ cl[s].player # None

\* Anything the player does.
Play(s) ==
    LET c == cl[s].player.chr IN
    /\ Playing(s) /\ played[c] < MaxPlay
    /\ played' = [played EXCEPT ![c] = @ + 1]
    /\ Become([World EXCEPT !.cl[s].player.ver = played[c] + 1])
    /\ UNCHANGED <<pending, ticket, logins, registered, invites, lapse>>

\* changeChannel and InterServerHandler.EnterCashShop: save, leave a transfer
\* at the target ...
transfer(s, to) ==
    LET p == cl[s].player IN
    /\ Playing(s) /\ cl[s].server \in Channel
    /\ to \in Place \ {cl[s].server}
    /\ pending' = [pending EXCEPT ![to][p.chr] = [p EXCEPT !.home = cl[s].server]]
    /\ Become([Goto(World, s, "moving") EXCEPT
                 !.saved[p.chr] = p.ver, !.cl[s].carry = p, !.cl[s].to = to])
    /\ UNCHANGED <<played, ticket, logins, registered, invites, lapse>>

Invite(s, to, c) == invites' = IF cl[s].open THEN invites \cup {[to |-> to, chr |-> c]} ELSE invites

\* ... leave the channel, set the state and tell the client to go ...
depart(s) ==
    LET c == cl[s].carry.chr
        w == deregisterPlayer(World, cl[s].server, c)
    IN /\ cl[s].at = "moving"
       /\ Become(Goto(updateLoginState(w, s, 6), s, "leaving"))
       /\ Invite(s, cl[s].to, c)
       /\ UNCHANGED <<played, pending, ticket, logins, registered, lapse>>

\* LeaveCashShop up to the packet.
LeaveCashShop(s) ==
    LET p == cl[s].player
        w == deregisterPlayer(World, Shop, p.chr)
    IN /\ Playing(s) /\ cl[s].server = Shop
       /\ Become([Goto(updateLoginState(w, s, 1), s, "leaving") EXCEPT
                    !.cl[s].carry = p, !.cl[s].to = p.home])
       /\ pending' = [pending EXCEPT ![p.home][p.chr] = p]
       /\ Invite(s, p.home, p.chr)
       /\ UNCHANGED <<played, ticket, logins, registered, lapse>>

\* Mutant of letGo: the old connection keeps the character.
letGoKept(s) ==
    /\ cl[s].at = "leaving"
    /\ Become([Goto(World, s, "idle") EXCEPT !.cl[s].carry = None, !.cl[s].receiving = FALSE])
    /\ UNCHANGED <<played, pending, ticket, logins, registered, invites, lapse>>

\* ... and let go of the character.  changeChannel closes the connection with
\* the character still in it if the keys are stale or the name is online;
\* LeaveCashShop saves only now.
letGo(s) ==
    LET p == cl[s].carry
        w == [Goto(World, s, "idle") EXCEPT !.cl[s].carry = None]
        gone == [w EXCEPT !.cl[s].player = None, !.cl[s].receiving = FALSE]
        refused == cl[s].to \in Channel /\ (~KeysMatch(s) \/ Online(World, Place))
    IN /\ cl[s].at = "leaving"
       /\ \/ /\ cl[s].server = Shop
             /\ Become([gone EXCEPT !.saved[p.chr] = p.ver])
             /\ UNCHANGED lapse
          \/ /\ cl[s].server # Shop /\ ~refused
             /\ Become(gone)
             /\ UNCHANGED lapse
          \/ /\ cl[s].server # Shop /\ refused
             /\ Become(Close(w, s))
             /\ lapse' = IF cl[s].player = None THEN lapse ELSE lapse \cup {"kept"}
       /\ UNCHANGED <<played, pending, ticket, logins, registered, invites>>

-----------------------------------------------------------------------------
\* Connections and time.
\* A connection is lost.  Of the handlers only depart looks at it: lost during
\* another, it shows when the handler is over.
Drop(s) ==
    /\ cl[s].at \in {"idle", "moving"} /\ cl[s].open
    /\ Become(Close(World, s))
    /\ UNCHANGED <<played, pending, ticket, logins, registered, invites, lapse>>

\* No answer to a ping for 30 seconds.
PingTimeout(s) ==
    /\ cl[s].at # "gone" /\ cl[s].open
    /\ Become(Close([updateLoginState(World, s, 0) EXCEPT
                 !.cl[s].closed = TRUE, !.cl[s].receiving = FALSE], s))
    /\ UNCHANGED <<played, pending, ticket, logins, registered, invites, lapse>>

\* Mutant of channelInactive: the server's storage is left to the kicks.
channelInactiveKept(s) ==
    /\ cl[s].at = "idle" /\ ~cl[s].open
    /\ Become([disconnect(World, s, FALSE, cl[s].server = Shop) EXCEPT !.cl[s] = GoneClient])
    /\ registered' = IF registered = s THEN None ELSE registered
    /\ UNCHANGED <<played, pending, ticket, logins, invites, lapse>>

channelInactive(s) ==
    /\ cl[s].at = "idle" /\ ~cl[s].open
    /\ Become([disconnect(World, s, TRUE, cl[s].server = Shop) EXCEPT !.cl[s] = GoneClient])
    /\ registered' = IF registered = s THEN None ELSE registered
    /\ UNCHANGED <<played, pending, ticket, logins, invites, lapse>>

\* PersistingTask drops transfers older than 40 seconds.
PersistingTask(p, c) ==
    /\ pending[p][c] # None
    /\ pending' = [pending EXCEPT ![p][c] = None]
    /\ UNCHANGED <<cl, online, find, state, saved, played, ticket, logins, registered,
                   invites, lapse>>

Step ==
    \/ \E s \in Client :
         \/ login(s) \/ loginRefused(s) \/ finishLogin(s)
         \/ ServerListRequest(s) \/ ServerStatusRequest(s) \/ CharlistRequest(s)
         \/ \E c \in Char, ch \in Channel : SelectCharacter(s, c, ch)
         \/ \E i \in invites : connect(s, i)
         \/ loadCharFromDB(s) \/ allowLogin(s) \/ registerPlayer(s) \/ entered(s)
         \/ Play(s) \/ depart(s) \/ LeaveCashShop(s) \/ letGo(s)
         \/ \E to \in Place : transfer(s, to)
         \/ Drop(s) \/ PingTimeout(s) \/ channelInactive(s)
    \/ \E p \in Place, c \in Char : PersistingTask(p, c)

Next == Step /\ UNCHANGED listed

Spec == Init /\ [][Next]_vars

-----------------------------------------------------------------------------
\* What the code does not guard against; the properties are about behaviours
\* without it.
\*   entries  two entries are under way at once: whether the account's
\*            characters are connected is asked before one registers
\*   tail     a transfer is taken while the handler that left it is not over;
\*            LeaveCashShop then saves over what the new connection does
\*   kept     a move is refused with the character still set, by changeChannel
\*            after it has been made or by the cash shop because of the keys;
\*            disconnecting then saves an old copy and removes the newer by id
\*   evicted  a selection takes a character that is being played out of the cash
\*            shop's storage, but leaves its connection alone
\*   kicked   a character goes on while another connection's loop disconnects it,
\*            after the save: that is lost, or removed by id where it went
NoLapse == lapse = {}

\* A character is in the hands of one connection at a time, and an account has
\* one character of the second world in the channels.  (In the first world the
\* question who is connected finds nobody, and it is not asked about the cash
\* shop: a transfer of an earlier choice then brings in a second character.)
OneCopy == NoLapse => \A a, b \in Client :
    LET chars == {cl[a].player.chr, cl[b].player.chr} IN
    ~ /\ a # b /\ Playing(a) /\ Playing(b)
      /\ \/ cl[a].player.chr = cl[b].player.chr
         \/ chars \subseteq listed /\ Shop \notin {cl[a].server, cl[b].server}

\* Whoever plays a character has everything that was ever done with it: no
\* change of server, kick or lost connection makes a player go on from an older
\* copy, be it a transfer left behind or the database.
Latest == NoLapse => \A a \in Client :
    Playing(a) => cl[a].player.ver = played[cl[a].player.chr]

\* The database never goes back to an older copy of a character.
SavesForward == [][NoLapse => \A c \in Char : saved'[c] >= saved[c]]_vars

\* World.Find names the server in whose storage a character is, and a channel
\* holds no character whose connection is gone: removal by id neither leaves
\* an entry behind nor takes another connection's away.  (The cash shop does
\* keep a character whose connection was closed from elsewhere, until the
\* character is next selected.)
Located == NoLapse => \A p \in Place, c \in Char : online[p][c] # None =>
    find[c] = p /\ (p = Shop \/ cl[online[p][c]].at # "gone")
=============================================================================
