-------------------------------- MODULE Saving --------------------------------
(***************************************************************************)
(* Characters, their storage rooms and the database.                       *)
(*                                                                         *)
(* MapleCharacter.saveToDB writes a character in one transaction, reading  *)
(* the belongings from memory bit by bit as it goes; a statement that      *)
(* fails is mostly swallowed, and the transaction commits what there is.   *)
(* The storage room is also saved alone, statement by statement, when      *)
(* something is taken out (NPCHandler.Storage).  Characters are saved by   *)
(* the event loop that serves them, by the console's "save all" button, on *)
(* its own thread, and by the login server's loops, which disconnect them  *)
(* while their own loop goes on.  The server may stop at any moment;       *)
(* stopping it properly saves no character either (ShutdownServer.run).    *)
(*                                                                         *)
(* A Token is an item or, in Meso, an amount of mesos.  ground, hand (what *)
(* a character offers in a trade) and a token a handler is moving are in   *)
(* memory only.                                                            *)
(***************************************************************************)
EXTENDS Naturals, FiniteSets

CONSTANTS Char,      \* characters, each on an account of its own
          Token, Meso,
          Loop, LoopOf, \* event loops, and the loop that serves a character
          Other,     \* threads of the console's save button, loops of the login server
          None,
          MaxFaults  \* bound: SQL statements that fail

ASSUME SavingAssumption ==
    /\ Meso \subseteq Token
    /\ LoopOf \in [Char -> Loop]
    /\ Other \cap Loop = {}
    /\ None \notin Token \cup Char
    /\ None \notin (SUBSET Token) \X (SUBSET Token)
    /\ MaxFaults \in Nat
    /\ IsFiniteSet(Token) /\ IsFiniteSet(Loop) /\ IsFiniteSet(Other)

Thread == Loop \cup Other
Part == {"inv", "sto"}

VARIABLES
    online,    \* the characters in a PlayerStorage
    inv, sto,  \* belongings and storage rooms in memory; offline: what was there last
    hand,      \* offered in a trade
    trade,     \* the partner of a trade
    ground,    \* lying on maps
    changed,   \* MapleStorage.changed
    dbInv,     \* committed rows: belongings and mesos of a character
    dbSto,     \* committed rows of a storage room, each with the thread that wrote it
    task,      \* what a thread is executing
    faults,
    \* History, for the properties only:
    clean,     \* the parts that were written right and have not changed since
    damaged,   \* characters whose last write was not a whole save
    left,      \* characters that left after a save without fault
    late       \* characters that went on while a thread of Other took them out

mem  == <<online, inv, sto, hand, trade, ground, changed>>
db   == <<dbInv, dbSto>>
hist == <<clean, damaged, left, late>>
vars == <<mem, db, task, faults, hist>>

Row == Token \X Thread

(***************************************************************************)
(* A task: pc names its next statement, who is the character concerned,    *)
(* add and del the rows the transaction has inserted and deleted, list     *)
(* what is still to be inserted, room whether it has written the storage   *)
(* room, item the token being moved, after what follows the save.  seen    *)
(* and whole are history: the parts read that have not changed since, and  *)
(* whether the copy is of one instant and complete.                        *)
(***************************************************************************)
Idle == [pc |-> "idle", who |-> None, inv |-> {}, add |-> {}, del |-> {},
         list |-> {}, room |-> FALSE, item |-> None, after |-> "end", seen |-> {}, whole |-> TRUE]

Pc == {"idle", "row", "lock", "inv", "rest", "sto", "commit", "update", "delete", "insert",
       "putting", "taking", "fits", "after"}
After == {"end", "gain", "lose", "partner", "quit"}

Task == [pc : Pc, who : Char \cup {None}, inv : SUBSET Token, add : SUBSET Row,
         del : SUBSET Row, list : SUBSET Token, room : BOOLEAN, item : Token \cup {None},
         after : After, seen : SUBSET Part, whole : BOOLEAN]

TypeOK ==
    /\ online \in SUBSET Char
    /\ inv \in [Char -> SUBSET Token] /\ sto \in [Char -> SUBSET Token]
    /\ hand \in [Char -> SUBSET Token] /\ ground \in SUBSET Token
    /\ trade \in [Char -> Char \cup {None}]
    /\ changed \in [Char -> BOOLEAN]
    /\ dbInv \in [Char -> SUBSET Token] /\ dbSto \in [Char -> SUBSET Row]
    /\ task \in [Thread -> Task]
    /\ faults \in 0..MaxFaults
    /\ clean \in SUBSET (Char \X Part)
    /\ damaged \in [Char -> BOOLEAN] /\ left \in [Char -> BOOLEAN]
    /\ late \in SUBSET Char

Content(rows) == {r[1] : r \in rows}
OneRowEach(c) == Cardinality(dbSto[c]) = Cardinality(Content(dbSto[c]))

-----------------------------------------------------------------------------
(* Threads.                                                                *)

Free(l) == task[l].pc = "idle"
Begin(c, pc, item, after) ==
    [Idle EXCEPT !.pc = pc, !.who = c, !.item = item, !.after = after]

\* Saves of c that have read the inventory and not yet the storage room.
HalfRead == {"rest", "sto"}
\* Some transaction has written c's storage rows and not committed.
RowsLocked(c) == \E t \in Thread : task[t].who = c /\ task[t].room

(***************************************************************************)
(* The bookkeeping of a change of c's parts P: saves in progress have read *)
(* something else, and one that is half through has a torn copy.           *)
(***************************************************************************)
Noticed(tasks, c, P) ==
    [t \in Thread |->
        IF tasks[t].who # c THEN tasks[t]
        ELSE [tasks[t] EXCEPT
                !.seen = @ \ P,
                !.whole = @ /\ ~(\/ tasks[t].pc \in HalfRead /\ "sto" \in P
                                 \/ tasks[t].pc \in {"lock", "inv"})]]

\* Those of S whom a thread of Other has begun to read for the last time, or who
\* are gone already.
Overtaken(S) == {c \in S : \/ c \notin online
                           \/ \E t \in Other : /\ task[t].who = c /\ task[t].after = "quit"
                                              /\ task[t].pc # "row"}
Dirtied(c, P) == clean' = clean \ ({c} \X P) /\ late' = late \cup Overtaken({c})

Unsaved == UNCHANGED <<db, faults, damaged, left>>

-----------------------------------------------------------------------------
(* Play: belongings that move in memory, without a save.                   *)

Drop(c, k) ==
    /\ c \in online /\ Free(LoopOf[c]) /\ k \in inv[c]
    /\ inv' = [inv EXCEPT ![c] = @ \ {k}]
    /\ ground' = ground \cup {k}
    /\ task' = Noticed(task, c, {"inv"}) /\ Dirtied(c, {"inv"})
    /\ UNCHANGED <<online, sto, hand, trade, changed>> /\ Unsaved

PickUp(c, k) ==
    /\ c \in online /\ Free(LoopOf[c]) /\ k \in ground
    /\ inv' = [inv EXCEPT ![c] = @ \cup {k}]
    /\ ground' = ground \ {k}
    /\ task' = Noticed(task, c, {"inv"}) /\ Dirtied(c, {"inv"})
    /\ UNCHANGED <<online, sto, hand, trade, changed>> /\ Unsaved

\* Traders are served by one loop: see the module Trade.
StartTrade(c, d) ==
    /\ {c, d} \subseteq online /\ c # d /\ LoopOf[c] = LoopOf[d] /\ Free(LoopOf[c])
    /\ trade[c] = None /\ trade[d] = None
    /\ trade' = [trade EXCEPT ![c] = d, ![d] = c]
    /\ UNCHANGED <<online, inv, sto, hand, ground, changed, task, clean, late>> /\ Unsaved

Offer(c, k) ==
    /\ c \in online /\ Free(LoopOf[c]) /\ trade[c] # None /\ k \in inv[c]
    /\ inv' = [inv EXCEPT ![c] = @ \ {k}]
    /\ hand' = [hand EXCEPT ![c] = @ \cup {k}]
    /\ task' = Noticed(task, c, {"inv"}) /\ Dirtied(c, {"inv"})
    /\ UNCHANGED <<online, sto, trade, ground, changed>> /\ Unsaved

\* Both sides get back what they offered; one that is gone gets nothing.
Refunded(S) == {c \in S \cap online : hand[c] # {}}
TakenBack(S) ==
    /\ inv' = [c \in Char |-> IF c \in Refunded(S) THEN inv[c] \cup hand[c] ELSE inv[c]]
    /\ hand' = [c \in Char |-> IF c \in S THEN {} ELSE hand[c]]
    /\ trade' = [c \in Char |-> IF c \in S THEN None ELSE trade[c]]
    /\ clean' = clean \ {<<c, "inv">> : c \in Refunded(S)}
    /\ late' = late \cup Overtaken(Refunded(S))

Traders(c) == IF trade[c] = None THEN {} ELSE {c, trade[c]}
NoticedAll(tasks, S) ==
    [t \in Thread |->
        IF tasks[t].who \in Refunded(S)
        THEN Noticed(tasks, tasks[t].who, {"inv"})[t] ELSE tasks[t]]

CancelTrade(c) ==
    /\ c \in online /\ Free(LoopOf[c]) /\ trade[c] # None
    /\ TakenBack(Traders(c))
    /\ task' = NoticedAll(task, Traders(c))
    /\ UNCHANGED <<online, sto, ground, changed>> /\ Unsaved

(***************************************************************************)
(* completeTrade: the one who confirms last gets the partner's offer and   *)
(* is saved, then the partner gets the other one and is saved, both by     *)
(* this thread.                                                            *)
(***************************************************************************)
CompleteTrade(c) ==
    /\ c \in online /\ Free(LoopOf[c]) /\ trade[c] # None
    /\ inv' = [inv EXCEPT ![c] = @ \cup hand[trade[c]]]
    /\ hand' = [hand EXCEPT ![trade[c]] = {}]
    /\ task' = [Noticed(task, c, {"inv"}) EXCEPT
                    ![LoopOf[c]] = Begin(c, "row", None, "partner")]
    /\ Dirtied(c, {"inv"})
    /\ UNCHANGED <<online, sto, trade, ground, changed>> /\ Unsaved

PartnerCompletes(l) ==
    LET c == task[l].who
        d == trade[c]
    IN  /\ task[l].pc = "after" /\ task[l].after = "partner"
        /\ inv' = [inv EXCEPT ![d] = @ \cup hand[c]]
        /\ hand' = [hand EXCEPT ![c] = {}]
        /\ trade' = [trade EXCEPT ![c] = None, ![d] = None]
        /\ task' = [Noticed(task, d, {"inv"}) EXCEPT ![l] = Begin(d, "row", None, "end")]
        /\ Dirtied(d, {"inv"})
        /\ UNCHANGED <<online, sto, ground, changed>> /\ Unsaved

\* It ends in a NullPointerException when the partner is gone, and the offer is lost.
PartnerIsGone(l) ==
    LET c == task[l].who
        d == trade[c]
    IN  /\ task[l].pc = "after" /\ task[l].after = "partner" /\ d \notin online
        /\ hand' = [hand EXCEPT ![c] = {}]
        /\ trade' = [trade EXCEPT ![c] = None, ![d] = None]
        /\ task' = [task EXCEPT ![l] = Idle]
        /\ UNCHANGED <<online, inv, sto, ground, changed, clean, late>> /\ Unsaved

-----------------------------------------------------------------------------
(* The storage room, NPCHandler.Storage.                                   *)

\* Mode 5: out of the inventory ...
Store(c, k) ==
    /\ c \in online /\ Free(LoopOf[c]) /\ k \in inv[c] \ Meso
    /\ inv' = [inv EXCEPT ![c] = @ \ {k}]
    /\ task' = [Noticed(task, c, {"inv"}) EXCEPT ![LoopOf[c]] = Begin(c, "putting", k, "end")]
    /\ Dirtied(c, {"inv"})
    /\ UNCHANGED <<online, sto, hand, trade, ground, changed>> /\ Unsaved

\* ... and into the room, which is not saved.
PutIn(l) ==
    LET c == task[l].who
    IN  /\ task[l].pc = "putting"
        /\ sto' = [sto EXCEPT ![c] = @ \cup {task[l].item}]
        /\ changed' = [changed EXCEPT ![c] = TRUE]
        /\ task' = [Noticed(task, c, {"sto"}) EXCEPT ![l] = Idle]
        /\ Dirtied(c, {"sto"})
        /\ UNCHANGED <<online, inv, hand, trade, ground>> /\ Unsaved

\* Mutant of TakeOut: MapleStorage.takeOut does not set changed.
TakeOutUnmarked(c, k) ==
    /\ c \in online /\ Free(LoopOf[c]) /\ k \in sto[c] \ Meso
    /\ sto' = [sto EXCEPT ![c] = @ \ {k}]
    /\ task' = [Noticed(task, c, {"sto"}) EXCEPT ![LoopOf[c]] = Begin(c, "taking", k, "end")]
    /\ Dirtied(c, {"sto"})
    /\ UNCHANGED <<online, inv, hand, trade, ground, changed>> /\ Unsaved

\* Mode 4: out of the room, before any check ...
TakeOut(c, k) ==
    /\ c \in online /\ Free(LoopOf[c]) /\ k \in sto[c] \ Meso
    /\ sto' = [sto EXCEPT ![c] = @ \ {k}]
    /\ changed' = [changed EXCEPT ![c] = TRUE]
    /\ task' = [Noticed(task, c, {"sto"}) EXCEPT ![LoopOf[c]] = Begin(c, "taking", k, "end")]
    /\ Dirtied(c, {"sto"})
    /\ UNCHANGED <<online, inv, hand, trade, ground>> /\ Unsaved

\* ... back again when too soon (no save), or when it does not fit (the whole
\* character is saved) ...
PutBack(l, next) ==
    LET c == task[l].who
    IN  /\ task[l].pc = "taking"
        /\ sto' = [sto EXCEPT ![c] = @ \cup {task[l].item}]
        /\ changed' = [changed EXCEPT ![c] = TRUE]
        /\ task' = [Noticed(task, c, {"sto"}) EXCEPT ![l] = next]
        /\ Dirtied(c, {"sto"})
        /\ UNCHANGED <<online, inv, hand, trade, ground>> /\ Unsaved
TooSoon(l) == PutBack(l, Idle)
DoesNotFit(l) == PutBack(l, Begin(task[l].who, "row", None, "end"))

\* ... or into the inventory, and the room is saved alone.
Fits(l) ==
    LET c == task[l].who
    IN  /\ task[l].pc = "taking"
        /\ inv' = [inv EXCEPT ![c] = @ \cup {task[l].item}]
        /\ task' = [Noticed(task, c, {"inv"}) EXCEPT ![l] = Begin(c, "update", None, "end")]
        /\ Dirtied(c, {"inv"})
        /\ UNCHANGED <<online, sto, hand, trade, ground, changed>> /\ Unsaved

\* The player was taken out meanwhile: a NullPointerException, the item is lost.
TakerIsGone(l) ==
    /\ task[l].pc = "taking" /\ task[l].who \notin online
    /\ task' = [task EXCEPT ![l] = Idle]
    /\ UNCHANGED <<mem, db, faults, hist>>

\* Mode 7, mesos: the room's amount, the room saved alone, then the purse.
MoveMesos(c, k, after) ==
    /\ c \in online /\ Free(LoopOf[c]) /\ k \in Meso
    /\ IF after = "lose" THEN k \in inv[c] /\ sto' = [sto EXCEPT ![c] = @ \cup {k}]
                         ELSE k \in sto[c] /\ sto' = [sto EXCEPT ![c] = @ \ {k}]
    /\ changed' = [changed EXCEPT ![c] = TRUE]
    /\ task' = [Noticed(task, c, {"sto"}) EXCEPT ![LoopOf[c]] = Begin(c, "update", k, after)]
    /\ Dirtied(c, {"sto"})
    /\ UNCHANGED <<online, inv, hand, trade, ground>> /\ Unsaved
Deposit(c, k) == k \notin sto[c] /\ MoveMesos(c, k, "lose")
Withdraw(c, k) == k \notin inv[c] /\ MoveMesos(c, k, "gain")

Purse(l) ==
    LET c == task[l].who
        k == task[l].item
    IN  /\ task[l].pc = "after" /\ task[l].after \in {"gain", "lose"}
        /\ inv' = [inv EXCEPT ![c] = IF task[l].after = "gain" THEN @ \cup {k} ELSE @ \ {k}]
        /\ task' = [Noticed(task, c, {"inv"}) EXCEPT ![l] = Idle]
        /\ Dirtied(c, {"inv"})
        /\ UNCHANGED <<online, sto, hand, trade, ground, changed>> /\ Unsaved

-----------------------------------------------------------------------------
(* MapleStorage.saveToDB on a connection of its own: every statement       *)
(* commits at once.  It waits for rows a transaction has written.          *)

\* Mutant of Ending: a handler that has written a storage room never returns.
EndingStuck(t) == IF task[t].after = "end" /\ (t \in Loop => ~task[t].room) THEN Idle
                  ELSE Begin(task[t].who, "after", task[t].item, task[t].after)
Ending(t) == IF task[t].after = "end" THEN Idle
             ELSE Begin(task[t].who, "after", task[t].item, task[t].after)

\* A transaction that was about to commit gets company in its record.
Meddled(tasks, c) ==
    [t \in Thread |-> IF tasks[t].who = c /\ tasks[t].pc = "commit"
                      THEN [tasks[t] EXCEPT !.whole = FALSE, !.seen = @ \ {"sto"}]
                      ELSE tasks[t]]

ApartUpdate(l) ==
    LET c == task[l].who
        mesos == {r \in dbSto[c] : r[1] \in Meso}
    IN  /\ task[l].pc = "update"
        /\ IF ~changed[c]
           THEN /\ task' = [task EXCEPT ![l] = Ending(l)]
                /\ UNCHANGED <<dbSto, damaged>>
           ELSE /\ ~RowsLocked(c)
                /\ dbSto' = [dbSto EXCEPT ![c] = (@ \ mesos) \cup ((sto[c] \cap Meso) \X {l})]
                /\ damaged' = [damaged EXCEPT ![c] = TRUE]
                /\ task' = [Meddled(task, c) EXCEPT
                                ![l].pc = "delete", ![l].list = sto[c] \ Meso,
                                ![l].seen = {"sto"}]
        /\ UNCHANGED <<mem, dbInv, faults, clean, left, late>>

ApartDelete(l) ==
    LET c == task[l].who
    IN  /\ task[l].pc = "delete" /\ ~RowsLocked(c)
        /\ dbSto' = [dbSto EXCEPT ![c] = {r \in @ : r[1] \in Meso}]
        /\ task' = [Meddled(task, c) EXCEPT ![l].pc = "insert"]
        /\ clean' = clean \ {<<c, "sto">>}
        /\ UNCHANGED <<mem, dbInv, faults, damaged, left, late>>

\* Rows the same thread is yet to write do not wait for the rows of others.
ApartInsert(l) ==
    LET c == task[l].who
    IN  /\ task[l].pc = "insert"
        /\ \/ \E k \in task[l].list :
                /\ dbSto' = [dbSto EXCEPT ![c] = @ \cup {<<k, l>>}]
                /\ task' = [Meddled(task, c) EXCEPT ![l].list = @ \ {k}]
                /\ clean' = clean \ {<<c, "sto">>}
           \/ /\ task[l].list = {}
              /\ task' = [task EXCEPT ![l] = Ending(l)]
              /\ clean' = IF task[l].whole /\ "sto" \in task[l].seen
                          THEN clean \cup {<<c, "sto">>} ELSE clean
              /\ UNCHANGED dbSto
        /\ UNCHANGED <<mem, dbInv, faults, damaged, left, late>>

\* A statement fails: saveItems swallows the exception and inserts no more.
ApartFails(l) ==
    /\ faults < MaxFaults /\ faults' = faults + 1
    /\ task[l].pc \in {"delete", "insert"} /\ ~RowsLocked(task[l].who)
    /\ task' = [task EXCEPT ![l] = Ending(l)]
    /\ clean' = clean \ {<<task[l].who, "sto">>}
    /\ UNCHANGED <<mem, db, damaged, left, late>>

-----------------------------------------------------------------------------
(* MapleCharacter.saveToDB: a transaction.                                 *)

Save(c) ==
    /\ c \in online /\ Free(LoopOf[c])
    /\ task' = [task EXCEPT ![LoopOf[c]] = Begin(c, "row", None, "end")]
    /\ UNCHANGED <<mem, db, faults, hist>>

SaveAll(t, c) ==
    /\ c \in online /\ Free(t)
    /\ task' = [task EXCEPT ![t] = Begin(c, "row", None, "end")]
    /\ UNCHANGED <<mem, db, faults, hist>>

InTransaction(t) == task[t].pc \in {"inv", "rest", "sto", "commit"}

\* UPDATE characters: level, mesos and so on are read ...
ReadRow(t) ==
    LET c == task[t].who
    IN  /\ task[t].pc = "row"
        /\ task' = [task EXCEPT ![t].pc = "lock", ![t].inv = inv[c] \cap Meso,
                                ![t].seen = {"inv"}]
        /\ UNCHANGED <<mem, db, faults, hist>>

\* Mutant of UpdateRow: it locks nothing, as in a table without transactions.
UpdateRowUnlocked(t) ==
    /\ task[t].pc = "lock"
    /\ task' = [task EXCEPT ![t].pc = "inv"]
    /\ UNCHANGED <<mem, db, faults, hist>>

\* ... and, once the row is free, written, which locks it.
UpdateRow(t) ==
    /\ task[t].pc = "lock"
    /\ \A u \in Thread : task[u].who = task[t].who => ~InTransaction(u)
    /\ task' = [task EXCEPT ![t].pc = "inv"]
    /\ UNCHANGED <<mem, db, faults, hist>>

\* saveInventory: delete, then insert what the inventories hold.
SaveInventory(t) ==
    LET c == task[t].who
    IN  /\ task[t].pc = "inv"
        /\ task' = [task EXCEPT ![t].pc = "rest", ![t].inv = @ \cup (inv[c] \ Meso)]
        /\ UNCHANGED <<mem, db, faults, hist>>

\* A failing insertion is swallowed: the rest of the items is missing.
InventoryFails(t) ==
    LET c == task[t].who
    IN  /\ task[t].pc = "inv" /\ faults < MaxFaults /\ faults' = faults + 1
        /\ \E S \in SUBSET (inv[c] \ Meso) :
              /\ S # inv[c] \ Meso
              /\ task' = [task EXCEPT ![t].pc = "rest", ![t].inv = @ \cup S,
                                      ![t].whole = FALSE, ![t].seen = @ \ {"inv"}]
        /\ UNCHANGED <<mem, db, hist>>

\* Quests, skills, buddies, points; a failure skips all the rest, the storage
\* room included, and setAutoCommit commits.
SaveRest(t) ==
    /\ task[t].pc = "rest"
    /\ task' = [task EXCEPT ![t].pc = "sto"]
    /\ UNCHANGED <<mem, db, faults, hist>>

RestFails(t) ==
    LET c == task[t].who
    IN  /\ task[t].pc = "rest" /\ faults < MaxFaults /\ faults' = faults + 1
        /\ task' = [task EXCEPT ![t].pc = "commit", ![t].whole = FALSE]
        /\ UNCHANGED <<mem, db, hist>>

(***************************************************************************)
(* The storage room within the transaction.  When the room is being saved  *)
(* apart at this moment, both write its rows.                              *)
(***************************************************************************)
Apart(c) == {u \in Thread : task[u].who = c /\ task[u].pc \in {"delete", "insert"}}

\* Transaction t has written rows for the contents S of the storage room.
RoomWritten(t, S, right) ==
    LET c == task[t].who
        alone == Apart(c) = {}
    IN  [u \in Thread |->
            IF u = t
            THEN [task[t] EXCEPT !.pc = "commit", !.room = TRUE, !.del = dbSto[c],
                                 !.add = S \X {t}, !.whole = @ /\ right /\ alone,
                                 !.seen = IF right /\ alone THEN @ \cup {"sto"} ELSE @]
            ELSE IF u \in Apart(c) THEN [task[u] EXCEPT !.whole = FALSE]
            ELSE task[u]]

\* Mutant of SaveStorage: the rows of the room are not deleted first.
SaveStorageAppends(t) ==
    LET c == task[t].who
    IN  /\ task[t].pc = "sto"
        /\ task' = IF ~changed[c] THEN [task EXCEPT ![t].pc = "commit"]
                   ELSE [RoomWritten(t, sto[c], TRUE) EXCEPT ![t].del = {}]
        /\ UNCHANGED <<mem, db, faults, hist>>

\* Mutant of SaveStorage: on a connection of its own, outside the transaction.
SaveStorageOutside(t) ==
    LET c == task[t].who
    IN  /\ task[t].pc = "sto"
        /\ dbSto' = IF changed[c] THEN [dbSto EXCEPT ![c] = sto[c] \X {t}] ELSE dbSto
        /\ task' = [task EXCEPT ![t].pc = "commit"]
        /\ UNCHANGED <<mem, dbInv, faults, hist>>

SaveStorage(t) ==
    LET c == task[t].who
    IN  /\ task[t].pc = "sto"
        /\ task' = IF changed[c] THEN RoomWritten(t, sto[c], TRUE)
                   ELSE [task EXCEPT ![t].pc = "commit"]
        /\ UNCHANGED <<mem, db, faults, hist>>

\* saveItems fails on the storage rows: swallowed as well.
StorageFails(t) ==
    LET c == task[t].who
    IN  /\ task[t].pc = "sto" /\ changed[c]
        /\ faults < MaxFaults /\ faults' = faults + 1
        /\ \E S \in SUBSET (sto[c] \ Meso) :
              /\ S # sto[c] \ Meso
              /\ task' = RoomWritten(t, S \cup (sto[c] \cap Meso), FALSE)
        /\ UNCHANGED <<mem, db, hist>>

Commit(t) ==
    LET c == task[t].who
        k == task[t]
        good == {<<c, p>> : p \in k.seen}
        written == {<<c, "inv">>} \cup (IF k.room THEN {<<c, "sto">>} ELSE {})
    IN  /\ k.pc = "commit"
        /\ dbInv' = [dbInv EXCEPT ![c] = k.inv]
        /\ dbSto' = [dbSto EXCEPT ![c] = (@ \ k.del) \cup k.add]
        /\ clean' = (clean \ written) \cup good
        /\ damaged' = [damaged EXCEPT ![c] = ~k.whole]
        /\ left' = [left EXCEPT ![c] = (k.after = "quit" \/ @) /\ k.whole]
        /\ task' = [task EXCEPT ![t] = Ending(t)]
        /\ UNCHANGED <<mem, faults, late>>

\* No connection: saveToDB ends in a NullPointerException.
NoConnection(t) ==
    /\ task[t].pc = "row" /\ faults < MaxFaults /\ faults' = faults + 1
    /\ task' = [task EXCEPT ![t] = Ending(t)]
    /\ UNCHANGED <<mem, db, hist>>

-----------------------------------------------------------------------------
(* Coming, going and stopping.                                             *)

\* A loop is handing over what c and its partner offered: both sides are locked.
Completing(c) == \E l \in Loop : task[l].after = "partner" /\ task[l].who \in Traders(c)

\* MapleClient.disconnect, by the character's own loop or by one of the login
\* server: the trade is cancelled if it is not being completed, the character
\* saved ...
Quit(c, t) ==
    LET S == IF Completing(c) THEN {} ELSE Traders(c)
    IN  /\ c \in online /\ Free(t)
        /\ TakenBack(S)
        /\ task' = [NoticedAll(task, S) EXCEPT ![t] = Begin(c, "row", None, "quit")]
        /\ UNCHANGED <<online, sto, ground, changed>> /\ Unsaved

\* ... and removed from the channel.
Gone(t) ==
    /\ task[t].pc = "after" /\ task[t].after = "quit"
    /\ online' = online \ {task[t].who}
    /\ task' = [task EXCEPT ![t] = Idle]
    /\ UNCHANGED <<inv, sto, hand, trade, ground, changed, db, faults, hist>>

\* loadCharFromDB, loadStorage.  Not while the old object is in use: being saved,
\* in a handler or in a trade.
Login(c) ==
    /\ c \notin online /\ Free(LoopOf[c]) /\ trade[c] = None
    /\ \A t \in Thread : task[t].who # c
    /\ online' = online \cup {c}
    /\ inv' = [inv EXCEPT ![c] = dbInv[c]]
    /\ sto' = [sto EXCEPT ![c] = Content(dbSto[c])]
    /\ changed' = [changed EXCEPT ![c] = FALSE]
    /\ clean' = clean \cup {<<c, "inv">>} \cup (IF OneRowEach(c) THEN {<<c, "sto">>} ELSE {})
    /\ left' = [left EXCEPT ![c] = FALSE] /\ late' = late \ {c}
    /\ UNCHANGED <<hand, trade, ground, db, task, faults, damaged>>

\* The process ends, killed or by ShutdownServer: open transactions are rolled back.
Stop ==
    /\ online # {}
    /\ online' = {} /\ ground' = {}
    /\ hand' = [c \in Char |-> {}] /\ trade' = [c \in Char |-> None]
    /\ task' = [t \in Thread |-> Idle]
    /\ UNCHANGED <<inv, sto, changed, db, faults, hist>>

-----------------------------------------------------------------------------
Init ==
    \E here \in SUBSET Token : \E owner \in [here -> Char \cup {None}] :
        /\ online \in SUBSET Char
        /\ inv = [c \in Char |-> {k \in here : owner[k] = c}]
        /\ ground = {k \in here : owner[k] = None}
        /\ sto = [c \in Char |-> {}] /\ hand = [c \in Char |-> {}]
        /\ trade = [c \in Char |-> None]
        /\ changed = [c \in Char |-> FALSE]
        /\ dbInv = inv /\ dbSto = [c \in Char |-> {}]
        /\ task = [t \in Thread |-> Idle]
        /\ faults = 0
        /\ clean = Char \X Part
        /\ damaged = [c \in Char |-> FALSE] /\ left = [c \in Char |-> FALSE]
        /\ late = {}

SaveStep(t) ==
    \/ ReadRow(t) \/ UpdateRow(t) \/ SaveInventory(t) \/ SaveRest(t) \/ SaveStorage(t) \/ Commit(t)
    \/ InventoryFails(t) \/ RestFails(t) \/ StorageFails(t) \/ NoConnection(t)
    \/ Gone(t)

LoopStep(l) ==
    \/ ApartUpdate(l) \/ ApartDelete(l) \/ ApartInsert(l) \/ ApartFails(l)
    \/ PutIn(l) \/ TooSoon(l) \/ DoesNotFit(l) \/ Fits(l) \/ Purse(l)
    \/ PartnerCompletes(l) \/ PartnerIsGone(l) \/ TakerIsGone(l)

Next ==
    \/ \E c \in Char : \/ Save(c) \/ Login(c)
                       \/ \E t \in {LoopOf[c]} \cup Other : Quit(c, t)
                       \/ CancelTrade(c) \/ CompleteTrade(c)
                       \/ \E d \in Char : StartTrade(c, d)
                       \/ \E k \in Token : \/ Drop(c, k) \/ PickUp(c, k) \/ Offer(c, k)
                                           \/ Store(c, k) \/ TakeOut(c, k)
                                           \/ Deposit(c, k) \/ Withdraw(c, k)
    \/ \E t \in Other, c \in Char : SaveAll(t, c)
    \/ \E t \in Thread : SaveStep(t)
    \/ \E l \in Loop : LoopStep(l)
    \/ Stop

Spec == Init /\ [][Next]_vars

\* Threads run, and the database grants a row to those who wait for it in
\* their order: hence strong fairness.  Nobody has to send a packet or to
\* press the button, and the server need not stop.
FairSpec == Spec /\ \A t \in Thread : SF_vars(SaveStep(t) \/ (t \in Loop /\ LoopStep(t)))

-----------------------------------------------------------------------------
(***************************************************************************)
(* What a save has written and nobody has changed since is in the          *)
(* database, one row for each item, whatever other saves have done.        *)
(***************************************************************************)
Clean ==
    \A c \in Char :
        /\ <<c, "inv">> \in clean => dbInv[c] = inv[c]
        /\ <<c, "sto">> \in clean => Content(dbSto[c]) = sto[c] /\ OneRowEach(c)

(***************************************************************************)
(* A character that left, and whose last save went through, finds all he   *)
(* had, in the inventory and in the storage room (MapleClient.disconnect), *)
(* unless the character was disconnected from another loop and its own     *)
(* went on with it: changed it after it was read (late), or was saving the *)
(* room alone (damaged).                                                   *)
(***************************************************************************)
KeptOnQuit ==
    \A c \in Char \ (online \cup late) :
        left[c] /\ ~damaged[c] => dbInv[c] = inv[c] /\ Content(dbSto[c]) = sto[c]

(***************************************************************************)
(* Every save that was begun comes to its end, and nothing waits for ever  *)
(* for the rows of another transaction.                                    *)
(***************************************************************************)
SavesEnd == \A t \in Thread : (task[t].pc # "idle") ~> (task[t].pc = "idle")

(***************************************************************************)
(* Refinement.  The copy of c is what the transaction has read of him,     *)
(* once that includes the inventory; the storage room is then still the    *)
(* same until it is read.                                                  *)
(***************************************************************************)
Copying(c) == {t \in Thread : task[t].who = c /\ task[t].whole
                                /\ task[t].pc \in HalfRead \cup {"commit"}}
CopyOf(c) ==
    IF Copying(c) = {} THEN None
    ELSE LET t == CHOOSE u \in Copying(c) : TRUE
         IN  <<task[t].inv,
               IF task[t].pc # "commit" THEN sto[c]
               ELSE IF task[t].room THEN Content(task[t].add) ELSE Content(dbSto[c])>>

Saved == INSTANCE Durable WITH
            Owner <- Char, NoCopy <- None,
            live <- [c \in Char |-> <<inv[c], sto[c]>>],
            saved <- [c \in Char |-> <<dbInv[c], Content(dbSto[c])>>],
            copy <- [c \in Char |-> CopyOf(c)],
            damaged <- damaged

\* Saving implements Durable: what a restart gives back of an undamaged
\* character is all he had at one instant.
Durability == Saved!Spec
=============================================================================
