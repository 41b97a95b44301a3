------------------------------ MODULE MapDrops ------------------------------
(***************************************************************************)
(* Drops lying on a map: MapleMapItem, the pickup handlers of              *)
(* InventoryHandler, the expiry pass of World.handleMap, item reactors,    *)
(* MapleMap.removeDrops, MapleMap.returnEverLastItem and the automatic     *)
(* vacuum of MapleMap.spawnMobDrop.                                        *)
(*                                                                         *)
(* Packet handlers run on Netty event loops: one handler at a time on a    *)
(* loop, the clients of different loops in parallel, and timer threads     *)
(* beside them.  Only the pickup handlers, the meso explosion of           *)
(* DamageParse and the pet vacuum of PetHandler take the item's            *)
(* ReentrantLock, and the last two never release it.  A step below is one  *)
(* lock operation or one access to shared state.                           *)
(***************************************************************************)
EXTENDS Naturals, FiniteSets

CONSTANTS
    Players,     \* characters on the map
    Drops,       \* object ids; each is spawned at most once
    Loops,       \* event-loop threads
    LoopOf,      \* the loop that serves each player's connection
    SameParty,   \* pairs of players who are in one party
    EverLast,    \* MapleMap.everlast
    AutoVacuum,  \* the configuration switches of the automatic vacuum
    Grabbers,    \* players who lock items by meso explosion or pet vacuum
    Cleaners,    \* threads that call MapleMapItem.expire
    Kinds,       \* the kinds of drop that are spawned, among DropRec
    None         \* null

DropRec == [owner: Players, playerDrop: BOOLEAN, type: 0..2,
            meso: BOOLEAN, timed: BOOLEAN]

ASSUME MapDropsAssumption ==
    /\ LoopOf \in [Players -> Loops]
    /\ SameParty \subseteq Players \X Players
    /\ EverLast \in BOOLEAN
    /\ AutoVacuum \in BOOLEAN
    /\ Grabbers \subseteq Players
    /\ Cleaners \subseteq {"respawn", "reactor", "reset"}
    /\ None \notin Players \cup Drops \cup Loops
    /\ Kinds \subseteq DropRec

VARIABLES
    where,     \* "unborn", in the map's object table ("map"), or "removed"
    pickedUp,  \* MapleMapItem.pickedUp
    drop,      \* owner, playerDrop, dropType, meso and timed of a spawned drop
    due,       \* which of nextFFA and nextExpiry have passed
    holder,    \* the loop whose thread owns the item's lock
    leaked,    \* that thread locked the item and will not unlock it
    picked,    \* times a pickup handler credited the contents
    returned,  \* times a path without the lock credited them
    handler,   \* the packet handler each loop is running
    cleaner    \* the expire() call each cleaning thread is running

items == <<where, pickedUp, drop, due>>
locks == <<holder, leaked>>
credits == <<picked, returned>>
vars == <<items, locks, credits, handler, cleaner>>

\* "lock".."unlock" are the pickups, "grab" and "grabLock" the handlers that
\* only lock, "vac.." and "meso.." the automatic vacuum of items and of mesos,
\* "back.." returnEverLastItem.
Pcs == {"idle", "lock", "check", "give", "mark", "remove",
        "petMark", "petRemove", "petGive", "unlock", "grab", "grabLock",
        "vacMark", "vacRemove", "vacGive", "mesoGive", "mesoMark", "mesoRemove", "back", "backGive", "backRemove"}

Handler == [pc: Pcs, who: Players \cup {None}, drop: Drops \cup {None},
            pet: BOOLEAN, todo: SUBSET Drops]
IdleHandler == [pc |-> "idle", who |-> None, drop |-> None,
                pet |-> FALSE, todo |-> {}]

Cleaner == [pc: {"idle", "mark", "remove"}, drop: Drops \cup {None}]
IdleCleaner == [pc |-> "idle", drop |-> None]

TypeOK ==
    /\ where \in [Drops -> {"unborn", "map", "removed"}]
    /\ pickedUp \in [Drops -> BOOLEAN]
    /\ drop \in [Drops -> DropRec \cup {None}]
    /\ due \in [Drops -> {"no", "ffa", "expire"}]
    /\ holder \in [Drops -> Loops \cup {None}]
    /\ leaked \in [Drops -> BOOLEAN]
    /\ picked \in [Drops -> Nat]
    /\ returned \in [Drops -> Nat]
    /\ handler \in [Loops -> Handler]
    /\ cleaner \in [Cleaners -> Cleaner]

Init ==
    /\ where = [d \in Drops |-> "unborn"]
    /\ pickedUp = [d \in Drops |-> FALSE]
    /\ drop = [d \in Drops |-> None]
    /\ due = [d \in Drops |-> "no"]
    /\ holder = [d \in Drops |-> None]
    /\ leaked = [d \in Drops |-> FALSE]
    /\ picked = [d \in Drops |-> 0]
    /\ returned = [d \in Drops |-> 0]
    /\ handler = [l \in Loops |-> IdleHandler]
    /\ cleaner = [t \in Cleaners |-> IdleCleaner]

OnMap == {d \in Drops : where[d] = "map"}

-----------------------------------------------------------------------------
(* Spawning.  spawnMobDrop and spawnMobMesoDrop always register the timers; *)
(* spawnItemDrop and spawnMesoDrop do not on an everlasting map.            *)

MobDrops == {r \in Kinds : ~r.playerDrop /\ r.timed}

OtherDrops == {r \in Kinds : r.timed = ~EverLast /\ (r.meso \/ r.type = 2)}

Place(d, r) ==
    /\ where[d] = "unborn"
    /\ where' = [where EXCEPT ![d] = "map"]
    /\ drop' = [drop EXCEPT ![d] = r]
    /\ UNCHANGED <<pickedUp, due, locks, credits, cleaner>>

SpawnDrop(d) ==
    \E r \in MobDrops \cup OtherDrops : Place(d, r) /\ UNCHANGED handler

\* spawnMobDrop and spawnMobMesoDrop on the killer's thread, with the automatic
\* vacuum on: the drop is put on the map, then taken off and credited (mesos:
\* credited and taken off), without its lock.
SpawnAndVacuum(l, d) ==
    /\ AutoVacuum
    /\ handler[l].pc = "idle"
    /\ \E r \in MobDrops :
        /\ LoopOf[r.owner] = l
        /\ Place(d, r)
        /\ handler' = [handler EXCEPT ![l] =
               [pc |-> IF r.meso THEN "mesoGive" ELSE "vacMark",
                who |-> r.owner, drop |-> d, pet |-> TRUE, todo |-> {}]]

\* 30 s and 120 s after the spawn.
Tick(d) ==
    /\ where[d] = "map"
    /\ drop[d].timed
    /\ due[d] # "expire"
    /\ due' = [due EXCEPT ![d] = IF @ = "no" THEN "ffa" ELSE "expire"]
    /\ UNCHANGED <<where, pickedUp, drop, locks, credits, handler, cleaner>>

-----------------------------------------------------------------------------
(* The cleaning threads.                                                    *)

FreeForAll(t) ==
    /\ t = "respawn"
    /\ cleaner[t].pc = "idle"
    /\ \E d \in OnMap :
        /\ ~pickedUp[d]
        /\ due[d] = "ffa"
        /\ drop[d].type < 2
        /\ drop' = [drop EXCEPT ![d].type = 2]
    /\ UNCHANGED <<where, pickedUp, due, locks, credits, handler, cleaner>>

\* removeDrops works on a snapshot of the table, so its item may have gone.
Expirable(t, d) ==
    \/ t = "respawn" /\ where[d] = "map" /\ ~pickedUp[d] /\ due[d] = "expire"
    \/ t = "reactor" /\ where[d] = "map" /\ ~pickedUp[d] /\ ~drop[d].meso
    \/ t = "reset" /\ where[d] # "unborn"

StartExpire(t) ==
    /\ cleaner[t].pc = "idle"
    /\ \E d \in Drops :
        /\ Expirable(t, d)
        /\ cleaner' = [cleaner EXCEPT ![t] = [pc |-> "mark", drop |-> d]]
    /\ UNCHANGED <<items, locks, credits, handler>>

ExpireMark(t) ==
    /\ cleaner[t].pc = "mark"
    /\ pickedUp' = [pickedUp EXCEPT ![cleaner[t].drop] = TRUE]
    /\ cleaner' = [cleaner EXCEPT ![t].pc = "remove"]
    /\ UNCHANGED <<where, drop, due, locks, credits, handler>>

\* Mutant of ExpireRemove: expire() only marks the item.
ExpireKeeps(t) ==
    /\ cleaner[t].pc = "remove"
    /\ cleaner' = [cleaner EXCEPT ![t] = IdleCleaner]
    /\ UNCHANGED <<items, locks, credits, handler>>

ExpireRemove(t) ==
    /\ cleaner[t].pc = "remove"
    /\ where' = [where EXCEPT ![cleaner[t].drop] = "removed"]
    /\ cleaner' = [cleaner EXCEPT ![t] = IdleCleaner]
    /\ UNCHANGED <<pickedUp, drop, due, locks, credits, handler>>

-----------------------------------------------------------------------------
(* PlayerPickup and PetPickup.                                              *)

Goto(l, pc) == handler' = [handler EXCEPT ![l].pc = pc]
Finish(l) == handler' = [handler EXCEPT ![l] = IdleHandler]
MoveOn(l, pc) == IF pc = "idle" THEN Finish(l) ELSE Goto(l, pc)
Take(l, pc, d) ==
    handler' = [handler EXCEPT ![l].pc = pc, ![l].drop = d, ![l].todo = @ \ {d}]

\* getMapObject finds the item; the handler goes on to lock it.
StartPickup(l) ==
    /\ handler[l].pc = "idle"
    /\ \E p \in Players, d \in OnMap, pet \in BOOLEAN :
        /\ LoopOf[p] = l
        /\ handler' = [handler EXCEPT ![l] =
               [pc |-> "lock", who |-> p, drop |-> d, pet |-> pet, todo |-> {}]]
    /\ UNCHANGED <<items, locks, credits, cleaner>>

\* Mutant of LockFree: pickups do not exclude each other.
LockIgnored(l, d) == l \in Loops /\ d \in Drops

\* A ReentrantLock lets its owner's thread in again.
LockFree(l, d) == holder[d] \in {None, l}

Lock(l) ==
    /\ handler[l].pc = "lock"
    /\ LockFree(l, handler[l].drop)
    /\ holder' = [holder EXCEPT ![handler[l].drop] = l]
    /\ Goto(l, "check")
    /\ UNCHANGED <<items, leaked, credits, cleaner>>

\* The ownership guards the two pickup handlers share.
MayTake(p, d) ==
    \/ drop[d].owner = p
    \/ drop[d].playerDrop /\ ~EverLast
    \/ ~drop[d].playerDrop /\ drop[d].type = 2
    \/ ~drop[d].playerDrop /\ drop[d].type = 1 /\ <<p, drop[d].owner>> \in SameParty

\* A pet never picks up another player's drop, nor its owner's own free drop.
PetMayTake(p, d) ==
    drop[d].playerDrop => drop[d].owner = p /\ drop[d].type # 2

\* Mutant of Allowed: pets skip the guards that players pass.
AllowedToPets(p, d, pet) ==
    ~pickedUp[d] /\ (IF pet THEN PetMayTake(p, d) ELSE MayTake(p, d))

Allowed(p, d, pet) ==
    ~pickedUp[d] /\ MayTake(p, d) /\ (pet => PetMayTake(p, d))

Check(l) ==
    LET h == handler[l]
    IN  /\ h.pc = "check"
        /\ IF Allowed(h.who, h.drop, h.pet)
             THEN Goto(l, "give")
             ELSE Goto(l, "unlock")
        /\ UNCHANGED <<items, locks, credits, cleaner>>

\* The second getMapObject, and the credit: mesos, an item consumed on pickup
\* or, for a player, addFromDrop.  A pet's item is taken off the map first.  An
\* item may be blocked, find no room or be refused; an item consumed on pickup
\* takes effect even when the drop has gone meanwhile.
Give(l) ==
    LET d == handler[l].drop
        Credit == picked' = [picked EXCEPT ![d] = @ + 1]
    IN  /\ handler[l].pc = "give"
        /\ \/ where[d] = "map" /\ Credit /\ Goto(l, "mark")
           \/ /\ where[d] = "map" /\ handler[l].pet /\ ~drop[d].meso
              /\ Goto(l, "petMark") /\ UNCHANGED picked
           \/ where[d] # "map" /\ ~drop[d].meso /\ Credit /\ Goto(l, "unlock")
           \/ /\ where[d] = "map" => ~drop[d].meso
              /\ Goto(l, "unlock") /\ UNCHANGED picked
        /\ UNCHANGED <<items, locks, returned, cleaner>>

\* removeItem and removeItemPet.
Mark(l, from, to) ==
    /\ handler[l].pc = from
    /\ pickedUp' = [pickedUp EXCEPT ![handler[l].drop] = TRUE]
    /\ Goto(l, to)
    /\ UNCHANGED <<where, drop, due, locks, credits, cleaner>>

\* Mutant of Remove: returnEverLastItem leaves the item on the map.
RemoveUnlessBack(l, from, to) ==
    /\ handler[l].pc = from
    /\ where' = [where EXCEPT ![handler[l].drop] =
                    IF from = "backRemove" THEN @ ELSE "removed"]
    /\ MoveOn(l, to)
    /\ UNCHANGED <<pickedUp, drop, due, locks, credits, cleaner>>

Remove(l, from, to) ==
    /\ handler[l].pc = from
    /\ where' = [where EXCEPT ![handler[l].drop] = "removed"]
    /\ MoveOn(l, to)
    /\ UNCHANGED <<pickedUp, drop, due, locks, credits, cleaner>>

\* A pet's item leaves the map first; if addFromDrop then refuses it, it is gone.
PetGive(l) ==
    /\ handler[l].pc = "petGive"
    /\ picked' \in {picked, [picked EXCEPT ![handler[l].drop] = @ + 1]}
    /\ Goto(l, "unlock")
    /\ UNCHANGED <<items, locks, returned, cleaner>>

\* Mutant of Unlock: the handler returns without its finally block.
UnlockMissing(l) ==
    /\ handler[l].pc = "unlock"
    /\ Finish(l)
    /\ UNCHANGED <<items, locks, credits, cleaner>>

Unlock(l) ==
    /\ handler[l].pc = "unlock"
    /\ holder' = [holder EXCEPT ![handler[l].drop] =
                     IF leaked[handler[l].drop] THEN @ ELSE None]
    /\ Finish(l)
    /\ UNCHANGED <<items, leaked, credits, cleaner>>

Pickup(l) ==
    \/ Lock(l) \/ Check(l) \/ Give(l) \/ PetGive(l) \/ Unlock(l)
    \/ Mark(l, "mark", "remove") \/ Remove(l, "remove", "unlock")
    \/ Mark(l, "petMark", "petRemove") \/ Remove(l, "petRemove", "petGive")

-----------------------------------------------------------------------------
(* Meso explosion (the targets named in the packet) and the pet vacuum (all *)
(* items of the map): lock one after the other, unlock none.                *)

StartGrab(l) ==
    /\ handler[l].pc = "idle"
    /\ \E p \in Grabbers, explosion \in BOOLEAN, s \in SUBSET Drops :
        /\ LoopOf[p] = l
        /\ s # {}
        /\ IF explosion THEN \A d \in s : where[d] # "unborn" ELSE s = OnMap
        /\ handler' = [handler EXCEPT ![l] =
               [pc |-> "grab", who |-> p, drop |-> None,
                pet |-> ~explosion, todo |-> s]]
    /\ UNCHANGED <<items, locks, credits, cleaner>>

\* An explosion stops at the first object that is not on the map.
Grab(l) ==
    /\ handler[l].pc = "grab"
    /\ \/ handler[l].todo = {} /\ Finish(l)
       \/ \E d \in handler[l].todo :
            IF handler[l].pet \/ where[d] = "map"
              THEN Take(l, "grabLock", d)
              ELSE Finish(l)
    /\ UNCHANGED <<items, locks, credits, cleaner>>

GrabLock(l) ==
    /\ handler[l].pc = "grabLock"
    /\ LockFree(l, handler[l].drop)
    /\ holder' = [holder EXCEPT ![handler[l].drop] = l]
    /\ leaked' = [leaked EXCEPT ![handler[l].drop] = TRUE]
    /\ Goto(l, "grab")
    /\ UNCHANGED <<items, credits, cleaner>>

-----------------------------------------------------------------------------
(* The automatic vacuum and returnEverLastItem credit the drop's owner      *)
(* without the item's lock and without looking at pickedUp.                 *)

StartReturn(l) ==
    /\ EverLast
    /\ handler[l].pc = "idle"
    /\ \E p \in Players :
        /\ LoopOf[p] = l
        /\ {d \in OnMap : drop[d].owner = p} # {}
        /\ handler' = [handler EXCEPT ![l] =
               [pc |-> "back", who |-> p, drop |-> None, pet |-> FALSE,
                todo |-> {d \in OnMap : drop[d].owner = p}]]
    /\ UNCHANGED <<items, locks, credits, cleaner>>

ReturnMark(l) ==
    /\ handler[l].pc = "back"
    /\ \/ /\ handler[l].todo = {}
          /\ Finish(l)
          /\ UNCHANGED pickedUp
       \/ \E d \in handler[l].todo :
            /\ pickedUp' = [pickedUp EXCEPT ![d] = TRUE]
            /\ Take(l, "backGive", d)
    /\ UNCHANGED <<where, drop, due, locks, credits, cleaner>>

\* addFromDrop may refuse an item; mesos are always credited.
UnlockedGive(l, from, to) ==
    LET d == handler[l].drop
    IN  /\ handler[l].pc = from
        /\ \/ returned' = [returned EXCEPT ![d] = @ + 1]
           \/ ~drop[d].meso /\ UNCHANGED returned
        /\ MoveOn(l, to)
        /\ UNCHANGED <<items, locks, picked, cleaner>>

Unlocked(l) ==
    \/ Mark(l, "vacMark", "vacRemove") \/ Remove(l, "vacRemove", "vacGive")
    \/ UnlockedGive(l, "vacGive", "idle")
    \/ UnlockedGive(l, "mesoGive", "mesoMark") \/ Mark(l, "mesoMark", "mesoRemove")
    \/ Remove(l, "mesoRemove", "idle")
    \/ ReturnMark(l) \/ UnlockedGive(l, "backGive", "backRemove")
    \/ Remove(l, "backRemove", "back")

-----------------------------------------------------------------------------
Run(l) == Pickup(l) \/ Grab(l) \/ GrabLock(l) \/ Unlocked(l)

Start(l) ==
    \/ StartPickup(l) \/ StartGrab(l) \/ StartReturn(l)
    \/ \E d \in Drops : SpawnAndVacuum(l, d)

Clean(t) == ExpireMark(t) \/ ExpireRemove(t)

Next ==
    \/ \E d \in Drops : SpawnDrop(d) \/ Tick(d)
    \/ \E l \in Loops : Start(l) \/ Run(l)
    \/ \E t \in Cleaners : FreeForAll(t) \/ StartExpire(t) \/ Clean(t)

Spec == Init /\ [][Next]_vars

\* Threads that are not blocked run; nobody is obliged to send a packet.
FairSpec ==
    /\ Spec
    /\ \A l \in Loops : WF_vars(Run(l))
    /\ \A t \in Cleaners : WF_vars(Clean(t))

-----------------------------------------------------------------------------
\* However the pickup handlers of players and pets, the expiry pass, reactors,
\* map resets and the unlocked paths interleave, the pickup handlers credit a
\* drop's contents at most once (InventoryHandler.PlayerPickup, PetPickup).
PickedOnce == \A d \in Drops : picked[d] <= 1

\* The paths without the lock credit a drop at most once among themselves,
\* though they neither lock the item nor read pickedUp (returnEverLastItem and
\* the automatic vacuum of spawnMobDrop).
ReturnedOnce == \A d \in Drops : returned[d] <= 1

Critical == {"check", "give", "mark", "remove",
             "petMark", "petRemove", "petGive", "unlock"}

\* A loop that waits for an item's lock waits for a pickup that is under way
\* on another loop and needs no further lock, or for a lock that a meso
\* explosion or a pet vacuum took and never releases.
BlockedOnlyByLeak ==
    \A l \in Loops :
        LET d == handler[l].drop
        IN  handler[l].pc \in {"lock", "grabLock"} /\ ~LockFree(l, d) =>
                \/ leaked[d]
                \/ handler[holder[d]].pc \in Critical /\ handler[holder[d]].drop = d

\* What a pickup credits went to somebody entitled to it when it was credited,
\* whatever FFA or expiry did since the guards were read.
RightfulPick ==
    [][\A l \in Loops :
          LET d == handler[l].drop
          IN  handler[l].pc \in {"give", "petGive"} /\ picked' # picked =>
                  MayTake(handler[l].who, d)]_vars

\* A drop that was marked as picked up leaves the map's object table, even
\* when locks leak: no mark is left behind by a thread that stopped halfway.
Cleaned == \A d \in Drops : pickedUp[d] ~> where[d] = "removed"

\* Where nobody uses a meso explosion or a pet vacuum, an item's lock is
\* always given back.
LockReleased == \A d \in Drops : holder[d] # None ~> holder[d] = None
=============================================================================
