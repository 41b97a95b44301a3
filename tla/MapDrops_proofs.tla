-------------------------- MODULE MapDrops_proofs ---------------------------
(* Safety of MapDrops for every set of players, drops, event loops and      *)
(* cleaning threads: types, that pickups credit a drop at most once and only *)
(* to somebody entitled to it, and whom a blocked loop waits for.           *)
EXTENDS MapDrops, TLAPS

PetPcs == {"petMark", "petRemove", "petGive"}

Spawned == {d \in Drops : where[d] # "unborn"}

\* Handlers and cleaning threads work on drops that have been spawned.
Targets ==
    /\ \A l \in Loops :
        /\ handler[l].pc \notin {"idle", "grab", "back"} => handler[l].drop \in Spawned
        /\ handler[l].pc # "idle" => handler[l].who \in Players
        /\ handler[l].todo \subseteq Spawned
    /\ \A t \in Cleaners : cleaner[t].pc # "idle" => cleaner[t].drop \in Spawned
    /\ \A d \in Spawned : drop[d] \in DropRec

\* A pickup past the lock owns it.
Holding ==
    \A l \in Loops : handler[l].pc \in Critical => holder[handler[l].drop] = l

\* Before its credit a pickup's drop has been credited by nobody.
Uncredited ==
    \A l \in Loops : handler[l].pc \in {"give"} \cup PetPcs => picked[handler[l].drop] = 0

\* A credited drop is marked as picked up, or about to be.
CreditedIsMarked ==
    \A d \in Drops : picked[d] > 0 =>
        \/ pickedUp[d]
        \/ \E l \in Loops : handler[l].pc = "mark" /\ handler[l].drop = d

\* The steps of a handler whose drop has been marked, by that handler.
MarkedPcs == {"remove", "petRemove", "petGive", "vacRemove", "vacGive",
              "mesoRemove", "backGive", "backRemove"}

\* A drop is marked as picked up before it is taken off the map.
MarkedFirst ==
    /\ \A l \in Loops : handler[l].pc \in MarkedPcs => pickedUp[handler[l].drop]
    /\ \A t \in Cleaners : cleaner[t].pc = "remove" => pickedUp[cleaner[t].drop]
    /\ \A d \in Drops : where[d] = "removed" => pickedUp[d]

TypeInv == TypeOK /\ Targets
SafeInv == Holding /\ Uncredited /\ CreditedIsMarked /\ PickedOnce
IInv == TypeInv /\ MarkedFirst /\ SafeInv

-----------------------------------------------------------------------------
\* What a handler's move to another step changes.
LEMMA GotoEffect ==
  ASSUME handler \in [Loops -> Handler], NEW l \in Loops, NEW pc \in Pcs, Goto(l, pc)
  PROVE  /\ handler' \in [Loops -> Handler]
         /\ handler'[l].pc = pc
         /\ handler'[l].drop = handler[l].drop
         /\ handler'[l].who = handler[l].who
         /\ handler'[l].todo = handler[l].todo
         /\ \A k \in Loops \ {l} : handler'[k] = handler[k]
  BY DEF Goto, Handler

LEMMA FinishEffect ==
  ASSUME handler \in [Loops -> Handler], NEW l \in Loops, Finish(l)
  PROVE  /\ handler' \in [Loops -> Handler]
         /\ handler'[l].pc = "idle"
         /\ handler'[l].todo = {}
         /\ \A k \in Loops \ {l} : handler'[k] = handler[k]
  BY DEF Finish, Handler, IdleHandler, Pcs

LEMMA InitTypeInv == Init => TypeInv
  BY MapDropsAssumption
  DEF Init, TypeInv, TypeOK, Targets, Spawned, IdleHandler, Handler, Pcs, IdleCleaner, Cleaner

\* A step that moves handler l on from a step that is not idle, and takes no
\* drop back from the map's past, keeps the types.
LEMMA MoveTypeInv ==
  ASSUME TypeInv, NEW l \in Loops, NEW pc \in Pcs, Goto(l, pc),
         handler[l].pc \notin {"idle", "grab", "back"},
         UNCHANGED <<drop, due, cleaner>>,
         pickedUp' \in [Drops -> BOOLEAN],
         where' \in [Drops -> {"unborn", "map", "removed"}], Spawned' = Spawned,
         holder' \in [Drops -> Loops \cup {None}], leaked' \in [Drops -> BOOLEAN],
         picked' \in [Drops -> Nat], returned' \in [Drops -> Nat]
  PROVE  TypeInv'
<1> USE DEF TypeInv, TypeOK
<1>1. /\ handler' \in [Loops -> Handler]
      /\ handler'[l].drop = handler[l].drop /\ handler'[l].who = handler[l].who
      /\ handler'[l].todo = handler[l].todo
      /\ \A k \in Loops \ {l} : handler'[k] = handler[k]
  BY GotoEffect
<1>2. TypeOK'
  BY <1>1
<1>3. Targets'
  BY <1>1 DEF Targets
<1> QED  BY <1>2, <1>3

LEMMA FinishTypeInv ==
  ASSUME TypeInv, NEW l \in Loops, Finish(l),
         UNCHANGED <<pickedUp, drop, due, picked, cleaner>>,
         where' \in [Drops -> {"unborn", "map", "removed"}], Spawned' = Spawned,
         returned' \in [Drops -> Nat],
         holder' \in [Drops -> Loops \cup {None}], leaked' = leaked
  PROVE  TypeInv'
<1> USE DEF TypeInv, TypeOK
<1>1. /\ handler' \in [Loops -> Handler]
      /\ handler'[l].pc = "idle" /\ handler'[l].todo = {}
      /\ \A k \in Loops \ {l} : handler'[k] = handler[k]
  BY FinishEffect
<1>2. TypeOK'
  BY <1>1
<1>3. Targets'
  BY <1>1 DEF Targets
<1> QED  BY <1>2, <1>3

LEMMA TakeTypeInv ==
  ASSUME TypeInv, NEW l \in Loops, NEW pc \in Pcs, NEW d \in handler[l].todo,
         handler[l].pc # "idle", Take(l, pc, d),
         UNCHANGED <<where, drop, due, locks, credits, cleaner>>,
         pickedUp' \in [Drops -> BOOLEAN]
  PROVE  TypeInv'
<1> USE DEF TypeInv, TypeOK, locks, credits
<1>1. d \in Spawned /\ d \in Drops
  BY DEF Targets, Spawned
<1>2. /\ handler' \in [Loops -> Handler]
      /\ handler'[l].drop = d /\ handler'[l].who = handler[l].who
      /\ handler'[l].todo \subseteq handler[l].todo
      /\ \A k \in Loops \ {l} : handler'[k] = handler[k]
  BY <1>1 DEF Take, Handler
<1>3. TypeOK'
  BY <1>2
<1>4. Targets'
  BY <1>1, <1>2 DEF Targets, Spawned
<1> QED  BY <1>3, <1>4

LEMMA NextTypeInv == TypeInv /\ [Next]_vars => TypeInv'
<1> SUFFICES ASSUME TypeInv, [Next]_vars
             PROVE  TypeInv'
  OBVIOUS
<1> USE MapDropsAssumption DEF TypeInv, TypeOK, items, locks, credits
<1>1. ASSUME NEW d \in Drops, SpawnDrop(d)
      PROVE  TypeInv'
  BY <1>1 DEF SpawnDrop, Place, MobDrops, OtherDrops, Targets, Spawned
<1>2. ASSUME NEW d \in Drops, Tick(d)
      PROVE  TypeInv'
  BY <1>2 DEF Tick, Targets, Spawned
<1>3. ASSUME NEW l \in Loops, StartPickup(l)
      PROVE  TypeInv'
  BY <1>3 DEF StartPickup, OnMap, Targets, Spawned, Handler, Pcs
<1>4. ASSUME NEW l \in Loops, StartGrab(l)
      PROVE  TypeInv'
  BY <1>4 DEF StartGrab, OnMap, Targets, Spawned, Handler, Pcs
<1>5. ASSUME NEW l \in Loops, StartReturn(l)
      PROVE  TypeInv'
  BY <1>5 DEF StartReturn, OnMap, Targets, Spawned, Handler, Pcs
<1>6. ASSUME NEW l \in Loops, NEW d \in Drops, SpawnAndVacuum(l, d)
      PROVE  TypeInv'
  <2>1. PICK r \in MobDrops : Place(d, r) /\ handler' = [handler EXCEPT ![l] =
          [pc |-> IF r.meso THEN "mesoGive" ELSE "vacMark",
           who |-> r.owner, drop |-> d, pet |-> TRUE, todo |-> {}]]
    BY <1>6 DEF SpawnAndVacuum
  <2>2. r \in DropRec
    BY DEF MobDrops
  <2>3. r.owner \in Players
    BY <2>2 DEF DropRec
  <2> QED  BY <2>1, <2>2, <2>3 DEF Place, Targets, Spawned, Handler, Pcs
<1>7. ASSUME NEW l \in Loops, Lock(l)
      PROVE  TypeInv'
  BY <1>7, MoveTypeInv DEF Lock, Pcs, Spawned
<1>8. ASSUME NEW l \in Loops, Check(l)
      PROVE  TypeInv'
  BY <1>8, MoveTypeInv DEF Check, Pcs, Spawned
<1>9. ASSUME NEW l \in Loops, Give(l)
      PROVE  TypeInv'
  BY <1>9, MoveTypeInv DEF Give, Pcs, Spawned
<1>10. ASSUME NEW l \in Loops, PetGive(l)
       PROVE  TypeInv'
  BY <1>10, MoveTypeInv DEF PetGive, Pcs, Spawned
<1>11. ASSUME NEW l \in Loops, Unlock(l)
       PROVE  TypeInv'
  BY <1>11, FinishTypeInv DEF Unlock, Spawned
<1>12. ASSUME NEW l \in Loops, NEW from \in Pcs \ {"idle", "grab", "back"},
              NEW to \in Pcs, Mark(l, from, to)
       PROVE  TypeInv'
  BY <1>12, MoveTypeInv DEF Mark, Spawned
<1>13. ASSUME NEW l \in Loops, NEW from \in Pcs \ {"idle", "grab", "back"},
              NEW to \in Pcs, Remove(l, from, to)
       PROVE  TypeInv'
  <2>1. handler[l].drop \in Spawned
    BY <1>13 DEF Remove, Targets
  <2>2. /\ where' \in [Drops -> {"unborn", "map", "removed"}] /\ Spawned' = Spawned
        /\ UNCHANGED <<pickedUp, drop, due, locks, credits, cleaner>>
    BY <1>13, <2>1 DEF Remove, Spawned
  <2>3. CASE Finish(l)
    BY <2>2, <2>3, FinishTypeInv
  <2>4. CASE Goto(l, to)
    BY <1>13, <2>2, <2>4, MoveTypeInv DEF Remove
  <2> QED  BY <1>13, <2>3, <2>4 DEF Remove, MoveOn
<1>14. ASSUME NEW l \in Loops, Grab(l)
       PROVE  TypeInv'
  <2>1. CASE Finish(l)
    BY <1>14, <2>1, FinishTypeInv DEF Grab, Spawned
  <2>2. ASSUME NEW d \in handler[l].todo, Take(l, "grabLock", d)
        PROVE  TypeInv'
    BY <1>14, <2>2, TakeTypeInv DEF Grab, Pcs
  <2> QED  BY <1>14, <2>1, <2>2 DEF Grab
<1>15. ASSUME NEW l \in Loops, GrabLock(l)
       PROVE  TypeInv'
  BY <1>15, MoveTypeInv DEF GrabLock, Pcs, Spawned
<1>16. ASSUME NEW l \in Loops, ReturnMark(l)
       PROVE  TypeInv'
  <2>1. CASE handler[l].todo = {} /\ Finish(l) /\ UNCHANGED pickedUp
    BY <1>16, <2>1, FinishTypeInv DEF ReturnMark, Spawned
  <2>2. ASSUME NEW d \in handler[l].todo, Take(l, "backGive", d),
               pickedUp' = [pickedUp EXCEPT ![d] = TRUE]
        PROVE  TypeInv'
    BY <1>16, <2>2, TakeTypeInv DEF ReturnMark, Pcs
  <2> QED  BY <1>16, <2>1, <2>2 DEF ReturnMark
<1>17. ASSUME NEW l \in Loops, NEW from \in Pcs \ {"idle", "grab", "back"},
              NEW to \in Pcs, UnlockedGive(l, from, to)
       PROVE  TypeInv'
  <2>1. /\ returned' \in [Drops -> Nat]
        /\ UNCHANGED <<items, locks, picked, cleaner>>
    BY <1>17 DEF UnlockedGive
  <2>2. CASE Finish(l)
    BY <2>1, <2>2, FinishTypeInv DEF Spawned
  <2>3. CASE Goto(l, to)
    BY <1>17, <2>1, <2>3, MoveTypeInv DEF UnlockedGive, Spawned
  <2> QED  BY <1>17, <2>2, <2>3 DEF UnlockedGive, MoveOn
<1>18. ASSUME NEW t \in Cleaners, FreeForAll(t)
       PROVE  TypeInv'
  BY <1>18 DEF FreeForAll, OnMap, Targets, Spawned, DropRec
<1>19. ASSUME NEW t \in Cleaners, StartExpire(t)
       PROVE  TypeInv'
  BY <1>19 DEF StartExpire, Expirable, Targets, Spawned, Cleaner
<1>20. ASSUME NEW t \in Cleaners, ExpireMark(t)
       PROVE  TypeInv'
  BY <1>20 DEF ExpireMark, Targets, Spawned, Cleaner
<1>21. ASSUME NEW t \in Cleaners, ExpireRemove(t)
       PROVE  TypeInv'
  BY <1>21 DEF ExpireRemove, Targets, Spawned, Cleaner, IdleCleaner
<1>22. CASE UNCHANGED vars
  BY <1>22 DEF vars, Targets, Spawned
<1> QED BY <1>1, <1>2, <1>3, <1>4, <1>5, <1>6, <1>7, <1>8, <1>9, <1>10, <1>11, <1>12,
     <1>13, <1>14, <1>15, <1>16, <1>17, <1>18, <1>19, <1>20, <1>21, <1>22
  DEF Next, Start, Run, Pickup, Unlocked, Clean, Pcs

-----------------------------------------------------------------------------
LEMMA InitMarkedFirst == Init => MarkedFirst
  BY DEF Init, MarkedFirst, MarkedPcs, IdleHandler, IdleCleaner

\* A step that unmarks nothing, and takes off the map or carries into a marked
\* step only what is marked.
LEMMA KeepMarkedFirst ==
  ASSUME MarkedFirst,
         \A d \in Drops : pickedUp[d] => pickedUp'[d],
         \A d \in Drops : where'[d] = "removed" => where[d] = "removed" \/ pickedUp'[d],
         \A t \in Cleaners : cleaner'[t].pc = "remove" => pickedUp'[cleaner'[t].drop],
         \A l \in Loops : handler'[l].pc \in MarkedPcs => pickedUp'[handler'[l].drop]
  PROVE  MarkedFirst'
  BY DEF MarkedFirst

LEMMA NextMarkedFirst == TypeInv /\ MarkedFirst /\ [Next]_vars => MarkedFirst'
<1> SUFFICES ASSUME TypeInv, MarkedFirst, [Next]_vars
             PROVE  MarkedFirst'
  OBVIOUS
<1> USE DEF TypeInv, TypeOK, items, locks, credits
<1>0. /\ \A l \in Loops : handler[l].pc \in MarkedPcs =>
             handler[l].drop \in Drops /\ pickedUp[handler[l].drop]
      /\ \A t \in Cleaners : cleaner[t].pc = "remove" =>
             cleaner[t].drop \in Drops /\ pickedUp[cleaner[t].drop]
  BY DEF MarkedFirst, MarkedPcs, Targets, Spawned
<1>1. ASSUME UNCHANGED <<pickedUp, where, cleaner>>, NEW l \in Loops,
             \A k \in Loops \ {l} : handler'[k] = handler[k],
             handler'[l].pc \in MarkedPcs =>
                 handler[l].pc \in MarkedPcs /\ handler'[l].drop = handler[l].drop
      PROVE  MarkedFirst'
  BY <1>0, <1>1, KeepMarkedFirst
<1>2. ASSUME NEW l \in Loops, Start(l)
      PROVE  MarkedFirst'
  <2>1. /\ UNCHANGED <<pickedUp, cleaner>>
        /\ \A d \in Drops : where'[d] = "removed" => where[d] = "removed"
        /\ handler'[l].pc \notin MarkedPcs
        /\ \A k \in Loops \ {l} : handler'[k] = handler[k]
    BY <1>2 DEF Start, StartPickup, StartGrab, StartReturn, SpawnAndVacuum, Place, MarkedPcs
  <2> QED  BY <1>0, <2>1, KeepMarkedFirst
<1>3. ASSUME NEW l \in Loops, NEW pc \in Pcs \ MarkedPcs,
             Goto(l, pc) \/ Finish(l), UNCHANGED <<pickedUp, where, cleaner>>
      PROVE  MarkedFirst'
  BY <1>1, <1>3, GotoEffect, FinishEffect DEF MarkedPcs
<1>4. ASSUME NEW l \in Loops, Lock(l) \/ Check(l) \/ Give(l) \/ PetGive(l) \/ Unlock(l) \/ GrabLock(l)
      PROVE  MarkedFirst'
  BY <1>3, <1>4 DEF Lock, Check, Give, PetGive, Unlock, GrabLock, Pcs, MarkedPcs
<1>5. ASSUME NEW l \in Loops, Grab(l)
      PROVE  MarkedFirst'
  <2>1. handler[l].todo \subseteq Drops /\ UNCHANGED <<pickedUp, where, cleaner>>
    BY <1>5 DEF Handler, Grab
  <2>2. ASSUME NEW d \in Drops, Take(l, "grabLock", d)
        PROVE  MarkedFirst'
    <3>1. handler'[l].pc = "grabLock" /\ \A k \in Loops \ {l} : handler'[k] = handler[k]
      BY <2>2 DEF Take, Handler
    <3> QED  BY <1>1, <2>1, <3>1 DEF MarkedPcs
  <2>3. CASE Finish(l)
    BY <1>3, <2>1, <2>3 DEF Pcs, MarkedPcs
  <2> QED  BY <1>5, <2>1, <2>2, <2>3 DEF Grab
<1>6. ASSUME NEW l \in Loops, ReturnMark(l)
      PROVE  MarkedFirst'
  <2>1. handler[l].todo \subseteq Drops /\ UNCHANGED <<where, cleaner>>
    BY <1>6 DEF Handler, ReturnMark
  <2>2. ASSUME NEW d \in Drops, Take(l, "backGive", d), pickedUp' = [pickedUp EXCEPT ![d] = TRUE]
        PROVE  MarkedFirst'
    <3>1. handler'[l].drop = d /\ \A k \in Loops \ {l} : handler'[k] = handler[k]
      BY <2>2 DEF Take, Handler
    <3> QED  BY <1>0, <2>1, <2>2, <3>1, KeepMarkedFirst
  <2>3. CASE Finish(l) /\ UNCHANGED pickedUp
    BY <1>3, <2>1, <2>3 DEF Pcs, MarkedPcs
  <2> QED  BY <1>6, <2>1, <2>2, <2>3 DEF ReturnMark
<1>7. ASSUME NEW l \in Loops, NEW from \in Pcs \ {"idle", "grab", "back"}, NEW to \in Pcs,
             Mark(l, from, to)
      PROVE  MarkedFirst'
  <2>1. handler[l].drop \in Drops /\ handler[l].pc = from
    BY <1>7 DEF Mark, Targets, Spawned
  <2>2. /\ handler'[l].drop = handler[l].drop
        /\ \A k \in Loops \ {l} : handler'[k] = handler[k]
    BY <1>7, GotoEffect DEF Mark
  <2> QED  BY <1>0, <1>7, <2>1, <2>2, KeepMarkedFirst DEF Mark
<1>8. ASSUME NEW l \in Loops, NEW from \in MarkedPcs, NEW to \in Pcs,
             Remove(l, from, to) \/ UnlockedGive(l, from, to)
      PROVE  MarkedFirst'
  <2>1. handler[l].pc = from /\ UNCHANGED <<pickedUp, cleaner>>
    BY <1>8 DEF Remove, UnlockedGive
  <2>2. \A d \in Drops : where'[d] = "removed" => where[d] = "removed" \/ pickedUp[d]
    BY <1>0, <1>8, <2>1 DEF Remove, UnlockedGive
  <2>3. \/ handler'[l].drop = handler[l].drop
        \/ handler'[l].pc \notin MarkedPcs
    BY <1>8, GotoEffect, FinishEffect DEF Remove, UnlockedGive, MoveOn, MarkedPcs
  <2>4. \A k \in Loops \ {l} : handler'[k] = handler[k]
    BY <1>8, GotoEffect, FinishEffect DEF Remove, UnlockedGive, MoveOn
  <2> QED  BY <1>0, <2>1, <2>2, <2>3, <2>4, KeepMarkedFirst
<1>9. ASSUME NEW l \in Loops, UnlockedGive(l, "mesoGive", "mesoMark")
      PROVE  MarkedFirst'
  BY <1>3, <1>9 DEF UnlockedGive, MoveOn, Pcs, MarkedPcs
<1>10. ASSUME NEW t \in Cleaners, FreeForAll(t) \/ StartExpire(t) \/ Clean(t)
       PROVE  MarkedFirst'
  <2>1. handler' = handler
    BY <1>10 DEF FreeForAll, StartExpire, Clean, ExpireMark, ExpireRemove
  <2>2. \A d \in Drops : pickedUp[d] => pickedUp'[d]
    BY <1>10 DEF FreeForAll, StartExpire, Clean, ExpireMark, ExpireRemove
  <2>3. \A d \in Drops : where'[d] = "removed" => where[d] = "removed" \/ pickedUp'[d]
    BY <1>0, <1>10 DEF FreeForAll, StartExpire, Clean, ExpireMark, ExpireRemove
  <2>4. \A u \in Cleaners \ {t} : cleaner'[u] = cleaner[u]
    BY <1>10 DEF FreeForAll, StartExpire, Clean, ExpireMark, ExpireRemove
  <2>5. cleaner'[t].pc = "remove" => pickedUp'[cleaner'[t].drop]
    BY <1>0, <1>10 DEF FreeForAll, StartExpire, Clean, ExpireMark, ExpireRemove,
                       Targets, Spawned, Cleaner, IdleCleaner
  <2> QED  BY <1>0, <2>1, <2>2, <2>3, <2>4, <2>5, KeepMarkedFirst DEF MarkedPcs
<1>11. ASSUME NEW d \in Drops, SpawnDrop(d) \/ Tick(d)
       PROVE  MarkedFirst'
  BY <1>0, <1>11, KeepMarkedFirst DEF SpawnDrop, Place, Tick
<1>12. CASE UNCHANGED vars
  BY <1>0, <1>12, KeepMarkedFirst DEF vars
<1>13. ASSUME NEW l \in Loops, Pickup(l)
       PROVE  MarkedFirst'
  BY <1>4, <1>7, <1>8, <1>13 DEF Pickup, Pcs, MarkedPcs
<1>14. ASSUME NEW l \in Loops, Unlocked(l)
       PROVE  MarkedFirst'
  BY <1>6, <1>7, <1>8, <1>9, <1>14 DEF Unlocked, Pcs, MarkedPcs
<1> QED BY <1>2, <1>4, <1>5, <1>10, <1>11, <1>12, <1>13, <1>14 DEF Next, Run

-----------------------------------------------------------------------------
LEMMA InitSafeInv == Init => SafeInv
  BY DEF Init, SafeInv, Holding, Uncredited, CreditedIsMarked, PickedOnce,
         IdleHandler, Critical, PetPcs

\* Two pickups past the lock never work on the same drop.
LEMMA Exclusion ==
  ASSUME SafeInv, NEW k \in Loops, NEW l \in Loops,
         handler[k].pc \in Critical, handler[l].pc \in Critical,
         handler[k].drop = handler[l].drop
  PROVE  k = l
  BY DEF SafeInv, Holding

\* Steps outside the locked section: no pickup credits anything, no lock that a
\* pickup holds changes hands, and no drop is unmarked.
LEMMA OutsideSafeInv ==
  ASSUME SafeInv, picked' = picked,
         \A d \in Drops : pickedUp[d] => pickedUp'[d],
         \A l \in Loops : handler[l].pc \in Critical =>
             handler'[l] = handler[l] /\ holder'[handler[l].drop] = l,
         \A l \in Loops : handler'[l].pc \in Critical => handler[l].pc \in Critical
  PROVE  SafeInv'
<1> USE DEF SafeInv
<1>1. Holding'
  BY DEF Holding
<1>2. Uncredited'
  BY DEF Uncredited, Critical, PetPcs
<1>3. CreditedIsMarked'
  <2> SUFFICES ASSUME NEW d \in Drops, picked[d] > 0, ~pickedUp[d]
               PROVE  \E l \in Loops : handler'[l].pc = "mark" /\ handler'[l].drop = d
    BY DEF CreditedIsMarked
  <2>1. PICK l \in Loops : handler[l].pc = "mark" /\ handler[l].drop = d
    BY DEF CreditedIsMarked
  <2> QED  BY <2>1 DEF Critical
<1>4. PickedOnce'
  BY DEF PickedOnce
<1> QED  BY <1>1, <1>2, <1>3, <1>4

\* Steps of one handler inside the locked section that credit nothing.
LEMMA InsideSafeInv ==
  ASSUME TypeInv, SafeInv, NEW l \in Loops,
         handler[l].pc \in Critical, handler'[l].pc \in Critical,
         handler[l].pc # "mark" \/ pickedUp'[handler[l].drop],
         handler'[l].pc \in {"give"} \cup PetPcs => picked[handler[l].drop] = 0,
         handler'[l].drop = handler[l].drop,
         \A k \in Loops \ {l} : handler'[k] = handler[k],
         UNCHANGED <<picked, holder>>,
         \A d \in Drops : pickedUp[d] => pickedUp'[d]
  PROVE  SafeInv'
<1>1. Holding'
  BY DEF SafeInv, Holding
<1>2. Uncredited'
  BY DEF SafeInv, Uncredited
<1>3. CreditedIsMarked'
  <2> SUFFICES ASSUME NEW d \in Drops, picked[d] > 0, ~pickedUp'[d]
               PROVE  \E k \in Loops : handler'[k].pc = "mark" /\ handler'[k].drop = d
    BY DEF CreditedIsMarked
  <2>1. PICK k \in Loops : handler[k].pc = "mark" /\ handler[k].drop = d
    BY DEF SafeInv, CreditedIsMarked
  <2> QED  BY <2>1
<1>4. PickedOnce'
  BY DEF SafeInv, PickedOnce
<1> QED  BY <1>1, <1>2, <1>3, <1>4 DEF SafeInv

\* A pickup that credits a drop nobody has credited.
LEMMA CreditSafeInv ==
  ASSUME TypeInv, SafeInv, NEW l \in Loops,
         handler[l].pc \in {"give"} \cup PetPcs,
         picked' = [picked EXCEPT ![handler[l].drop] = @ + 1],
         handler'[l].pc \in {"mark", "unlock"},
         handler'[l].pc = "mark" \/ pickedUp[handler[l].drop],
         handler'[l].drop = handler[l].drop,
         \A k \in Loops \ {l} : handler'[k] = handler[k],
         UNCHANGED <<pickedUp, holder>>
  PROVE  SafeInv'
<1> DEFINE d == handler[l].drop
<1>1. /\ d \in Drops /\ picked[d] = 0 /\ picked'[d] = 1
      /\ \A e \in Drops \ {d} : picked'[e] = picked[e]
  BY DEF TypeInv, TypeOK, Targets, Spawned, SafeInv, Uncredited, PetPcs
<1>2. Holding'
  BY DEF SafeInv, Holding, Critical, PetPcs
<1>3. Uncredited'
  <2> SUFFICES ASSUME NEW k \in Loops, handler'[k].pc \in {"give"} \cup PetPcs
               PROVE  picked'[handler'[k].drop] = 0
    BY DEF Uncredited
  <2>1. k # l /\ handler'[k] = handler[k]
    BY DEF PetPcs
  <2>2. handler[k].drop \in Drops /\ handler[k].drop # d
    BY <2>1, Exclusion DEF TypeInv, Targets, Spawned, PetPcs, Critical
  <2> QED  BY <1>1, <2>1, <2>2 DEF SafeInv, Uncredited
<1>4. CreditedIsMarked'
  <2> SUFFICES ASSUME NEW e \in Drops, picked'[e] > 0, ~pickedUp[e]
               PROVE  \E k \in Loops : handler'[k].pc = "mark" /\ handler'[k].drop = e
    BY DEF CreditedIsMarked
  <2>1. CASE e = d
    BY <2>1
  <2>2. CASE e # d
    <3>1. PICK k \in Loops : handler[k].pc = "mark" /\ handler[k].drop = e
      BY <1>1, <2>2 DEF SafeInv, CreditedIsMarked
    <3> QED  BY <2>2, <3>1
  <2> QED  BY <2>1, <2>2
<1>5. PickedOnce'
  BY <1>1 DEF SafeInv, PickedOnce
<1> QED  BY <1>2, <1>3, <1>4, <1>5 DEF SafeInv

LEMMA NextSafeInv == IInv /\ [Next]_vars => SafeInv'
<1> SUFFICES ASSUME TypeInv, MarkedFirst, SafeInv, [Next]_vars
             PROVE  SafeInv'
  BY DEF IInv
<1> USE DEF TypeInv, TypeOK, items, locks, credits
<1>1. ASSUME NEW d \in Drops, SpawnDrop(d) \/ Tick(d)
      PROVE  SafeInv'
  BY <1>1, OutsideSafeInv DEF SpawnDrop, Place, Tick, SafeInv, Holding
<1>2. ASSUME NEW l \in Loops, Start(l)
      PROVE  SafeInv'
  <2>1. handler[l].pc = "idle" /\ UNCHANGED <<picked, pickedUp, holder>>
    BY <1>2 DEF Start, StartPickup, StartGrab, StartReturn, SpawnAndVacuum, Place
  <2>2. /\ handler'[l].pc \in {"lock", "grab", "back", "vacMark", "mesoGive"}
        /\ \A k \in Loops \ {l} : handler'[k] = handler[k]
    BY <1>2 DEF Start, StartPickup, StartGrab, StartReturn, SpawnAndVacuum
  <2> QED  BY <2>1, <2>2, OutsideSafeInv DEF SafeInv, Holding, Critical
<1>3. ASSUME NEW t \in Cleaners, FreeForAll(t) \/ StartExpire(t) \/ Clean(t)
      PROVE  SafeInv'
  <2>1. UNCHANGED <<picked, holder, handler>>
    BY <1>3 DEF FreeForAll, StartExpire, Clean, ExpireMark, ExpireRemove
  <2>2. \A d \in Drops : pickedUp[d] => pickedUp'[d]
    BY <1>3 DEF FreeForAll, StartExpire, Clean, ExpireMark, ExpireRemove
  <2> QED  BY <2>1, <2>2, OutsideSafeInv DEF SafeInv, Holding
<1>4. ASSUME NEW l \in Loops, Grab(l) \/ ReturnMark(l)
      PROVE  SafeInv'
  <2>1. /\ UNCHANGED <<picked, holder>> /\ handler[l].pc \in {"grab", "back"}
        /\ \A d \in Drops : pickedUp[d] => pickedUp'[d]
    BY <1>4 DEF Grab, ReturnMark
  <2>2. /\ handler'[l].pc \in {"idle", "grabLock", "backGive"}
        /\ \A k \in Loops \ {l} : handler'[k] = handler[k]
    <3>1. CASE Finish(l)
      BY <3>1, FinishEffect
    <3>2. ASSUME NEW pc \in {"grabLock", "backGive"}, NEW d \in Drops, Take(l, pc, d)
          PROVE  /\ handler'[l].pc \in {"idle", "grabLock", "backGive"}
                 /\ \A k \in Loops \ {l} : handler'[k] = handler[k]
      BY <3>2 DEF Take, Handler
    <3>3. handler[l].todo \subseteq Drops
      BY DEF Handler
    <3> QED  BY <1>4, <3>1, <3>2, <3>3 DEF Grab, ReturnMark
  <2> QED  BY <2>1, <2>2, OutsideSafeInv DEF SafeInv, Holding, Critical
<1>5. ASSUME NEW l \in Loops, GrabLock(l)
      PROVE  SafeInv'
  <2>1. /\ UNCHANGED <<picked, pickedUp>> /\ handler[l].pc = "grabLock"
        /\ handler'[l].pc = "grab"
        /\ \A k \in Loops \ {l} : handler'[k] = handler[k]
    BY <1>5, GotoEffect DEF GrabLock, Pcs
  <2>2. handler[l].drop \in Drops /\ LockFree(l, handler[l].drop)
        /\ holder' = [holder EXCEPT ![handler[l].drop] = l]
    BY <1>5 DEF GrabLock, Targets, Spawned
  <2>3. \A k \in Loops : handler[k].pc \in Critical =>
            /\ holder[handler[k].drop] = k /\ handler[k].drop \in Drops
            /\ handler[k].drop # handler[l].drop \/ k = l
    BY <2>2, MapDropsAssumption
       DEF SafeInv, Holding, LockFree, Targets, Spawned, Critical
  <2> QED  BY <2>1, <2>2, <2>3, OutsideSafeInv DEF Critical
<1>6. ASSUME NEW l \in Loops, NEW from, NEW to \in Pcs \ Critical,
             \/ Mark(l, from, to)
             \/ Remove(l, from, to)
             \/ UnlockedGive(l, from, to),
             from \notin Critical
      PROVE  SafeInv'
  <2>1. UNCHANGED <<picked, holder>> /\ handler[l].pc \notin Critical
    BY <1>6 DEF Mark, Remove, UnlockedGive
  <2>2. \A d \in Drops : pickedUp[d] => pickedUp'[d]
    BY <1>6 DEF Mark, Remove, UnlockedGive
  <2>3. Finish(l) \/ Goto(l, to)
    BY <1>6 DEF Mark, Remove, UnlockedGive, MoveOn
  <2>4. /\ handler'[l].pc \notin Critical
        /\ \A k \in Loops \ {l} : handler'[k] = handler[k]
    BY <2>3, GotoEffect, FinishEffect DEF Critical
  <2> QED  BY <2>1, <2>2, <2>4, OutsideSafeInv DEF SafeInv, Holding
<1>7. ASSUME NEW l \in Loops, Lock(l)
      PROVE  SafeInv'
  <2>1. /\ UNCHANGED <<picked, pickedUp>> /\ handler[l].pc = "lock"
        /\ handler'[l].pc = "check" /\ handler'[l].drop = handler[l].drop
        /\ \A k \in Loops \ {l} : handler'[k] = handler[k]
    BY <1>7, GotoEffect DEF Lock, Pcs
  <2>2. handler[l].drop \in Drops /\ LockFree(l, handler[l].drop)
        /\ holder' = [holder EXCEPT ![handler[l].drop] = l]
    BY <1>7 DEF Lock, Targets, Spawned
  <2>3. Holding'
    BY <2>1, <2>2, MapDropsAssumption
       DEF SafeInv, Holding, LockFree, Targets, Spawned, Critical
  <2>4. Uncredited' /\ PickedOnce'
    BY <2>1 DEF SafeInv, Uncredited, PetPcs, PickedOnce
  <2>5. CreditedIsMarked'
    BY <2>1 DEF SafeInv, CreditedIsMarked
  <2> QED  BY <2>3, <2>4, <2>5 DEF SafeInv
<1>8. ASSUME NEW l \in Loops, Check(l)
      PROVE  SafeInv'
  <2>1. /\ UNCHANGED <<picked, pickedUp, holder>> /\ handler[l].pc = "check"
        /\ handler[l].drop \in Drops
    BY <1>8 DEF Check, Targets, Spawned
  <2>2. CASE Goto(l, "unlock")
    BY <2>1, <2>2, GotoEffect, InsideSafeInv DEF Pcs, Critical, PetPcs
  <2>3. CASE ~pickedUp[handler[l].drop] /\ Goto(l, "give")
    <3>1. picked[handler[l].drop] = 0
      <4>1. SUFFICES ASSUME picked[handler[l].drop] > 0
                     PROVE  FALSE
        BY <2>1
      <4>2. PICK k \in Loops : handler[k].pc = "mark" /\ handler[k].drop = handler[l].drop
        BY <2>1, <2>3, <4>1 DEF SafeInv, CreditedIsMarked
      <4> QED  BY <2>1, <4>2, Exclusion DEF Critical
    <3> QED  BY <2>1, <2>3, <3>1, GotoEffect, InsideSafeInv DEF Pcs, Critical
  <2> QED  BY <1>8, <2>2, <2>3 DEF Check, Allowed
<1>9. ASSUME NEW l \in Loops, Give(l)
      PROVE  SafeInv'
  <2> DEFINE d == handler[l].drop
  <2>1. /\ handler[l].pc = "give" /\ d \in Drops /\ picked[d] = 0
        /\ UNCHANGED <<pickedUp, holder>>
    BY <1>9 DEF Give, Targets, Spawned, SafeInv, Uncredited
  <2>2. ASSUME NEW pc \in {"petMark", "unlock"}, Goto(l, pc), UNCHANGED picked
        PROVE  SafeInv'
    BY <2>1, <2>2, GotoEffect, InsideSafeInv DEF Pcs, Critical
  <2>3. ASSUME NEW pc \in {"mark", "unlock"}, Goto(l, pc), pc = "mark" \/ where[d] # "map",
               picked' = [picked EXCEPT ![d] = @ + 1]
        PROVE  SafeInv'
    <3>1. where[d] # "unborn"
      BY <2>1 DEF Targets, Spawned
    <3>2. pc = "mark" \/ pickedUp[d]
      BY <2>1, <2>3, <3>1 DEF MarkedFirst
    <3>3. /\ handler'[l].pc = pc /\ handler'[l].drop = d
          /\ \A k \in Loops \ {l} : handler'[k] = handler[k]
      BY <2>3, GotoEffect DEF Pcs
    <3> QED  BY <2>1, <2>3, <3>2, <3>3, CreditSafeInv
  <2> QED  BY <1>9, <2>2, <2>3 DEF Give
<1>10. ASSUME NEW l \in Loops,
              Mark(l, "mark", "remove") \/ Mark(l, "petMark", "petRemove")
       PROVE  SafeInv'
  <2>1. /\ UNCHANGED <<picked, holder>>
        /\ pickedUp' = [pickedUp EXCEPT ![handler[l].drop] = TRUE]
        /\ handler[l].drop \in Drops
    BY <1>10 DEF Mark, Targets, Spawned
  <2>2. CASE Mark(l, "mark", "remove")
    BY <2>1, <2>2, GotoEffect, InsideSafeInv DEF Mark, Pcs, Critical, PetPcs
  <2>3. CASE Mark(l, "petMark", "petRemove")
    BY <2>1, <2>3, GotoEffect, InsideSafeInv
       DEF Mark, Pcs, Critical, PetPcs, SafeInv, Uncredited
  <2> QED  BY <1>10, <2>2, <2>3
<1>11. ASSUME NEW l \in Loops,
              Remove(l, "remove", "unlock") \/ Remove(l, "petRemove", "petGive")
       PROVE  SafeInv'
  <2>1. UNCHANGED <<picked, holder, pickedUp>>
    BY <1>11 DEF Remove
  <2>2. CASE Remove(l, "remove", "unlock")
    BY <2>1, <2>2, GotoEffect, InsideSafeInv DEF Remove, MoveOn, Pcs, Critical, PetPcs
  <2>3. CASE Remove(l, "petRemove", "petGive")
    BY <2>1, <2>3, GotoEffect, InsideSafeInv
       DEF Remove, MoveOn, Pcs, Critical, PetPcs, SafeInv, Uncredited
  <2> QED  BY <1>11, <2>2, <2>3
<1>12. ASSUME NEW l \in Loops, PetGive(l)
       PROVE  SafeInv'
  <2>1. /\ UNCHANGED <<pickedUp, holder>> /\ handler[l].pc = "petGive"
        /\ pickedUp[handler[l].drop]
        /\ handler'[l].pc = "unlock" /\ handler'[l].drop = handler[l].drop
        /\ \A k \in Loops \ {l} : handler'[k] = handler[k]
    BY <1>12, GotoEffect DEF PetGive, Pcs, MarkedFirst, MarkedPcs
  <2>2. CASE UNCHANGED picked
    BY <2>1, <2>2, InsideSafeInv DEF Critical, PetPcs
  <2>3. CASE picked' = [picked EXCEPT ![handler[l].drop] = @ + 1]
    BY <2>1, <2>3, CreditSafeInv DEF PetPcs
  <2> QED  BY <1>12, <2>2, <2>3 DEF PetGive
<1>13. ASSUME NEW l \in Loops, Unlock(l)
       PROVE  SafeInv'
  <2>1. /\ UNCHANGED <<picked, pickedUp>>
        /\ handler[l].pc = "unlock" /\ handler'[l].pc = "idle"
        /\ \A k \in Loops \ {l} : handler'[k] = handler[k]
    BY <1>13, FinishEffect DEF Unlock
  <2>2. \A k \in Loops \ {l} : handler[k].pc \in Critical =>
            handler[k].drop # handler[l].drop
    BY <2>1, Exclusion DEF Critical
  <2>3. \A e \in Drops : e # handler[l].drop => holder'[e] = holder[e]
    BY <1>13 DEF Unlock
  <2>4. Holding'
    BY <2>1, <2>2, <2>3 DEF SafeInv, Holding, Critical, Targets, Spawned
  <2>5. Uncredited' /\ PickedOnce'
    BY <2>1 DEF SafeInv, Uncredited, PetPcs, PickedOnce
  <2>6. CreditedIsMarked'
    BY <2>1 DEF SafeInv, CreditedIsMarked
  <2> QED  BY <2>4, <2>5, <2>6 DEF SafeInv
<1>14. CASE UNCHANGED vars
  BY <1>14, OutsideSafeInv DEF vars, SafeInv, Holding
<1>15. ASSUME NEW l \in Loops, Pickup(l)
       PROVE  SafeInv'
  BY <1>7, <1>8, <1>9, <1>10, <1>11, <1>12, <1>13, <1>15 DEF Pickup
<1>16. ASSUME NEW l \in Loops, Unlocked(l)
       PROVE  SafeInv'
  BY <1>4, <1>6, <1>16 DEF Unlocked, Pcs, Critical
<1> QED BY <1>1, <1>2, <1>3, <1>4, <1>5, <1>14, <1>15, <1>16 DEF Next, Run

-----------------------------------------------------------------------------
\* The inductive invariant holds in every state.
THEOREM Invariance == Spec => []IInv
<1>1. Init => IInv
  BY InitTypeInv, InitMarkedFirst, InitSafeInv DEF IInv
<1>2. IInv /\ [Next]_vars => IInv'
  BY NextTypeInv, NextMarkedFirst, NextSafeInv DEF IInv
<1> QED  BY <1>1, <1>2, PTL DEF Spec

\* Every variable keeps its type, whatever the threads do.
THEOREM TypeCorrect == Spec => []TypeOK
<1>1. IInv => TypeOK
  BY DEF IInv, TypeInv
<1> QED  BY <1>1, Invariance, PTL

\* The pickup handlers credit a drop's contents at most once, for any number
\* of players, drops, event loops and cleaning threads.
THEOREM PickupOnce == Spec => []PickedOnce
<1>1. IInv => PickedOnce
  BY DEF IInv, SafeInv
<1> QED  BY <1>1, Invariance, PTL

-----------------------------------------------------------------------------
\* A pickup that has passed the guards is entitled to its drop, and stays so.
EntitledPcs == {"give"} \cup PetPcs
Entitled == \A l \in Loops :
    handler[l].pc \in EntitledPcs => MayTake(handler[l].who, handler[l].drop)

\* A step of one loop leaves the other loops' handlers alone.
LEMMA OneLoopMoves ==
  ASSUME TypeInv, NEW k \in Loops, NEW l \in Loops \ {k}, Run(l) \/ Start(l)
  PROVE  handler'[k] = handler[k]
<1> USE DEF TypeInv, TypeOK
<1>1. CASE Start(l)
  BY <1>1 DEF Start, StartPickup, StartGrab, StartReturn, SpawnAndVacuum
<1>2. CASE Run(l)
  BY <1>2 DEF Run, Pickup, Lock, Check, Give, Mark, Remove, PetGive, Unlock, Grab, GrabLock,
              Unlocked, UnlockedGive, ReturnMark, MoveOn, Finish, Goto, Take
<1> QED  BY <1>1, <1>2

\* Of a drop that has been spawned only the type changes, and only to free for all.
LEMMA EntitledToStays ==
  ASSUME TypeInv, [Next]_vars, NEW p \in Players, NEW d \in Spawned, MayTake(p, d)
  PROVE  MayTake(p, d)'
<1> USE DEF TypeInv, TypeOK
<1>1. d \in Drops /\ drop[d] \in DropRec
  BY DEF Spawned, Targets
<1>2. drop'[d] = drop[d] => MayTake(p, d)'
  BY DEF MayTake
<1>3. ASSUME NEW e \in Drops, NEW r \in Kinds, Place(e, r)
      PROVE  drop'[d] = drop[d]
  BY <1>1, <1>3 DEF Place, Spawned
<1>4. ASSUME NEW t \in Cleaners, FreeForAll(t)
      PROVE  MayTake(p, d)'
  <2>1. PICK e \in OnMap : drop' = [drop EXCEPT ![e].type = 2]
    BY <1>4 DEF FreeForAll
  <2>2. e \in Drops
    BY <2>1 DEF OnMap
  <2>3. CASE e = d
    <3>1. drop'[d] = [drop[d] EXCEPT !.type = 2]
      BY <1>1, <2>1, <2>3
    <3>2. drop'[d].owner = drop[d].owner /\ drop'[d].playerDrop = drop[d].playerDrop
          /\ drop'[d].type = 2
      BY <1>1, <3>1 DEF DropRec
    <3> QED  BY <3>2 DEF MayTake
  <2>4. CASE e # d
    BY <1>1, <1>2, <2>1, <2>2, <2>4
  <2> QED  BY <2>3, <2>4
<1>5. ASSUME NEW l \in Loops, Run(l)
      PROVE  drop' = drop
  BY <1>5 DEF Run, Pickup, Lock, Check, Give, Mark, Remove, PetGive, Unlock, Grab, GrabLock,
              Unlocked, UnlockedGive, ReturnMark, items
<1>6. ASSUME NEW l \in Loops, StartPickup(l) \/ StartGrab(l) \/ StartReturn(l)
      PROVE  drop' = drop
  BY <1>6 DEF StartPickup, StartGrab, StartReturn, items
<1>7. ASSUME NEW t \in Cleaners, StartExpire(t) \/ Clean(t)
      PROVE  drop' = drop
  BY <1>7 DEF StartExpire, Clean, ExpireMark, ExpireRemove, items
<1>8. ASSUME NEW e \in Drops, Tick(e)
      PROVE  drop' = drop
  BY <1>8 DEF Tick
<1>9. UNCHANGED vars => drop' = drop
  BY DEF vars, items
<1>10. ASSUME NEW e \in Drops, SpawnDrop(e)
       PROVE  drop'[d] = drop[d]
  BY <1>3, <1>10 DEF SpawnDrop, MobDrops, OtherDrops
<1>11. ASSUME NEW e \in Drops, NEW l \in Loops, SpawnAndVacuum(l, e)
       PROVE  drop'[d] = drop[d]
  BY <1>3, <1>11 DEF SpawnAndVacuum, MobDrops
<1> QED BY <1>2, <1>4, <1>5, <1>6, <1>7, <1>8, <1>9, <1>10, <1>11 DEF Next, Start

LEMMA NextEntitled == TypeInv /\ Entitled /\ [Next]_vars => Entitled'
<1> SUFFICES ASSUME TypeInv, Entitled, [Next]_vars,
                    NEW k \in Loops, handler'[k].pc \in EntitledPcs
             PROVE  MayTake(handler[k].who, handler[k].drop)'
  BY DEF Entitled
<1> USE DEF TypeInv, TypeOK, items, locks, credits
<1>1. ASSUME handler[k].pc \in EntitledPcs \cup {"check"},
             MayTake(handler[k].who, handler[k].drop),
             handler'[k].who = handler[k].who, handler'[k].drop = handler[k].drop
      PROVE  MayTake(handler[k].who, handler[k].drop)'
  <2>1. handler[k].who \in Players /\ handler[k].drop \in Spawned
    BY <1>1 DEF Targets, EntitledPcs, PetPcs
  <2>2. ASSUME NEW p \in Players, NEW d \in Spawned, MayTake(p, d)
        PROVE  MayTake(p, d)'
    BY <2>2, EntitledToStays
  <2> QED  BY <1>1, <2>1, <2>2 DEF MayTake
\* The handler of loop k stood still, or was moved on along its own steps.
<1>2. CASE handler'[k] = handler[k]
  BY <1>1, <1>2 DEF Entitled
<1>3. CASE Check(k)
  BY <1>1, <1>3, GotoEffect DEF Check, Allowed, Pcs, EntitledPcs, PetPcs
<1>4. CASE Give(k) \/ PetGive(k) \/ Lock(k) \/ GrabLock(k)
  BY <1>1, <1>4, GotoEffect
     DEF Give, PetGive, Lock, GrabLock, Entitled, Pcs, EntitledPcs, PetPcs
<1>5. ASSUME NEW from \in Pcs, NEW to \in Pcs, to \in EntitledPcs => from \in EntitledPcs,
             Mark(k, from, to) \/ Remove(k, from, to) \/ UnlockedGive(k, from, to)
      PROVE  MayTake(handler[k].who, handler[k].drop)'
  <2>1. handler[k].pc = from /\ (Goto(k, to) \/ Finish(k))
    BY <1>5 DEF Mark, Remove, UnlockedGive, MoveOn
  <2>2. Goto(k, to)
    BY <2>1, FinishEffect DEF EntitledPcs, PetPcs
  <2> QED  BY <1>1, <1>5, <2>1, <2>2, GotoEffect DEF Entitled
<1>6. CASE Unlock(k) \/ Grab(k) \/ ReturnMark(k) \/ Start(k)
  <2>1. ~Finish(k)
    BY FinishEffect DEF EntitledPcs, PetPcs
  <2>2. handler[k].todo \subseteq Drops
    BY DEF Handler
  <2>3. ASSUME NEW pc \in {"grabLock", "backGive"}, NEW d \in Drops
        PROVE  ~Take(k, pc, d)
    BY DEF Take, Handler, EntitledPcs, PetPcs
  <2>4. CASE Start(k)
    BY <2>4 DEF Start, StartPickup, StartGrab, StartReturn, SpawnAndVacuum, EntitledPcs, PetPcs
  <2> QED  BY <1>6, <2>1, <2>2, <2>3, <2>4 DEF Unlock, Grab, ReturnMark
<1>7. CASE Run(k)
  BY <1>3, <1>4, <1>5, <1>6, <1>7 DEF Run, Pickup, Unlocked, Pcs, EntitledPcs, PetPcs
<1>8. ASSUME NEW l \in Loops \ {k}, Run(l) \/ Start(l)
      PROVE  handler'[k] = handler[k]
  BY <1>8, OneLoopMoves
<1>9. ASSUME NEW d \in Drops, SpawnDrop(d) \/ Tick(d)
      PROVE  handler'[k] = handler[k]
  BY <1>9 DEF SpawnDrop, Tick
<1>10. ASSUME NEW t \in Cleaners, FreeForAll(t) \/ StartExpire(t) \/ Clean(t)
       PROVE  handler'[k] = handler[k]
  BY <1>10 DEF FreeForAll, StartExpire, Clean, ExpireMark, ExpireRemove
<1>11. CASE UNCHANGED vars
  BY <1>2, <1>11 DEF vars
<1> QED BY <1>2, <1>6, <1>7, <1>8, <1>9, <1>10, <1>11 DEF Next

\* A pickup credits only somebody who is entitled to the drop at that moment,
\* whatever expiry and free for all do to it after the guards were read.
THEOREM RightfullyPicked == Spec => RightfulPick
<1>1. Init => Entitled
  BY DEF Init, Entitled, EntitledPcs, PetPcs, IdleHandler
<1>2. IInv /\ Entitled /\ [Next]_vars => Entitled'
  BY NextEntitled DEF IInv
<1>3. Entitled => \A l \in Loops :
          LET d == handler[l].drop
          IN  handler[l].pc \in {"give", "petGive"} /\ picked' # picked =>
                  MayTake(handler[l].who, d)
  BY DEF Entitled, EntitledPcs, PetPcs
<1> QED  BY <1>1, <1>2, <1>3, Invariance, PTL DEF Spec, RightfulPick

-----------------------------------------------------------------------------
\* A lock that is held and not leaked is held by a pickup under way on its drop.
HeldOrLeaked == \A d \in Drops :
    holder[d] # None /\ ~leaked[d] =>
        /\ holder[d] \in Loops
        /\ handler[holder[d]].pc \in Critical /\ handler[holder[d]].drop = d

\* A step that takes no lock and leaves every pickup under way on its drop.
LEMMA KeepHeldOrLeaked ==
  ASSUME HeldOrLeaked, UNCHANGED locks,
         \A l \in Loops : handler[l].pc \in Critical =>
             handler'[l].pc \in Critical /\ handler'[l].drop = handler[l].drop
  PROVE  HeldOrLeaked'
  BY DEF HeldOrLeaked, locks

LEMMA NextHeldOrLeaked == TypeInv /\ HeldOrLeaked /\ [Next]_vars => HeldOrLeaked'
<1> SUFFICES ASSUME TypeInv, HeldOrLeaked, [Next]_vars
             PROVE  HeldOrLeaked'
  OBVIOUS
<1> USE DEF TypeInv, TypeOK
<1>1. ASSUME UNCHANGED locks, NEW l \in Loops,
             \A k \in Loops \ {l} : handler'[k] = handler[k],
             handler[l].pc \in Critical =>
                 handler'[l].pc \in Critical /\ handler'[l].drop = handler[l].drop
      PROVE  HeldOrLeaked'
  BY <1>1, KeepHeldOrLeaked
<1>2. ASSUME NEW l \in Loops, Run(l) \/ Start(l)
      PROVE  \A k \in Loops \ {l} : handler'[k] = handler[k]
  BY <1>2, OneLoopMoves
<1>3. ASSUME NEW l \in Loops, handler[l].pc \notin Critical, Run(l) \/ Start(l), UNCHANGED locks
      PROVE  HeldOrLeaked'
  BY <1>1, <1>2, <1>3
<1>4. ASSUME NEW l \in Loops, Start(l)
      PROVE  HeldOrLeaked'
  <2>1. handler[l].pc = "idle" /\ UNCHANGED locks
    BY <1>4 DEF Start, StartPickup, StartGrab, StartReturn, SpawnAndVacuum, Place
  <2> QED  BY <1>3, <1>4, <2>1 DEF Critical
<1>5. ASSUME NEW l \in Loops, Unlocked(l) \/ Grab(l)
      PROVE  HeldOrLeaked'
  <2>1. handler[l].pc \notin Critical /\ UNCHANGED locks
    BY <1>5 DEF Unlocked, Mark, Remove, UnlockedGive, ReturnMark, Grab, Critical
  <2> QED  BY <1>3, <1>5, <2>1 DEF Run
<1>6. ASSUME NEW l \in Loops, Check(l) \/ Give(l) \/ PetGive(l)
      PROVE  HeldOrLeaked'
  <2>1. UNCHANGED locks
    BY <1>6 DEF Check, Give, PetGive, items
  <2>2. handler'[l].pc \in Critical /\ handler'[l].drop = handler[l].drop
    BY <1>6, GotoEffect DEF Check, Give, PetGive, Pcs, Critical
  <2> QED  BY <1>1, <1>2, <1>6, <2>1, <2>2 DEF Run, Pickup
<1>7. ASSUME NEW l \in Loops,
             \/ Mark(l, "mark", "remove") \/ Remove(l, "remove", "unlock")
             \/ Mark(l, "petMark", "petRemove") \/ Remove(l, "petRemove", "petGive")
      PROVE  HeldOrLeaked'
  <2>1. UNCHANGED locks
    BY <1>7 DEF Mark, Remove
  <2>2. handler'[l].pc \in Critical /\ handler'[l].drop = handler[l].drop
    BY <1>7, GotoEffect DEF Mark, Remove, MoveOn, Pcs, Critical
  <2> QED  BY <1>1, <1>2, <1>7, <2>1, <2>2 DEF Run, Pickup
<1>8. ASSUME NEW l \in Loops, Lock(l) \/ GrabLock(l)
      PROVE  HeldOrLeaked'
  <2>1. handler[l].drop \in Drops /\ handler[l].pc \notin Critical
    BY <1>8 DEF Lock, GrabLock, Targets, Spawned, Critical
  <2>2. /\ holder' = [holder EXCEPT ![handler[l].drop] = l]
        /\ \A e \in Drops : leaked[e] => leaked'[e]
    BY <1>8 DEF Lock, GrabLock
  <2>3. \/ leaked'[handler[l].drop]
        \/ handler'[l].pc \in Critical /\ handler'[l].drop = handler[l].drop
    BY <1>8, <2>1, GotoEffect DEF Lock, GrabLock, Pcs, Critical
  <2>4. \A k \in Loops \ {l} : handler'[k] = handler[k]
    BY <1>2, <1>8 DEF Run, Pickup
  <2> QED  BY <2>1, <2>2, <2>3, <2>4 DEF HeldOrLeaked
<1>9. ASSUME NEW l \in Loops, Unlock(l)
      PROVE  HeldOrLeaked'
  <2>1. handler[l].pc = "unlock" /\ handler[l].drop \in Drops
    BY <1>9 DEF Unlock, Targets, Spawned
  <2>2. /\ leaked' = leaked
        /\ \A e \in Drops : e # handler[l].drop => holder'[e] = holder[e]
        /\ ~leaked[handler[l].drop] => holder'[handler[l].drop] = None
    BY <1>9, <2>1 DEF Unlock
  <2>3. \A k \in Loops \ {l} : handler'[k] = handler[k]
    BY <1>2, <1>9 DEF Run, Pickup
  <2> QED  BY <2>1, <2>2, <2>3 DEF HeldOrLeaked
<1>10. ASSUME UNCHANGED <<handler, locks>>
       PROVE  HeldOrLeaked'
  BY <1>10, KeepHeldOrLeaked
<1>11. ASSUME NEW d \in Drops, SpawnDrop(d) \/ Tick(d)
       PROVE  HeldOrLeaked'
  BY <1>10, <1>11 DEF SpawnDrop, Place, Tick
<1>12. ASSUME NEW t \in Cleaners, FreeForAll(t) \/ StartExpire(t) \/ Clean(t)
       PROVE  HeldOrLeaked'
  BY <1>10, <1>12 DEF FreeForAll, StartExpire, Clean, ExpireMark, ExpireRemove
<1>13. CASE UNCHANGED vars
  BY <1>10, <1>13 DEF vars
<1> QED BY <1>4, <1>5, <1>6, <1>7, <1>8, <1>9, <1>11, <1>12, <1>13 DEF Next, Run, Pickup

\* A loop waits for a pickup under way on another loop, or for a lock that a
\* meso explosion or a pet vacuum took and never releases.
THEOREM BlockedOnly == Spec => []BlockedOnlyByLeak
<1>1. Init => HeldOrLeaked
  BY DEF Init, HeldOrLeaked
<1>2. IInv /\ HeldOrLeaked /\ [Next]_vars => HeldOrLeaked'
  BY NextHeldOrLeaked DEF IInv
<1>3. ASSUME IInv, HeldOrLeaked
      PROVE  BlockedOnlyByLeak
  <2> SUFFICES ASSUME NEW l \in Loops, handler[l].pc \in {"lock", "grabLock"},
                      ~LockFree(l, handler[l].drop), ~leaked[handler[l].drop]
               PROVE  /\ handler[holder[handler[l].drop]].pc \in Critical
                      /\ handler[holder[handler[l].drop]].drop = handler[l].drop
    BY DEF BlockedOnlyByLeak
  <2>1. handler[l].drop \in Drops
    BY <1>3 DEF IInv, TypeInv, Targets, Spawned
  <2> QED  BY <1>3, <2>1 DEF HeldOrLeaked, LockFree
<1> QED  BY <1>1, <1>2, <1>3, Invariance, PTL DEF Spec

-----------------------------------------------------------------------------
\* The steps of the paths without the lock, and those whose drop is credited.
Alone == {"vacMark", "vacRemove", "vacGive", "mesoGive", "mesoMark", "mesoRemove",
          "back", "backGive", "backRemove"}
Owing == {"vacMark", "vacRemove", "vacGive", "mesoGive", "backGive"}
Credited == {"mesoMark", "mesoRemove", "backRemove"}

\* The loop that serves the owner of d: no other credits it without the lock.
OwnersLoop(d) == LoopOf[drop[d].owner]

\* What l credits without a lock is its own, and has not been credited before.
OwnWork(l) ==
    LET h == handler[l]
    IN  /\ h.pc \in Owing \cup Credited => OwnersLoop(h.drop) = l /\ h.drop \notin h.todo
        /\ h.pc \in Owing => returned[h.drop] = 0
        /\ h.pc = "vacGive" => where[h.drop] = "removed"
        /\ h.pc \in Alone => \A d \in h.todo : OwnersLoop(d) = l /\ returned[d] = 0

\* A drop credited without a lock has left the map, or its loop takes it off next.
Gone(d) ==
    \/ where[d] = "removed"
    \/ d \in Spawned /\ handler[OwnersLoop(d)].pc \in Credited /\ handler[OwnersLoop(d)].drop = d

ReturnInv ==
    /\ \A l \in Loops : OwnWork(l)
    /\ \A d \in Drops : returned[d] > 0 => Gone(d)
    /\ ReturnedOnce

\* Steps that do not touch the work of the paths without the lock.
LEMMA KeepReturnInv ==
  ASSUME TypeInv, ReturnInv, returned' = returned,
         \A d \in Spawned : d \in Spawned' /\ OwnersLoop(d)' = OwnersLoop(d),
         \A d \in Drops : where[d] = "removed" => where'[d] = "removed",
         \A l \in Loops : \/ handler'[l] = handler[l]
                          \/ handler[l].pc \notin Alone /\ handler'[l].pc \notin Alone
  PROVE  ReturnInv'
<1> USE DEF TypeInv, ReturnInv
<1>1. ASSUME NEW l \in Loops
      PROVE  OwnWork(l)'
  <2>1. CASE handler'[l] = handler[l]
    <3>1. handler[l].pc \in Owing \cup Credited => handler[l].drop \in Spawned
      BY DEF Targets, Owing, Credited
    <3>2. handler[l].todo \subseteq Spawned
      BY DEF Targets
    <3> QED BY <2>1, <3>1, <3>2 DEF OwnWork, Owing, Credited, Spawned
  <2>2. CASE handler'[l].pc \notin Alone
    BY <2>2 DEF OwnWork, Alone, Owing, Credited
  <2> QED BY <2>1, <2>2
<1>2. ASSUME NEW d \in Drops, returned[d] > 0
      PROVE  Gone(d)'
  <2>1. CASE where[d] = "removed"
    BY <2>1 DEF Gone
  <2>2. CASE d \in Spawned /\ handler[OwnersLoop(d)].pc \in Credited /\ handler[OwnersLoop(d)].drop = d
    <3>1. OwnersLoop(d) \in Loops
      BY <2>2, MapDropsAssumption DEF OwnersLoop, Targets, DropRec
    <3>2. handler'[OwnersLoop(d)] = handler[OwnersLoop(d)]
      BY <2>2, <3>1 DEF Alone, Credited
    <3> QED BY <2>2, <3>2 DEF Gone
  <2> QED BY <1>2, <2>1, <2>2 DEF Gone
<1> QED BY <1>1, <1>2 DEF ReturnedOnce

\* A step of one loop that credits at most its own drop.
LEMMA OneReturn ==
  ASSUME TypeInv, ReturnInv, NEW l \in Loops, OwnWork(l)',
         \A k \in Loops \ {l} : handler'[k] = handler[k],
         \A d \in Spawned : d \in Spawned' /\ OwnersLoop(d)' = OwnersLoop(d),
         \A d \in Drops : where[d] = "removed" => where'[d] = "removed",
         \A d \in Drops : returned'[d] # returned[d] =>
            returned[d] = 0 /\ returned'[d] = 1 /\ d \in Spawned /\ OwnersLoop(d) = l /\ Gone(d)',
         \A d \in Drops : handler[l].pc \in Credited /\ handler[l].drop = d => Gone(d)'
  PROVE  ReturnInv'
<1> USE DEF TypeInv, ReturnInv
<1>1. ASSUME NEW k \in Loops \ {l}
      PROVE  OwnWork(k)'
  <2>1. OwnWork(k) /\ handler'[k] = handler[k] OBVIOUS
  <2>2. handler[k].pc \in Owing \cup Credited => handler[k].drop \in Spawned
    BY DEF Targets, Owing, Credited
  <2>3. handler[k].todo \subseteq Spawned /\ Spawned \subseteq Drops
    BY DEF Targets, Spawned
  <2>4. \A d \in Spawned : OwnersLoop(d) = k => returned'[d] = returned[d]
    BY <2>3
  <2>5. Owing \subseteq Alone /\ Credited \subseteq Alone /\ "vacGive" \in Owing
    BY DEF Owing, Credited, Alone
  <2> DEFINE h == handler[k]
  <2>6. h.pc \in Owing \cup Credited => OwnersLoop(h.drop) = k /\ h.drop \notin h.todo
    BY <2>1 DEF OwnWork
  <2>7. h.pc \in Owing => returned[h.drop] = 0
    BY <2>1 DEF OwnWork
  <2>8. h.pc = "vacGive" => where[h.drop] = "removed"
    BY <2>1 DEF OwnWork
  <2>9. h.pc \in Alone => \A d \in h.todo : OwnersLoop(d) = k /\ returned[d] = 0
    BY <2>1 DEF OwnWork
  <2>10. \A e : h.pc \in Owing \cup Credited /\ e = h.drop =>
                  e \in Spawned /\ OwnersLoop(e)' = k /\ e \notin h.todo
    BY <2>2, <2>6
  <2>11. h.pc \in Owing => returned'[h.drop] = 0
    BY <2>2, <2>4, <2>6, <2>7
  <2>12. h.pc = "vacGive" => where'[h.drop] = "removed"
    BY <2>2, <2>3, <2>5, <2>8
  <2>13. h.pc \in Alone => \A d \in h.todo : OwnersLoop(d)' = k /\ returned'[d] = 0
    BY <2>3, <2>4, <2>9
  <2> QED BY <2>1, <2>10, <2>11, <2>12, <2>13 DEF OwnWork
<1>2. ASSUME NEW d \in Drops, returned'[d] > 0
      PROVE  Gone(d)'
  <2>1. CASE returned'[d] # returned[d]
    BY <2>1
  <2>2. CASE returned'[d] = returned[d]
    <3>1. CASE where[d] = "removed"
      BY <3>1 DEF Gone
    <3>2. CASE d \in Spawned /\ handler[OwnersLoop(d)].pc \in Credited /\ handler[OwnersLoop(d)].drop = d
      <4>1. OwnersLoop(d) \in Loops
        BY <3>2, MapDropsAssumption DEF OwnersLoop, Targets, DropRec
      <4>2. CASE OwnersLoop(d) = l
        BY <3>2, <4>2
      <4>3. CASE OwnersLoop(d) # l
        BY <3>2, <4>1, <4>3 DEF Gone
      <4> QED BY <4>2, <4>3
    <3> QED BY <1>2, <2>2, <3>1, <3>2 DEF Gone
  <2> QED BY <2>1, <2>2
<1>3. ReturnedOnce'
  BY DEF ReturnedOnce
<1> QED BY <1>1, <1>2, <1>3

LEMMA NextReturnInv == TypeInv /\ ReturnInv /\ [Next]_vars => ReturnInv'
<1> SUFFICES ASSUME TypeInv, ReturnInv, [Next]_vars
             PROVE  ReturnInv'
  OBVIOUS
<1> USE DEF TypeInv, TypeOK
<1>1. Alone = Owing \cup Credited \cup {"back"} /\ {"idle", "unlock", "lock", "grab", "grabLock"} \cap Alone = {}
      /\ Critical \cap Alone = {}
  BY DEF Alone, Owing, Credited, Critical
<1>2. ASSUME NEW l \in Loops, Run(l) \/ Start(l)
      PROVE  \A k \in Loops \ {l} : handler'[k] = handler[k]
  BY <1>2, OneLoopMoves
<1>3. ASSUME UNCHANGED handler, returned' = returned,
             \A d \in Spawned : d \in Spawned' /\ OwnersLoop(d)' = OwnersLoop(d),
             \A d \in Drops : where[d] = "removed" => where'[d] = "removed"
      PROVE  ReturnInv'
  BY <1>3, KeepReturnInv
<1>4. ASSUME NEW d \in Drops, SpawnDrop(d)
      PROVE  ReturnInv'
  BY <1>3, <1>4 DEF SpawnDrop, Place, credits, Spawned, OwnersLoop
<1>5. ASSUME NEW d \in Drops, Tick(d)
      PROVE  ReturnInv'
  BY <1>3, <1>5 DEF Tick, credits, Spawned, OwnersLoop
<1>6. ASSUME NEW t \in Cleaners, FreeForAll(t)
      PROVE  ReturnInv'
  <2>1. PICK d \in OnMap : drop' = [drop EXCEPT ![d].type = 2]
    BY <1>6 DEF FreeForAll
  <2>2. \A e \in Spawned : drop'[e].owner = drop[e].owner
    BY <2>1 DEF Targets, OnMap, Spawned, DropRec
  <2> QED BY <1>3, <1>6, <2>2 DEF FreeForAll, credits, Spawned, OwnersLoop
<1>7. ASSUME NEW t \in Cleaners, StartExpire(t) \/ Clean(t)
      PROVE  ReturnInv'
  <2>1. cleaner[t].pc # "idle" => cleaner[t].drop \in Drops
    BY DEF Targets, Spawned
  <2> QED
    BY <1>3, <1>7, <2>1 DEF StartExpire, Clean, ExpireMark, ExpireRemove, items, credits, Spawned,
                            OwnersLoop
<1>8. ASSUME NEW l \in Loops, returned' = returned, UNCHANGED drop,
             \A k \in Loops \ {l} : handler'[k] = handler[k],
             handler[l].pc \notin Alone, handler'[l].pc \notin Alone,
             \A d \in Drops : where'[d] = where[d] \/ (where'[d] = "removed" /\ where[d] # "unborn")
      PROVE  ReturnInv'
  <2>1. \A d \in Spawned : d \in Spawned' /\ OwnersLoop(d)' = OwnersLoop(d)
    BY <1>8 DEF Spawned, OwnersLoop
  <2> QED BY <1>8, <2>1, KeepReturnInv
<1>9. ASSUME NEW l \in Loops, StartPickup(l) \/ StartGrab(l)
      PROVE  ReturnInv'
  <2>1. handler[l].pc = "idle" /\ UNCHANGED <<items, credits>>
    BY <1>9 DEF StartPickup, StartGrab
  <2>2. handler'[l].pc \in {"lock", "grab"}
    BY <1>9 DEF StartPickup, StartGrab
  <2> QED BY <1>1, <1>2, <1>8, <1>9, <2>1, <2>2 DEF Start, items, credits
<1>10. ASSUME NEW l \in Loops, Pickup(l) \/ Grab(l) \/ GrabLock(l)
       PROVE  ReturnInv'
  <2>1. handler[l].pc \in {"lock", "grab", "grabLock"} \cup Critical
    BY <1>10 DEF Pickup, Lock, Check, Give, PetGive, Unlock, Mark, Remove, Grab, GrabLock, Critical
  <2>2. handler'[l].pc \in {"idle", "lock", "grab", "grabLock"} \cup Critical
    <3>1. CASE Finish(l)
      BY <3>1, FinishEffect
    <3>2. ASSUME NEW pc \in {"grab"} \cup Critical, Goto(l, pc)
          PROVE  handler'[l].pc \in {"grab"} \cup Critical
      BY <3>2, GotoEffect DEF Pcs, Critical
    <3>3. ASSUME NEW d \in handler[l].todo, Take(l, "grabLock", d)
          PROVE  handler'[l].pc = "grabLock"
      BY <3>3 DEF Take, Handler
    <3>4. CASE Lock(l) \/ Check(l) \/ Give(l) \/ PetGive(l) \/ Unlock(l)
      BY <3>1, <3>2, <3>4 DEF Lock, Check, Give, PetGive, Unlock, Critical
    <3>5. CASE \/ Mark(l, "mark", "remove") \/ Remove(l, "remove", "unlock")
               \/ Mark(l, "petMark", "petRemove") \/ Remove(l, "petRemove", "petGive")
      BY <3>2, <3>5 DEF Mark, Remove, MoveOn, Critical
    <3>6. CASE Grab(l) \/ GrabLock(l)
      BY <3>1, <3>2, <3>3, <3>6 DEF Grab, GrabLock
    <3> QED BY <1>10, <3>4, <3>5, <3>6 DEF Pickup
  <2>3. returned' = returned /\ UNCHANGED drop
    BY <1>10 DEF Pickup, Lock, Check, Give, PetGive, Unlock, Mark, Remove, Grab, GrabLock, items, credits
  <2>4. \A d \in Drops : where'[d] = where[d] \/ (where'[d] = "removed" /\ where[d] # "unborn")
    <3>1. handler[l].pc \in Critical => handler[l].drop \in Spawned
      BY DEF Targets, Critical
    <3> QED
      BY <1>10, <3>1 DEF Pickup, Lock, Check, Give, PetGive, Unlock, Mark, Remove, Grab, GrabLock, items,
                         Critical, Spawned
  <2> QED BY <1>1, <1>2, <1>8, <1>10, <2>1, <2>2, <2>3, <2>4 DEF Run
<1>11. ASSUME NEW l \in Loops, NEW d \in Drops, SpawnAndVacuum(l, d)
       PROVE  ReturnInv'
  <2>1. PICK r \in MobDrops : /\ LoopOf[r.owner] = l /\ Place(d, r)
                              /\ handler' = [handler EXCEPT ![l] =
                                   [pc |-> IF r.meso THEN "mesoGive" ELSE "vacMark",
                                    who |-> r.owner, drop |-> d, pet |-> TRUE, todo |-> {}]]
    BY <1>11 DEF SpawnAndVacuum
  <2>2. handler[l].pc = "idle"
    BY <1>11 DEF SpawnAndVacuum
  <2>3. where[d] = "unborn" /\ where'[d] = "map" /\ drop'[d] = r /\ returned' = returned
        /\ (\A e \in Drops \ {d} : where'[e] = where[e] /\ drop'[e] = drop[e])
    BY <2>1 DEF Place, credits
  <2>4. returned[d] = 0
    BY <2>3 DEF ReturnInv, Gone, Spawned
  <2>5. handler'[l].pc \in {"mesoGive", "vacMark"} /\ handler'[l].drop = d /\ handler'[l].todo = {}
    BY <2>1
  <2>6. OwnWork(l)'
    BY <2>1, <2>3, <2>4, <2>5 DEF OwnWork, OwnersLoop, Owing, Credited
  <2>7. \A e \in Spawned : e \in Spawned' /\ OwnersLoop(e)' = OwnersLoop(e)
    BY <2>3 DEF Spawned, OwnersLoop
  <2>8. handler[l].pc \notin Credited
    BY <2>2 DEF Credited
  <2> QED BY <1>2, <1>11, <2>3, <2>6, <2>7, <2>8, OneReturn DEF Start
<1>12. ASSUME NEW l \in Loops, StartReturn(l)
       PROVE  ReturnInv'
  <2>1. PICK p \in Players : /\ LoopOf[p] = l
                             /\ handler' = [handler EXCEPT ![l] =
                                  [pc |-> "back", who |-> p, drop |-> None, pet |-> FALSE,
                                   todo |-> {d \in OnMap : drop[d].owner = p}]]
    BY <1>12 DEF StartReturn
  <2>2. handler[l].pc = "idle" /\ UNCHANGED <<items, credits>>
    BY <1>12 DEF StartReturn
  <2>3. handler'[l].pc = "back" /\ handler'[l].todo = {d \in OnMap : drop[d].owner = p}
    BY <2>1
  <2>4. \A d \in OnMap : drop[d].owner = p => OwnersLoop(d) = l /\ returned[d] = 0
    BY <2>1, <2>2 DEF ReturnInv, Gone, OnMap, Credited, OwnersLoop
  <2>6. OwnWork(l)'
    BY <2>2, <2>3, <2>4 DEF OwnWork, OwnersLoop, Owing, Credited, items, credits
  <2>7. \A e \in Spawned : e \in Spawned' /\ OwnersLoop(e)' = OwnersLoop(e)
    BY <2>2 DEF Spawned, OwnersLoop, items
  <2>8. handler[l].pc \notin Credited
    BY <2>2 DEF Credited
  <2> QED BY <1>2, <1>12, <2>2, <2>6, <2>7, <2>8, OneReturn DEF Start, items, credits
<1>13. ASSUME NEW l \in Loops, NEW from \in Alone \ {"back"}, NEW to \in Pcs, Mark(l, from, to),
              <<from, to>> \in {<<"vacMark", "vacRemove">>, <<"mesoMark", "mesoRemove">>}
       PROVE  ReturnInv'
  <2>1. /\ handler[l].pc = from /\ UNCHANGED <<where, drop, credits>>
        /\ handler'[l].pc = to /\ handler'[l].drop = handler[l].drop
        /\ handler'[l].todo = handler[l].todo
    BY <1>13, GotoEffect DEF Mark
  <2>2. OwnWork(l) /\ handler[l].drop \in Spawned /\ handler[l].drop \in Drops
    BY <1>13, <2>1 DEF ReturnInv, Targets, Alone, Spawned
  <2>3. OwnWork(l)'
    BY <1>13, <2>1, <2>2 DEF OwnWork, OwnersLoop, Owing, Credited, Alone, credits
  <2>4. \A d \in Drops : handler[l].pc \in Credited /\ handler[l].drop = d => Gone(d)'
    BY <1>13, <2>1, <2>2 DEF OwnWork, Gone, OwnersLoop, Credited, Spawned
  <2>5. \A e \in Spawned : e \in Spawned' /\ OwnersLoop(e)' = OwnersLoop(e)
    BY <2>1 DEF Spawned, OwnersLoop
  <2>6. Unlocked(l)
    BY <1>13 DEF Unlocked
  <2> QED BY <1>2, <2>1, <2>3, <2>4, <2>5, <2>6, OneReturn DEF Run, credits
<1>14. ASSUME NEW l \in Loops, NEW from \in Alone \ {"back"}, NEW to \in Pcs, Remove(l, from, to),
              <<from, to>> \in {<<"vacRemove", "vacGive">>, <<"mesoRemove", "idle">>, <<"backRemove", "back">>}
       PROVE  ReturnInv'
  <2> DEFINE d == handler[l].drop
  <2>1. /\ handler[l].pc = from /\ UNCHANGED <<drop, credits>>
        /\ where' = [where EXCEPT ![d] = "removed"]
    BY <1>14 DEF Remove
  <2>2. OwnWork(l) /\ d \in Spawned /\ d \in Drops
    BY <1>14, <2>1 DEF ReturnInv, Targets, Alone, Spawned
  <2>3. where'[d] = "removed" /\ \A e \in Drops \ {d} : where'[e] = where[e]
    BY <2>1, <2>2
  <2>4. \/ handler'[l].pc = "idle"
        \/ /\ handler'[l].pc = to /\ handler'[l].drop = d
           /\ handler'[l].todo = handler[l].todo
    BY <1>14, GotoEffect, FinishEffect DEF Remove, MoveOn
  <2>5. OwnWork(l)'
    BY <1>14, <2>1, <2>2, <2>3, <2>4 DEF OwnWork, OwnersLoop, Owing, Credited, Alone, credits
  <2>6. \A e \in Drops : handler[l].pc \in Credited /\ handler[l].drop = e => Gone(e)'
    BY <2>3 DEF Gone
  <2>7. \A e \in Spawned : e \in Spawned' /\ OwnersLoop(e)' = OwnersLoop(e)
    BY <2>1, <2>2, <2>3 DEF Spawned, OwnersLoop
  <2>8. Unlocked(l)
    BY <1>14 DEF Unlocked
  <2> QED BY <1>2, <2>1, <2>2, <2>3, <2>5, <2>6, <2>7, <2>8, OneReturn DEF Run, credits
<1>15. ASSUME NEW l \in Loops, NEW from \in Owing, NEW to \in Pcs, UnlockedGive(l, from, to),
              <<from, to>> \in {<<"vacGive", "idle">>, <<"mesoGive", "mesoMark">>, <<"backGive", "backRemove">>}
       PROVE  ReturnInv'
  <2> DEFINE d == handler[l].drop
  <2>1. /\ handler[l].pc = from /\ UNCHANGED <<where, drop>>
        /\ returned' = [returned EXCEPT ![d] = @ + 1] \/ returned' = returned
    BY <1>15 DEF UnlockedGive, items
  <2>2. OwnWork(l) /\ d \in Spawned /\ d \in Drops
    BY <1>15, <2>1 DEF ReturnInv, Targets, Owing, Spawned
  <2>3. returned[d] = 0 /\ OwnersLoop(d) = l /\ (from = "vacGive" => where[d] = "removed")
    BY <2>1, <2>2 DEF OwnWork
  <2>4. \A e \in Drops : returned'[e] # returned[e] => e = d /\ returned'[e] = 1
    BY <2>1, <2>2, <2>3
  <2>5. \/ handler'[l].pc = "idle" /\ to = "idle"
        \/ /\ handler'[l].pc = to /\ handler'[l].drop = d
           /\ handler'[l].todo = handler[l].todo
    BY <1>15, GotoEffect, FinishEffect DEF UnlockedGive, MoveOn
  <2>6. \A e \in handler[l].todo : OwnersLoop(e) = l /\ returned'[e] = 0
    <3>1. handler[l].todo \subseteq Drops /\ d \notin handler[l].todo
      BY <2>1, <2>2 DEF Targets, Spawned, OwnWork
    <3>2. \A e \in handler[l].todo : OwnersLoop(e) = l /\ returned[e] = 0
      BY <1>15, <2>1, <2>2 DEF OwnWork, Alone
    <3> QED BY <2>4, <3>1, <3>2
  <2>7. OwnWork(l)'
    BY <1>15, <2>1, <2>2, <2>3, <2>5, <2>6 DEF OwnWork, OwnersLoop, Owing, Credited, Alone
  <2>8. \A e \in Drops : e = d => Gone(e)'
    BY <1>15, <2>1, <2>2, <2>3, <2>5 DEF Gone, OwnersLoop, Credited, Spawned
  <2>9. \A e \in Spawned : e \in Spawned' /\ OwnersLoop(e)' = OwnersLoop(e)
    BY <2>1 DEF Spawned, OwnersLoop
  <2>10. Unlocked(l) /\ handler[l].pc \notin Credited
    BY <1>15, <2>1 DEF Unlocked, Owing, Credited
  <2> QED BY <1>2, <2>1, <2>2, <2>3, <2>4, <2>7, <2>8, <2>9, <2>10, OneReturn DEF Run
<1>16. ASSUME NEW l \in Loops, ReturnMark(l)
       PROVE  ReturnInv'
  <2>1. handler[l].pc = "back" /\ UNCHANGED <<where, drop, credits>> /\ OwnWork(l)
    BY <1>16 DEF ReturnMark, ReturnInv
  <2>2. OwnWork(l)'
    <3>1. CASE Finish(l)
      BY <3>1, FinishEffect DEF OwnWork, Owing, Credited, Alone
    <3>2. ASSUME NEW d \in handler[l].todo, Take(l, "backGive", d)
          PROVE  OwnWork(l)'
      <4>1. /\ handler'[l].pc = "backGive" /\ handler'[l].drop = d
            /\ handler'[l].todo = handler[l].todo \ {d}
        BY <3>2 DEF Take, Handler
      <4>2. \A e \in handler[l].todo : OwnersLoop(e) = l /\ returned[e] = 0
        BY <2>1 DEF OwnWork, Alone
      <4> QED BY <2>1, <4>1, <4>2 DEF OwnWork, OwnersLoop, credits
    <3> QED BY <1>16, <3>1, <3>2 DEF ReturnMark
  <2>3. \A e \in Spawned : e \in Spawned' /\ OwnersLoop(e)' = OwnersLoop(e)
    BY <2>1 DEF Spawned, OwnersLoop
  <2>4. Unlocked(l) /\ handler[l].pc \notin Credited
    BY <1>16, <2>1 DEF Unlocked, Credited
  <2> QED BY <1>2, <2>1, <2>2, <2>3, <2>4, OneReturn DEF Run, credits
<1>17. CASE UNCHANGED vars
  BY <1>3, <1>17 DEF vars, items, credits, Spawned, OwnersLoop
<1>18. ASSUME NEW l \in Loops, Unlocked(l)
       PROVE  ReturnInv'
  BY <1>13, <1>14, <1>15, <1>16, <1>18 DEF Unlocked, Alone, Owing, Pcs
<1> QED
  BY <1>4, <1>5, <1>6, <1>7, <1>9, <1>10, <1>11, <1>12, <1>17, <1>18 DEF Next, Start, Run

\* The paths without the lock credit a drop at most once among themselves,
\* though they neither lock it nor look at pickedUp: each runs on the event loop
\* of the drop's owner, and the drop has left the map before that loop goes on.
THEOREM ReturnOnce == Spec => []ReturnedOnce
<1>1. Init => ReturnInv
  BY DEF Init, ReturnInv, OwnWork, ReturnedOnce, IdleHandler, Owing, Credited, Alone
<1>2. IInv /\ ReturnInv /\ [Next]_vars => ReturnInv'
  BY NextReturnInv DEF IInv
<1>3. ReturnInv => ReturnedOnce
  BY DEF ReturnInv
<1> QED  BY <1>1, <1>2, <1>3, Invariance, PTL DEF Spec
=============================================================================
