---------------------------- MODULE Saving_proofs ----------------------------
(***************************************************************************)
(* Theorems about Saving for any characters, tokens, loops, threads and    *)
(* faults: its types, Clean, KeptOnQuit, and that it implements Durable.   *)
(*                                                                         *)
(* The invariant says what a transaction's copy has to do with memory and  *)
(* database at each of its statements (Reads), whom two threads may be     *)
(* concerned with (Busy), and what has become of a character that is       *)
(* leaving (Settled).  The steps that only move belongings about have one  *)
(* lemma between them, Playing; the others are taken one by one.           *)
(***************************************************************************)
EXTENDS Saving, FiniteSetTheorems, TLAPS

-----------------------------------------------------------------------------
(* The inductive invariant.                                                 *)

InTrans(t) == task[t].pc \in {"inv", "rest", "sto", "commit"}

BusyOf(t) == LET k == task[t] IN
    /\ k.pc = "idle" => k = Idle
    /\ k.pc # "idle" => k.who \in Char
    /\ t \in Loop /\ k.pc # "idle" => LoopOf[k.who] = t
    /\ t \in Other => /\ k.after \in {"end", "quit"}
                      /\ k.pc \in {"idle", "row", "lock", "after"} \/ InTrans(t)
    /\ k.after = "partner" => trade[k.who] # None
    /\ k.after = "quit" => k.pc \in {"row", "lock", "after"} \/ InTrans(t)
    /\ k.after = "quit" /\ t \in Loop => trade[k.who] = None
    /\ k.pc \in {"putting", "taking"} \/ k.after \in {"gain", "lose"} => k.item \in Token
    /\ k.room => k.pc = "commit" /\ changed[k.who]
    /\ ~k.room => k.add = {} /\ k.del = {}

Exclusive == \A t, u \in Thread :
    t # u /\ InTrans(t) /\ InTrans(u) => task[t].who # task[u].who

\* What a thread is doing is legal, and no two transactions concern one character.
Busy == Exclusive /\ \A t \in Thread : BusyOf(t)

\* Traders are on one loop, and each other's partners.
Trading == \A c \in Char : trade[c] # None =>
    LoopOf[trade[c]] = LoopOf[c] /\ trade[trade[c]] = c

\* What a transaction has read and noted.
Copied(t) == LET k == task[t]  c == task[t].who IN
    /\ k.pc \in {"lock", "inv"} /\ (k.whole \/ "inv" \in k.seen) => k.inv = inv[c] \cap Meso
    /\ k.pc \in {"lock", "inv", "rest", "sto"} => "sto" \notin k.seen
    /\ k.pc \in {"rest", "sto", "commit"} /\ "inv" \in k.seen => k.inv = inv[c]
    /\ k.pc = "commit" /\ "sto" \in k.seen =>
          k.room /\ k.del = dbSto[c] /\ k.add = sto[c] \X {t}
    /\ k.pc = "commit" /\ k.whole /\ k.room => k.del = dbSto[c]

\* What a room that is being saved alone has become of by now.
Apartly(t) == LET k == task[t]  c == task[t].who IN
    /\ k.pc = "delete" /\ k.whole /\ "sto" \in k.seen =>
          /\ {r \in dbSto[c] : r[1] \in Meso} = (sto[c] \cap Meso) \X {t}
          /\ k.list = sto[c] \ Meso
    /\ k.pc = "insert" /\ k.whole /\ "sto" \in k.seen =>
          k.list \subseteq sto[c] \ Meso /\ dbSto[c] = (sto[c] \ k.list) \X {t}
    /\ k.pc \in {"delete", "insert"} =>
          /\ damaged[c] /\ changed[c]
          /\ \A u \in Thread : task[u].who = c =>
                (task[u].pc = "commit" => ~task[u].whole) /\ (k.whole => ~task[u].room)

Reads == \A t \in Thread : Copied(t) /\ Apartly(t)

\* A room that is not marked as changed is what the database has.
Unmarked == \A c \in Char : ~changed[c] => Content(dbSto[c]) = sto[c]

Back(c) == dbInv[c] = inv[c] /\ Content(dbSto[c]) = sto[c]

\* A thread that has saved c for the last time and is about to remove c.
Removes(t, c) == task[t].who = c /\ task[t].pc = "after" /\ task[t].after = "quit"

\* A character that left is gone or about to be removed.
Departed(c) == left[c] =>
    /\ c \notin online \/ \E t \in Thread : Removes(t, c)
    /\ ~damaged[c] /\ c \notin late => Back(c)

\* A whole copy of a character that is leaving or has left is all he has, unless his
\* loop went on with him.
Settling(t) == LET k == task[t]  c == task[t].who IN
    k.pc # "idle" /\ k.whole /\ (left[c] \/ k.after = "quit") /\ c \notin late =>
        /\ k.pc \in {"rest", "sto", "commit"} => k.inv = inv[c]
        /\ k.pc = "commit" /\ k.room => Content(k.add) = sto[c]
        /\ k.pc = "commit" /\ ~k.room => Content(dbSto[c]) = sto[c]

Settled == (\A c \in Char : Departed(c)) /\ (\A t \in Thread : Settling(t))

IInv == TypeOK /\ Busy /\ Trading /\ Reads /\ Unmarked /\ Clean /\ Settled

LEMMA Facts ==
    /\ Loop \subseteq Thread /\ Other \subseteq Thread /\ Thread = Loop \cup Other
    /\ \A c \in Char : LoopOf[c] \in Loop /\ LoopOf[c] \in Thread /\ c # None
    /\ \A k \in Token : k # None
    /\ Meso \subseteq Token /\ None \notin Char /\ None \notin Token
    /\ \A t \in Loop : t \notin Other
BY SavingAssumption DEF Thread

LEMMA IdleTask == Idle \in Task
BY DEF Idle, Task, Pc, After, Part

LEMMA BeginTask ==
    ASSUME NEW c \in Char, NEW pc \in Pc, NEW item \in Token \cup {None}, NEW after \in After
    PROVE  LET k == Begin(c, pc, item, after) IN
           /\ k \in Task
           /\ k.pc = pc /\ k.who = c /\ k.item = item /\ k.after = after
           /\ k.add = {} /\ k.del = {} /\ ~k.room /\ k.whole /\ k.seen = {}
<1>1. Idle = [pc |-> "idle", who |-> None, inv |-> {}, add |-> {}, del |-> {}, list |-> {},
               room |-> FALSE, item |-> None, after |-> "end", seen |-> {}, whole |-> TRUE]
  BY DEF Idle
<1>2. Begin(c, pc, item, after) = [[[[Idle EXCEPT !.pc = pc] EXCEPT !.who = c]
                                      EXCEPT !.item = item] EXCEPT !.after = after]
  BY DEF Begin
<1> QED BY <1>1, <1>2, IdleTask DEF Task, Idle

LEMMA TaskIs ==
    ASSUME TypeOK, NEW t \in Thread
    PROVE  LET k == task[t] IN
           /\ k \in Task
           /\ k.pc \in Pc /\ k.who \in Char \cup {None} /\ k.inv \in SUBSET Token
           /\ k.add \in SUBSET Row /\ k.del \in SUBSET Row /\ k.list \in SUBSET Token
           /\ k.room \in BOOLEAN /\ k.item \in Token \cup {None} /\ k.after \in After
           /\ k.seen \in SUBSET Part /\ k.whole \in BOOLEAN
BY DEF TypeOK, Task

-----------------------------------------------------------------------------
(* Steps that move belongings about in memory.                              *)

\* Thread t is Bound to a trade: it is handing over, or its player has left the trade.
\* It is Eased when it goes on with what it is doing, and what it has read and what
\* has changed since is noticed.
Bound(t) == task[t].after = "partner" \/ (task[t].after = "quit" /\ t \in Loop)
Eased(t) == LET k == task[t]  j == task'[t]  c == task[t].who IN
    /\ j.pc = k.pc /\ j.who = c /\ j.inv = k.inv /\ j.add = k.add /\ j.del = k.del
    /\ j.list = k.list /\ j.room = k.room /\ j.item = k.item /\ j.after = k.after
    /\ j.seen \subseteq k.seen /\ (j.whole => k.whole)
    /\ c \notin Char => j = k
    /\ c \in Char /\ inv'[c] # inv[c] =>
          "inv" \notin j.seen /\ (k.pc \in {"lock", "inv"} => ~j.whole)
    /\ c \in Char /\ sto'[c] # sto[c] =>
          "sto" \notin j.seen /\ (k.pc \in {"rest", "sto"} => ~j.whole)
    /\ c \in Char /\ Bound(t) => trade'[c] = trade[c]

\* Thread t ends what it was doing and goes on to something legal, if anything.
Starts(t) == LET j == task'[t] IN
    /\ task[t].pc = "after" => task[t].after # "quit"
    /\ ~j.room /\ j.add = {} /\ j.del = {}
    /\ \/ j = Idle
       \/ /\ j.pc \in {"row", "putting", "taking", "update", "after"} /\ j.who \in Char
          /\ t \in Loop => LoopOf[j.who] = t
          /\ t \in Other => j.after \in {"end", "quit"} /\ j.pc = "row"
          /\ j.after = "partner" => trade'[j.who] # None
          /\ j.after = "quit" => j.pc \in {"row", "after"}
          /\ j.after = "quit" /\ t \in Loop => trade'[j.who] = None
          /\ j.pc \in {"putting", "taking"} \/ j.after \in {"gain", "lose"} => j.item \in Token

\* Character c is in the game, and nobody who takes c out has read anything yet.
Unread(c) == c \in online /\ \A t \in Thread :
    task[t].who = c /\ task[t].after = "quit" => task[t].pc = "row"

\* Belongings move, and those who are leaving are late; nothing is saved.
Playing ==
    /\ online' = online /\ dbInv' = dbInv /\ dbSto' = dbSto
    /\ damaged' = damaged /\ left' = left
    /\ \A t \in Thread : Eased(t) \/ Starts(t)
    /\ clean' \subseteq clean
    /\ \A c \in Char : inv'[c] # inv[c] => <<c, "inv">> \notin clean'
    /\ \A c \in Char : sto'[c] # sto[c] => <<c, "sto">> \notin clean' /\ changed'[c]
    /\ \A c \in Char : changed[c] => changed'[c]
    /\ late \subseteq late'
    /\ \A c \in Char : inv'[c] # inv[c] \/ sto'[c] # sto[c] => c \in late' \/ Unread(c)

LEMMA PlayingBusy ==
    ASSUME TypeOK, TypeOK', Busy, Playing
    PROVE  Busy'
<1>1. ASSUME NEW t \in Thread PROVE BusyOf(t)'
  <2>1. CASE Eased(t) /\ task[t].who \in Char
    <3>1. task'[t].pc # "idle"
      BY <2>1, Facts DEF Busy, BusyOf, Eased, Idle
    <3>2. online' = online /\ (changed[task[t].who] => changed'[task[t].who])
      BY <2>1 DEF Playing
    <3> QED BY <2>1, <3>1, <3>2 DEF Busy, BusyOf, Eased, InTrans, Bound
  <2>3. CASE Eased(t) /\ task[t].who \notin Char
    <3>1. task[t] = Idle /\ task'[t] = Idle
      BY <2>3 DEF Busy, BusyOf, Eased
    <3> QED BY <3>1 DEF BusyOf, Idle
  <2>2. CASE Starts(t)
    BY <2>2, Facts DEF Starts, BusyOf, Idle, InTrans
  <2> QED BY <2>1, <2>2, <2>3 DEF Playing
<1>2. ASSUME NEW t \in Thread, NEW u \in Thread, t # u, InTrans(t)', InTrans(u)'
      PROVE  task'[t].who # task'[u].who
  <2>1. \A v \in Thread : InTrans(v)' => Eased(v)
    BY DEF Playing, Starts, InTrans, Idle
  <2> QED BY <1>2, <2>1 DEF Busy, Exclusive, Eased, InTrans
<1> QED BY <1>1, <1>2 DEF Busy, Exclusive

LEMMA PlayingReads ==
    ASSUME TypeOK, TypeOK', Busy, Reads, Playing
    PROVE  Reads'
<1>1. ASSUME NEW t \in Thread PROVE Copied(t)'
  <2>1. CASE Eased(t)
    <3>1. CASE task[t].who \in Char
      BY <2>1, <3>1 DEF Reads, Copied, Playing, Eased
    <3>2. CASE task[t].who \notin Char
      BY <2>1, <3>2 DEF Busy, BusyOf, Copied, Eased, Idle
    <3> QED BY <3>1, <3>2
  <2>2. CASE Starts(t)
    BY <2>2 DEF Starts, Copied, Idle
  <2> QED BY <2>1, <2>2 DEF Playing
<1>2. ASSUME NEW t \in Thread PROVE Apartly(t)'
  <2>1. CASE Eased(t)
    <3>1. CASE task[t].who \in Char
      <4>1. \A u \in Thread : task'[u].pc = "commit" \/ task'[u].room => Eased(u)
        BY DEF Playing, Starts, Idle
      <4>2. task'[t].pc \in {"delete", "insert"} =>
              /\ damaged'[task'[t].who] /\ changed'[task'[t].who]
              /\ \A u \in Thread : task'[u].who = task'[t].who =>
                    /\ task'[u].pc = "commit" => ~task'[u].whole
                    /\ task'[t].whole => ~task'[u].room
        <5>1. damaged' = damaged /\ \A c \in Char : changed[c] => changed'[c]
          BY DEF Playing
        <5> QED BY <2>1, <3>1, <4>1, <5>1 DEF Reads, Apartly, Eased
      <4>3. "sto" \in task'[t].seen => sto'[task[t].who] = sto[task[t].who] /\ "sto" \in task[t].seen
        BY <2>1, <3>1, TaskIs DEF Eased
      <4> QED BY <2>1, <3>1, <4>2, <4>3 DEF Reads, Apartly, Playing, Eased
    <3>2. CASE task[t].who \notin Char
      BY <2>1, <3>2 DEF Busy, BusyOf, Apartly, Eased, Idle
    <3> QED BY <3>1, <3>2
  <2>2. CASE Starts(t)
    BY <2>2 DEF Starts, Apartly, Idle
  <2> QED BY <2>1, <2>2 DEF Playing
<1> QED BY <1>1, <1>2 DEF Reads

LEMMA PlayingClean ==
    ASSUME TypeOK, TypeOK', Clean, Unmarked, Playing
    PROVE  Clean' /\ Unmarked'
<1>1. ASSUME NEW c \in Char
      PROVE  /\ <<c, "inv">> \in clean' => dbInv'[c] = inv'[c]
             /\ <<c, "sto">> \in clean' => Content(dbSto'[c]) = sto'[c] /\ OneRowEach(c)'
             /\ ~changed'[c] => Content(dbSto'[c]) = sto'[c]
  BY DEF Playing, Clean, Unmarked, OneRowEach, TypeOK
<1> QED BY <1>1 DEF Clean, Unmarked

LEMMA PlayingSettled ==
    ASSUME TypeOK, TypeOK', Busy, Settled, Playing
    PROVE  Settled'
<1>1. ASSUME NEW c \in Char, c \notin late',
             left[c] \/ \E t \in Thread : /\ task[t].who = c /\ task[t].after = "quit"
                                          /\ task[t].pc # "row"
      PROVE  inv'[c] = inv[c] /\ sto'[c] = sto[c]
  <2>1. ~Unread(c)
    BY <1>1 DEF Settled, Departed, Removes, Unread
  <2> QED BY <1>1, <2>1 DEF Playing
<1>2. ASSUME NEW c \in Char, left'[c] PROVE Departed(c)'
  <2>1. left[c] /\ online' = online /\ damaged' = damaged /\ dbInv' = dbInv /\ dbSto' = dbSto
        /\ (c \notin late' => c \notin late)
    BY <1>2 DEF Playing
  <2>2. ASSUME NEW t \in Thread, Removes(t, c) PROVE Removes(t, c)'
    BY <2>2 DEF Playing, Starts, Eased, Removes
  <2>3. c \notin online' \/ \E t \in Thread : Removes(t, c)'
    BY <2>1, <2>2 DEF Settled, Departed
  <2>4. ~damaged'[c] /\ c \notin late' => Back(c)'
    BY <1>1, <2>1 DEF Settled, Departed, Back
  <2> QED BY <2>3, <2>4 DEF Departed
<1>3. ASSUME NEW t \in Thread PROVE Settling(t)'
  <2>1. CASE Eased(t) /\ task[t].who \in Char
    <3>1. left' = left /\ dbSto' = dbSto /\ late \subseteq late'
      BY DEF Playing
    <3>2. task[t].who \notin late' /\ task[t].pc # "row" /\ (left[task[t].who] \/ task[t].after = "quit") =>
            inv'[task[t].who] = inv[task[t].who] /\ sto'[task[t].who] = sto[task[t].who]
      BY <1>1, <2>1
    <3> QED BY <2>1, <3>1, <3>2 DEF Settled, Settling, Eased
  <2>2. CASE Eased(t) /\ task[t].who \notin Char
    BY <2>2 DEF Busy, BusyOf, Eased, Settling, Idle
  <2>3. CASE Starts(t)
    BY <2>3 DEF Starts, Settling, Idle
  <2> QED BY <2>1, <2>2, <2>3 DEF Playing
<1> QED BY <1>2, <1>3 DEF Settled, Departed

LEMMA PlayingInv ==
    ASSUME IInv, TypeOK', Trading', Playing
    PROVE  IInv'
BY PlayingBusy, PlayingReads, PlayingClean, PlayingSettled DEF IInv

LEMMA NoticedTask ==
    ASSUME TypeOK, NEW t \in Thread, NEW c \in Char, NEW P \in SUBSET Part
    PROVE  LET k == task[t]  j == Noticed(task, c, P)[t] IN
           /\ j \in Task
           /\ k.who # c => j = k
           /\ j.pc = k.pc /\ j.who = k.who /\ j.inv = k.inv /\ j.add = k.add /\ j.del = k.del
           /\ j.list = k.list /\ j.room = k.room /\ j.item = k.item /\ j.after = k.after
           /\ j.seen \subseteq k.seen /\ (j.whole => k.whole)
           /\ k.who = c => /\ j.seen = k.seen \ P
                           /\ k.pc \in {"lock", "inv"} => ~j.whole
                           /\ k.pc \in {"rest", "sto"} /\ "sto" \in P => ~j.whole
<1>1. task[t] \in Task
  BY TaskIs
<1>2. CASE task[t].who # c
  BY <1>1, <1>2 DEF Noticed
<1>3. CASE task[t].who = c
  <2>1. Noticed(task, c, P)[t] =
          [[task[t] EXCEPT !.seen = task[t].seen \ P]
                    EXCEPT !.whole = task[t].whole /\ ~(\/ task[t].pc \in HalfRead /\ "sto" \in P
                                                        \/ task[t].pc \in {"lock", "inv"})]
    BY <1>1, <1>3 DEF Noticed, Task
  <2> QED BY <1>1, <1>3, <2>1 DEF Task, HalfRead
<1> QED BY <1>2, <1>3

LEMMA EasedBy ==
    ASSUME TypeOK, NEW t \in Thread, NEW c \in Char, NEW P \in SUBSET Part,
           task'[t] = Noticed(task, c, P)[t],
           \A d \in Char : inv'[d] # inv[d] => d = c /\ "inv" \in P,
           \A d \in Char : sto'[d] # sto[d] => d = c /\ "sto" \in P,
           task[t].who \in Char /\ Bound(t) => trade'[task[t].who] = trade[task[t].who]
    PROVE  Eased(t) /\ task'[t] \in Task
BY NoticedTask, Facts DEF Eased

\* Who changes without being late has not been read by anybody who takes him out.
LEMMA Overtakes ==
    ASSUME NEW c \in Char, NEW R, c \in R, late' = late \cup Overtaken(R),
           \A t \in Loop : ~(task[t].who = c /\ task[t].after = "quit")
    PROVE  c \in late' \/ Unread(c)
BY Facts DEF Overtaken, Unread

\* Some parts of one character change; thread l may turn to something else.
LEMMA Moving ==
    ASSUME TypeOK, NEW c \in Char, NEW P \in SUBSET Part, NEW l \in Thread,
           Busy, task[LoopOf[c]].after # "quit",
           online' = online, dbInv' = dbInv, dbSto' = dbSto, damaged' = damaged, left' = left,
           DOMAIN task' = Thread,
           \A t \in Thread : t # l => task'[t] = Noticed(task, c, P)[t],
           task'[l] = Noticed(task, c, P)[l] \/ Starts(l),
           \A d \in Char : inv'[d] # inv[d] => d = c /\ "inv" \in P,
           \A d \in Char : sto'[d] # sto[d] => d = c /\ "sto" \in P,
           \A t \in Thread : t # l /\ task[t].who \in Char /\ Bound(t) =>
               trade'[task[t].who] = trade[task[t].who],
           task'[l] = Noticed(task, c, P)[l] => trade' = trade,
           Dirtied(c, P),
           "sto" \in P => changed'[c], \A d \in Char : changed[d] => changed'[d]
    PROVE  Playing /\ \A t \in Thread : t # l => task'[t] \in Task
<1>1. \A t \in Thread : t # l => Eased(t) /\ task'[t] \in Task
  BY EasedBy
<1>2. Eased(l) \/ Starts(l)
  BY EasedBy
<1>3. clean' \subseteq clean /\ late \subseteq late'
  BY DEF Dirtied
<1>4. \A d \in Char : /\ inv'[d] # inv[d] => <<d, "inv">> \notin clean'
                      /\ sto'[d] # sto[d] => <<d, "sto">> \notin clean' /\ changed'[d]
  BY DEF Dirtied
<1>5. c \in late' \/ Unread(c)
  <2>1. \A t \in Loop : ~(task[t].who = c /\ task[t].after = "quit")
    BY Facts DEF Busy, BusyOf, Idle
  <2> QED BY <2>1, Overtakes DEF Dirtied
<1> QED BY <1>1, <1>2, <1>3, <1>4, <1>5 DEF Playing

LEMMA NoticedType ==
    ASSUME TypeOK, NEW c \in Char, NEW P \in SUBSET Part
    PROVE  Noticed(task, c, P) \in [Thread -> Task]
<1>1. DOMAIN Noticed(task, c, P) = Thread /\ Noticed(task, c, P) = [t \in Thread |-> Noticed(task, c, P)[t]]
  BY DEF Noticed
<1> QED BY <1>1, NoticedTask

\* What Moving leaves to be shown of a step.
LEMMA MovingTypes ==
    ASSUME TypeOK, NEW c \in Char, NEW P \in SUBSET Part, NEW l \in Thread,
           NEW X \in Task,
           task' = Noticed(task, c, P) \/ task' = [Noticed(task, c, P) EXCEPT ![l] = X],
           Dirtied(c, P)
    PROVE  /\ task' \in [Thread -> Task] /\ DOMAIN task' = Thread
           /\ clean' \in SUBSET (Char \X Part) /\ late' \in SUBSET Char
           /\ \A t \in Thread : t # l => task'[t] = Noticed(task, c, P)[t]
           /\ task' = Noticed(task, c, P) \/ task'[l] = X
<1>1. Noticed(task, c, P) \in [Thread -> Task]
  BY NoticedType
<1>2. clean' \subseteq clean /\ late' \in SUBSET Char
  BY DEF Dirtied, Overtaken, TypeOK
<1> QED BY <1>1, <1>2 DEF TypeOK

\* A loop that is free is idle and serves its characters.
LEMMA FreeLoop ==
    ASSUME IInv, NEW c \in Char, Free(LoopOf[c])
    PROVE  /\ LoopOf[c] \in Thread /\ LoopOf[c] \in Loop /\ task[LoopOf[c]] = Idle
           /\ task[LoopOf[c]].after = "end" /\ task[LoopOf[c]].pc = "idle"
<1>1. LoopOf[c] \in Thread /\ LoopOf[c] \in Loop
  BY Facts
<1>2. task[LoopOf[c]] = Idle
  BY <1>1 DEF IInv, Busy, BusyOf, Free
<1> QED BY <1>1, <1>2 DEF Idle

\* A loop at work serves the character its task is about.
LEMMA BusyLoop ==
    ASSUME IInv, NEW l \in Loop, task[l].pc # "idle"
    PROVE  l \in Thread /\ task[l].who \in Char /\ LoopOf[task[l].who] = l
BY Facts DEF IInv, Busy, BusyOf

LEMMA StartsIdle ==
    ASSUME IInv, NEW t \in Thread, task'[t] = Idle, task[t].pc = "after" => task[t].after # "quit"
    PROVE  Starts(t)
BY DEF Starts, Idle

LEMMA StartsBegin ==
    ASSUME IInv, NEW t \in Thread, NEW c \in Char,
           NEW pc \in {"row", "putting", "taking", "update"}, NEW item \in Token \cup {None},
           NEW after \in After,
           task'[t] = Begin(c, pc, item, after),
           task[t].pc = "after" => task[t].after # "quit",
           t \in Loop => LoopOf[c] = t,
           t \in Other => after \in {"end", "quit"} /\ pc = "row",
           after = "partner" => trade'[c] # None,
           after = "quit" => pc = "row" /\ (t \in Loop => trade'[c] = None),
           pc \in {"putting", "taking"} \/ after \in {"gain", "lose"} => item \in Token
    PROVE  Starts(t)
<1>1. pc \in Pc
  BY DEF Pc
<1>2. LET k == Begin(c, pc, item, after) IN
           /\ k.pc = pc /\ k.who = c /\ k.item = item /\ k.after = after
           /\ k.add = {} /\ k.del = {} /\ ~k.room
  BY <1>1, BeginTask
<1> QED BY <1>2 DEF Starts

LEMMA BeginStart ==
    ASSUME NEW c \in Char, NEW pc \in {"row", "putting", "taking", "update"},
           NEW item \in Token \cup {None}, NEW after \in After
    PROVE  Begin(c, pc, item, after) \in Task
<1>1. pc \in Pc
  BY DEF Pc
<1> QED BY <1>1, BeginTask

LEMMA Moves ==
    ASSUME IInv, NEW c \in Char, NEW P \in SUBSET Part, NEW l \in Thread, NEW X \in Task,
           \/ task' = Noticed(task, c, P)
           \/ task' = [Noticed(task, c, P) EXCEPT ![l] = X] /\ (task'[l] = X => Starts(l)),
           Dirtied(c, P),
           task[LoopOf[c]].after # "quit",
           UNCHANGED <<online, dbInv, dbSto, faults, damaged, left, trade>>,
           inv' \in [Char -> SUBSET Token], sto' \in [Char -> SUBSET Token],
           hand' \in [Char -> SUBSET Token], ground' \in SUBSET Token,
           changed' \in [Char -> BOOLEAN],
           \A d \in Char : inv'[d] # inv[d] => d = c /\ "inv" \in P,
           \A d \in Char : sto'[d] # sto[d] => d = c /\ "sto" \in P,
           "sto" \in P => changed'[c], \A d \in Char : changed[d] => changed'[d]
    PROVE  TypeOK' /\ Trading' /\ Playing
<1> USE DEF IInv
<1>1. /\ task' \in [Thread -> Task] /\ DOMAIN task' = Thread
      /\ clean' \in SUBSET (Char \X Part) /\ late' \in SUBSET Char
      /\ \A t \in Thread : t # l => task'[t] = Noticed(task, c, P)[t]
      /\ task'[l] = Noticed(task, c, P)[l] \/ Starts(l)
  BY MovingTypes
<1>2. TypeOK'
  BY <1>1 DEF TypeOK
<1>3. /\ online' = online /\ dbInv' = dbInv /\ dbSto' = dbSto /\ damaged' = damaged
      /\ left' = left /\ trade' = trade
  OBVIOUS
<1>4. Playing
  BY <1>1, <1>3, Moving
<1> QED BY <1>2, <1>3, <1>4 DEF Trading

-----------------------------------------------------------------------------
(* The handlers that move belongings, one by one.                           *)

LEMMA DropPlays ==
    ASSUME IInv, NEW c \in Char, NEW k \in Token, Drop(c, k)
    PROVE  TypeOK' /\ Trading' /\ Playing
<1> USE DEF IInv
<1>1. /\ c \in online /\ Free(LoopOf[c]) /\ inv' = [inv EXCEPT ![c] = @ \ {k}]
      /\ ground' = ground \cup {k}
      /\ task' = Noticed(task, c, {"inv"}) /\ Dirtied(c, {"inv"})
      /\ UNCHANGED <<online, sto, hand, trade, changed, dbInv, dbSto, faults, damaged, left>>
  BY DEF Drop, Unsaved, db
<1>2. {"inv"} \in SUBSET Part /\ Idle \in Task
  BY IdleTask DEF Part
<1>3. LoopOf[c] \in Thread /\ task[LoopOf[c]].after = "end"
  BY <1>1, FreeLoop
<1>4. /\ inv' \in [Char -> SUBSET Token] /\ ground' \in SUBSET Token
      /\ \A d \in Char : inv'[d] # inv[d] => d = c
  BY <1>1 DEF TypeOK
<1> QED BY <1>1, <1>2, <1>3, <1>4, Moves DEF TypeOK

LEMMA PickUpPlays ==
    ASSUME IInv, NEW c \in Char, NEW k \in Token, PickUp(c, k)
    PROVE  TypeOK' /\ Trading' /\ Playing
<1> USE DEF IInv
<1>1. /\ c \in online /\ Free(LoopOf[c]) /\ inv' = [inv EXCEPT ![c] = @ \cup {k}]
      /\ ground' = ground \ {k}
      /\ task' = Noticed(task, c, {"inv"}) /\ Dirtied(c, {"inv"})
      /\ UNCHANGED <<online, sto, hand, trade, changed, dbInv, dbSto, faults, damaged, left>>
  BY DEF PickUp, Unsaved, db
<1>2. {"inv"} \in SUBSET Part /\ Idle \in Task
  BY IdleTask DEF Part
<1>3. LoopOf[c] \in Thread /\ task[LoopOf[c]].after = "end"
  BY <1>1, FreeLoop
<1>4. /\ inv' \in [Char -> SUBSET Token] /\ ground' \in SUBSET Token
      /\ \A d \in Char : inv'[d] # inv[d] => d = c
  BY <1>1 DEF TypeOK
<1> QED BY <1>1, <1>2, <1>3, <1>4, Moves DEF TypeOK

LEMMA OfferPlays ==
    ASSUME IInv, NEW c \in Char, NEW k \in Token, Offer(c, k)
    PROVE  TypeOK' /\ Trading' /\ Playing
<1> USE DEF IInv
<1>1. /\ c \in online /\ Free(LoopOf[c]) /\ inv' = [inv EXCEPT ![c] = @ \ {k}]
      /\ hand' = [hand EXCEPT ![c] = @ \cup {k}]
      /\ task' = Noticed(task, c, {"inv"}) /\ Dirtied(c, {"inv"})
      /\ UNCHANGED <<online, sto, trade, ground, changed, dbInv, dbSto, faults, damaged, left>>
  BY DEF Offer, Unsaved, db
<1>2. {"inv"} \in SUBSET Part /\ Idle \in Task
  BY IdleTask DEF Part
<1>3. LoopOf[c] \in Thread /\ task[LoopOf[c]].after = "end"
  BY <1>1, FreeLoop
<1>4. /\ inv' \in [Char -> SUBSET Token] /\ hand' \in [Char -> SUBSET Token]
      /\ \A d \in Char : inv'[d] # inv[d] => d = c
  BY <1>1 DEF TypeOK
<1> QED BY <1>1, <1>2, <1>3, <1>4, Moves DEF TypeOK

LEMMA CompleteTradePlays ==
    ASSUME IInv, NEW c \in Char, CompleteTrade(c)
    PROVE  TypeOK' /\ Trading' /\ Playing
<1> USE DEF IInv
<1> DEFINE l == LoopOf[c]
           X == Begin(c, "row", None, "partner")
<1>1. /\ c \in online /\ Free(l) /\ trade[c] # None
      /\ inv' = [inv EXCEPT ![c] = @ \cup hand[trade[c]]]
      /\ hand' = [hand EXCEPT ![trade[c]] = {}]
      /\ task' = [Noticed(task, c, {"inv"}) EXCEPT ![l] = X] /\ Dirtied(c, {"inv"})
      /\ UNCHANGED <<online, sto, trade, ground, changed, dbInv, dbSto, faults, damaged, left>>
  BY DEF CompleteTrade, Unsaved, db
<1>2. {"inv"} \in SUBSET Part /\ X \in Task
  BY BeginStart DEF Part, After
<1>3. l \in Thread /\ task[l] = Idle /\ task[l].after = "end" /\ task[l].pc = "idle"
  BY <1>1, FreeLoop
<1>4. trade[c] \in Char
  BY <1>1, Facts DEF TypeOK
<1>5. /\ inv' \in [Char -> SUBSET Token] /\ hand' \in [Char -> SUBSET Token]
      /\ \A d \in Char : inv'[d] # inv[d] => d = c
  BY <1>1, <1>4 DEF TypeOK
<1>6. task'[l] = X => Starts(l)
  BY <1>1, <1>3, Facts, StartsBegin DEF After
<1> HIDE DEF l, X
<1> QED BY <1>1, <1>2, <1>3, <1>5, <1>6, Moves DEF l, TypeOK

LEMMA StorePlays ==
    ASSUME IInv, NEW c \in Char, NEW k \in Token, Store(c, k)
    PROVE  TypeOK' /\ Trading' /\ Playing
<1> USE DEF IInv
<1> DEFINE l == LoopOf[c]
           X == Begin(c, "putting", k, "end")
<1>1. /\ c \in online /\ Free(l) /\ inv' = [inv EXCEPT ![c] = @ \ {k}]
      /\ task' = [Noticed(task, c, {"inv"}) EXCEPT ![l] = X] /\ Dirtied(c, {"inv"})
      /\ UNCHANGED <<online, sto, hand, trade, ground, changed, dbInv, dbSto, faults, damaged, left>>
  BY DEF Store, Unsaved, db
<1>2. {"inv"} \in SUBSET Part /\ X \in Task
  BY BeginStart DEF Part, After
<1>3. l \in Thread /\ task[l] = Idle /\ task[l].after = "end" /\ task[l].pc = "idle"
  BY <1>1, FreeLoop
<1>4. /\ inv' \in [Char -> SUBSET Token]
      /\ \A d \in Char : inv'[d] # inv[d] => d = c
  BY <1>1 DEF TypeOK
<1>5. task'[l] = X => Starts(l)
  BY <1>1, <1>3, Facts, StartsBegin DEF After
<1> HIDE DEF l, X
<1> QED BY <1>1, <1>2, <1>3, <1>4, <1>5, Moves DEF l, TypeOK

LEMMA TakeOutPlays ==
    ASSUME IInv, NEW c \in Char, NEW k \in Token, TakeOut(c, k)
    PROVE  TypeOK' /\ Trading' /\ Playing
<1> USE DEF IInv
<1> DEFINE l == LoopOf[c]
           X == Begin(c, "taking", k, "end")
<1>1. /\ c \in online /\ Free(l) /\ sto' = [sto EXCEPT ![c] = @ \ {k}]
      /\ changed' = [changed EXCEPT ![c] = TRUE]
      /\ task' = [Noticed(task, c, {"sto"}) EXCEPT ![l] = X] /\ Dirtied(c, {"sto"})
      /\ UNCHANGED <<online, inv, hand, trade, ground, dbInv, dbSto, faults, damaged, left>>
  BY DEF TakeOut, Unsaved, db
<1>2. {"sto"} \in SUBSET Part /\ X \in Task
  BY BeginStart DEF Part, After
<1>3. l \in Thread /\ task[l] = Idle /\ task[l].after = "end" /\ task[l].pc = "idle"
  BY <1>1, FreeLoop
<1>4. /\ sto' \in [Char -> SUBSET Token] /\ changed' \in [Char -> BOOLEAN]
      /\ \A d \in Char : sto'[d] # sto[d] => d = c
      /\ changed'[c] /\ \A d \in Char : changed[d] => changed'[d]
  BY <1>1 DEF TypeOK
<1>5. task'[l] = X => Starts(l)
  BY <1>1, <1>3, Facts, StartsBegin DEF After
<1> HIDE DEF l, X
<1> QED BY <1>1, <1>2, <1>3, <1>4, <1>5, Moves DEF l, TypeOK

LEMMA MoveMesosPlays ==
    ASSUME IInv, NEW c \in Char, NEW k \in Token, NEW after \in {"gain", "lose"},
           MoveMesos(c, k, after)
    PROVE  TypeOK' /\ Trading' /\ Playing
<1> USE DEF IInv
<1> DEFINE l == LoopOf[c]
           X == Begin(c, "update", k, after)
<1>1. /\ c \in online /\ Free(l)
      /\ sto' = [sto EXCEPT ![c] = @ \cup {k}] \/ sto' = [sto EXCEPT ![c] = @ \ {k}]
      /\ changed' = [changed EXCEPT ![c] = TRUE]
      /\ task' = [Noticed(task, c, {"sto"}) EXCEPT ![l] = X] /\ Dirtied(c, {"sto"})
      /\ UNCHANGED <<online, inv, hand, trade, ground, dbInv, dbSto, faults, damaged, left>>
  BY DEF MoveMesos, Unsaved, db
<1>2. {"sto"} \in SUBSET Part /\ X \in Task
  BY BeginStart DEF Part, After
<1>3. l \in Thread /\ task[l] = Idle /\ task[l].after = "end" /\ task[l].pc = "idle"
  BY <1>1, FreeLoop
<1>4. /\ sto' \in [Char -> SUBSET Token] /\ changed' \in [Char -> BOOLEAN]
      /\ \A d \in Char : sto'[d] # sto[d] => d = c
      /\ changed'[c] /\ \A d \in Char : changed[d] => changed'[d]
  BY <1>1 DEF TypeOK
<1>5. task'[l] = X => Starts(l)
  BY <1>1, <1>3, Facts, StartsBegin DEF After
<1> HIDE DEF l, X
<1> QED BY <1>1, <1>2, <1>3, <1>4, <1>5, Moves DEF l, TypeOK

LEMMA PutInPlays ==
    ASSUME IInv, NEW l \in Loop, PutIn(l)
    PROVE  TypeOK' /\ Trading' /\ Playing
<1> USE DEF IInv
<1>1. task[l].pc = "putting"
  BY DEF PutIn
<1>2. l \in Thread /\ task[l].who \in Char /\ LoopOf[task[l].who] = l
  BY <1>1, BusyLoop
<1>3. task[l].item \in Token /\ task[l].after # "quit"
  BY <1>1, <1>2 DEF Busy, BusyOf, InTrans
<1>4. PICK c \in Char, k \in Token : c = task[l].who /\ k = task[l].item
  BY <1>2, <1>3
<1>5. /\ sto' = [sto EXCEPT ![c] = @ \cup {k}]
      /\ changed' = [changed EXCEPT ![c] = TRUE]
      /\ task' = [Noticed(task, c, {"sto"}) EXCEPT ![l] = Idle] /\ Dirtied(c, {"sto"})
      /\ UNCHANGED <<online, inv, hand, trade, ground, dbInv, dbSto, faults, damaged, left>>
  BY <1>4 DEF PutIn, Unsaved, db
<1>6. {"sto"} \in SUBSET Part /\ Idle \in Task
  BY IdleTask DEF Part
<1>7. /\ sto' \in [Char -> SUBSET Token] /\ changed' \in [Char -> BOOLEAN]
      /\ \A d \in Char : sto'[d] # sto[d] => d = c
      /\ changed'[c] /\ \A d \in Char : changed[d] => changed'[d]
  BY <1>5 DEF TypeOK
<1>8. task'[l] = Idle => Starts(l)
  BY <1>1, <1>2, StartsIdle
<1>9. task[LoopOf[c]].after # "quit"
  BY <1>2, <1>3, <1>4
<1>10. inv' = inv /\ hand' = hand /\ ground' = ground
  BY <1>5
<1>11. \A d \in Char : inv'[d] # inv[d] => d = c /\ "inv" \in {"sto"}
  BY <1>10
<1>12. /\ inv' \in [Char -> SUBSET Token] /\ hand' \in [Char -> SUBSET Token] 
       /\ ground' \in SUBSET Token
  BY <1>10 DEF TypeOK
<1> QED BY <1>2, <1>5, <1>6, <1>7, <1>8, <1>9, <1>11, <1>12, Moves

LEMMA PutBackPlays ==
    ASSUME IInv, NEW l \in Loop, TooSoon(l) \/ DoesNotFit(l)
    PROVE  TypeOK' /\ Trading' /\ Playing
<1> USE DEF IInv
<1>1. task[l].pc = "taking"
  BY DEF TooSoon, DoesNotFit, PutBack
<1>2. l \in Thread /\ task[l].who \in Char /\ LoopOf[task[l].who] = l
  BY <1>1, BusyLoop
<1>3. task[l].item \in Token /\ task[l].after # "quit"
  BY <1>1, <1>2 DEF Busy, BusyOf, InTrans
<1>4. PICK c \in Char, k \in Token : c = task[l].who /\ k = task[l].item
  BY <1>2, <1>3
<1>5. PICK X \in {Idle, Begin(c, "row", None, "end")} :
      /\ sto' = [sto EXCEPT ![c] = @ \cup {k}]
      /\ changed' = [changed EXCEPT ![c] = TRUE]
      /\ task' = [Noticed(task, c, {"sto"}) EXCEPT ![l] = X] /\ Dirtied(c, {"sto"})
      /\ UNCHANGED <<online, inv, hand, trade, ground, dbInv, dbSto, faults, damaged, left>>
  BY <1>4 DEF TooSoon, DoesNotFit, PutBack, Unsaved, db
<1>6. {"sto"} \in SUBSET Part /\ X \in Task
  BY IdleTask, BeginStart DEF Part, After
<1>7. /\ sto' \in [Char -> SUBSET Token] /\ changed' \in [Char -> BOOLEAN]
      /\ \A d \in Char : sto'[d] # sto[d] => d = c
      /\ changed'[c] /\ \A d \in Char : changed[d] => changed'[d]
  BY <1>5 DEF TypeOK
<1>8. task'[l] = X => Starts(l)
  <2>1. task'[l] = Idle => Starts(l)
    BY <1>1, <1>2, StartsIdle
  <2>2. task'[l] = Begin(c, "row", None, "end") => Starts(l)
    BY <1>1, <1>2, <1>4, <1>5, Facts, StartsBegin DEF After
  <2> QED BY <2>1, <2>2
<1>9. task[LoopOf[c]].after # "quit"
  BY <1>2, <1>3, <1>4
<1>10. inv' = inv /\ hand' = hand /\ ground' = ground
  BY <1>5
<1>11. \A d \in Char : inv'[d] # inv[d] => d = c /\ "inv" \in {"sto"}
  BY <1>10
<1>12. /\ inv' \in [Char -> SUBSET Token] /\ hand' \in [Char -> SUBSET Token]
       /\ ground' \in SUBSET Token
  BY <1>10 DEF TypeOK
<1> QED BY <1>2, <1>5, <1>6, <1>7, <1>8, <1>9, <1>11, <1>12, Moves

LEMMA FitsPlays ==
    ASSUME IInv, NEW l \in Loop, Fits(l)
    PROVE  TypeOK' /\ Trading' /\ Playing
<1> USE DEF IInv
<1>1. task[l].pc = "taking"
  BY DEF Fits
<1>2. l \in Thread /\ task[l].who \in Char /\ LoopOf[task[l].who] = l
  BY <1>1, BusyLoop
<1>3. task[l].item \in Token /\ task[l].after # "quit"
  BY <1>1, <1>2 DEF Busy, BusyOf, InTrans
<1>4. PICK c \in Char, k \in Token : c = task[l].who /\ k = task[l].item
  BY <1>2, <1>3
<1>5. PICK X : /\ X = Begin(c, "update", None, "end")
      /\ inv' = [inv EXCEPT ![c] = @ \cup {k}]
      /\ task' = [Noticed(task, c, {"inv"}) EXCEPT ![l] = X] /\ Dirtied(c, {"inv"})
      /\ UNCHANGED <<online, sto, hand, trade, ground, changed, dbInv, dbSto, faults, damaged, left>>
  BY <1>4 DEF Fits, Unsaved, db
<1>6. {"inv"} \in SUBSET Part /\ X \in Task
  BY <1>5, BeginStart DEF Part, After
<1>7. inv' \in [Char -> SUBSET Token] /\ \A d \in Char : inv'[d] # inv[d] => d = c
  BY <1>5 DEF TypeOK
<1>8. task'[l] = X => Starts(l)
  BY <1>1, <1>2, <1>4, <1>5, Facts, StartsBegin DEF After
<1>9. task[LoopOf[c]].after # "quit"
  BY <1>2, <1>3, <1>4
<1>10. sto' = sto /\ hand' = hand /\ ground' = ground /\ changed' = changed
  BY <1>5
<1>11. /\ \A d \in Char : sto'[d] # sto[d] => d = c /\ "sto" \in {"inv"}
       /\ \A d \in Char : changed[d] => changed'[d]
  BY <1>10
<1>12. /\ sto' \in [Char -> SUBSET Token] /\ hand' \in [Char -> SUBSET Token]
       /\ ground' \in SUBSET Token /\ changed' \in [Char -> BOOLEAN]
  BY <1>10 DEF TypeOK
<1>13. /\ task' = [Noticed(task, c, {"inv"}) EXCEPT ![l] = X] /\ Dirtied(c, {"inv"})
       /\ UNCHANGED <<online, dbInv, dbSto, faults, damaged, left, trade>>
  BY <1>5
<1> QED BY <1>2, <1>13, <1>6, <1>7, <1>8, <1>9, <1>11, <1>12, Moves

LEMMA PursePlays ==
    ASSUME IInv, NEW l \in Loop, Purse(l)
    PROVE  TypeOK' /\ Trading' /\ Playing
<1> USE DEF IInv
<1>1. task[l].pc = "after" /\ task[l].after \in {"gain", "lose"}
  BY DEF Purse
<1>2. l \in Thread /\ task[l].who \in Char /\ LoopOf[task[l].who] = l
  BY <1>1, BusyLoop
<1>3. task[l].item \in Token
  BY <1>1, <1>2 DEF Busy, BusyOf
<1>4. PICK c \in Char, k \in Token : c = task[l].who /\ k = task[l].item
  BY <1>2, <1>3
<1>5. /\ inv' = [inv EXCEPT ![c] = @ \cup {k}] \/ inv' = [inv EXCEPT ![c] = @ \ {k}]
      /\ task' = [Noticed(task, c, {"inv"}) EXCEPT ![l] = Idle] /\ Dirtied(c, {"inv"})
      /\ UNCHANGED <<online, sto, hand, trade, ground, changed, dbInv, dbSto, faults, damaged, left>>
  BY <1>4 DEF Purse, Unsaved, db
<1>6. {"inv"} \in SUBSET Part /\ Idle \in Task
  BY IdleTask DEF Part
<1>7. inv' \in [Char -> SUBSET Token] /\ \A d \in Char : inv'[d] # inv[d] => d = c
  BY <1>5 DEF TypeOK
<1>8. task'[l] = Idle => Starts(l)
  BY <1>1, <1>2, StartsIdle
<1>9. task[LoopOf[c]].after # "quit"
  BY <1>1, <1>2, <1>4
<1>10. sto' = sto /\ hand' = hand /\ ground' = ground /\ changed' = changed
  BY <1>5
<1>11. /\ \A d \in Char : sto'[d] # sto[d] => d = c /\ "sto" \in {"inv"}
       /\ \A d \in Char : changed[d] => changed'[d]
  BY <1>10
<1>12. /\ sto' \in [Char -> SUBSET Token] /\ hand' \in [Char -> SUBSET Token]
       /\ ground' \in SUBSET Token /\ changed' \in [Char -> BOOLEAN]
  BY <1>10 DEF TypeOK
<1>13. /\ task' = [Noticed(task, c, {"inv"}) EXCEPT ![l] = Idle] /\ Dirtied(c, {"inv"})
       /\ UNCHANGED <<online, dbInv, dbSto, faults, damaged, left, trade>>
  BY <1>5
<1> QED BY <1>2, <1>13, <1>6, <1>7, <1>8, <1>9, <1>11, <1>12, Moves

\* Only a loop is about to hand over a trade, and its characters'.
LEMMA BoundLoop ==
    ASSUME IInv, NEW t \in Thread, Bound(t)
    PROVE  t \in Loop /\ LoopOf[task[t].who] = t
BY Facts DEF IInv, Busy, BusyOf, Idle, Bound

LEMMA PartnerCompletesPlays ==
    ASSUME IInv, NEW l \in Loop, PartnerCompletes(l)
    PROVE  TypeOK' /\ Trading' /\ Playing
<1> USE DEF IInv
<1>1. task[l].pc = "after" /\ task[l].after = "partner"
  BY DEF PartnerCompletes
<1>2. l \in Thread /\ task[l].who \in Char /\ LoopOf[task[l].who] = l
  BY <1>1, BusyLoop
<1>3. trade[task[l].who] # None
  BY <1>1, <1>2 DEF Busy, BusyOf
<1>4. PICK c \in Char, d \in Char : c = task[l].who /\ d = trade[c]
  BY <1>2, <1>3 DEF TypeOK
<1>5. LoopOf[d] = l /\ trade[d] = c
  BY <1>2, <1>3, <1>4 DEF Trading
<1>6. PICK X : /\ X = Begin(d, "row", None, "end")
      /\ inv' = [inv EXCEPT ![d] = @ \cup hand[c]] /\ hand' = [hand EXCEPT ![c] = {}]
      /\ trade' = [trade EXCEPT ![c] = None, ![d] = None]
      /\ task' = [Noticed(task, d, {"inv"}) EXCEPT ![l] = X] /\ Dirtied(d, {"inv"})
      /\ UNCHANGED <<online, sto, ground, changed, dbInv, dbSto, faults, damaged, left>>
  BY <1>4 DEF PartnerCompletes, Unsaved, db
<1>7. {"inv"} \in SUBSET Part /\ X \in Task
  BY <1>6, BeginStart DEF Part, After
<1>8. /\ inv' \in [Char -> SUBSET Token] /\ \A e \in Char : inv'[e] # inv[e] => e = d
      /\ hand' \in [Char -> SUBSET Token] /\ trade' \in [Char -> Char \cup {None}]
  BY <1>6 DEF TypeOK
<1>9. task'[l] = X => Starts(l)
  BY <1>1, <1>2, <1>5, <1>6, Facts, StartsBegin DEF After
<1>10. /\ task' \in [Thread -> Task] /\ DOMAIN task' = Thread
       /\ clean' \in SUBSET (Char \X Part) /\ late' \in SUBSET Char
       /\ \A t \in Thread : t # l => task'[t] = Noticed(task, d, {"inv"})[t]
       /\ task'[l] = X
  <2>1. Noticed(task, d, {"inv"}) \in [Thread -> Task]
    BY <1>7, NoticedType
  <2> QED BY <1>2, <1>6, <1>7, <2>1, MovingTypes DEF TypeOK
<1>11. TypeOK'
  BY <1>6, <1>8, <1>10 DEF TypeOK
<1>12. \A t \in Thread : t # l /\ task[t].who \in Char /\ Bound(t) =>
             trade'[task[t].who] = trade[task[t].who]
  <2> SUFFICES ASSUME NEW t \in Thread, t # l, task[t].who \in Char, Bound(t)
               PROVE  trade'[task[t].who] = trade[task[t].who]
    OBVIOUS
  <2>1. t \in Loop /\ LoopOf[task[t].who] = t
    BY BoundLoop
  <2>2. task[t].who # c /\ task[t].who # d
    BY <1>2, <1>4, <1>5, <2>1
  <2> QED BY <1>6, <2>2 DEF TypeOK
<1>13. /\ online' = online /\ dbInv' = dbInv /\ dbSto' = dbSto /\ damaged' = damaged
       /\ left' = left /\ sto' = sto /\ changed' = changed
  BY <1>6
<1>14. task[LoopOf[d]].after # "quit"
  BY <1>1, <1>5
<1>15. Playing
  <2>1. Starts(l)
    BY <1>9, <1>10
  <2>2. \A t \in Thread : t # l => Eased(t)
    BY <1>7, <1>8, <1>10, <1>12, <1>13, EasedBy
  <2>3. /\ clean' \subseteq clean /\ \A e \in Char : inv'[e] # inv[e] => <<e, "inv">> \notin clean'
        /\ late \subseteq late' /\ late' = late \cup Overtaken({d})
    BY <1>6, <1>8 DEF Dirtied
  <2>4. d \in late' \/ Unread(d)
    <3>1. \A t \in Loop : ~(task[t].who = d /\ task[t].after = "quit")
      BY <1>14, Facts DEF Busy, BusyOf, Idle
    <3> QED BY <2>3, <3>1, Overtakes
  <2> QED BY <1>5, <1>8, <1>13, <2>1, <2>2, <2>3, <2>4 DEF Playing
<1>16. Trading'
  <2> SUFFICES ASSUME NEW e \in Char, trade'[e] # None
               PROVE  LoopOf[trade'[e]] = LoopOf[e] /\ trade'[trade'[e]] = e
    BY DEF Trading
  <2>1. e # c /\ e # d /\ trade'[e] = trade[e] /\ trade[e] \in Char
    BY <1>6, Facts DEF TypeOK
  <2>2. trade[e] # c /\ trade[e] # d
    BY <1>3, <1>4, <1>5, <2>1 DEF Trading
  <2> QED BY <1>6, <2>1, <2>2 DEF Trading, TypeOK
<1> QED BY <1>11, <1>15, <1>16

\* Both sides get back what they offered; nobody is handing it over.
LEMMA TakenBackEases ==
    ASSUME IInv, NEW S \in SUBSET Char, TakenBack(S),
           UNCHANGED <<online, sto, ground, changed, dbInv, dbSto, faults, damaged, left>>,
           \A t \in Loop : task[t].after = "partner" => task[t].who \notin S,
           \A c \in S : trade[c] # None /\ trade[c] \in S,
           NEW l \in Thread, \A t \in Thread : t # l => task'[t] = NoticedAll(task, S)[t],
           task'[l] = NoticedAll(task, S)[l] \/ Starts(l)
    PROVE  /\ Playing /\ Trading' /\ \A t \in Thread : t # l => task'[t] \in Task
           /\ inv' \in [Char -> SUBSET Token] /\ hand' \in [Char -> SUBSET Token]
           /\ trade' \in [Char -> Char \cup {None}] /\ clean' \in SUBSET (Char \X Part)
           /\ late' \in SUBSET Char
<1> USE DEF IInv
<1>1. /\ inv' = [c \in Char |-> IF c \in Refunded(S) THEN inv[c] \cup hand[c] ELSE inv[c]]
      /\ hand' = [c \in Char |-> IF c \in S THEN {} ELSE hand[c]]
      /\ trade' = [c \in Char |-> IF c \in S THEN None ELSE trade[c]]
      /\ clean' = clean \ {<<c, "inv">> : c \in Refunded(S)}
      /\ late' = late \cup Overtaken(Refunded(S))
  BY DEF TakenBack
<1>2. Refunded(S) \subseteq S /\ \A c \in Char : inv'[c] # inv[c] => c \in Refunded(S)
  BY <1>1 DEF TypeOK, Refunded
<1>3. sto' = sto /\ changed' = changed /\ online' = online OBVIOUS
<1>4. ASSUME NEW t \in Thread, Bound(t), task[t].who \in Char
      PROVE  trade'[task[t].who] = trade[task[t].who]
  <2>1. t \in Loop
    BY <1>4, BoundLoop
  <2>2. CASE task[t].after = "partner"
    BY <1>1, <1>4, <2>1, <2>2
  <2>3. CASE task[t].after = "quit"
    BY <1>1, <1>4, <2>1, <2>3 DEF Busy, BusyOf
  <2> QED BY <1>4, <2>2, <2>3 DEF Bound
<1>5. ASSUME NEW t \in Thread, task'[t] = NoticedAll(task, S)[t]
      PROVE  Eased(t) /\ task'[t] \in Task
  <2>1. Bound(t) /\ task[t].who \in Char => trade'[task[t].who] = trade[task[t].who]
    BY <1>4
  <2>2. CASE task[t].who \in Refunded(S)
    <3>1. PICK c \in Char : c = task[t].who
      BY <1>2, <2>2
    <3>2. task'[t] = Noticed(task, c, {"inv"})[t]
      BY <1>5, <2>2, <3>1 DEF NoticedAll
    <3>3. task'[t] \in Task /\ LET k == task[t]  j == task'[t] IN
           /\ j.pc = k.pc /\ j.who = k.who /\ j.inv = k.inv /\ j.add = k.add /\ j.del = k.del
           /\ j.list = k.list /\ j.room = k.room /\ j.item = k.item /\ j.after = k.after
           /\ j.seen \subseteq k.seen /\ (j.whole => k.whole)
           /\ j.seen = k.seen \ {"inv"}
           /\ k.pc \in {"lock", "inv"} => ~j.whole
      BY <3>1, <3>2, NoticedTask DEF Part
    <3>4. "inv" \notin task'[t].seen
      BY <3>3
    <3> QED BY <1>3, <2>1, <3>1, <3>3, <3>4 DEF Eased
  <2>3. CASE task[t].who \notin Refunded(S)
    <3>1. task'[t] = task[t]
      BY <1>5, <2>3 DEF NoticedAll
    <3>2. task[t].who \in Char => inv'[task[t].who] = inv[task[t].who]
      BY <1>2, <2>3
    <3> QED BY <1>3, <2>1, <3>1, <3>2, TaskIs DEF Eased
  <2> QED BY <2>2, <2>3
<1>6. /\ inv' \in [Char -> SUBSET Token] /\ hand' \in [Char -> SUBSET Token]
      /\ trade' \in [Char -> Char \cup {None}] /\ late' \in SUBSET Char
  BY <1>1, <1>2 DEF TypeOK, Overtaken
<1>7. clean' \subseteq clean /\ late \subseteq late'
  BY <1>1
<1>8. \A c \in Char : inv'[c] # inv[c] => <<c, "inv">> \notin clean'
  BY <1>1, <1>2
<1>9. Playing
  <2>1. \A t \in Thread : Eased(t) \/ Starts(t)
    BY <1>5
  <2>2. ASSUME NEW c \in Refunded(S) PROVE c \in late' \/ Unread(c)
    <3>1. c \in Char /\ trade[c] # None
      BY <1>2, <2>2
    <3>2. \A t \in Loop : ~(task[t].who = c /\ task[t].after = "quit")
      BY <3>1, Facts DEF Busy, BusyOf
    <3> QED BY <1>1, <3>1, <3>2, Overtakes
  <2> QED BY <1>2, <1>3, <1>7, <1>8, <2>1, <2>2 DEF Playing
<1>10. Trading'
  <2> SUFFICES ASSUME NEW e \in Char, trade'[e] # None
               PROVE  LoopOf[trade'[e]] = LoopOf[e] /\ trade'[trade'[e]] = e
    BY DEF Trading
  <2>1. e \notin S /\ trade'[e] = trade[e] /\ trade[e] \in Char
    BY <1>1 DEF TypeOK
  <2>2. trade[e] \notin S
    BY <2>1, Facts DEF Trading
  <2> QED BY <1>1, <2>1, <2>2 DEF Trading
<1>11. clean' \in SUBSET (Char \X Part)
  BY <1>7 DEF TypeOK
<1> QED BY <1>5, <1>6, <1>9, <1>10, <1>11

LEMMA TradersAre ==
    ASSUME IInv, NEW c \in Char
    PROVE  /\ Traders(c) \in SUBSET Char
           /\ \A d \in Traders(c) : /\ LoopOf[d] = LoopOf[c]
                                    /\ trade[d] # None /\ trade[d] \in Traders(c)
<1>1. CASE trade[c] = None
  BY <1>1 DEF Traders
<1>2. CASE trade[c] # None
  <2>1. trade[c] \in Char /\ LoopOf[trade[c]] = LoopOf[c] /\ trade[trade[c]] = c
    BY <1>2 DEF IInv, TypeOK, Trading
  <2> QED BY <1>2, <2>1, Facts DEF Traders
<1> QED BY <1>1, <1>2

\* A loop that is free is not handing over anything.
LEMMA NotCompleting ==
    ASSUME IInv, NEW c \in Char, Free(LoopOf[c])
    PROVE  ~Completing(c)
<1> SUFFICES ASSUME NEW l \in Loop, task[l].after = "partner", task[l].who \in Traders(c) PROVE FALSE
  BY DEF Completing
<1>1. Bound(l) /\ l \in Thread
  BY Facts DEF Bound
<1>2. LoopOf[task[l].who] = l /\ LoopOf[task[l].who] = LoopOf[c]
  BY <1>1, BoundLoop, TradersAre
<1> QED BY <1>2, FreeLoop

LEMMA CancelTradePlays ==
    ASSUME IInv, NEW c \in Char, CancelTrade(c)
    PROVE  TypeOK' /\ Trading' /\ Playing
<1>1. /\ Free(LoopOf[c]) /\ TakenBack(Traders(c))
      /\ task' = NoticedAll(task, Traders(c))
      /\ UNCHANGED <<online, sto, ground, changed, dbInv, dbSto, faults, damaged, left>>
  BY DEF CancelTrade, Unsaved, db
<1>2. PICK S \in SUBSET Char : S = Traders(c)
  BY TradersAre
<1>3. LoopOf[c] \in Thread /\ \A t \in Loop : task[t].after = "partner" => task[t].who \notin S
  BY <1>1, <1>2, Facts, NotCompleting DEF Completing
<1>4. /\ Playing /\ Trading' /\ \A t \in Thread : t # LoopOf[c] => task'[t] \in Task
      /\ inv' \in [Char -> SUBSET Token] /\ hand' \in [Char -> SUBSET Token]
      /\ trade' \in [Char -> Char \cup {None}] /\ clean' \in SUBSET (Char \X Part)
      /\ late' \in SUBSET Char
  BY <1>1, <1>2, <1>3, TradersAre, TakenBackEases
<1>5. task' \in [Thread -> Task]
  <2>1. DOMAIN task' = Thread /\ task' = [t \in Thread |-> task'[t]]
    BY <1>1 DEF NoticedAll
  <2>2. task'[LoopOf[c]] = task[LoopOf[c]]
    <3>1. task[LoopOf[c]].who = None
      BY <1>1, FreeLoop DEF Idle
    <3> QED BY <1>1, <1>2, <1>3, <3>1, Facts DEF NoticedAll, Refunded
  <2> QED BY <1>3, <1>4, <2>1, <2>2 DEF IInv, TypeOK
<1> QED BY <1>1, <1>4, <1>5 DEF IInv, TypeOK

LEMMA QuitPlays ==
    ASSUME IInv, NEW c \in Char, NEW l \in Thread, l \in {LoopOf[c]} \cup Other, Quit(c, l)
    PROVE  TypeOK' /\ Trading' /\ Playing
<1> DEFINE X == Begin(c, "row", None, "quit")
<1>1. PICK S : /\ S = IF Completing(c) THEN {} ELSE Traders(c)
               /\ Free(l) /\ TakenBack(S)
               /\ task' = [NoticedAll(task, S) EXCEPT ![l] = X]
               /\ UNCHANGED <<online, sto, ground, changed, dbInv, dbSto, faults, damaged, left>>
  BY DEF Quit, Unsaved, db
<1>2. /\ S \in SUBSET Char
      /\ \A d \in S : trade[d] # None /\ trade[d] \in S
      /\ \A t \in Loop : task[t].after = "partner" => task[t].who \notin S
  BY <1>1, TradersAre DEF Completing
<1>3. task[l].pc = "idle"
  BY <1>1 DEF Free
<1>4. X \in Task
  BY BeginStart DEF After
<1>5. /\ DOMAIN NoticedAll(task, S) = Thread
      /\ NoticedAll(task, S) = [t \in Thread |-> NoticedAll(task, S)[t]]
  BY DEF NoticedAll
<1>6. DOMAIN task' = Thread /\ task'[l] = X /\ \A t \in Thread : t # l => task'[t] = NoticedAll(task, S)[t]
  <2> HIDE DEF X
  <2> QED BY <1>1, <1>5
<1>7. l \in Loop => LoopOf[c] = l /\ trade'[c] = None
  <2> SUFFICES ASSUME l \in Loop PROVE LoopOf[c] = l /\ trade'[c] = None OBVIOUS
  <2>1. LoopOf[c] = l /\ S = Traders(c)
    BY <1>1, Facts, NotCompleting
  <2>2. trade' = [d \in Char |-> IF d \in S THEN None ELSE trade[d]]
    BY <1>1 DEF TakenBack
  <2> QED BY <2>1, <2>2 DEF Traders
<1>8. Starts(l)
  BY <1>3, <1>6, <1>7, StartsBegin DEF After
<1>9. /\ Playing /\ Trading' /\ \A t \in Thread : t # l => task'[t] \in Task
      /\ inv' \in [Char -> SUBSET Token] /\ hand' \in [Char -> SUBSET Token]
      /\ trade' \in [Char -> Char \cup {None}] /\ clean' \in SUBSET (Char \X Part)
      /\ late' \in SUBSET Char
  BY <1>1, <1>2, <1>6, <1>8, TakenBackEases
<1>10. task' \in [Thread -> Task]
  <2>1. task' = [t \in Thread |-> task'[t]]
    BY <1>1, <1>5
  <2> HIDE DEF X
  <2> QED BY <1>4, <1>6, <1>9, <2>1
<1> QED BY <1>1, <1>9, <1>10 DEF IInv, TypeOK

\* What changes no belongings is play as well.
LEMMA NothingMoves ==
    ASSUME IInv, NEW l \in Thread, \A t \in Thread : t # l => task'[t] = task[t],
           task'[l] = task[l] \/ Starts(l),
           UNCHANGED <<online, inv, sto, changed, dbInv, dbSto, damaged, left, clean, late>>,
           \A t \in Thread : t # l /\ task[t].who \in Char /\ Bound(t) =>
               trade'[task[t].who] = trade[task[t].who],
           task'[l] = task[l] => ~Bound(l)
    PROVE  Playing
<1>1. \A t \in Thread : task'[t] = task[t] => Eased(t)
  BY TaskIs DEF Eased, IInv
<1> QED BY <1>1 DEF Playing

LEMMA StartTradePlays ==
    ASSUME IInv, NEW c \in Char, NEW d \in Char, StartTrade(c, d)
    PROVE  TypeOK' /\ Trading' /\ Playing
<1> USE DEF IInv
<1>1. /\ c \in online /\ d \in online /\ c # d /\ LoopOf[c] = LoopOf[d] /\ Free(LoopOf[c])
      /\ trade[c] = None /\ trade[d] = None
      /\ trade' = [trade EXCEPT ![c] = d, ![d] = c]
      /\ UNCHANGED <<online, inv, sto, hand, ground, changed, task, clean, late,
                     dbInv, dbSto, faults, damaged, left>>
  BY DEF StartTrade, Unsaved, db
<1>2. LoopOf[c] \in Thread /\ task[LoopOf[c]].after = "end" /\ task[LoopOf[c]].pc = "idle"
  BY <1>1, FreeLoop
<1>3. \A t \in Thread : task[t].who \in Char /\ Bound(t) =>
             trade'[task[t].who] = trade[task[t].who]
  <2> SUFFICES ASSUME NEW t \in Thread, task[t].who \in Char, Bound(t)
               PROVE  trade'[task[t].who] = trade[task[t].who]
    OBVIOUS
  <2>1. t \in Loop /\ LoopOf[task[t].who] = t
    BY BoundLoop
  <2>2. task[t].who # c /\ task[t].who # d
    BY <1>1, <1>2, <2>1 DEF Bound
  <2> QED BY <1>1, <2>2 DEF TypeOK
<1>4. Playing
  <2>1. LoopOf[c] \in Thread /\ ~Bound(LoopOf[c]) /\ task' = task
    BY <1>1, <1>2 DEF Bound
  <2>2. UNCHANGED <<online, inv, sto, changed, dbInv, dbSto, damaged, left, clean, late>>
    BY <1>1
  <2>3. \A t \in Thread : t # LoopOf[c] /\ task[t].who \in Char /\ Bound(t) =>
            trade'[task[t].who] = trade[task[t].who]
    BY <1>3
  <2> QED BY <2>1, <2>2, <2>3, NothingMoves
<1>5. trade' \in [Char -> Char \cup {None}]
  BY <1>1 DEF TypeOK
<1>6. TypeOK'
  BY <1>1, <1>5 DEF TypeOK
<1>7. Trading'
  <2> SUFFICES ASSUME NEW e \in Char, trade'[e] # None
               PROVE  LoopOf[trade'[e]] = LoopOf[e] /\ trade'[trade'[e]] = e
    BY DEF Trading
  <2>1. CASE e \in {c, d}
    BY <1>1, <2>1 DEF TypeOK
  <2>2. CASE e \notin {c, d}
    <3>1. trade'[e] = trade[e] /\ trade[e] \in Char
      BY <1>1, <2>2 DEF TypeOK
    <3>2. trade[e] # c /\ trade[e] # d
      BY <1>1, <3>1, Facts DEF Trading
    <3> QED BY <1>1, <3>1, <3>2 DEF Trading, TypeOK
  <2> QED BY <2>1, <2>2
<1> QED BY <1>4, <1>6, <1>7

LEMMA PartnerIsGonePlays ==
    ASSUME IInv, NEW l \in Loop, PartnerIsGone(l)
    PROVE  TypeOK' /\ Trading' /\ Playing
<1> USE DEF IInv
<1>1. task[l].pc = "after" /\ task[l].after = "partner"
  BY DEF PartnerIsGone
<1>2. l \in Thread /\ task[l].who \in Char /\ LoopOf[task[l].who] = l
  BY <1>1, BusyLoop
<1>3. trade[task[l].who] # None
  BY <1>1, <1>2 DEF Busy, BusyOf
<1>4. PICK c \in Char, d \in Char : c = task[l].who /\ d = trade[c]
  BY <1>2, <1>3 DEF TypeOK
<1>5. LoopOf[d] = l /\ trade[d] = c
  BY <1>2, <1>3, <1>4 DEF Trading
<1>6. /\ hand' = [hand EXCEPT ![c] = {}] /\ trade' = [trade EXCEPT ![c] = None, ![d] = None]
      /\ task' = [task EXCEPT ![l] = Idle]
      /\ UNCHANGED <<online, inv, sto, ground, changed, clean, late, dbInv, dbSto, faults, damaged, left>>
  BY <1>4 DEF PartnerIsGone, Unsaved, db
<1>7. /\ hand' \in [Char -> SUBSET Token] /\ trade' \in [Char -> Char \cup {None}]
      /\ task' \in [Thread -> Task] /\ task'[l] = Idle /\ \A t \in Thread : t # l => task'[t] = task[t]
  BY <1>2, <1>6, IdleTask DEF TypeOK
<1>8. ASSUME NEW t \in Thread, t # l, task[t].who \in Char, Bound(t)
      PROVE  trade'[task[t].who] = trade[task[t].who]
  <2>1. task[t].who # c /\ task[t].who # d
    BY <1>2, <1>4, <1>5, <1>8, BoundLoop
  <2> QED BY <1>6, <1>8, <2>1 DEF TypeOK
<1>9. Playing
  <2>1. Starts(l)
    BY <1>1, <1>2, <1>7, StartsIdle
  <2>2. task'[l] # task[l]
    BY <1>1, <1>7 DEF Idle
  <2> QED BY <1>2, <1>6, <1>7, <1>8, <2>1, <2>2, NothingMoves
<1>10. Trading'
  <2> SUFFICES ASSUME NEW e \in Char, trade'[e] # None
               PROVE  LoopOf[trade'[e]] = LoopOf[e] /\ trade'[trade'[e]] = e
    BY DEF Trading
  <2>1. e # c /\ e # d /\ trade'[e] = trade[e] /\ trade[e] \in Char
    BY <1>6, Facts DEF TypeOK
  <2>2. trade[e] # c /\ trade[e] # d
    BY <1>3, <1>4, <1>5, <2>1 DEF Trading
  <2> QED BY <1>6, <2>1, <2>2 DEF Trading, TypeOK
<1> QED BY <1>6, <1>7, <1>9, <1>10 DEF TypeOK

LEMMA TakerIsGonePlays ==
    ASSUME IInv, NEW l \in Loop, TakerIsGone(l)
    PROVE  TypeOK' /\ Trading' /\ Playing
<1> USE DEF IInv
<1>1. /\ l \in Thread /\ task[l].pc = "taking" /\ task' = [task EXCEPT ![l] = Idle]
      /\ UNCHANGED <<online, inv, sto, hand, trade, ground, changed, dbInv, dbSto, faults,
                     clean, damaged, left, late>>
  BY Facts DEF TakerIsGone, mem, db, hist
<1>2. task' \in [Thread -> Task] /\ task'[l] = Idle /\ \A t \in Thread : t # l => task'[t] = task[t]
  BY <1>1, IdleTask DEF TypeOK
<1>3. /\ task'[l] = task[l] \/ Starts(l)
      /\ task'[l] = task[l] => ~Bound(l)
  BY <1>1, <1>2, StartsIdle DEF Idle
<1>4. Playing
  <2>1. \A t \in Thread : t # l /\ task[t].who \in Char /\ Bound(t) =>
            trade'[task[t].who] = trade[task[t].who]
    BY <1>1
  <2> QED BY <1>1, <1>2, <1>3, <2>1, NothingMoves
<1> QED BY <1>1, <1>2, <1>4 DEF TypeOK, Trading

LEMMA SavePlays ==
    ASSUME IInv, NEW c \in Char, NEW l \in Thread,
           \/ Save(c) /\ l = LoopOf[c]
           \/ l \in Other /\ SaveAll(l, c)
    PROVE  TypeOK' /\ Trading' /\ Playing
<1> USE DEF IInv
<1>1. /\ c \in online /\ Free(l) /\ task' = [task EXCEPT ![l] = Begin(c, "row", None, "end")]
      /\ UNCHANGED <<online, inv, sto, hand, trade, ground, changed, dbInv, dbSto,
                     faults, clean, damaged, left, late>>
  BY DEF Save, SaveAll, mem, db, hist
<1>2. task[l].pc = "idle" /\ (l \in Loop => LoopOf[c] = l)
  BY <1>1, Facts DEF Free
<1>3. Begin(c, "row", None, "end") \in Task
  BY BeginStart DEF After
<1>4. task' \in [Thread -> Task] /\ task'[l] = Begin(c, "row", None, "end")
  BY <1>1, <1>3 DEF TypeOK
<1>5. Starts(l)
  BY <1>1, <1>2, <1>4, StartsBegin DEF After
<1>6. \A t \in Thread : t # l => task'[t] = task[t]
  BY <1>1 DEF TypeOK
<1>7. task'[l] # task[l]
  BY <1>2, <1>4, BeginTask DEF Pc, After
<1>8. Playing
  BY <1>1, <1>5, <1>6, <1>7, NothingMoves
<1> QED BY <1>1, <1>4, <1>8 DEF TypeOK, Trading

-----------------------------------------------------------------------------
(* Steps of one thread that change nothing but its task.                    *)

Same == UNCHANGED <<online, inv, sto, hand, trade, ground, changed, dbInv, dbSto,
                    damaged, left, late>>

LEMMA OneThread ==
    ASSUME IInv, NEW t \in Thread, Same,
           \A u \in Thread : u # t => task'[u] = task[u],
           task[t].pc # "after",
           BusyOf(t)', Copied(t)', Apartly(t)', Settling(t)',
           InTrans(t)' => \A u \in Thread : u # t /\ InTrans(u) => task[u].who # task'[t].who,
           \A u \in Thread : u # t /\ task[u].pc \in {"delete", "insert"} /\ task[u].who = task'[t].who =>
               /\ task'[t].pc = "commit" => ~task'[t].whole
               /\ task[u].whole => ~task'[t].room
    PROVE  Busy' /\ Trading' /\ Reads' /\ Unmarked' /\ Settled'
<1> USE DEF IInv
<1>1. /\ online' = online /\ inv' = inv /\ sto' = sto /\ trade' = trade /\ changed' = changed
      /\ dbInv' = dbInv /\ dbSto' = dbSto /\ damaged' = damaged /\ left' = left /\ late' = late
  BY DEF Same
<1>2. ASSUME NEW u \in Thread, u # t
      PROVE  BusyOf(u)' /\ Copied(u)' /\ Apartly(u)' /\ Settling(u)'
  <2>1. task'[u] = task[u]
    BY <1>2
  <2>2. BusyOf(u)'
    BY <1>1, <2>1 DEF Busy, BusyOf, InTrans
  <2>3. Copied(u)'
    BY <1>1, <2>1 DEF Reads, Copied
  <2>4. Apartly(u)'
    <3>1. task[u].pc \in {"delete", "insert"} =>
            \A v \in Thread : task'[v].who = task'[u].who =>
              (task'[v].pc = "commit" => ~task'[v].whole) /\ (task'[u].whole => ~task'[v].room)
      BY <1>2, <2>1 DEF Reads, Apartly
    <3> QED BY <1>1, <2>1, <3>1 DEF Reads, Apartly
  <2>5. Settling(u)'
    BY <1>1, <2>1 DEF Settled, Settling
  <2> QED BY <2>2, <2>3, <2>4, <2>5
<1>3. Exclusive'
  BY DEF Exclusive, Busy, InTrans
<1>4. Trading' /\ Unmarked'
  BY <1>1 DEF Trading, Unmarked
<1>5. ASSUME NEW c \in Char PROVE Departed(c)'
  <2>1. \A u \in Thread : Removes(u, c) => Removes(u, c)'
    BY DEF Removes
  <2> QED BY <1>1, <2>1 DEF Settled, Departed, Back
<1> QED BY <1>2, <1>3, <1>4, <1>5 DEF Busy, Reads, Settled

LEMMA SameClean == ASSUME IInv, Same, clean' = clean PROVE Clean'
BY DEF IInv, Same, Clean, OneRowEach

LEMMA SameTypes ==
    ASSUME IInv, Same, task' \in [Thread -> Task], faults' \in 0..MaxFaults, clean' \in SUBSET (Char \X Part)
    PROVE  TypeOK'
BY DEF IInv, Same, TypeOK

\* A transaction goes on.
LEMMA TransBusy ==
    ASSUME IInv, Same, NEW t \in Thread, task[t].pc \in {"row", "lock", "inv", "rest", "sto"},
           task'[t].pc \in {"lock", "inv", "rest", "sto", "commit"},
           task'[t].who = task[t].who, task'[t].item = task[t].item, task'[t].after = task[t].after,
           task'[t].room => task'[t].pc = "commit" /\ changed[task[t].who],
           ~task'[t].room => task'[t].add = {} /\ task'[t].del = {}
    PROVE  BusyOf(t)'
<1>1. /\ task[t].pc # "idle" /\ task'[t].pc # "idle" /\ task[t].pc \notin {"putting", "taking"}
      /\ task'[t].pc \notin {"putting", "taking"}
  OBVIOUS
<1>2. /\ task[t].who \in Char
      /\ t \in Loop => LoopOf[task[t].who] = t
      /\ t \in Other => task[t].after \in {"end", "quit"}
      /\ task[t].after = "partner" => trade[task[t].who] # None
      /\ task[t].after = "quit" /\ t \in Loop => trade[task[t].who] = None
      /\ task[t].after \in {"gain", "lose"} => task[t].item \in Token
  BY <1>1 DEF IInv, Busy, BusyOf
<1>3. online' = online /\ trade' = trade /\ changed' = changed
  BY DEF Same
<1> QED BY <1>1, <1>2, <1>3 DEF BusyOf, InTrans

LEMMA ReadRowKeeps ==
    ASSUME IInv, NEW t \in Thread, ReadRow(t)
    PROVE  IInv'
<1> USE DEF IInv
<1>1. /\ task[t].pc = "row" /\ Same /\ faults' = faults /\ clean' = clean
      /\ task' = [task EXCEPT ![t].pc = "lock", ![t].inv = inv[task[t].who] \cap Meso,
                              ![t].seen = {"inv"}]
  BY DEF ReadRow, Same, mem, db, hist
<1>2. task[t].who \in Char /\ task[t] \in Task
  BY <1>1, TaskIs DEF Busy, BusyOf
<1>3. LET k == task[t]  j == task'[t] IN
      /\ j.pc = "lock" /\ j.inv = inv[k.who] \cap Meso /\ j.seen = {"inv"}
      /\ j.who = k.who /\ j.add = k.add /\ j.del = k.del /\ j.list = k.list
      /\ j.room = k.room /\ j.item = k.item /\ j.after = k.after /\ j.whole = k.whole
      /\ j \in Task
  BY <1>1, <1>2, Facts DEF TypeOK, Task, Pc, Part
<1>4. task' \in [Thread -> Task] /\ \A u \in Thread : u # t => task'[u] = task[u]
  BY <1>1, <1>3 DEF TypeOK
<1>5. ~task[t].room /\ task[t].add = {} /\ task[t].del = {}
  BY <1>1 DEF Busy, BusyOf
<1>6. BusyOf(t)'
  BY <1>1, <1>3, <1>5, TransBusy
<1>7. Copied(t)' /\ Apartly(t)' /\ Settling(t)' /\ ~InTrans(t)' /\ ~task'[t].room
  BY <1>1, <1>2, <1>3, <1>5 DEF Copied, Apartly, Settling, Same, InTrans
<1>8. Busy' /\ Trading' /\ Reads' /\ Unmarked' /\ Settled'
  BY <1>1, <1>3, <1>4, <1>6, <1>7, OneThread
<1> QED BY <1>1, <1>4, <1>8, SameClean, SameTypes DEF TypeOK

LEMMA UpdateRowKeeps ==
    ASSUME IInv, NEW t \in Thread, UpdateRow(t)
    PROVE  IInv'
<1> USE DEF IInv
<1>1. /\ task[t].pc = "lock" /\ Same /\ faults' = faults /\ clean' = clean
      /\ \A u \in Thread : task[u].who = task[t].who => ~InTrans(u)
      /\ task' = [task EXCEPT ![t].pc = "inv"]
  BY DEF UpdateRow, Same, mem, db, hist, InTransaction, InTrans
<1>2. task[t].who \in Char /\ task[t] \in Task
  BY <1>1, TaskIs DEF Busy, BusyOf
<1>3. LET k == task[t]  j == task'[t] IN
      /\ j.pc = "inv" /\ j.inv = k.inv /\ j.seen = k.seen
      /\ j.who = k.who /\ j.add = k.add /\ j.del = k.del /\ j.list = k.list
      /\ j.room = k.room /\ j.item = k.item /\ j.after = k.after /\ j.whole = k.whole
      /\ j \in Task
  BY <1>1, <1>2 DEF TypeOK, Task, Pc
<1>4. task' \in [Thread -> Task] /\ \A u \in Thread : u # t => task'[u] = task[u]
  BY <1>1, <1>3 DEF TypeOK
<1>5. ~task[t].room /\ task[t].add = {} /\ task[t].del = {}
  BY <1>1 DEF Busy, BusyOf
<1>6. BusyOf(t)'
  BY <1>1, <1>3, <1>5, TransBusy
<1>7. Copied(t)' /\ Apartly(t)' /\ Settling(t)' /\ ~task'[t].room
  BY <1>1, <1>2, <1>3, <1>5 DEF Copied, Apartly, Settling, Same, Reads
<1>8. Busy' /\ Trading' /\ Reads' /\ Unmarked' /\ Settled'
  BY <1>1, <1>3, <1>4, <1>6, <1>7, OneThread
<1> QED BY <1>1, <1>4, <1>8, SameClean, SameTypes DEF TypeOK

\* The statements between the row and the room: one more thing is read, or not.
LEMMA GoesOn ==
    ASSUME IInv, NEW t \in Thread, Same, clean' = clean, faults' \in 0..MaxFaults,
           task[t].pc \in {"inv", "rest", "sto"}, task'[t].pc \in {"rest", "sto", "commit"},
           task' \in [Thread -> Task], \A u \in Thread : u # t => task'[u] = task[u],
           LET k == task[t]  j == task'[t] IN
               /\ j.who = k.who /\ j.add = k.add /\ j.del = k.del /\ j.list = k.list
               /\ j.room = k.room /\ j.item = k.item /\ j.after = k.after
               /\ j.seen \subseteq k.seen /\ (j.whole => k.whole)
               /\ k.pc \in {"rest", "sto"} => j.inv = k.inv
               /\ k.pc = "inv" /\ (j.whole \/ "inv" \in j.seen) => j.inv = k.inv \cup (inv[k.who] \ Meso)
               /\ j.pc = "commit" => ~j.whole \/ ~changed[k.who]
    PROVE  IInv'
<1> USE DEF IInv
<1>1. task[t].who \in Char /\ task[t] \in Task /\ task[t].seen \in SUBSET Part
  BY TaskIs DEF Busy, BusyOf
<1>2. ~task[t].room /\ task[t].add = {} /\ task[t].del = {}
  BY DEF Busy, BusyOf
<1>3. BusyOf(t)'
  BY <1>2, TransBusy
<1>4. /\ inv' = inv /\ sto' = sto /\ dbSto' = dbSto /\ left' = left /\ changed' = changed
      /\ late' = late
  BY DEF Same
<1>5. inv[task[t].who] \in SUBSET Token
  BY <1>1 DEF TypeOK
<1>6. (task'[t].whole \/ "inv" \in task'[t].seen) /\ task[t].pc = "inv" =>
        task'[t].inv = inv[task[t].who]
  <2>1. task[t].pc = "inv" /\ (task[t].whole \/ "inv" \in task[t].seen) =>
           task[t].inv = inv[task[t].who] \cap Meso
    BY DEF Reads, Copied
  <2> QED BY <1>1, <1>5, <2>1
<1>7. Copied(t)'
  BY <1>1, <1>2, <1>4, <1>6 DEF Copied, Reads
<1>8. Apartly(t)'
  BY DEF Apartly
<1>9. Settling(t)'
  BY <1>1, <1>2, <1>4, <1>6 DEF Settling, Settled, Unmarked
<1>10. \A u \in Thread : u # t /\ InTrans(u) => task[u].who # task'[t].who
  BY DEF Busy, Exclusive, InTrans
<1>11. \A u \in Thread : u # t /\ task[u].pc \in {"delete", "insert"} /\ task[u].who = task'[t].who =>
               /\ task'[t].pc = "commit" => ~task'[t].whole
               /\ task[u].whole => ~task'[t].room
  BY <1>1, <1>2 DEF Reads, Apartly
<1>12. Busy' /\ Trading' /\ Reads' /\ Unmarked' /\ Settled'
  BY <1>3, <1>7, <1>8, <1>9, <1>10, <1>11, OneThread
<1>13. clean' \in SUBSET (Char \X Part)
  BY DEF TypeOK
<1> QED BY <1>12, <1>13, SameClean, SameTypes

LEMMA SaveInventoryKeeps ==
    ASSUME IInv, NEW t \in Thread, SaveInventory(t) \/ InventoryFails(t)
    PROVE  IInv'
<1>1. task[t] \in Task /\ task[t].who \in Char /\ task[t].pc = "inv"
  BY TaskIs DEF IInv, Busy, BusyOf, SaveInventory, InventoryFails
<1>2. inv[task[t].who] \in SUBSET Token
  BY <1>1 DEF IInv, TypeOK
<1>3. Same /\ clean' = clean
  BY DEF SaveInventory, InventoryFails, Same, mem, db, hist
<1>4. faults' \in 0..MaxFaults
  <2>1. faults \in 0..MaxFaults /\ MaxFaults \in Nat
    BY SavingAssumption DEF IInv, TypeOK
  <2>2. faults' = faults \/ (faults < MaxFaults /\ faults' = faults + 1)
    BY DEF SaveInventory, InventoryFails
  <2> QED BY <2>1, <2>2
<1>5. PICK S \in SUBSET Token, w \in BOOLEAN, z \in SUBSET Part :
        /\ task' = [task EXCEPT ![t].pc = "rest", ![t].inv = task[t].inv \cup S,
                                ![t].whole = w, ![t].seen = z]
        /\ z \subseteq task[t].seen /\ (w => task[t].whole)
        /\ (w \/ "inv" \in z) => S = inv[task[t].who] \ Meso
  <2>1. CASE SaveInventory(t)
    <3>1. task' = [task EXCEPT ![t].pc = "rest", ![t].inv = task[t].inv \cup (inv[task[t].who] \ Meso)]
      BY <2>1 DEF SaveInventory
    <3>2. task' = [task EXCEPT ![t].pc = "rest", ![t].inv = task[t].inv \cup (inv[task[t].who] \ Meso),
                               ![t].whole = task[t].whole, ![t].seen = task[t].seen]
      BY <1>1, <3>1 DEF IInv, TypeOK, Task
    <3> QED BY <1>1, <1>2, <3>2 DEF Task
  <2>2. CASE InventoryFails(t)
    <3>1. PICK S \in SUBSET (inv[task[t].who] \ Meso) :
            task' = [task EXCEPT ![t].pc = "rest", ![t].inv = task[t].inv \cup S,
                                 ![t].whole = FALSE, ![t].seen = task[t].seen \ {"inv"}]
      BY <2>2 DEF InventoryFails
    <3>2. S \in SUBSET Token /\ FALSE \in BOOLEAN /\ task[t].seen \ {"inv"} \in SUBSET Part
      BY <1>1, <1>2 DEF Task
    <3> QED BY <3>1, <3>2
  <2> QED BY <2>1, <2>2
<1>6. LET k == task[t]  j == task'[t] IN
       /\ j.pc = "rest" /\ j.inv = k.inv \cup S /\ j.whole = w /\ j.seen = z
       /\ j.who = k.who /\ j.add = k.add /\ j.del = k.del /\ j.list = k.list
       /\ j.room = k.room /\ j.item = k.item /\ j.after = k.after
       /\ j \in Task
  BY <1>1, <1>5 DEF IInv, TypeOK, Task, Pc
<1>7. task' \in [Thread -> Task] /\ \A u \in Thread : u # t => task'[u] = task[u]
  BY <1>5, <1>6 DEF IInv, TypeOK
<1> QED BY <1>1, <1>3, <1>4, <1>5, <1>6, <1>7, GoesOn

LEMMA SaveRestKeeps ==
    ASSUME IInv, NEW t \in Thread, SaveRest(t) \/ RestFails(t)
    PROVE  IInv'
<1>1. task[t] \in Task /\ task[t].who \in Char /\ task[t].pc = "rest"
  BY TaskIs DEF IInv, Busy, BusyOf, SaveRest, RestFails
<1>2. Same /\ clean' = clean
  BY DEF SaveRest, RestFails, Same, mem, db, hist
<1>3. faults' \in 0..MaxFaults
  BY SavingAssumption DEF IInv, TypeOK, SaveRest, RestFails
<1>4. PICK w \in BOOLEAN, pc \in {"sto", "commit"} :
        /\ task' = [task EXCEPT ![t].pc = pc, ![t].whole = w]
        /\ (w => task[t].whole) /\ (pc = "commit" => ~w)
  <2>1. CASE SaveRest(t)
    <3>1. task' = [task EXCEPT ![t].pc = "sto", ![t].whole = task[t].whole]
      BY <1>1, <2>1 DEF SaveRest, IInv, TypeOK, Task
    <3> QED BY <1>1, <3>1 DEF Task
  <2>2. CASE RestFails(t)
    BY <2>2 DEF RestFails
  <2> QED BY <2>1, <2>2
<1>5. LET k == task[t]  j == task'[t] IN
       /\ j.pc = pc /\ j.inv = k.inv /\ j.whole = w /\ j.seen = k.seen
       /\ j.who = k.who /\ j.add = k.add /\ j.del = k.del /\ j.list = k.list
       /\ j.room = k.room /\ j.item = k.item /\ j.after = k.after
       /\ j \in Task
  BY <1>1, <1>4 DEF IInv, TypeOK, Task, Pc
<1>6. task' \in [Thread -> Task] /\ \A u \in Thread : u # t => task'[u] = task[u]
  BY <1>4, <1>5 DEF IInv, TypeOK
<1> QED BY <1>1, <1>2, <1>3, <1>4, <1>5, <1>6, GoesOn

LEMMA SkipsRoom ==
    ASSUME IInv, NEW t \in Thread, SaveStorage(t), ~changed[task[t].who]
    PROVE  IInv'
<1>1. task[t] \in Task /\ task[t].who \in Char /\ task[t].pc = "sto"
  BY TaskIs DEF IInv, Busy, BusyOf, SaveStorage
<1>2. Same /\ clean' = clean
  BY DEF SaveStorage, Same, mem, db, hist
<1>3. faults' \in 0..MaxFaults
  BY DEF IInv, TypeOK, SaveStorage
<1>4. task' = [task EXCEPT ![t].pc = "commit"]
  BY DEF SaveStorage
<1>5. LET k == task[t]  j == task'[t] IN
       /\ j.pc = "commit" /\ j.inv = k.inv /\ j.whole = k.whole /\ j.seen = k.seen
       /\ j.who = k.who /\ j.add = k.add /\ j.del = k.del /\ j.list = k.list
       /\ j.room = k.room /\ j.item = k.item /\ j.after = k.after
       /\ j \in Task
  BY <1>1, <1>4 DEF IInv, TypeOK, Task, Pc
<1>6. task' \in [Thread -> Task] /\ \A u \in Thread : u # t => task'[u] = task[u]
  BY <1>4, <1>5 DEF IInv, TypeOK
<1> QED BY <1>1, <1>2, <1>3, <1>4, <1>5, <1>6, GoesOn

LEMMA ContentOf == ASSUME NEW S, NEW x PROVE Content(S \X {x}) = S
<1>1. \A r \in S \X {x} : r[1] \in S OBVIOUS
<1>2. \A k \in S : <<k, x>> \in S \X {x} /\ <<k, x>>[1] = k OBVIOUS
<1> QED BY <1>1, <1>2 DEF Content

\* The room's rows are deleted and inserted within the transaction.
LEMMA WritesRoom ==
    ASSUME IInv, NEW t \in Thread, NEW S \in SUBSET Token, NEW right \in BOOLEAN,
           Same, clean' = clean, faults' \in 0..MaxFaults,
           task[t].pc = "sto", changed[task[t].who], right => S = sto[task[t].who],
           task' = RoomWritten(t, S, right)
    PROVE  IInv'
<1> USE DEF IInv
<1>1. task[t] \in Task /\ task[t].who \in Char
  BY TaskIs DEF Busy, BusyOf
<1>2. PICK c \in Char : c = task[t].who
  BY <1>1
<1>3. /\ online' = online /\ inv' = inv /\ sto' = sto /\ trade' = trade /\ changed' = changed
      /\ dbInv' = dbInv /\ dbSto' = dbSto /\ damaged' = damaged /\ left' = left /\ late' = late
  BY DEF Same
<1>4. LET k == task[t]  j == task'[t] IN
       /\ j.pc = "commit" /\ j.room /\ j.del = dbSto[c] /\ j.add = S \X {t}
       /\ j.whole => k.whole /\ right /\ Apart(c) = {}
       /\ j.seen \subseteq k.seen \cup {"sto"}
       /\ "sto" \in j.seen => "sto" \in k.seen \/ right
       /\ j.who = c /\ j.inv = k.inv /\ j.list = k.list /\ j.item = k.item /\ j.after = k.after
       /\ j \in Task
  <2>1. task'[t] = [task[t] EXCEPT !.pc = "commit", !.room = TRUE, !.del = dbSto[c],
                          !.add = S \X {t}, !.whole = @ /\ right /\ Apart(c) = {},
                          !.seen = IF right /\ Apart(c) = {} THEN @ \cup {"sto"} ELSE @]
    BY <1>2 DEF RoomWritten
  <2>2. dbSto[c] \in SUBSET Row /\ S \X {t} \in SUBSET Row
    BY DEF TypeOK, Row
  <2>3. /\ task'[t].pc = "commit" /\ task'[t].room /\ task'[t].del = dbSto[c] /\ task'[t].add = S \X {t}
        /\ task'[t].whole = (task[t].whole /\ right /\ Apart(c) = {})
        /\ task'[t].seen = IF right /\ Apart(c) = {} THEN task[t].seen \cup {"sto"} ELSE task[t].seen
        /\ task'[t].who = c /\ task'[t].inv = task[t].inv /\ task'[t].list = task[t].list
        /\ task'[t].item = task[t].item /\ task'[t].after = task[t].after
        /\ DOMAIN task'[t] = DOMAIN task[t]
    BY <1>1, <1>2, <2>1 DEF Task
  <2>4. task'[t] \in Task
    <3>1. PICK w \in BOOLEAN, z \in SUBSET Part :
            /\ w = (task[t].whole /\ right /\ Apart(c) = {})
            /\ z = IF right /\ Apart(c) = {} THEN task[t].seen \cup {"sto"} ELSE task[t].seen
      BY <1>1 DEF Task, Part
    <3>2. task'[t] = [task[t] EXCEPT !.pc = "commit", !.room = TRUE, !.del = dbSto[c],
                                     !.add = S \X {t}, !.whole = w, !.seen = z]
      BY <2>1, <3>1
    <3>3. task'[t] = [[[[[[task[t] EXCEPT !.pc = "commit"] EXCEPT !.room = TRUE]
                            EXCEPT !.del = dbSto[c]] EXCEPT !.add = S \X {t}]
                            EXCEPT !.whole = w] EXCEPT !.seen = z]
      BY <3>2
    <3>4. [[task[t] EXCEPT !.pc = "commit"] EXCEPT !.room = TRUE] \in Task
      BY <1>1 DEF Task, Pc
    <3>5. [[[[task[t] EXCEPT !.pc = "commit"] EXCEPT !.room = TRUE]
              EXCEPT !.del = dbSto[c]] EXCEPT !.add = S \X {t}] \in Task
      BY <2>2, <3>4 DEF Task
    <3> QED BY <3>1, <3>3, <3>5 DEF Task
  <2> QED BY <1>1, <2>3, <2>4 DEF Task
<1>5. ASSUME NEW u \in Thread, u # t
      PROVE  LET k == task[u]  j == task'[u] IN
             /\ k \in Task /\ j \in Task
             /\ j.pc = k.pc /\ j.who = k.who /\ j.inv = k.inv /\ j.add = k.add /\ j.del = k.del
             /\ j.list = k.list /\ j.room = k.room /\ j.item = k.item /\ j.after = k.after
             /\ j.seen = k.seen /\ (j.whole => k.whole)
             /\ u \in Apart(c) => ~j.whole
             /\ u \notin Apart(c) => j = k
  <2>1. task[u] \in Task
    BY TaskIs
  <2>2. CASE u \in Apart(c)
    <3>1. task'[u] = [task[u] EXCEPT !.whole = FALSE]
      BY <1>2, <1>5, <2>2 DEF RoomWritten
    <3>2. PICK k \in Task : k = task[u]
      BY <2>1
    <3>3. [k EXCEPT !.whole = FALSE] \in Task
      BY DEF Task
    <3>4. LET j == [k EXCEPT !.whole = FALSE] IN
          /\ j.pc = k.pc /\ j.who = k.who /\ j.inv = k.inv /\ j.add = k.add /\ j.del = k.del
          /\ j.list = k.list /\ j.room = k.room /\ j.item = k.item /\ j.after = k.after
          /\ j.seen = k.seen /\ ~j.whole
      BY DEF Task
    <3> QED BY ONLY <2>2, <3>1, <3>2, <3>3, <3>4
  <2>3. CASE u \notin Apart(c)
    <3>1. task'[u] = task[u]
      BY <1>2, <1>5, <2>3 DEF RoomWritten
    <3> QED BY <2>1, <2>3, <3>1
  <2> QED BY <2>2, <2>3
<1>6. task' \in [Thread -> Task]
  <2>1. DOMAIN task' = Thread /\ task' = [u \in Thread |-> task'[u]]
    BY DEF RoomWritten
  <2> QED BY <1>4, <1>5, <2>1
<1>7. TypeOK' /\ Clean'
  BY <1>6, SameTypes, SameClean DEF TypeOK
<1>8. ASSUME NEW u \in Thread PROVE BusyOf(u)'
  <2>1. CASE u = t
    <3>1. ~task[t].room
      BY DEF Busy, BusyOf
    <3> QED BY <1>1, <1>2, <1>4, <2>1, <3>1, TransBusy
  <2>2. CASE u # t
    <3>1. task'[u].pc = "idle" => u \notin Apart(c)
      BY <1>5, <2>2 DEF Apart
    <3>2. task'[u].pc = "idle" => task'[u] = Idle
      BY <1>5, <2>2, <3>1 DEF Busy, BusyOf
    <3> QED BY <1>3, <1>5, <2>2, <3>2 DEF Busy, BusyOf, InTrans
  <2> QED BY <2>1, <2>2
<1>9. Exclusive'
  <2> SUFFICES ASSUME NEW u \in Thread, NEW v \in Thread, u # v, InTrans(u)', InTrans(v)'
               PROVE  task'[u].who # task'[v].who
    BY DEF Exclusive
  <2>1. \A w \in Thread : InTrans(w)' => InTrans(w) /\ task'[w].who = task[w].who
    BY <1>2, <1>4, <1>5 DEF InTrans
  <2> QED BY <2>1 DEF Busy, Exclusive
<1>10. ASSUME NEW u \in Thread PROVE Copied(u)'
  <2>1. CASE u = t
    BY <1>2, <1>3, <1>4, <2>1 DEF Reads, Copied
  <2>2. CASE u # t
    <3>1. CASE u \in Apart(c)
      BY <1>5, <2>2, <3>1 DEF Apart, Copied
    <3>2. CASE u \notin Apart(c)
      BY <1>3, <1>5, <2>2, <3>2 DEF Copied, Reads
    <3> QED BY <3>1, <3>2
  <2> QED BY <2>1, <2>2
<1>11. ASSUME NEW u \in Thread PROVE Apartly(u)'
  <2>1. CASE u = t
    BY <1>4, <2>1 DEF Apartly
  <2>2. CASE u \in Apart(c) /\ u # t
    <3>1. \A v \in Thread : task'[v].who = c => (task'[v].pc = "commit" => ~task'[v].whole)
      BY <1>4, <1>5, <2>2 DEF Reads, Apartly, Apart
    <3>2. damaged[c] /\ changed[c]
      BY <2>2 DEF Reads, Apartly, Apart
    <3>3. ~task'[u].whole /\ task'[u].who = c
      BY <1>5, <2>2 DEF Apart
    <3> QED BY <1>3, <3>1, <3>2, <3>3 DEF Apartly
  <2>3. CASE u \notin Apart(c) /\ u # t
    <3>1. CASE task[u].pc \in {"delete", "insert"}
      <4>1. task[u].who # c /\ task'[u] = task[u]
        BY <1>5, <2>3, <3>1 DEF Apart
      <4>2. \A v \in Thread : task'[v].who = task[u].who =>
              (task'[v].pc = "commit" => ~task'[v].whole) /\ (task[u].whole => ~task'[v].room)
        BY <1>2, <1>4, <1>5, <3>1, <4>1 DEF Reads, Apartly
      <4> QED BY <1>3, <4>1, <4>2 DEF Reads, Apartly
    <3>2. CASE task[u].pc \notin {"delete", "insert"}
      BY <1>5, <2>3, <3>2 DEF Apartly
    <3> QED BY <3>1, <3>2
  <2> QED BY <2>1, <2>2, <2>3
<1>12. ASSUME NEW u \in Thread PROVE Settling(u)'
  <2>1. CASE u = t
    <3>1. Content(task'[t].add) = S
      <4>1. task'[t].add = S \X {t}
        BY <1>4
      <4> QED BY <4>1, ContentOf
    <3>2. task[t].whole /\ (left[c] \/ task[t].after = "quit") /\ c \notin late => task[t].inv = inv[c]
      BY <1>2 DEF Settled, Settling
    <3> QED
      <4>1. /\ task'[t].who = c /\ task'[t].inv = task[t].inv /\ task'[t].after = task[t].after
            /\ task'[t].room /\ (task'[t].whole => task[t].whole /\ S = sto[c])
        BY <1>2, <1>4
      <4>2. left'[c] = left[c] /\ late' = late /\ inv'[c] = inv[c] /\ sto'[c] = sto[c]
        BY <1>3
      <4>3. ASSUME task'[t].whole, left[c] \/ task[t].after = "quit", c \notin late
            PROVE  task'[t].inv = inv[c] /\ Content(task'[t].add) = sto[c]
        BY <3>1, <3>2, <4>1, <4>3
      <4> QED BY <2>1, <4>1, <4>2, <4>3 DEF Settling
  <2>2. CASE u # t
    BY <1>3, <1>5, <2>2 DEF Settled, Settling
  <2> QED BY <2>1, <2>2
<1>13. ASSUME NEW d \in Char PROVE Departed(d)'
  <2>1. \A u \in Thread : Removes(u, d) => Removes(u, d)'
    BY <1>5 DEF Removes
  <2> QED BY <1>3, <2>1 DEF Settled, Departed, Back
<1>14. Trading' /\ Unmarked'
  BY <1>3 DEF Trading, Unmarked
<1> QED BY <1>7, <1>8, <1>9, <1>10, <1>11, <1>12, <1>13, <1>14 DEF Busy, Reads, Settled

LEMMA SaveStorageKeeps ==
    ASSUME IInv, NEW t \in Thread, SaveStorage(t) \/ StorageFails(t)
    PROVE  IInv'
<1>1. task[t].pc = "sto" /\ task[t].who \in Char
  BY DEF SaveStorage, StorageFails, IInv, Busy, BusyOf
<1>2. sto[task[t].who] \in SUBSET Token
  BY <1>1 DEF IInv, TypeOK
<1>3. Same /\ clean' = clean
  BY DEF SaveStorage, StorageFails, Same, mem, db, hist
<1>4. faults' \in 0..MaxFaults
  <2>1. faults \in 0..MaxFaults /\ MaxFaults \in Nat
    BY SavingAssumption DEF IInv, TypeOK
  <2>2. faults' = faults \/ (faults < MaxFaults /\ faults' = faults + 1)
    BY DEF SaveStorage, StorageFails
  <2> QED BY <2>1, <2>2
<1>5. CASE ~changed[task[t].who]
  BY <1>5, SkipsRoom DEF StorageFails
<1>6. CASE changed[task[t].who]
  <2>1. CASE SaveStorage(t)
    <3>1. task' = RoomWritten(t, sto[task[t].who], TRUE)
      BY <1>6, <2>1 DEF SaveStorage
    <3>2. PICK S \in SUBSET Token : S = sto[task[t].who]
      BY <1>2
    <3> QED BY <1>1, <1>3, <1>4, <1>6, <3>1, <3>2, WritesRoom
  <2>2. CASE StorageFails(t)
    <3>1. PICK S \in SUBSET Token : task' = RoomWritten(t, S, FALSE)
      <4>1. PICK S \in SUBSET (sto[task[t].who] \ Meso) :
              task' = RoomWritten(t, S \cup (sto[task[t].who] \cap Meso), FALSE)
        BY <2>2 DEF StorageFails
      <4>2. S \cup (sto[task[t].who] \cap Meso) \in SUBSET Token
        BY <1>2
      <4> QED BY <4>1, <4>2
    <3> QED BY <1>1, <1>3, <1>4, <1>6, <3>1, WritesRoom
  <2> QED BY <2>1, <2>2
<1> QED BY <1>5, <1>6

-----------------------------------------------------------------------------
(* The ends of saves.                                                       *)

LEMMA EndingIs ==
    ASSUME IInv, NEW t \in Thread, task[t].pc # "idle"
    PROVE  LET j == Ending(t) IN
           /\ j \in Task /\ ~j.room /\ j.add = {} /\ j.del = {} /\ j.pc \in {"idle", "after"}
           /\ j.pc = "idle" => j = Idle
           /\ j.pc = "after" => /\ j.who = task[t].who /\ j.item = task[t].item
                                /\ j.after = task[t].after /\ j.after # "end"
<1>1. /\ task[t].who \in Char /\ task[t].item \in Token \cup {None} /\ task[t].after \in After
  BY TaskIs DEF IInv, Busy, BusyOf
<1>2. LET k == Begin(task[t].who, "after", task[t].item, task[t].after) IN
           /\ k \in Task
           /\ k.pc = "after" /\ k.who = task[t].who /\ k.item = task[t].item
           /\ k.after = task[t].after /\ k.add = {} /\ k.del = {} /\ ~k.room
  <2>1. "after" \in Pc
    BY DEF Pc
  <2>2. PICK c \in Char, i \in Token \cup {None}, a \in After :
          c = task[t].who /\ i = task[t].item /\ a = task[t].after
    BY <1>1
  <2>3. LET k == Begin(c, "after", i, a) IN
           /\ k \in Task
           /\ k.pc = "after" /\ k.who = c /\ k.item = i /\ k.after = a
           /\ k.add = {} /\ k.del = {} /\ ~k.room
    BY <2>1, BeginTask
  <2> QED BY <2>2, <2>3
<1>3. Idle \in Task /\ ~Idle.room /\ Idle.add = {} /\ Idle.del = {} /\ Idle.pc = "idle"
  BY IdleTask DEF Idle
<1> QED BY <1>2, <1>3 DEF Ending

LEMMA EndingBusy ==
    ASSUME IInv, NEW t \in Thread, task[t].pc # "idle", task'[t] = Ending(t),
           online' = online, trade' = trade
    PROVE  BusyOf(t)'
<1>1. /\ task[t].who \in Char
      /\ t \in Loop => LoopOf[task[t].who] = t
      /\ t \in Other => task[t].after \in {"end", "quit"}
      /\ task[t].after = "partner" => trade[task[t].who] # None
      /\ task[t].after = "quit" /\ t \in Loop => trade[task[t].who] = None
      /\ task[t].after \in {"gain", "lose"} => task[t].item \in Token
  BY DEF IInv, Busy, BusyOf
<1>2. CASE task'[t].pc = "idle"
  BY <1>2, EndingIs DEF BusyOf, Idle
<1>3. CASE task'[t].pc = "after"
  <2>1. /\ task'[t].who = task[t].who /\ task'[t].item = task[t].item
        /\ task'[t].after = task[t].after /\ task'[t].after # "end"
        /\ ~task'[t].room /\ task'[t].add = {} /\ task'[t].del = {}
    BY <1>3, EndingIs
  <2> QED BY <1>1, <1>3, <2>1 DEF BusyOf, InTrans
<1> QED BY <1>2, <1>3, EndingIs

\* A thread that ends without having written anything.
LEMMA EndsKeeps ==
    ASSUME IInv, NEW t \in Thread, Same, task[t].pc \notin {"idle", "after"},
           task' = [task EXCEPT ![t] = Ending(t)]
    PROVE  /\ task' \in [Thread -> Task]
           /\ Busy' /\ Trading' /\ Reads' /\ Unmarked' /\ Settled'
<1>1. /\ Ending(t) \in Task /\ ~Ending(t).room /\ Ending(t).pc \in {"idle", "after"}
  BY EndingIs
<1>2. task' \in [Thread -> Task] /\ task'[t] = Ending(t) /\ \A u \in Thread : u # t => task'[u] = task[u]
  BY <1>1 DEF IInv, TypeOK
<1>3. BusyOf(t)'
  BY <1>2, EndingBusy DEF Same
<1>4. Copied(t)' /\ Apartly(t)' /\ Settling(t)' /\ ~InTrans(t)'
  BY <1>1, <1>2 DEF Copied, Apartly, Settling, InTrans
<1>5. Busy' /\ Trading' /\ Reads' /\ Unmarked' /\ Settled'
  BY <1>1, <1>2, <1>3, <1>4, OneThread
<1> QED BY <1>2, <1>5

LEMMA NoConnectionKeeps ==
    ASSUME IInv, NEW t \in Thread, NoConnection(t)
    PROVE  IInv'
<1>1. Same /\ clean' = clean /\ task[t].pc = "row" /\ task' = [task EXCEPT ![t] = Ending(t)]
  BY DEF NoConnection, Same, mem, db, hist
<1>2. faults' \in 0..MaxFaults
  BY SavingAssumption DEF IInv, TypeOK, NoConnection
<1>3. /\ task' \in [Thread -> Task]
      /\ Busy' /\ Trading' /\ Reads' /\ Unmarked' /\ Settled'
  BY <1>1, EndsKeeps
<1> QED BY <1>1, <1>2, <1>3, SameClean, SameTypes DEF IInv, TypeOK

-----------------------------------------------------------------------------
(* The room saved alone, row by row.                                        *)

LEMMA RowsFinite == \A R \in SUBSET Row : IsFiniteSet(R)
<1>1. IsFiniteSet(Thread)
  BY SavingAssumption, FS_Union DEF Thread
<1>2. IsFiniteSet(Row)
  BY <1>1, SavingAssumption, FS_Product DEF Row
<1> QED BY <1>2, FS_Subset

\* Rows are as many as what they are of, when no two are of the same.
LEMMA OneEach ==
    ASSUME NEW R \in SUBSET Row
    PROVE  Cardinality(R) = Cardinality(Content(R)) <=> \A r, q \in R : r[1] = q[1] => r = q
<1> DEFINE f == [r \in R |-> r[1]]
<1>1. IsFiniteSet(R)
  BY RowsFinite
<1>2. f \in Surjection(R, Content(R))
  BY DEF Surjection, Content
<1>3. Cardinality(Content(R)) = Cardinality(R) <=> f \in Injection(R, Content(R))
  <2> HIDE DEF f
  <2> QED BY <1>1, <1>2, FS_Surjection
<1>4. f \in Injection(R, Content(R)) <=> \A r, q \in R : r[1] = q[1] => r = q
  BY <1>2 DEF Injection, IsInjective, Surjection
<1> QED BY <1>3, <1>4

LEMMA OneOfThread ==
    ASSUME NEW S \in SUBSET Token, NEW t \in Thread
    PROVE  S \X {t} \in SUBSET Row /\ Cardinality(S \X {t}) = Cardinality(Content(S \X {t}))
<1>1. S \X {t} \in SUBSET Row
  BY DEF Row
<1>2. \A r, q \in S \X {t} : r[1] = q[1] => r = q OBVIOUS
<1> QED BY <1>1, <1>2, OneEach

LEMMA MeddledTask ==
    ASSUME TypeOK, NEW u \in Thread, NEW c \in Char
    PROVE  LET k == task[u]  j == Meddled(task, c)[u] IN
           /\ j \in Task
           /\ k.who # c \/ k.pc # "commit" => j = k
           /\ k.who = c /\ k.pc = "commit" => ~j.whole /\ "sto" \notin j.seen
           /\ j.pc = k.pc /\ j.who = k.who /\ j.inv = k.inv /\ j.add = k.add /\ j.del = k.del
           /\ j.list = k.list /\ j.room = k.room /\ j.item = k.item /\ j.after = k.after
           /\ j.seen \subseteq k.seen /\ (j.whole => k.whole)
<1>1. task[u] \in Task
  BY TaskIs
<1>2. CASE task[u].who = c /\ task[u].pc = "commit"
  <2>1. Meddled(task, c)[u] = [[task[u] EXCEPT !.whole = FALSE] EXCEPT !.seen = task[u].seen \ {"sto"}]
    BY <1>1, <1>2 DEF Meddled, Task
  <2>2. PICK k \in Task : k = task[u]
    BY <1>1
  <2> DEFINE j == [[k EXCEPT !.whole = FALSE] EXCEPT !.seen = k.seen \ {"sto"}]
  <2>3. j \in Task
    BY DEF Task
  <2>4. /\ ~j.whole /\ j.seen = k.seen \ {"sto"}
        /\ j.pc = k.pc /\ j.who = k.who /\ j.inv = k.inv /\ j.add = k.add /\ j.del = k.del
        /\ j.list = k.list /\ j.room = k.room /\ j.item = k.item /\ j.after = k.after
    BY DEF Task
  <2> QED BY ONLY <1>2, <2>1, <2>2, <2>3, <2>4
<1>3. CASE ~(task[u].who = c /\ task[u].pc = "commit")
  <2>1. Meddled(task, c)[u] = task[u]
    BY <1>3 DEF Meddled
  <2> QED BY <1>1, <1>3, <2>1 DEF Task
<1> QED BY <1>2, <1>3

\* What thread l knows of the rows it is writing.
RightSoFar(l) == LET k == task[l]  c == task[l].who IN
    /\ k.pc = "delete" /\ k.whole /\ "sto" \in k.seen =>
          /\ {r \in dbSto[c] : r[1] \in Meso} = (sto[c] \cap Meso) \X {l}
          /\ k.list = sto[c] \ Meso
    /\ k.pc = "insert" /\ k.whole /\ "sto" \in k.seen =>
          k.list \subseteq sto[c] \ Meso /\ dbSto[c] = (sto[c] \ k.list) \X {l}

\* Loop l writes rows of c's room and goes on with the next.
Touches(l, c) == LET k == task[l]  j == task'[l] IN
    /\ k.who = c /\ k.pc \in {"update", "delete", "insert"} /\ changed[c]
    /\ j.pc \in {"delete", "insert"} /\ j.who = c /\ j.room = k.room /\ j.add = k.add
    /\ j.del = k.del /\ j.item = k.item /\ j.after = k.after /\ j.whole = k.whole
    /\ k.pc = "insert" \/ ~RowsLocked(c)
    /\ damaged'[c] /\ \A d \in Char \ {c} : damaged'[d] = damaged[d] /\ dbSto'[d] = dbSto[d]
    /\ UNCHANGED <<online, inv, sto, hand, trade, ground, changed, dbInv, left, late>>
    /\ \A u \in Thread : u # l => task'[u] = Meddled(task, c)[u]
    /\ RightSoFar(l)'

\* A step of the room's own save: it ends, or it writes rows.
Ends(l) == Same /\ task' = [task EXCEPT ![l] = Ending(l)]
Apartwise(l) == Ends(l) \/ \E c \in Char : Touches(l, c)

LEMMA ApartAlone ==
    ASSUME IInv, NEW l \in Thread, task[l].pc \in {"update", "delete", "insert"}
    PROVE  /\ task[l].who \in Char /\ l \in Loop /\ LoopOf[task[l].who] = l
           /\ task[l].after # "quit" /\ ~task[l].room
           /\ task[l].add = {} /\ task[l].del = {}
           /\ \A u \in Thread : u # l /\ task[u].who = task[l].who =>
                 task[u].pc \notin {"update", "delete", "insert"}
<1>1. ASSUME NEW u \in Thread, task[u].pc \in {"update", "delete", "insert"}
      PROVE  /\ task[u].who \in Char /\ u \in Loop /\ LoopOf[task[u].who] = u
             /\ task[u].after # "quit" /\ ~task[u].room /\ task[u].add = {} /\ task[u].del = {}
  BY <1>1, Facts DEF IInv, Busy, BusyOf, InTrans
<1> QED BY <1>1

LEMMA TouchesKeeps ==
    ASSUME IInv, NEW l \in Thread, NEW c \in Char, Touches(l, c)
    PROVE  Busy' /\ Trading' /\ Reads' /\ Unmarked' /\ Settled'
<1> USE DEF IInv
<1>1. /\ task[l].who = c /\ task[l].pc \in {"update", "delete", "insert"} /\ changed[c]
      /\ online' = online /\ inv' = inv /\ sto' = sto /\ trade' = trade /\ changed' = changed
      /\ dbInv' = dbInv /\ left' = left /\ late' = late
      /\ damaged'[c] /\ \A d \in Char \ {c} : damaged'[d] = damaged[d] /\ dbSto'[d] = dbSto[d]
      /\ RightSoFar(l)'
  BY DEF Touches
<1>2. /\ l \in Loop /\ LoopOf[c] = l /\ task[l].after # "quit"
      /\ ~task[l].room /\ task[l].add = {} /\ task[l].del = {}
      /\ \A u \in Thread : u # l /\ task[u].who = c => task[u].pc \notin {"update", "delete", "insert"}
  BY <1>1, ApartAlone
<1>3. LET k == task[l]  j == task'[l] IN
      /\ j.pc \in {"delete", "insert"} /\ j.who = c /\ j.room = k.room /\ j.add = k.add
      /\ j.del = k.del /\ j.item = k.item /\ j.after = k.after /\ j.whole = k.whole
  BY DEF Touches
<1>4. ASSUME NEW u \in Thread, u # l
      PROVE  LET k == task[u]  j == task'[u] IN
             /\ k.who # c \/ k.pc # "commit" => j = k
             /\ k.who = c /\ k.pc = "commit" => ~j.whole /\ "sto" \notin j.seen
             /\ j.pc = k.pc /\ j.who = k.who /\ j.inv = k.inv /\ j.add = k.add /\ j.del = k.del
             /\ j.list = k.list /\ j.room = k.room /\ j.item = k.item /\ j.after = k.after
             /\ j.seen \subseteq k.seen /\ (j.whole => k.whole)
  BY <1>4, MeddledTask DEF Touches
<1>5. ASSUME NEW u \in Thread PROVE BusyOf(u)'
  <2>1. CASE u = l
    BY <1>1, <1>2, <1>3, <2>1, Facts DEF Busy, BusyOf, InTrans
  <2>2. CASE u # l
    <3>1. task[u].pc = "idle" => task'[u] = Idle
      BY <1>4, <2>2 DEF Busy, BusyOf
    <3> QED BY <1>1, <1>4, <2>2, <3>1 DEF Busy, BusyOf, InTrans
  <2> QED BY <2>1, <2>2
<1>6. Exclusive'
  <2> SUFFICES ASSUME NEW u \in Thread, NEW v \in Thread, u # v, InTrans(u)', InTrans(v)'
               PROVE  task'[u].who # task'[v].who
    BY DEF Exclusive
  <2>1. \A w \in Thread : InTrans(w)' => InTrans(w) /\ task'[w].who = task[w].who
    BY <1>3, <1>4 DEF InTrans
  <2> QED BY <2>1 DEF Busy, Exclusive
<1>7. ASSUME NEW u \in Thread PROVE Copied(u)'
  <2>1. CASE u = l
    BY <1>3, <2>1 DEF Copied
  <2>2. CASE u # l /\ task[u].who = c
    BY <1>1, <1>4, <2>2 DEF Reads, Copied
  <2>3. CASE u # l /\ task[u].who # c
    <3>1. task'[u] = task[u]
      BY <1>4, <2>3
    <3>2. task[u].pc = "commit" => dbSto'[task[u].who] = dbSto[task[u].who]
      BY <1>1, <2>3 DEF Busy, BusyOf
    <3> QED BY <1>1, <3>1, <3>2 DEF Reads, Copied
  <2> QED BY <2>1, <2>2, <2>3
<1>8. ASSUME NEW u \in Thread PROVE Apartly(u)'
  <2>1. CASE u = l
    <3>1. \A v \in Thread : task'[v].who = c /\ task'[v].pc = "commit" => ~task'[v].whole
      BY <1>3, <1>4
    <3>2. \A v \in Thread : task'[v].who = c /\ task'[l].whole => ~task'[v].room
      <4>1. CASE task[l].pc = "insert"
        <5>1. \A v \in Thread : task[v].who = c => (task[l].whole => ~task[v].room)
          BY <1>1, <4>1 DEF Reads, Apartly
        <5> QED BY <1>1, <1>2, <1>3, <1>4, <5>1
      <4>2. CASE ~RowsLocked(c)
        BY <1>1, <1>2, <1>3, <1>4, <4>2 DEF RowsLocked
      <4> QED BY <4>1, <4>2 DEF Touches
    <3> QED BY <1>1, <1>3, <2>1, <3>1, <3>2 DEF Apartly, RightSoFar
  <2>2. CASE u # l /\ task[u].pc \in {"delete", "insert"}
    <3>1. task[u].who \in Char \ {c} /\ task'[u] = task[u]
      BY <1>2, <1>4, <2>2 DEF Busy, BusyOf
    <3>2. dbSto'[task[u].who] = dbSto[task[u].who] /\ damaged'[task[u].who] = damaged[task[u].who]
      BY <1>1, <3>1
    <3>3. \A v \in Thread : task'[v].who = task[u].who =>
             (task'[v].pc = "commit" => ~task'[v].whole) /\ (task[u].whole => ~task'[v].room)
      BY <1>3, <1>4, <2>2, <3>1 DEF Reads, Apartly
    <3> QED BY <1>1, <2>2, <3>1, <3>2, <3>3 DEF Reads, Apartly
  <2>3. CASE u # l /\ task[u].pc \notin {"delete", "insert"}
    BY <1>4, <2>3 DEF Apartly
  <2> QED BY <2>1, <2>2, <2>3
<1>9. ASSUME NEW u \in Thread PROVE Settling(u)'
  <2>1. CASE u = l
    BY <1>3, <2>1 DEF Settling
  <2>2. CASE u # l /\ task[u].who = c
    BY <1>1, <1>4, <2>2 DEF Settled, Settling
  <2>3. CASE u # l /\ task[u].who # c
    <3>1. task'[u] = task[u]
      BY <1>4, <2>3
    <3>2. task[u].pc = "commit" => dbSto'[task[u].who] = dbSto[task[u].who]
      BY <1>1, <2>3 DEF Busy, BusyOf
    <3> QED BY <1>1, <3>1, <3>2 DEF Settled, Settling
  <2> QED BY <2>1, <2>2, <2>3
<1>10. ASSUME NEW d \in Char PROVE Departed(d)'
  <2>1. \A u \in Thread : Removes(u, d) => Removes(u, d)'
    BY <1>1, <1>4 DEF Removes
  <2>2. ~damaged'[d] => d # c /\ ~damaged[d]
    BY <1>1
  <2> QED BY <1>1, <2>1, <2>2 DEF Settled, Departed, Back
<1>11. Trading' /\ Unmarked'
  BY <1>1 DEF Trading, Unmarked
<1> QED BY <1>5, <1>6, <1>7, <1>8, <1>9, <1>10, <1>11 DEF Busy, Reads, Settled

\* The types of a step that writes rows.
LEMMA TouchesTypes ==
    ASSUME IInv, NEW l \in Thread, NEW c \in Char, Touches(l, c), task'[l] \in Task,
           DOMAIN task' = Thread, task' = [u \in Thread |-> task'[u]],
           dbSto' \in [Char -> SUBSET Row], damaged' \in [Char -> BOOLEAN],
           faults' \in 0..MaxFaults, clean' \in SUBSET (Char \X Part)
    PROVE  TypeOK'
<1>1. \A u \in Thread : task'[u] \in Task
  BY MeddledTask DEF Touches, IInv
<1>2. task' \in [Thread -> Task]
  BY <1>1
<1> QED BY <1>2 DEF IInv, TypeOK, Touches

LEMMA ApartUpdateKeeps ==
    ASSUME IInv, NEW l \in Thread, ApartUpdate(l)
    PROVE  IInv' /\ Apartwise(l)
<1> USE DEF IInv
<1>1. task[l].pc = "update" /\ task[l] \in Task /\ task[l].who \in Char
  BY TaskIs, ApartAlone DEF ApartUpdate
<1>2. PICK c \in Char : c = task[l].who
  BY <1>1
<1>3. /\ online' = online /\ inv' = inv /\ sto' = sto /\ hand' = hand /\ trade' = trade
      /\ ground' = ground /\ changed' = changed /\ dbInv' = dbInv /\ faults' = faults
      /\ clean' = clean /\ left' = left /\ late' = late
  BY DEF ApartUpdate, mem
<1>4. CASE ~changed[c]
  <2>1. Same /\ task' = [task EXCEPT ![l] = Ending(l)]
    BY <1>2, <1>3, <1>4 DEF ApartUpdate, Same
  <2>2. task' \in [Thread -> Task] /\ Busy' /\ Trading' /\ Reads' /\ Unmarked' /\ Settled'
    BY <1>1, <2>1, EndsKeeps
  <2> QED BY <1>3, <2>1, <2>2, SameClean, SameTypes DEF TypeOK, Apartwise, Ends
<1>5. CASE changed[c]
  <2> DEFINE R == (dbSto[c] \ {r \in dbSto[c] : r[1] \in Meso}) \cup ((sto[c] \cap Meso) \X {l})
  <2>1. /\ ~RowsLocked(c) /\ dbSto' = [dbSto EXCEPT ![c] = R]
        /\ damaged' = [damaged EXCEPT ![c] = TRUE]
        /\ task' = [Meddled(task, c) EXCEPT
                                ![l].pc = "delete", ![l].list = sto[c] \ Meso,
                                ![l].seen = {"sto"}]
    BY <1>2, <1>5 DEF ApartUpdate
  <2>2. R \in SUBSET Row /\ sto[c] \in SUBSET Token /\ dbSto[c] \in SUBSET Row
    BY Facts DEF TypeOK, Row
  <2>3. {r \in R : r[1] \in Meso} = (sto[c] \cap Meso) \X {l} OBVIOUS
  <2> HIDE DEF R
  <2>4. dbSto'[c] = R /\ dbSto' \in [Char -> SUBSET Row] /\ \A d \in Char \ {c} : dbSto'[d] = dbSto[d]
    BY <2>1, <2>2 DEF TypeOK
  <2>5. damaged'[c] /\ damaged' \in [Char -> BOOLEAN] /\ \A d \in Char \ {c} : damaged'[d] = damaged[d]
    BY <2>1 DEF TypeOK
  <2>6. Meddled(task, c)[l] = task[l] /\ DOMAIN Meddled(task, c) = Thread
    BY <1>1 DEF Meddled
  <2>7. /\ DOMAIN task' = Thread /\ task' = [u \in Thread |-> task'[u]]
        /\ \A u \in Thread : u # l => task'[u] = Meddled(task, c)[u]
        /\ task'[l] = [[[task[l] EXCEPT !.pc = "delete"] EXCEPT !.list = sto[c] \ Meso]
                         EXCEPT !.seen = {"sto"}]
    BY <2>1, <2>6 DEF Meddled
  <2>8. LET k == task[l]  j == task'[l] IN
        /\ j.pc = "delete" /\ j.who = c /\ j.room = k.room /\ j.add = k.add /\ j.list = sto[c] \ Meso
        /\ j.del = k.del /\ j.item = k.item /\ j.after = k.after /\ j.whole = k.whole
        /\ j \in Task
    <3>1. [task[l] EXCEPT !.pc = "delete"] \in Task
      BY <1>1 DEF Task, Pc
    <3>2. PICK S \in SUBSET Token : S = sto[c] \ Meso
      BY <2>2
    <3>3. [[task[l] EXCEPT !.pc = "delete"] EXCEPT !.list = S] \in Task
      BY <3>1 DEF Task
    <3>4. task'[l] \in Task
      <4>1. [[[task[l] EXCEPT !.pc = "delete"] EXCEPT !.list = S] EXCEPT !.seen = {"sto"}] \in Task
        BY <3>3 DEF Task, Part
      <4> QED BY <2>7, <3>2, <4>1
    <3> QED BY <1>1, <1>2, <2>7, <3>4 DEF Task
  <2>9. RightSoFar(l)'
    BY <1>3, <2>3, <2>4, <2>8 DEF RightSoFar
  <2>10. Touches(l, c)
    BY <1>1, <1>2, <1>3, <1>5, <2>1, <2>4, <2>5, <2>7, <2>8, <2>9 DEF Touches
  <2>11. Busy' /\ Trading' /\ Reads' /\ Unmarked' /\ Settled'
    BY <2>10, TouchesKeeps
  <2>12. TypeOK'
    BY <1>3, <2>4, <2>5, <2>7, <2>8, <2>10, TouchesTypes DEF TypeOK
  <2>13. Clean'
    <3> SUFFICES ASSUME NEW d \in Char
                 PROVE  /\ <<d, "inv">> \in clean' => dbInv'[d] = inv'[d]
                        /\ <<d, "sto">> \in clean' => Content(dbSto'[d]) = sto'[d] /\ OneRowEach(d)'
      BY DEF Clean
    <3>1. CASE d # c
      BY <1>3, <2>4, <3>1 DEF Clean, OneRowEach
    <3>2. CASE d = c /\ <<c, "sto">> \in clean
      <4>1. Content(dbSto[c]) = sto[c] /\ \A r, q \in dbSto[c] : r[1] = q[1] => r = q
        BY <2>2, <3>2, OneEach DEF Clean, OneRowEach
      <4>2. Content(R) = sto[c]
        <5>1. \A r \in R : r[1] \in sto[c]
          BY <4>1 DEF R, Content
        <5>2. ASSUME NEW k \in sto[c] PROVE \E r \in R : k = r[1]
          <6>1. CASE k \in Meso
            <7>1. <<k, l>> \in R /\ <<k, l>>[1] = k
              BY <6>1 DEF R
            <7> QED BY <7>1
          <6>2. CASE k \notin Meso
            <7>1. PICK r \in dbSto[c] : r[1] = k
              BY <4>1 DEF Content
            <7> QED BY <6>2, <7>1 DEF R
          <6> QED BY <6>1, <6>2
        <5> QED BY <5>1, <5>2 DEF Content
      <4>3. \A r, q \in R : r[1] = q[1] => r = q
        BY <4>1 DEF R
      <4> QED BY <1>3, <2>2, <2>4, <3>2, <4>2, <4>3, OneEach DEF Clean, OneRowEach
    <3>3. CASE d = c /\ <<c, "sto">> \notin clean
      BY <1>3, <3>3 DEF Clean
    <3> QED BY <3>1, <3>2, <3>3
  <2> QED BY <2>10, <2>11, <2>12, <2>13 DEF Apartwise
<1> QED BY <1>4, <1>5

LEMMA ApartDeleteKeeps ==
    ASSUME IInv, NEW l \in Thread, ApartDelete(l)
    PROVE  IInv' /\ Apartwise(l)
<1> USE DEF IInv
<1>1. task[l].pc = "delete" /\ task[l] \in Task /\ task[l].who \in Char
  BY TaskIs, ApartAlone DEF ApartDelete
<1>2. PICK c \in Char : c = task[l].who
  BY <1>1
<1>3. /\ online' = online /\ inv' = inv /\ sto' = sto /\ hand' = hand /\ trade' = trade
      /\ ground' = ground /\ changed' = changed /\ dbInv' = dbInv /\ faults' = faults
      /\ damaged' = damaged /\ left' = left /\ late' = late
      /\ clean' = clean \ {<<c, "sto">>} /\ ~RowsLocked(c)
  BY <1>2 DEF ApartDelete, mem
<1>4. damaged[c] /\ changed[c]
  BY <1>1, <1>2 DEF Reads, Apartly
<1> DEFINE R == {r \in dbSto[c] : r[1] \in Meso}
<1>5. R \in SUBSET Row /\ sto[c] \in SUBSET Token
  BY DEF TypeOK
<1>6. dbSto' = [dbSto EXCEPT ![c] = R]
  BY <1>2 DEF ApartDelete
<1>7. dbSto'[c] = R /\ dbSto' \in [Char -> SUBSET Row] /\ \A d \in Char \ {c} : dbSto'[d] = dbSto[d]
  <2> HIDE DEF R
  <2> QED BY <1>5, <1>6 DEF TypeOK
<1>8. Meddled(task, c)[l] = task[l] /\ DOMAIN Meddled(task, c) = Thread
  BY <1>1 DEF Meddled
<1>9. /\ DOMAIN task' = Thread /\ task' = [u \in Thread |-> task'[u]]
      /\ \A u \in Thread : u # l => task'[u] = Meddled(task, c)[u]
      /\ task'[l] = [task[l] EXCEPT !.pc = "insert"]
  <2>1. task' = [Meddled(task, c) EXCEPT ![l].pc = "insert"]
    BY <1>2 DEF ApartDelete
  <2> QED BY <1>8, <2>1 DEF Meddled
<1>10. LET k == task[l]  j == task'[l] IN
       /\ j.pc = "insert" /\ j.who = c /\ j.room = k.room /\ j.add = k.add /\ j.list = k.list
       /\ j.del = k.del /\ j.item = k.item /\ j.after = k.after /\ j.whole = k.whole /\ j.seen = k.seen
       /\ j \in Task
  BY <1>1, <1>2, <1>9 DEF Task, Pc
<1>11. RightSoFar(l)'
  <2> SUFFICES ASSUME task[l].whole, "sto" \in task[l].seen
               PROVE  task[l].list \subseteq sto[c] \ Meso /\ R = (sto[c] \ task[l].list) \X {l}
    BY <1>3, <1>7, <1>10 DEF RightSoFar
  <2>1. R = (sto[c] \cap Meso) \X {l} /\ task[l].list = sto[c] \ Meso
    BY <1>1, <1>2 DEF Reads, Apartly
  <2> QED BY <2>1
<1> HIDE DEF R
<1>12. Touches(l, c)
  BY <1>1, <1>2, <1>3, <1>4, <1>7, <1>9, <1>10, <1>11 DEF Touches
<1>13. Busy' /\ Trading' /\ Reads' /\ Unmarked' /\ Settled'
  BY <1>12, TouchesKeeps
<1>14. TypeOK'
  BY <1>3, <1>7, <1>9, <1>10, <1>12, TouchesTypes DEF TypeOK
<1>15. Clean'
  BY <1>3, <1>7 DEF Clean, OneRowEach
<1> QED BY <1>12, <1>13, <1>14, <1>15 DEF Apartwise

LEMMA ApartInsertKeeps ==
    ASSUME IInv, NEW l \in Thread, ApartInsert(l)
    PROVE  IInv' /\ Apartwise(l)
<1> USE DEF IInv
<1>1. task[l].pc = "insert" /\ task[l] \in Task /\ task[l].who \in Char
  BY TaskIs, ApartAlone DEF ApartInsert
<1>2. PICK c \in Char : c = task[l].who
  BY <1>1
<1>3. /\ online' = online /\ inv' = inv /\ sto' = sto /\ hand' = hand /\ trade' = trade
      /\ ground' = ground /\ changed' = changed /\ dbInv' = dbInv /\ faults' = faults
      /\ damaged' = damaged /\ left' = left /\ late' = late
  BY <1>2 DEF ApartInsert, mem
<1>4. damaged[c] /\ changed[c]
  BY <1>1, <1>2 DEF Reads, Apartly
<1>5. sto[c] \in SUBSET Token /\ dbSto[c] \in SUBSET Row
  BY DEF TypeOK
<1>6. task[l].whole /\ "sto" \in task[l].seen =>
          task[l].list \subseteq sto[c] \ Meso /\ dbSto[c] = (sto[c] \ task[l].list) \X {l}
  BY <1>1, <1>2 DEF Reads, Apartly
<1>7. CASE task[l].list = {} /\ dbSto' = dbSto /\ task' = [task EXCEPT ![l] = Ending(l)]
            /\ clean' = IF task[l].whole /\ "sto" \in task[l].seen
                        THEN clean \cup {<<c, "sto">>} ELSE clean
  <2>1. Same
    BY <1>3, <1>7 DEF Same
  <2>2. task' \in [Thread -> Task] /\ Busy' /\ Trading' /\ Reads' /\ Unmarked' /\ Settled'
    BY <1>1, <1>7, <2>1, EndsKeeps
  <2>3. Clean'
    <3>1. ASSUME task[l].whole, "sto" \in task[l].seen
          PROVE  Content(dbSto[c]) = sto[c] /\ Cardinality(dbSto[c]) = Cardinality(Content(dbSto[c]))
      <4>1. dbSto[c] = sto[c] \X {l}
        BY <1>6, <1>7, <3>1
      <4> QED BY <1>5, <4>1, ContentOf, OneOfThread
    <3> QED BY <1>3, <1>7, <3>1 DEF Clean, OneRowEach
  <2>4. clean' \in SUBSET (Char \X Part)
    BY <1>7 DEF TypeOK, Part
  <2> QED BY <1>3, <1>7, <2>1, <2>2, <2>3, <2>4, SameTypes DEF TypeOK, Apartwise, Ends
<1>8. ASSUME NEW k \in task[l].list,
             dbSto' = [dbSto EXCEPT ![c] = @ \cup {<<k, l>>}],
             task' = [Meddled(task, c) EXCEPT ![l].list = @ \ {k}],
             clean' = clean \ {<<c, "sto">>}
      PROVE  IInv' /\ Apartwise(l)
  <2>1. k \in Token /\ <<k, l>> \in Row
    BY <1>1 DEF Task, Row
  <2>2. /\ dbSto'[c] = dbSto[c] \cup {<<k, l>>} /\ dbSto' \in [Char -> SUBSET Row]
        /\ \A d \in Char \ {c} : dbSto'[d] = dbSto[d]
    BY <1>8, <2>1 DEF TypeOK
  <2>3. Meddled(task, c)[l] = task[l] /\ DOMAIN Meddled(task, c) = Thread
    BY <1>1 DEF Meddled
  <2>4. /\ DOMAIN task' = Thread /\ task' = [u \in Thread |-> task'[u]]
        /\ \A u \in Thread : u # l => task'[u] = Meddled(task, c)[u]
        /\ task'[l] = [task[l] EXCEPT !.list = task[l].list \ {k}]
    <3>1. task' = [Meddled(task, c) EXCEPT ![l].list = task[l].list \ {k}]
      BY <1>8, <2>3
    <3> QED BY <2>3, <3>1 DEF Meddled
  <2>5. LET i == task[l]  j == task'[l] IN
        /\ j.pc = "insert" /\ j.who = c /\ j.room = i.room /\ j.add = i.add /\ j.list = i.list \ {k}
        /\ j.del = i.del /\ j.item = i.item /\ j.after = i.after /\ j.whole = i.whole /\ j.seen = i.seen
        /\ j \in Task
    BY <1>1, <1>2, <2>4 DEF Task, Pc
  <2>6. RightSoFar(l)'
    <3> SUFFICES ASSUME task[l].whole, "sto" \in task[l].seen
                 PROVE  /\ task[l].list \ {k} \subseteq sto[c] \ Meso
                        /\ dbSto[c] \cup {<<k, l>>} = (sto[c] \ (task[l].list \ {k})) \X {l}
      BY <1>3, <2>2, <2>5 DEF RightSoFar
    <3>1. task[l].list \subseteq sto[c] \ Meso /\ dbSto[c] = (sto[c] \ task[l].list) \X {l}
      BY <1>6
    <3> QED BY <1>8, <3>1
  <2>7. Touches(l, c)
    BY <1>1, <1>2, <1>3, <1>4, <2>2, <2>4, <2>5, <2>6 DEF Touches
  <2>8. Busy' /\ Trading' /\ Reads' /\ Unmarked' /\ Settled'
    BY <2>7, TouchesKeeps
  <2>9. TypeOK'
    BY <1>3, <1>8, <2>2, <2>4, <2>5, <2>7, TouchesTypes DEF TypeOK
  <2>10. Clean'
    BY <1>3, <1>8, <2>2 DEF Clean, OneRowEach
  <2> QED BY <2>7, <2>8, <2>9, <2>10 DEF Apartwise
<1> QED BY <1>2, <1>7, <1>8 DEF ApartInsert

LEMMA ApartFailsKeeps ==
    ASSUME IInv, NEW l \in Thread, ApartFails(l)
    PROVE  IInv' /\ Apartwise(l)
<1>1. /\ Same /\ task[l].pc \in {"delete", "insert"} /\ task' = [task EXCEPT ![l] = Ending(l)]
      /\ clean' \in SUBSET clean
  BY DEF ApartFails, Same, mem, db
<1>2. faults' \in 0..MaxFaults
  BY SavingAssumption DEF IInv, TypeOK, ApartFails
<1>3. task' \in [Thread -> Task] /\ Busy' /\ Trading' /\ Reads' /\ Unmarked' /\ Settled'
  BY <1>1, EndsKeeps
<1>4. Clean'
  BY <1>1 DEF IInv, Same, Clean, OneRowEach
<1>5. clean' \in SUBSET (Char \X Part)
  BY <1>1 DEF IInv, TypeOK
<1> QED BY <1>1, <1>2, <1>3, <1>4, <1>5, SameTypes DEF IInv, Apartwise, Ends

\* What a commit puts into the database.
LEMMA CommitWrites ==
    ASSUME IInv, NEW t \in Thread, NEW c \in Char, Commit(t), c = task[t].who
    PROVE  LET k == task[t] IN
           /\ k.pc = "commit" /\ k \in Task
           /\ UNCHANGED <<online, inv, sto, hand, trade, ground, changed, faults, late>>
           /\ dbInv' = [dbInv EXCEPT ![c] = k.inv] /\ dbInv'[c] = k.inv
           /\ dbSto' \in [Char -> SUBSET Row]
           /\ \A d \in Char \ {c} : /\ dbInv'[d] = dbInv[d] /\ dbSto'[d] = dbSto[d]
                                    /\ damaged'[d] = damaged[d] /\ left'[d] = left[d]
           /\ ~k.room => dbSto'[c] = dbSto[c]
           /\ k.whole /\ k.room => dbSto'[c] = k.add
           /\ "sto" \in k.seen => k.room /\ dbSto'[c] = sto[c] \X {t}
           /\ "inv" \in k.seen => k.inv = inv[c]
           /\ damaged' \in [Char -> BOOLEAN] /\ damaged'[c] = ~k.whole
           /\ left' \in [Char -> BOOLEAN]
           /\ left'[c] => k.whole /\ (k.after = "quit" \/ left[c])
<1> USE DEF IInv
<1>1. /\ task[t].pc = "commit" /\ task[t] \in Task
      /\ UNCHANGED <<online, inv, sto, hand, trade, ground, changed, faults, late>>
      /\ dbInv' = [dbInv EXCEPT ![c] = task[t].inv]
      /\ dbSto' = [dbSto EXCEPT ![c] = (dbSto[c] \ task[t].del) \cup task[t].add]
      /\ damaged' = [damaged EXCEPT ![c] = ~task[t].whole]
      /\ left' = [left EXCEPT ![c] = (task[t].after = "quit" \/ left[c]) /\ task[t].whole]
  BY TaskIs DEF Commit, mem
<1>2. task[t].del \in SUBSET Row /\ task[t].add \in SUBSET Row /\ task[t].whole \in BOOLEAN
  BY <1>1 DEF Task
<1>3. /\ ~task[t].room => task[t].add = {} /\ task[t].del = {}
      /\ task[t].whole /\ task[t].room => task[t].del = dbSto[c]
      /\ "sto" \in task[t].seen => task[t].room /\ task[t].del = dbSto[c] /\ task[t].add = sto[c] \X {t}
      /\ "inv" \in task[t].seen => task[t].inv = inv[c]
  BY <1>1 DEF Busy, BusyOf, Reads, Copied
<1>4. /\ dbSto'[c] = (dbSto[c] \ task[t].del) \cup task[t].add /\ dbSto' \in [Char -> SUBSET Row]
      /\ \A d \in Char \ {c} : dbSto'[d] = dbSto[d]
  BY <1>1, <1>2 DEF TypeOK
<1>5. dbInv'[c] = task[t].inv /\ \A d \in Char \ {c} : dbInv'[d] = dbInv[d]
  BY <1>1 DEF TypeOK
<1>6. /\ damaged' \in [Char -> BOOLEAN] /\ damaged'[c] = ~task[t].whole
      /\ \A d \in Char \ {c} : damaged'[d] = damaged[d]
  BY <1>1, <1>2 DEF TypeOK
<1>7. /\ left' \in [Char -> BOOLEAN] /\ \A d \in Char \ {c} : left'[d] = left[d]
      /\ left'[c] => task[t].whole /\ (task[t].after = "quit" \/ left[c])
  <2>1. PICK b \in BOOLEAN : b = ((task[t].after = "quit" \/ left[c]) /\ task[t].whole)
    OBVIOUS
  <2>2. left' = [left EXCEPT ![c] = b]
    BY <1>1, <2>1
  <2> QED BY <2>1, <2>2 DEF TypeOK
<1>8. /\ ~task[t].room => dbSto'[c] = dbSto[c]
      /\ task[t].whole /\ task[t].room => dbSto'[c] = task[t].add
      /\ "sto" \in task[t].seen => task[t].room /\ dbSto'[c] = sto[c] \X {t}
  BY <1>3, <1>4
<1> QED BY <1>1, <1>3, <1>4, <1>5, <1>6, <1>7, <1>8

LEMMA CommitKeeps ==
    ASSUME IInv, NEW t \in Thread, Commit(t)
    PROVE  IInv'
<1> USE DEF IInv
<1>1. task[t].who \in Char /\ task[t].pc = "commit"
  BY DEF Commit, Busy, BusyOf
<1>2. PICK c \in Char : c = task[t].who
  BY <1>1
<1>3. LET k == task[t] IN
      /\ k.pc = "commit" /\ k \in Task
      /\ UNCHANGED <<online, inv, sto, hand, trade, ground, changed, faults, late>>
      /\ dbInv' = [dbInv EXCEPT ![c] = k.inv] /\ dbInv'[c] = k.inv
      /\ dbSto' \in [Char -> SUBSET Row]
      /\ \A d \in Char \ {c} : /\ dbInv'[d] = dbInv[d] /\ dbSto'[d] = dbSto[d]
                               /\ damaged'[d] = damaged[d] /\ left'[d] = left[d]
      /\ ~k.room => dbSto'[c] = dbSto[c]
      /\ k.whole /\ k.room => dbSto'[c] = k.add
      /\ "sto" \in k.seen => k.room /\ dbSto'[c] = sto[c] \X {t}
      /\ "inv" \in k.seen => k.inv = inv[c]
      /\ damaged' \in [Char -> BOOLEAN] /\ damaged'[c] = ~k.whole
      /\ left' \in [Char -> BOOLEAN]
      /\ left'[c] => k.whole /\ (k.after = "quit" \/ left[c])
  BY <1>2, CommitWrites
<1>4. /\ task' = [task EXCEPT ![t] = Ending(t)] /\ Ending(t) \in Task
      /\ Ending(t).pc \in {"idle", "after"}
      /\ task[t].after = "quit" => Ending(t).pc = "after" /\ Ending(t).who = c /\ Ending(t).after = "quit"
  <2>1. "quit" # "end" /\ "after" # "idle" OBVIOUS
  <2>2. /\ Ending(t) \in Task /\ Ending(t).pc \in {"idle", "after"}
        /\ Ending(t).pc = "after" => Ending(t).who = task[t].who /\ Ending(t).after = task[t].after
    BY <1>1, EndingIs
  <2>3. task[t].after = "quit" => Ending(t).pc = "after"
    BY DEF Ending, Begin, Idle
  <2>4. task' = [task EXCEPT ![t] = Ending(t)]
    BY DEF Commit
  <2> QED BY <1>2, <2>2, <2>3, <2>4
<1>5. task' \in [Thread -> Task] /\ task'[t] = Ending(t) /\ \A u \in Thread : u # t => task'[u] = task[u]
  BY <1>4 DEF TypeOK
<1>6. clean' = (clean \ ({<<c, "inv">>} \cup (IF task[t].room THEN {<<c, "sto">>} ELSE {})))
                 \cup {<<c, p>> : p \in task[t].seen}
  BY <1>2 DEF Commit
<1>7. ASSUME NEW u \in Thread, u # t, InTrans(u) PROVE task[u].who # c
  BY <1>1, <1>2, <1>7 DEF Busy, Exclusive, InTrans
<1>8. TypeOK'
  <2>1. clean' \in SUBSET (Char \X Part)
    <3>1. task[t].seen \in SUBSET Part
      BY <1>3 DEF Task
    <3>2. {<<c, p>> : p \in task[t].seen} \in SUBSET (Char \X Part)
      BY <3>1
    <3> QED BY <1>6, <3>2 DEF TypeOK
  <2>2. dbInv' \in [Char -> SUBSET Token]
    <3>1. task[t].inv \in SUBSET Token
      BY <1>3 DEF Task
    <3> QED BY <1>3, <3>1 DEF TypeOK
  <2> QED BY <1>3, <1>5, <2>1, <2>2 DEF TypeOK
<1>9. Busy'
  <2>1. ASSUME NEW u \in Thread PROVE BusyOf(u)'
    <3>1. CASE u = t
      BY <1>1, <1>3, <1>5, <3>1, EndingBusy
    <3>2. CASE u # t
      <4>1. BusyOf(u)
        BY DEF Busy
      <4> QED BY <1>3, <1>5, <3>2, <4>1 DEF BusyOf, InTrans
    <3> QED BY <3>1, <3>2
  <2>2. Exclusive'
    BY <1>4, <1>5 DEF Busy, Exclusive, InTrans
  <2> QED BY <2>1, <2>2 DEF Busy
<1>10. Trading'
  BY <1>3 DEF Trading
<1>11. Unmarked'
  <2> SUFFICES ASSUME NEW d \in Char, ~changed[d] PROVE Content(dbSto'[d]) = sto[d]
    BY <1>3 DEF Unmarked
  <2>1. CASE d = c
    <3>1. ~task[t].room
      BY <1>2, <2>1 DEF Busy, BusyOf
    <3> QED BY <1>3, <2>1, <3>1 DEF Unmarked
  <2>2. CASE d # c
    BY <1>3, <2>2 DEF Unmarked
  <2> QED BY <2>1, <2>2
<1>12. Clean'
  <2> SUFFICES ASSUME NEW d \in Char
               PROVE  /\ <<d, "inv">> \in clean' => dbInv'[d] = inv'[d]
                      /\ <<d, "sto">> \in clean' => Content(dbSto'[d]) = sto'[d] /\ OneRowEach(d)'
    BY DEF Clean
  <2>1. CASE d # c
    <3>1. /\ <<d, "inv">> \in clean' => <<d, "inv">> \in clean
          /\ <<d, "sto">> \in clean' => <<d, "sto">> \in clean
      BY <1>6, <2>1
    <3> QED BY <1>3, <2>1, <3>1 DEF Clean, OneRowEach
  <2>2. CASE d = c
    <3>1. <<c, "inv">> \in clean' => "inv" \in task[t].seen
      BY <1>6
    <3>2. <<c, "sto">> \in clean' => "sto" \in task[t].seen \/ (<<c, "sto">> \in clean /\ ~task[t].room)
      BY <1>6
    <3>3. "sto" \in task[t].seen => Content(dbSto'[c]) = sto[c] /\ OneRowEach(c)'
      <4>1. sto[c] \in SUBSET Token
        BY DEF TypeOK
      <4>2. PICK S \in SUBSET Token : S = sto[c]
        BY <4>1
      <4>3. Content(S \X {t}) = S /\ Cardinality(S \X {t}) = Cardinality(Content(S \X {t}))
        BY ContentOf, OneOfThread
      <4> QED BY <1>3, <4>2, <4>3 DEF OneRowEach
    <3>4. <<c, "sto">> \in clean /\ ~task[t].room => Content(dbSto'[c]) = sto[c] /\ OneRowEach(c)'
      BY <1>3 DEF Clean, OneRowEach
    <3> QED BY <1>3, <2>2, <3>1, <3>2, <3>3, <3>4
  <2> QED BY <2>1, <2>2
<1>13. ASSUME NEW u \in Thread PROVE Copied(u)'
  <2>1. CASE u = t
    BY <1>4, <1>5, <2>1 DEF Copied
  <2>2. CASE u # t
    <3>1. task'[u] = task[u] /\ Copied(u)
      BY <1>5, <2>2 DEF Reads
    <3>2. task[u].pc = "commit" => dbSto'[task[u].who] = dbSto[task[u].who]
      BY <1>3, <1>7, <2>2 DEF InTrans, Busy, BusyOf
    <3> QED BY <1>3, <3>1, <3>2 DEF Copied
  <2> QED BY <2>1, <2>2
<1>14. ASSUME NEW u \in Thread PROVE Apartly(u)'
  <2>1. CASE u = t \/ task[u].pc \notin {"delete", "insert"}
    BY <1>4, <1>5, <2>1 DEF Apartly
  <2>2. CASE u # t /\ task[u].pc \in {"delete", "insert"}
    <3>1. task'[u] = task[u] /\ Apartly(u) /\ task[u].who \in Char
      BY <1>5, <2>2 DEF Reads, Busy, BusyOf
    <3>2. damaged'[task[u].who]
      <4>1. task[u].who = c => ~task[t].whole
        BY <1>1, <1>2, <2>2, <3>1 DEF Apartly
      <4> QED BY <1>3, <2>2, <3>1, <4>1 DEF Apartly
    <3>3. task[u].whole => dbSto'[task[u].who] = dbSto[task[u].who]
      <4>1. task[u].who = c => (task[u].whole => ~task[t].room)
        BY <1>1, <1>2, <2>2, <3>1 DEF Apartly
      <4> QED BY <1>3, <3>1, <4>1
    <3>4. \A v \in Thread : task'[v].who = task[u].who =>
             (task'[v].pc = "commit" => ~task'[v].whole) /\ (task[u].whole => ~task'[v].room)
      <4>1. ~Ending(t).room
        BY <1>1, EndingIs
      <4> QED BY <1>4, <1>5, <2>2, <3>1, <4>1 DEF Apartly
    <3> QED BY <1>3, <2>2, <3>1, <3>2, <3>3, <3>4 DEF Apartly
  <2> QED BY <2>1, <2>2
<1>15. ASSUME NEW d \in Char PROVE Departed(d)'
  <2>1. \A u \in Thread : Removes(u, d) => Removes(u, d)'
    BY <1>1, <1>5 DEF Removes
  <2>2. CASE d # c
    BY <1>3, <2>1, <2>2 DEF Settled, Departed, Back
  <2>3. CASE d = c
    <3> SUFFICES ASSUME left'[c]
                 PROVE  /\ c \notin online \/ \E u \in Thread : Removes(u, c)'
                        /\ c \notin late => dbInv'[c] = inv[c] /\ Content(dbSto'[c]) = sto[c]
      BY <1>3, <2>3 DEF Departed, Back
    <3>1. task[t].whole /\ (task[t].after = "quit" \/ left[c])
      BY <1>3
    <3>2. c \notin late => /\ task[t].inv = inv[c]
                           /\ task[t].room => Content(task[t].add) = sto[c]
                           /\ ~task[t].room => Content(dbSto[c]) = sto[c]
      BY <1>1, <1>2, <3>1 DEF Settled, Settling
    <3>3. c \notin late => dbInv'[c] = inv[c] /\ Content(dbSto'[c]) = sto[c]
      <4>1. dbInv'[c] = task[t].inv
        BY <1>3, <3>1
      <4>2. /\ task[t].room => dbSto'[c] = task[t].add
            /\ ~task[t].room => dbSto'[c] = dbSto[c]
        BY <1>3, <3>1
      <4>3. c \notin late => Content(dbSto'[c]) = sto[c]
        BY ONLY <3>2, <4>2
      <4> QED BY ONLY <3>2, <4>1, <4>3
    <3>4. CASE task[t].after = "quit"
      BY <1>4, <1>5, <3>3, <3>4 DEF Removes
    <3>5. CASE left[c]
      BY <2>1, <2>3, <3>3, <3>5 DEF Settled, Departed
    <3> QED BY <3>1, <3>4, <3>5
  <2> QED BY <2>2, <2>3
<1>16. ASSUME NEW u \in Thread PROVE Settling(u)'
  <2>1. CASE u = t
    BY <1>4, <1>5, <2>1 DEF Settling
  <2>2. CASE u # t
    <3>1. task'[u] = task[u] /\ Settling(u)
      BY <1>5, <2>2 DEF Settled
    <3>2. InTrans(u) => task[u].who \in Char \ {c}
      BY <1>7, <2>2 DEF Busy, BusyOf, InTrans
    <3>3. InTrans(u) => left'[task[u].who] = left[task[u].who] /\ dbSto'[task[u].who] = dbSto[task[u].who]
      BY <1>3, <3>2
    <3> QED BY <1>3, <3>1, <3>3 DEF Settling, InTrans
  <2> QED BY <2>1, <2>2
<1> QED BY <1>8, <1>9, <1>10, <1>11, <1>12, <1>13, <1>14, <1>15, <1>16 DEF Reads, Settled

-----------------------------------------------------------------------------
(* Coming, going and stopping.                                              *)

LEMMA GoneKeeps ==
    ASSUME IInv, NEW l \in Thread, Gone(l)
    PROVE  IInv'
<1> USE DEF IInv
<1>1. /\ task[l].pc = "after" /\ task[l].after = "quit" /\ online' = online \ {task[l].who}
      /\ task' = [task EXCEPT ![l] = Idle]
      /\ inv' = inv /\ sto' = sto /\ hand' = hand /\ trade' = trade /\ ground' = ground
      /\ changed' = changed /\ dbInv' = dbInv /\ dbSto' = dbSto /\ faults' = faults
      /\ clean' = clean /\ damaged' = damaged /\ left' = left /\ late' = late
  BY DEF Gone, db, hist
<1>2. PICK c \in Char : c = task[l].who
  BY <1>1 DEF Busy, BusyOf
<1>3. task' \in [Thread -> Task] /\ task'[l] = Idle /\ \A u \in Thread : u # l => task'[u] = task[u]
  BY <1>1, IdleTask DEF TypeOK
<1>4. \A u \in Thread : u # l => task'[u] = task[u]
  BY <1>3
<1>5. TypeOK'
  BY <1>1, <1>3 DEF TypeOK
<1>6. Busy'
  <2>1. ASSUME NEW u \in Thread PROVE BusyOf(u)'
    <3>1. CASE u = l
      BY <1>3, <3>1 DEF BusyOf, Idle
    <3>2. CASE u # l
      BY <1>1, <1>4, <3>2 DEF Busy, BusyOf, InTrans
    <3> QED BY <3>1, <3>2
  <2>2. Exclusive'
    BY <1>3 DEF Busy, Exclusive, InTrans, Idle
  <2> QED BY <2>1, <2>2 DEF Busy
<1>7. Trading'
  BY <1>1 DEF Trading
<1>8. Reads'
  <2>1. ASSUME NEW u \in Thread PROVE Copied(u)' /\ Apartly(u)'
    <3>1. CASE u = l
      BY <1>3, <3>1 DEF Copied, Apartly, Idle
    <3>2. CASE u # l
      <4>1. task'[u] = task[u] /\ Copied(u) /\ Apartly(u)
        BY <1>4, <3>2 DEF Reads
      <4>2. Copied(u)'
        BY <1>1, <4>1 DEF Copied
      <4>3. task[u].pc \in {"delete", "insert"} =>
              \A v \in Thread : task'[v].who = task[u].who =>
                (task'[v].pc = "commit" => ~task'[v].whole) /\ (task[u].whole => ~task'[v].room)
        BY <1>3, <4>1 DEF Apartly, Idle
      <4>4. Apartly(u)'
        BY <1>1, <4>1, <4>3 DEF Apartly
      <4> QED BY <4>2, <4>4
    <3> QED BY <3>1, <3>2
  <2> QED BY <2>1 DEF Reads
<1>9. Unmarked' /\ Clean'
  BY <1>1 DEF Unmarked, Clean, OneRowEach
<1>10. ASSUME NEW d \in Char PROVE Departed(d)'
  <2>1. d # c => \A u \in Thread : Removes(u, d) => Removes(u, d)'
    BY <1>2, <1>3 DEF Removes
  <2>2. d = c => d \notin online'
    BY <1>1, <1>2
  <2>3. d \in online' => d \in online
    BY <1>1
  <2> QED BY <1>1, <2>1, <2>2, <2>3 DEF Settled, Departed, Back
<1>11. ASSUME NEW u \in Thread PROVE Settling(u)'
  BY <1>1, <1>3 DEF Settled, Settling, Idle
<1> QED BY <1>5, <1>6, <1>7, <1>8, <1>9, <1>10, <1>11 DEF Settled

LEMMA LoginKeeps ==
    ASSUME IInv, NEW c \in Char, Login(c)
    PROVE  IInv'
<1> USE DEF IInv
<1>1. /\ c \notin online /\ online' = online \cup {c} /\ \A t \in Thread : task[t].who # c
      /\ inv' = [inv EXCEPT ![c] = dbInv[c]] /\ sto' = [sto EXCEPT ![c] = Content(dbSto[c])]
      /\ changed' = [changed EXCEPT ![c] = FALSE] /\ left' = [left EXCEPT ![c] = FALSE]
      /\ clean' = clean \cup {<<c, "inv">>} \cup (IF OneRowEach(c) THEN {<<c, "sto">>} ELSE {})
      /\ hand' = hand /\ trade' = trade /\ ground' = ground /\ task' = task /\ faults' = faults
      /\ dbInv' = dbInv /\ dbSto' = dbSto /\ damaged' = damaged /\ late' = late \ {c}
  BY DEF Login, db
<1>2. Content(dbSto[c]) \in SUBSET Token
  BY DEF TypeOK, Content, Row
<1>3. /\ inv' \in [Char -> SUBSET Token] /\ sto' \in [Char -> SUBSET Token]
      /\ changed' \in [Char -> BOOLEAN] /\ left' \in [Char -> BOOLEAN]
      /\ inv'[c] = dbInv[c] /\ sto'[c] = Content(dbSto[c]) /\ ~changed'[c] /\ ~left'[c]
      /\ \A d \in Char \ {c} : /\ inv'[d] = inv[d] /\ sto'[d] = sto[d]
                               /\ changed'[d] = changed[d] /\ left'[d] = left[d]
  BY <1>1, <1>2 DEF TypeOK
<1>4. clean' \in SUBSET (Char \X Part)
  BY <1>1 DEF TypeOK, Part
<1>5. TypeOK'
  BY <1>1, <1>3, <1>4 DEF TypeOK
<1>6. ASSUME NEW t \in Thread
      PROVE  BusyOf(t)' /\ Copied(t)' /\ Apartly(t)' /\ Settling(t)'
  <2>1. task[t].pc # "idle" => task[t].who \in Char \ {c}
    BY <1>1 DEF Busy, BusyOf
  <2>2. task[t].pc = "idle" => task[t] = Idle
    BY DEF Busy, BusyOf
  <2>3. BusyOf(t)'
    BY <1>1, <1>3, <2>1, <2>2 DEF Busy, BusyOf, InTrans, Idle
  <2>4. Copied(t)' /\ Settling(t)'
    BY <1>1, <1>3, <2>1 DEF Reads, Copied, Settled, Settling
  <2>5. Apartly(t)'
    BY <1>1, <1>3, <2>1 DEF Reads, Apartly
  <2> QED BY <2>3, <2>4, <2>5
<1>7. Exclusive'
  BY <1>1 DEF Busy, Exclusive, InTrans
<1>8. Trading'
  BY <1>1 DEF Trading
<1>9. Unmarked'
  BY <1>1, <1>3 DEF Unmarked
<1>10. ASSUME NEW d \in Char
       PROVE  /\ <<d, "inv">> \in clean' => dbInv'[d] = inv'[d]
              /\ <<d, "sto">> \in clean' => Content(dbSto'[d]) = sto'[d] /\ OneRowEach(d)'
  BY <1>1, <1>3 DEF Clean, OneRowEach
<1>11. ASSUME NEW d \in Char PROVE Departed(d)'
  <2>1. CASE d = c
    BY <1>3, <2>1 DEF Departed
  <2>2. CASE d # c
    <3>1. \A u \in Thread : Removes(u, d) => Removes(u, d)'
      BY <1>1 DEF Removes
    <3>2. d \in online' => d \in online
      BY <1>1, <2>2
    <3> QED BY <1>1, <1>3, <2>2, <3>1, <3>2 DEF Settled, Departed, Back
  <2> QED BY <2>1, <2>2
<1> QED BY <1>5, <1>6, <1>7, <1>8, <1>9, <1>10, <1>11 DEF Busy, Reads, Clean, Settled

LEMMA StopKeeps == ASSUME IInv, Stop PROVE IInv'
<1> USE DEF IInv
<1>1. /\ online' = {} /\ ground' = {} /\ hand' = [c \in Char |-> {}] /\ trade' = [c \in Char |-> None]
      /\ task' = [t \in Thread |-> Idle]
      /\ inv' = inv /\ sto' = sto /\ changed' = changed /\ dbInv' = dbInv /\ dbSto' = dbSto
      /\ faults' = faults /\ clean' = clean /\ damaged' = damaged /\ left' = left
      /\ late' = late
  BY DEF Stop, db, hist
<1>2. TypeOK'
  BY <1>1, IdleTask DEF TypeOK
<1>3. \A t \in Thread : task'[t] = Idle
  BY <1>1
<1>4. Idle.pc = "idle" /\ Idle.after = "end" /\ ~Idle.room /\ Idle.add = {} /\ Idle.del = {}
  BY DEF Idle
<1>5. Busy' /\ Reads' /\ \A t \in Thread : Settling(t)'
  BY <1>3, <1>4 DEF Busy, Exclusive, BusyOf, InTrans, Reads, Copied, Apartly, Settling
<1>6. Trading' /\ Unmarked' /\ Clean'
  BY <1>1 DEF Trading, Unmarked, Clean, OneRowEach
<1>7. ASSUME NEW c \in Char PROVE Departed(c)'
  BY <1>1 DEF Settled, Departed, Back
<1> QED BY <1>2, <1>5, <1>6, <1>7 DEF Settled

LEMMA InitIInv == Init => IInv
<1> SUFFICES ASSUME Init PROVE IInv OBVIOUS
<1>1. PICK here \in SUBSET Token : \E owner \in [here -> Char \cup {None}] :
        /\ inv = [c \in Char |-> {k \in here : owner[k] = c}]
        /\ ground = {k \in here : owner[k] = None}
  BY DEF Init
<1>2. inv \in [Char -> SUBSET Token] /\ ground \in SUBSET Token
  BY <1>1
<1>3. /\ online \in SUBSET Char
      /\ sto = [c \in Char |-> {}] /\ hand = [c \in Char |-> {}] /\ trade = [c \in Char |-> None]
      /\ changed = [c \in Char |-> FALSE] /\ dbInv = inv /\ dbSto = [c \in Char |-> {}]
      /\ task = [t \in Thread |-> Idle] /\ faults = 0 /\ clean = Char \X Part
      /\ damaged = [c \in Char |-> FALSE] /\ left = [c \in Char |-> FALSE] /\ late = {}
  BY DEF Init
<1>4. TypeOK
  BY <1>2, <1>3, IdleTask, SavingAssumption DEF TypeOK
<1>5. Idle.pc = "idle" /\ Idle.after = "end" /\ ~Idle.room /\ Idle.add = {} /\ Idle.del = {}
  BY DEF Idle
<1>6. \A t \in Thread : task[t] = Idle
  BY <1>3
<1>7. Busy /\ Reads /\ \A t \in Thread : Settling(t)
  BY <1>5, <1>6 DEF Busy, Exclusive, BusyOf, InTrans, Reads, Copied, Apartly, Settling
<1>8. Content({}) = {} /\ Cardinality({}) = Cardinality(Content({}))
  BY DEF Content
<1>9. Trading /\ Unmarked /\ Clean /\ \A c \in Char : Departed(c)
  BY <1>3, <1>8 DEF Trading, Unmarked, Clean, OneRowEach, Departed
<1> QED BY <1>4, <1>7, <1>9 DEF IInv, Settled

-----------------------------------------------------------------------------
(* Every step, and the theorems.                                            *)

\* The steps that are play.
Play ==
    \/ \E c \in Char : \/ Save(c) \/ CancelTrade(c) \/ CompleteTrade(c)
                       \/ \E t \in {LoopOf[c]} \cup Other : Quit(c, t)
                       \/ \E d \in Char : StartTrade(c, d)
                       \/ \E k \in Token : \/ Drop(c, k) \/ PickUp(c, k) \/ Offer(c, k)
                                           \/ Store(c, k) \/ TakeOut(c, k)
                                           \/ Deposit(c, k) \/ Withdraw(c, k)
    \/ \E t \in Other, c \in Char : SaveAll(t, c)
    \/ \E l \in Loop : \/ PutIn(l) \/ TooSoon(l) \/ DoesNotFit(l) \/ Fits(l) \/ Purse(l)
                       \/ PartnerCompletes(l) \/ PartnerIsGone(l) \/ TakerIsGone(l)

LEMMA PlayPlays == ASSUME IInv, Play PROVE TypeOK' /\ Trading' /\ Playing
<1>1. ASSUME NEW c \in Char, Save(c) PROVE TypeOK' /\ Trading' /\ Playing
  <2>1. PICK l \in Thread : l = LoopOf[c]
    BY Facts
  <2> QED BY <1>1, <2>1, SavePlays
<1>2. ASSUME NEW t \in Other, NEW c \in Char, SaveAll(t, c) PROVE TypeOK' /\ Trading' /\ Playing
  BY <1>2, Facts, SavePlays
<1>3. ASSUME NEW c \in Char, NEW k \in Token, Deposit(c, k) \/ Withdraw(c, k)
      PROVE  TypeOK' /\ Trading' /\ Playing
  <2>1. MoveMesos(c, k, "lose") \/ MoveMesos(c, k, "gain")
    BY <1>3 DEF Deposit, Withdraw
  <2>2. "lose" \in {"gain", "lose"} /\ "gain" \in {"gain", "lose"} OBVIOUS
  <2> QED BY <2>1, <2>2, MoveMesosPlays
<1>4. ASSUME NEW c \in Char, NEW k \in Token,
             \/ Drop(c, k) \/ PickUp(c, k) \/ Offer(c, k) \/ Store(c, k) \/ TakeOut(c, k)
      PROVE  TypeOK' /\ Trading' /\ Playing
  BY <1>4, DropPlays, PickUpPlays, OfferPlays, StorePlays, TakeOutPlays
<1>5. ASSUME NEW c \in Char, CancelTrade(c) \/ CompleteTrade(c) PROVE TypeOK' /\ Trading' /\ Playing
  BY <1>5, CancelTradePlays, CompleteTradePlays
<1>8. ASSUME NEW c \in Char, NEW t \in {LoopOf[c]} \cup Other, Quit(c, t)
      PROVE  TypeOK' /\ Trading' /\ Playing
  <2>1. t \in Thread
    BY Facts
  <2> QED BY <1>8, <2>1, QuitPlays
<1>6. ASSUME NEW c \in Char, NEW d \in Char, StartTrade(c, d) PROVE TypeOK' /\ Trading' /\ Playing
  BY <1>6, StartTradePlays
<1>7. ASSUME NEW l \in Loop,
             \/ PutIn(l) \/ TooSoon(l) \/ DoesNotFit(l) \/ Fits(l) \/ Purse(l) \/ PartnerCompletes(l)
             \/ PartnerIsGone(l) \/ TakerIsGone(l)
      PROVE  TypeOK' /\ Trading' /\ Playing
  BY <1>7, PutInPlays, PutBackPlays, FitsPlays, PursePlays, PartnerCompletesPlays,
     PartnerIsGonePlays, TakerIsGonePlays
<1> QED BY <1>1, <1>2, <1>3, <1>4, <1>5, <1>6, <1>7, <1>8 DEF Play

LEMMA NextCases ==
    ASSUME Next
    PROVE  \/ Play \/ Stop
           \/ \E c \in Char : Login(c)
           \/ \E t \in Thread : SaveStep(t)
           \/ \E l \in Loop : \/ ApartUpdate(l) \/ ApartDelete(l) \/ ApartInsert(l) \/ ApartFails(l)
BY DEF Next, LoopStep, Play

LEMMA NextIInv == IInv /\ [Next]_vars => IInv'
<1> SUFFICES ASSUME IInv, [Next]_vars PROVE IInv' OBVIOUS
<1>1. CASE Play
  BY <1>1, PlayPlays, PlayingInv
<1>2. ASSUME NEW c \in Char, Login(c) PROVE IInv'
  BY <1>2, LoginKeeps
<1>3. ASSUME NEW t \in Thread, SaveStep(t) PROVE IInv'
  BY <1>3, ReadRowKeeps, UpdateRowKeeps, SaveInventoryKeeps, SaveRestKeeps, SaveStorageKeeps,
     CommitKeeps, NoConnectionKeeps, GoneKeeps DEF SaveStep
<1>4. ASSUME NEW l \in Loop, ApartUpdate(l) \/ ApartDelete(l) \/ ApartInsert(l) \/ ApartFails(l)
      PROVE  IInv'
  <2>1. l \in Thread
    BY Facts
  <2> QED
    BY <1>4, <2>1, ApartUpdateKeeps, ApartDeleteKeeps, ApartInsertKeeps, ApartFailsKeeps
<1>5. CASE Stop
  BY <1>5, StopKeeps
<1>6. CASE UNCHANGED vars
  <2>1. Same /\ task' = task /\ clean' = clean /\ faults' = faults
    BY <1>6 DEF vars, mem, db, hist, Same
  <2>2. TypeOK' /\ Clean'
    BY <2>1, SameTypes, SameClean DEF IInv, TypeOK
  <2>3. Busy' /\ Trading'
    BY <2>1 DEF IInv, Same, Busy, Exclusive, InTrans, BusyOf, Trading
  <2>4. Reads' /\ Unmarked' /\ Settled'
    BY <2>1 DEF IInv, Same, Reads, Copied, Apartly, Unmarked, Settled, Departed, Back, Removes, Settling
  <2> QED BY <2>2, <2>3, <2>4 DEF IInv
<1> QED BY <1>1, <1>2, <1>3, <1>4, <1>5, <1>6, NextCases

LEMMA Invariant == Spec => []IInv
BY InitIInv, NextIInv, PTL DEF Spec

\* The types, for any characters, tokens, loops, consoles and faults.
THEOREM TypeCorrect == Spec => []TypeOK
<1>1. IInv => TypeOK
  BY DEF IInv
<1> QED BY <1>1, Invariant, PTL

\* What a save wrote right, and nobody has changed since, is in the database,
\* one row for each item, whatever saves come between its statements and
\* whichever of them fail (saveToDB, MapleStorage.saveToDB).
THEOREM CleanHolds == Spec => []Clean
<1>1. IInv => Clean
  BY DEF IInv
<1> QED BY <1>1, Invariant, PTL

\* A character that left after a save without fault finds all he had, whatever
\* others saved meanwhile, unless his loop went on with him while another took him
\* out (MapleClient.disconnect).
THEOREM KeptOnQuitHolds == Spec => []KeptOnQuit
<1>1. IInv => KeptOnQuit
  BY DEF IInv, Settled, Departed, Back, KeptOnQuit
<1> QED BY <1>1, Invariant, PTL

-----------------------------------------------------------------------------
(* Saving implements Durable.                                               *)

\* What thread t has copied of its character.
CopyBy(t) ==
    <<task[t].inv,
      IF task[t].pc # "commit" THEN sto[task[t].who]
      ELSE IF task[t].room THEN Content(task[t].add) ELSE Content(dbSto[task[t].who])>>

\* One thread at most copies a character, and the copy is what it has read.
LEMMA OneCopy ==
    ASSUME IInv, NEW c \in Char
    PROVE  /\ Copying(c) = {} => CopyOf(c) = None
           /\ \A t \in Copying(c) : CopyOf(c) = CopyBy(t)
<1>1. ASSUME NEW t \in Copying(c) PROVE CopyOf(c) = CopyBy(t)
  <2>1. \A u \in Copying(c) : u = t
    BY <1>1 DEF IInv, Busy, Exclusive, InTrans, Copying, HalfRead
  <2>2. (CHOOSE u \in Copying(c) : TRUE) = t
    BY <1>1, <2>1
  <2>3. task[t].who = c
    BY <1>1 DEF Copying
  <2> QED BY <1>1, <2>2, <2>3 DEF CopyOf, CopyBy
<1> QED BY <1>1 DEF CopyOf

LEMMA OneCopyNext ==
    ASSUME IInv', NEW c \in Char
    PROVE  /\ Copying(c)' = {} => CopyOf(c)' = None
           /\ \A t \in Copying(c)' : CopyOf(c)' = CopyBy(t)'
<1>1. ASSUME NEW t \in Copying(c)' PROVE CopyOf(c)' = CopyBy(t)'
  <2>1. \A u \in Copying(c)' : u = t
    BY <1>1 DEF IInv, Busy, Exclusive, InTrans, Copying, HalfRead
  <2>2. (CHOOSE u \in Copying(c)' : TRUE) = t
    BY <1>1, <2>1
  <2>3. task'[t].who = c
    BY <1>1 DEF Copying
  <2> QED BY <1>1, <2>2, <2>3 DEF CopyOf, CopyBy
<1> QED BY <1>1 DEF CopyOf

\* The copies of d that remain are the ones there were.
Kept(d) == \A t \in Copying(d)' : t \in Copying(d) /\ CopyBy(t)' = CopyBy(t)

LEMMA KeptCopy ==
    ASSUME IInv, IInv', NEW d \in Char, Kept(d)
    PROVE  CopyOf(d)' \in {CopyOf(d), None}
<1>1. CASE Copying(d)' = {}
  BY <1>1, OneCopyNext
<1>2. ASSUME NEW t \in Copying(d)' PROVE CopyOf(d)' = CopyOf(d)
  BY <1>2, OneCopy, OneCopyNext DEF Kept
<1> QED BY <1>1, <1>2

\* Nothing happens to the copy of a character that no thread's step concerns.
LEMMA SameCopy ==
    ASSUME IInv, IInv', NEW d \in Char, sto'[d] = sto[d], dbSto'[d] = dbSto[d],
           \A t \in Thread : task[t].who = d \/ task'[t].who = d => task'[t] = task[t]
    PROVE  CopyOf(d)' = CopyOf(d) /\ Kept(d)
<1>1. Copying(d)' = Copying(d)
  BY DEF Copying
<1>2. ASSUME NEW t \in Copying(d) PROVE CopyBy(t)' = CopyBy(t)
  <2>1. task'[t] = task[t] /\ task[t].who = d
    BY <1>2 DEF Copying
  <2> QED BY <2>1 DEF CopyBy
<1>3. CASE Copying(d) = {}
  BY <1>1, <1>3, OneCopy, OneCopyNext DEF Kept
<1>4. ASSUME NEW t \in Copying(d) PROVE CopyOf(d)' = CopyOf(d)
  BY <1>1, <1>2, <1>4, OneCopy, OneCopyNext
<1> QED BY <1>1, <1>2, <1>3, <1>4 DEF Kept

LEMMA Works ==
    ASSUME IInv, IInv', dbInv' = dbInv, dbSto' = dbSto, damaged' = damaged, \A d \in Char : Kept(d)
    PROVE  Saved!Work
BY KeptCopy DEF Saved!Work

LEMMA PlayingWorks == ASSUME IInv, IInv', Playing PROVE Saved!Work
<1>1. ASSUME NEW d \in Char, NEW t \in Copying(d)' PROVE t \in Copying(d) /\ CopyBy(t)' = CopyBy(t)
  <2>1. /\ t \in Thread /\ task'[t].who = d /\ task'[t].whole
        /\ task'[t].pc \in {"rest", "sto", "commit"}
    BY <1>1 DEF Copying, HalfRead
  <2>2. Eased(t)
    BY <2>1 DEF Playing, Starts, Idle
  <2>3. dbSto' = dbSto
    BY DEF Playing
  <2>4. t \in Copying(d) /\ task[t].pc = task'[t].pc /\ task[t].who = d
    BY <2>1, <2>2 DEF Eased, Copying, HalfRead
  <2>5. task[t].pc # "commit" => sto'[d] = sto[d]
    BY <2>1, <2>2, <2>4 DEF Eased
  <2> QED BY <2>1, <2>2, <2>3, <2>4, <2>5 DEF Eased, CopyBy
<1> QED BY <1>1, Works DEF Playing, Kept

\* A thread that saves goes on with its copy, or without.
LEMMA SavingWorks ==
    ASSUME IInv, IInv', Same, NEW t \in Thread,
           \A u \in Thread : u # t => task'[u] = task[u] \/ ~task'[u].whole,
           task'[t].whole /\ task'[t].pc \in {"rest", "sto", "commit"} =>
               /\ task[t].whole /\ task[t].pc \in {"rest", "sto", "commit"}
               /\ task'[t].who = task[t].who /\ CopyBy(t)' = CopyBy(t)
    PROVE  Saved!Work
<1>1. ASSUME NEW d \in Char, NEW u \in Copying(d)' PROVE u \in Copying(d) /\ CopyBy(u)' = CopyBy(u)
  <2>1. u \in Thread /\ task'[u].who = d /\ task'[u].whole /\ task'[u].pc \in {"rest", "sto", "commit"}
    BY <1>1 DEF Copying, HalfRead
  <2>2. CASE u = t
    BY <2>1, <2>2 DEF Copying, HalfRead
  <2>3. CASE u # t
    <3>1. task'[u] = task[u] /\ sto' = sto /\ dbSto' = dbSto
      BY <2>1, <2>3 DEF Same
    <3> QED BY <2>1, <3>1 DEF Copying, HalfRead, CopyBy
  <2> QED BY <2>2, <2>3
<1> QED BY <1>1, Works DEF Same, Kept

\* The thread whose task alone changes.
LEMMA OnlyTask ==
    ASSUME IInv, NEW t \in Thread,
           \/ ReadRow(t) \/ UpdateRow(t) \/ SaveInventory(t) \/ InventoryFails(t)
           \/ SaveRest(t) \/ RestFails(t) \/ NoConnection(t)
    PROVE  /\ Same /\ \A u \in Thread : u # t => task'[u] = task[u]
           /\ task[t] \in Task /\ task[t].who \in Char
<1>1. Same
  BY DEF ReadRow, UpdateRow, SaveInventory, InventoryFails, SaveRest, RestFails, NoConnection,
         Same, mem, db, hist
<1>2. DOMAIN task = Thread
  BY DEF IInv, TypeOK
<1>3. \A u \in Thread : u # t => task'[u] = task[u]
  BY <1>2 DEF ReadRow, UpdateRow, SaveInventory, InventoryFails, SaveRest, RestFails, NoConnection
<1>4. task[t].pc # "idle"
  BY DEF ReadRow, UpdateRow, SaveInventory, InventoryFails, SaveRest, RestFails, NoConnection
<1> QED BY <1>1, <1>3, <1>4, TaskIs DEF IInv, Busy, BusyOf

LEMMA UpdateRowWorks ==
    ASSUME IInv, IInv', NEW t \in Thread, ReadRow(t) \/ UpdateRow(t) \/ NoConnection(t)
    PROVE  Saved!Work
<1>1. /\ Same /\ \A u \in Thread : u # t => task'[u] = task[u]
      /\ task[t] \in Task /\ task[t].who \in Char
  BY OnlyTask
<1>2. task'[t].pc \in {"lock", "inv", "after", "idle"}
  <2>1. CASE ReadRow(t) \/ UpdateRow(t)
    BY <1>1, <2>1 DEF ReadRow, UpdateRow, IInv, TypeOK, Task
  <2>2. CASE NoConnection(t)
    <3>1. task[t].pc # "idle" /\ task' = [task EXCEPT ![t] = Ending(t)]
      BY <2>2 DEF NoConnection
    <3>2. Ending(t).pc \in {"idle", "after"}
      BY <3>1, EndingIs
    <3> QED BY <3>1, <3>2 DEF IInv, TypeOK
  <2> QED BY <2>1, <2>2
<1> QED BY <1>1, <1>2, SavingWorks

LEMMA SaveRestWorks ==
    ASSUME IInv, IInv', NEW t \in Thread, SaveRest(t) \/ RestFails(t) PROVE Saved!Work
<1>1. /\ Same /\ \A u \in Thread : u # t => task'[u] = task[u]
      /\ task[t] \in Task /\ task[t].who \in Char
  BY OnlyTask
<1>2. task[t].pc = "rest" /\ task \in [Thread -> Task]
  BY DEF SaveRest, RestFails, IInv, TypeOK
<1>3. CASE SaveRest(t)
  <2>1. task' = [task EXCEPT ![t].pc = "sto"]
    BY <1>3 DEF SaveRest
  <2>2. /\ task'[t].pc = "sto" /\ task'[t].who = task[t].who /\ task'[t].inv = task[t].inv
        /\ task'[t].whole = task[t].whole
    BY <1>1, <1>2, <2>1 DEF Task
  <2>3. CopyBy(t)' = CopyBy(t)
    BY <1>1, <1>2, <2>2 DEF CopyBy, Same
  <2> QED BY <1>1, <1>2, <2>2, <2>3, SavingWorks
<1>4. CASE RestFails(t)
  <2>1. ~task'[t].whole
    BY <1>1, <1>2, <1>4 DEF RestFails, Task
  <2> QED BY <1>1, <2>1, SavingWorks
<1> QED BY <1>3, <1>4

\* Copy: the inventory has been read, and with it the room, still unread.
LEMMA SaveInventoryCopies ==
    ASSUME IInv, IInv', NEW t \in Thread, SaveInventory(t) \/ InventoryFails(t)
    PROVE  Saved!Work \/ \E c \in Char : Saved!Copy(c)
<1>1. /\ Same /\ \A u \in Thread : u # t => task'[u] = task[u]
      /\ task[t] \in Task /\ task[t].who \in Char
  BY OnlyTask
<1>2. task[t].pc = "inv" /\ task \in [Thread -> Task]
  BY DEF SaveInventory, InventoryFails, IInv, TypeOK
<1>3. CASE ~task'[t].whole
  BY <1>1, <1>3, SavingWorks
<1>4. CASE task'[t].whole
  <2>1. PICK c \in Char : c = task[t].who
    BY <1>1
  <2>2. ~InventoryFails(t)
    <3> SUFFICES ASSUME InventoryFails(t) PROVE FALSE OBVIOUS
    <3>1. PICK S \in SUBSET (inv[task[t].who] \ Meso) :
            task' = [task EXCEPT ![t].pc = "rest", ![t].inv = task[t].inv \cup S,
                                 ![t].whole = FALSE, ![t].seen = task[t].seen \ {"inv"}]
      BY DEF InventoryFails
    <3> QED BY <1>1, <1>2, <1>4, <3>1 DEF Task
  <2>3. task' = [task EXCEPT ![t].pc = "rest", ![t].inv = task[t].inv \cup (inv[c] \ Meso)]
    BY <2>1, <2>2 DEF SaveInventory
  <2>4. /\ task'[t].pc = "rest" /\ task'[t].who = c /\ task'[t].whole = task[t].whole
        /\ task'[t].inv = task[t].inv \cup (inv[c] \ Meso)
    BY <1>1, <1>2, <2>1, <2>3 DEF Task
  <2>5. task'[t].inv = inv[c]
    <3>1. task[t].inv = inv[c] \cap Meso
      BY <1>2, <1>4, <2>1, <2>4 DEF IInv, Reads, Copied
    <3> QED BY <2>4, <3>1
  <2>6. t \in Copying(c)'
    BY <1>4, <2>4 DEF Copying, HalfRead
  <2>7. CopyOf(c)' = <<inv[c], sto[c]>>
    <3>1. CopyBy(t)' = <<inv[c], sto[c]>>
      BY <1>1, <2>4, <2>5 DEF CopyBy, Same
    <3> QED BY <2>6, <3>1, OneCopyNext
  <2>8. ASSUME NEW d \in Char, d # c PROVE CopyOf(d)' = CopyOf(d)
    <3>1. \A u \in Thread : task[u].who = d \/ task'[u].who = d => task'[u] = task[u]
      BY <1>1, <2>1, <2>4, <2>8
    <3> QED BY <1>1, <3>1, SameCopy DEF Same
  <2>9. Saved!Copy(c)
    BY <1>1, <2>7, <2>8 DEF Saved!Copy, Same
  <2> QED BY <2>9
<1> QED BY <1>3, <1>4

\* The room is written as it was when the inventory was read, or the copy is not whole.
LEMMA SaveStorageWorks ==
    ASSUME IInv, IInv', NEW t \in Thread, SaveStorage(t) \/ StorageFails(t) PROVE Saved!Work
<1>1. Same /\ task[t].pc = "sto" /\ task[t] \in Task /\ task[t].who \in Char
  <2>1. Same /\ task[t].pc = "sto"
    BY DEF SaveStorage, StorageFails, Same, mem, db, hist
  <2> QED BY <2>1, TaskIs DEF IInv, Busy, BusyOf
<1>2. PICK c \in Char : c = task[t].who
  BY <1>1
<1>3. CASE ~changed[c]
  <2>1. task' = [task EXCEPT ![t].pc = "commit"]
    BY <1>2, <1>3 DEF SaveStorage, StorageFails
  <2>2. task'[t] = [task[t] EXCEPT !.pc = "commit"] /\ \A u \in Thread : u # t => task'[u] = task[u]
    BY <2>1 DEF IInv, TypeOK
  <2>3. /\ task'[t].pc = "commit" /\ task'[t].who = c /\ task'[t].inv = task[t].inv
        /\ task'[t].whole = task[t].whole /\ task'[t].room = task[t].room
    BY <1>1, <1>2, <2>2 DEF Task
  <2>4. ~task[t].room /\ Content(dbSto[c]) = sto[c]
    BY <1>1, <1>3 DEF IInv, Busy, BusyOf, Unmarked
  <2>5. CopyBy(t)' = CopyBy(t)
    BY <1>1, <1>2, <2>3, <2>4 DEF CopyBy, Same
  <2> QED BY <1>1, <1>2, <2>2, <2>3, <2>5, SavingWorks
<1>4. CASE changed[c]
  <2>1. PICK S \in SUBSET Token, right \in BOOLEAN :
          task' = RoomWritten(t, S, right) /\ (right => S = sto[c])
    <3>1. sto[c] \in SUBSET Token /\ TRUE \in BOOLEAN /\ FALSE \in BOOLEAN
      BY DEF IInv, TypeOK
    <3>2. CASE SaveStorage(t)
      <4>1. task' = RoomWritten(t, sto[c], TRUE)
        BY <1>2, <1>4, <3>2 DEF SaveStorage
      <4> QED BY <3>1, <4>1
    <3>3. CASE StorageFails(t)
      <4>1. PICK S \in SUBSET (sto[c] \ Meso) : task' = RoomWritten(t, S \cup (sto[c] \cap Meso), FALSE)
        BY <1>2, <3>3 DEF StorageFails
      <4>2. PICK R \in SUBSET Token : R = S \cup (sto[c] \cap Meso)
        BY <3>1
      <4> QED BY <3>1, <4>1, <4>2
    <3> QED BY <3>2, <3>3
  <2>2. task'[t] = [task[t] EXCEPT !.pc = "commit", !.room = TRUE, !.del = dbSto[c],
                          !.add = S \X {t}, !.whole = @ /\ right /\ Apart(c) = {},
                          !.seen = IF right /\ Apart(c) = {} THEN @ \cup {"sto"} ELSE @]
    BY <1>2, <2>1 DEF RoomWritten
  <2>3. /\ task'[t].pc = "commit" /\ task'[t].room /\ task'[t].add = S \X {t}
        /\ task'[t].whole = (task[t].whole /\ right /\ Apart(c) = {})
        /\ task'[t].who = c /\ task'[t].inv = task[t].inv
    BY <1>1, <1>2, <2>2 DEF Task
  <2>4. ASSUME NEW u \in Thread, u # t PROVE task'[u] = task[u] \/ ~task'[u].whole
    <3>1. CASE u \in Apart(c)
      <4>1. task'[u] = [task[u] EXCEPT !.whole = FALSE]
        BY <1>2, <2>1, <2>4, <3>1 DEF RoomWritten
      <4> QED BY <4>1, TaskIs DEF IInv, Task
    <3>2. CASE u \notin Apart(c)
      BY <1>2, <2>1, <2>4, <3>2 DEF RoomWritten
    <3> QED BY <3>1, <3>2
  <2>5. task'[t].whole => task[t].whole /\ CopyBy(t)' = CopyBy(t)
    <3>1. ASSUME task'[t].whole PROVE Content(task'[t].add) = sto[c] /\ task[t].whole
      <4>1. S = sto[c] /\ task[t].whole /\ task'[t].add = S \X {t}
        BY <2>1, <2>3, <3>1
      <4>2. Content(S \X {t}) = S
        BY ContentOf
      <4> QED BY <4>1, <4>2
    <3> QED BY <1>1, <1>2, <2>3, <3>1 DEF CopyBy, Same
  <2> QED BY <1>1, <1>2, <2>3, <2>4, <2>5, SavingWorks
<1> QED BY <1>3, <1>4

\* Rows of a room written alone leave its owner damaged.
LEMMA TouchesDamages ==
    ASSUME IInv, IInv', NEW l \in Thread, NEW c \in Char, Touches(l, c) PROVE Saved!Damage(c)
<1>1. /\ task[l].who = c /\ task'[l].who = c /\ task'[l].pc \in {"delete", "insert"}
      /\ inv' = inv /\ sto' = sto /\ dbInv' = dbInv
      /\ damaged'[c] /\ \A d \in Char \ {c} : damaged'[d] = damaged[d] /\ dbSto'[d] = dbSto[d]
  BY DEF Touches
<1>2. damaged' = [damaged EXCEPT ![c] = TRUE]
  BY <1>1 DEF IInv, TypeOK
<1>3. ASSUME NEW u \in Thread, u # l
      PROVE  LET k == task[u]  j == task'[u] IN
             /\ k.who # c \/ k.pc # "commit" => j = k
             /\ k.who = c /\ k.pc = "commit" => ~j.whole
             /\ j.pc = k.pc /\ j.who = k.who
  BY <1>3, MeddledTask DEF Touches, IInv
<1>4. ASSUME NEW d \in Char, d # c PROVE CopyOf(d)' = CopyOf(d)
  <2>1. \A u \in Thread : task[u].who = d \/ task'[u].who = d => task'[u] = task[u]
    BY <1>1, <1>3, <1>4
  <2> QED BY <1>1, <1>4, <2>1, SameCopy
<1>5. Kept(c)
  <2> SUFFICES ASSUME NEW u \in Copying(c)' PROVE u \in Copying(c) /\ CopyBy(u)' = CopyBy(u)
    BY DEF Kept
  <2>1. u \in Thread /\ task'[u].who = c /\ task'[u].whole /\ task'[u].pc \in {"rest", "sto", "commit"}
    BY DEF Copying, HalfRead
  <2>2. u # l
    BY <1>1, <2>1
  <2>3. task'[u] = task[u] /\ task[u].pc # "commit"
    BY <1>3, <2>1, <2>2
  <2> QED BY <1>1, <2>1, <2>3 DEF Copying, HalfRead, CopyBy
<1> QED BY <1>1, <1>2, <1>4, <1>5, KeptCopy DEF Saved!Damage

LEMMA EndsWork ==
    ASSUME IInv, IInv', Same, NEW t \in Thread, task[t].pc # "idle",
           task' = [task EXCEPT ![t] = Ending(t)]
    PROVE  Saved!Work
<1>1. Ending(t).pc \in {"idle", "after"}
  BY EndingIs
<1>2. task'[t] = Ending(t) /\ \A u \in Thread : u # t => task'[u] = task[u]
  BY DEF IInv, TypeOK
<1> QED BY <1>1, <1>2, SavingWorks

LEMMA ApartDamages ==
    ASSUME IInv, IInv', NEW l \in Thread,
           ApartUpdate(l) \/ ApartDelete(l) \/ ApartInsert(l) \/ ApartFails(l)
    PROVE  Saved!Work \/ \E c \in Char : Saved!Damage(c)
<1>1. task[l].pc # "idle"
  BY DEF ApartUpdate, ApartDelete, ApartInsert, ApartFails
<1>2. Apartwise(l)
  BY ApartUpdateKeeps, ApartDeleteKeeps, ApartInsertKeeps, ApartFailsKeeps
<1> QED BY <1>1, <1>2, EndsWork, TouchesDamages DEF Apartwise, Ends

LEMMA CommitSaves ==
    ASSUME IInv, IInv', NEW t \in Thread, Commit(t)
    PROVE  \E c \in Char : Saved!Save(c) \/ Saved!Damage(c)
<1>1. task[t].who \in Char /\ task[t].pc = "commit"
  BY DEF Commit, IInv, Busy, BusyOf
<1>2. PICK c \in Char : c = task[t].who
  BY <1>1
<1>3. LET k == task[t] IN
      /\ k \in Task /\ inv' = inv /\ sto' = sto
      /\ dbInv'[c] = k.inv
      /\ \A d \in Char \ {c} : /\ dbInv'[d] = dbInv[d] /\ dbSto'[d] = dbSto[d]
                               /\ damaged'[d] = damaged[d]
      /\ ~k.room => dbSto'[c] = dbSto[c]
      /\ k.whole /\ k.room => dbSto'[c] = k.add
      /\ damaged' \in [Char -> BOOLEAN] /\ damaged'[c] = ~k.whole
  BY <1>2, CommitWrites
<1>4. task'[t] = Ending(t) /\ \A u \in Thread : u # t => task'[u] = task[u]
  BY DEF Commit, IInv, TypeOK
<1>5. Ending(t).pc \in {"idle", "after"} /\ (Ending(t).who = c \/ Ending(t).who = None)
  BY <1>1, <1>2, EndingIs DEF Idle
<1>6. ASSUME NEW d \in Char, d # c PROVE CopyOf(d)' = CopyOf(d)
  <2>1. \A u \in Thread : task[u].who = d \/ task'[u].who = d => task'[u] = task[u]
    BY <1>2, <1>4, <1>5, <1>6, Facts
  <2> QED BY <1>3, <1>6, <2>1, SameCopy
<1>7. CopyOf(c)' = None
  <2>1. \A u \in Thread : u # t /\ InTrans(u) => task[u].who # c
    BY <1>1, <1>2 DEF IInv, Busy, Exclusive, InTrans
  <2>2. Copying(c)' = {}
    BY <1>4, <1>5, <2>1 DEF Copying, HalfRead, InTrans
  <2> QED BY <2>2, OneCopyNext
<1>8. CASE task[t].whole
  <2>1. t \in Copying(c)
    BY <1>1, <1>2, <1>8 DEF Copying
  <2>2. CopyOf(c) = <<dbInv'[c], Content(dbSto'[c])>>
    <3>1. CopyOf(c) = CopyBy(t)
      BY <2>1, OneCopy
    <3> QED BY <1>1, <1>2, <1>3, <1>8, <3>1 DEF CopyBy
  <2>3. CopyOf(c) # None
    <3>1. dbInv'[c] \in SUBSET Token /\ Content(dbSto'[c]) \in SUBSET Token
      BY DEF IInv, TypeOK, Content, Row
    <3> QED BY <2>2, <3>1, SavingAssumption
  <2>4. damaged' = [damaged EXCEPT ![c] = FALSE]
    BY <1>3, <1>8 DEF IInv, TypeOK
  <2>5. Saved!Save(c)
    BY <1>3, <1>6, <1>7, <2>2, <2>3, <2>4 DEF Saved!Save
  <2> QED BY <2>5
<1>9. CASE ~task[t].whole
  <2>1. damaged' = [damaged EXCEPT ![c] = TRUE]
    BY <1>3, <1>9 DEF IInv, TypeOK
  <2>2. Saved!Damage(c)
    BY <1>3, <1>6, <1>7, <2>1 DEF Saved!Damage
  <2> QED BY <2>2
<1> QED BY <1>8, <1>9

LEMMA LoginRestores ==
    ASSUME IInv, IInv', NEW c \in Char, Login(c)
    PROVE  \E S \in SUBSET Char : Saved!Restore(S)
<1>1. /\ \A t \in Thread : task[t].who # c /\ task' = task
      /\ inv' = [inv EXCEPT ![c] = dbInv[c]] /\ sto' = [sto EXCEPT ![c] = Content(dbSto[c])]
      /\ dbInv' = dbInv /\ dbSto' = dbSto /\ damaged' = damaged
  BY DEF Login, db
<1>2. /\ inv'[c] = dbInv[c] /\ sto'[c] = Content(dbSto[c])
      /\ \A d \in Char \ {c} : inv'[d] = inv[d] /\ sto'[d] = sto[d]
  BY <1>1 DEF IInv, TypeOK
<1>3. ASSUME NEW d \in Char PROVE CopyOf(d)' \in {CopyOf(d), None}
  <2>1. CASE d = c
    <3>1. Copying(c)' = {}
      <4>1. \A t \in Thread : task'[t].who # c
        BY <1>1
      <4> QED BY <4>1 DEF Copying
    <3> QED BY <2>1, <3>1, OneCopyNext
  <2>2. CASE d # c
    <3>1. sto'[d] = sto[d] /\ dbSto'[d] = dbSto[d]
      BY <1>1, <1>2, <2>2
    <3>2. \A u \in Thread : task'[u] = task[u]
      BY <1>1
    <3> QED BY <3>1, <3>2, SameCopy
  <2> QED BY <2>1, <2>2
<1>4. Saved!Restore({c})
  BY <1>1, <1>2, <1>3 DEF Saved!Restore
<1> QED BY <1>4

\* Leaving, stopping and nothing at all.
LEMMA RestWorks ==
    ASSUME IInv, IInv', Stop \/ (\E t \in Thread : Gone(t)) \/ UNCHANGED vars
    PROVE  Saved!Work
<1>1. dbInv' = dbInv /\ dbSto' = dbSto /\ damaged' = damaged /\ sto' = sto
  BY DEF Stop, Gone, vars, mem, db, hist
<1>2. \A u \in Thread : task'[u] = task[u] \/ task'[u] = Idle
  <2>1. DOMAIN task = Thread
    BY DEF IInv, TypeOK
  <2> QED BY <2>1 DEF Stop, Gone, vars
<1>3. ASSUME NEW d \in Char PROVE Kept(d)
  <2> SUFFICES ASSUME NEW u \in Copying(d)' PROVE u \in Copying(d) /\ CopyBy(u)' = CopyBy(u)
    BY DEF Kept
  <2>1. u \in Thread /\ task'[u].pc # "idle"
    BY DEF Copying, HalfRead
  <2>2. task'[u] = task[u]
    BY <1>2, <2>1 DEF Idle
  <2> QED BY <1>1, <2>2 DEF Copying, CopyBy
<1> QED BY <1>1, <1>3, Works

LEMMA InitSaved == Init => Saved!Init
<1> SUFFICES ASSUME Init PROVE Saved!Init OBVIOUS
<1>1. /\ dbInv = inv /\ sto = [c \in Char |-> {}] /\ dbSto = [c \in Char |-> {}]
      /\ damaged = [c \in Char |-> FALSE] /\ task = [t \in Thread |-> Idle]
  BY DEF Init
<1>2. Content({}) = {}
  BY DEF Content
<1>3. ASSUME NEW c \in Char PROVE CopyOf(c) = None
  <2>1. Copying(c) = {}
    BY <1>1, Facts DEF Copying, Idle
  <2> QED BY <2>1 DEF CopyOf
<1> QED BY <1>1, <1>2, <1>3 DEF Saved!Init

LEMMA NextSaved == IInv /\ IInv' /\ [Next]_vars => Saved!Next
<1> SUFFICES ASSUME IInv, IInv', [Next]_vars PROVE Saved!Next OBVIOUS
<1> USE DEF Saved!Next
<1>1. CASE Play
  BY <1>1, PlayPlays, PlayingWorks
<1>2. ASSUME NEW c \in Char, Login(c) PROVE Saved!Next
  BY <1>2, LoginRestores
<1>3. ASSUME NEW t \in Thread, SaveStep(t) PROVE Saved!Next
  BY <1>3, UpdateRowWorks, SaveInventoryCopies, SaveRestWorks, SaveStorageWorks, CommitSaves,
     RestWorks DEF SaveStep
<1>4. ASSUME NEW l \in Loop, ApartUpdate(l) \/ ApartDelete(l) \/ ApartInsert(l) \/ ApartFails(l)
      PROVE  Saved!Next
  BY <1>4, Facts, ApartDamages
<1>5. CASE Stop \/ UNCHANGED vars
  BY <1>5, RestWorks
<1> QED BY <1>1, <1>2, <1>3, <1>4, <1>5, NextCases

\* Saving implements Durable: a save that went through put in the database all
\* a character had at one instant, and no other step changes what a restart
\* gives back of a character without leaving it damaged.
THEOREM DurabilityHolds == Spec => Durability
<1>1. Spec => [][Saved!Next]_(Saved!vars)
  BY Invariant, NextSaved, PTL DEF Spec
<1> QED BY <1>1, InitSaved, PTL DEF Spec, Durability, Saved!Spec
=============================================================================
