----------------------------- MODULE ScriptTables ------------------------------
(* The vocabulary of the tables of conversation scripts.  A script of the     *)
(* server is a JavaScript file with a function that is called once when the   *)
(* conversation begins and once for every answer of the player; between two   *)
(* calls it keeps its place in global variables.  A table has a row for every *)
(* outcome of such a call: the place it is called in, the answers it is for,  *)
(* what the player must have for it, what it does, in order, and the place it *)
(* leaves the script in.  A table keeps                                       *)
(*  - every dialogue, disposal, hand-over and window, item and meso moved;    *)
(*  - every other change of state, by the name of the method that makes it    *)
(*    (a run of the same changes is one);                                     *)
(*  - every test of items, mesos and free slots.                              *)
(* It abstracts wording, which option of a menu was picked, which number, and *)
(* tests of anything else (level, job, quest, map, time, records): the rows   *)
(* such a test decides between are alternatives.                              *)
EXTENDS Integers, Sequences

\* An id or amount that the script computes.
Some == 0

\* Mesos, as if they were an item.
Mesos == -1

\* What a row answers.
Start == {"start"}      \* start() of an NPC, start(1, 0, 0) of a quest
Finish == {"finish"}    \* end(1, 0, 0) of a quest
Yes == {"yes"}          \* mode 1: next, yes, an option, a number, a text
No == {"no"}            \* mode 0: back, no, cancel
Both == {"yes", "no"}

\* One row: called in place `from` for an answer `on` when `when` holds, the
\* script does `do` and is then in place `to` (0: no place, it has no more to say).
T(from, on, when, do, to) ==
  [from |-> from, on |-> on, when |-> when, do |-> do, to |-> to]

\* Tests.
Test(kind, id, n) == [kind |-> kind, id |-> id, n |-> n]
Has(id, n) == Test("has", id, n)       \* haveItem(id, n)
Lacks(id, n) == Test("lacks", id, n)
Rich(n) == Test("has", Mesos, n)       \* getMeso() >= n
Poor(n) == Test("lacks", Mesos, n)
Room(tab, n) == Test("room", tab, n)   \* n free slots in a tab, 0: in every tab (canHold, checkNumSpace);
                                       \* canHold(id, n): those for n that join nothing
Full(tab, n) == Test("full", tab, n)

\* What a row does.
Do(op, kind, id, n) == [op |-> op, kind |-> kind, id |-> id, n |-> n]
Asks(kind) == Do("ask", kind, 0, 0)
Say == Asks("next")                    \* sendNext, or a menu without options
Prev == Asks("prev")
NextPrev == Asks("nextprev")
Ok == Asks("ok")
YesNo == Asks("yesno")
Accept == Asks("accept")
Menu == Asks("menu")                   \* sendSimple, or any dialogue with options
Number == Asks("number")
Text == Asks("text")
Style == Asks("style")
Dispose == Do("dispose", "", 0, 0)
SafeDispose == Do("pend", "", 0, 0)
OpenNpc == Do("open", "", 0, 0)
Window(conv) == Do("window", "", 0, conv)   \* sendStorage 4, merchant store 3, openDuey 2
OpenShop == Do("shop", "", 0, 0)
Take(id, n) == Do("take", "", id, n)        \* gainItem(id, -n)
TakeAll(id) == Do("takeall", "", id, 0)     \* removeAll(id)
Give(id, n) == Do("give", "", id, n)        \* gainItem(id, n)
Pay(n) == Do("pay", "", Mesos, n)             \* gainMeso(-n)
Earn(n) == Do("earn", "", Mesos, n)
StartQuest == Do("also", "startQuest", 0, 0)
CompleteQuest == Do("also", "completeQuest", 0, 0)
Also(method) == Do("also", method, 0, 0)
Fail == Do("fail", "", 0, 0)                \* calls a method that does not exist

--------------------------------------------------------------------------------
\* What tables are made of.
Items == 1000000 .. 5999999
Answers == {"start", "finish", "yes", "no"}
Tests == [kind : {"has", "lacks", "room", "full"}, id : Int, n : Nat]
Ops == {"ask", "dispose", "pend", "open", "window", "shop", "take", "takeall", "give",
        "pay", "earn", "also", "fail"}
Dialogues == {"next", "prev", "nextprev", "ok", "yesno", "accept", "menu", "number", "text", "style"}
Effects ==
  {e \in [op : Ops, kind : STRING, id : Int, n : Int] :
     /\ e.op = "ask" => e.kind \in Dialogues
     /\ e.op = "window" => e.n \in 2 .. 4
     /\ e.op \in {"take", "takeall", "give"} => e.id = Some \/ e.id \in Items}
Rows == [from : Nat, on : SUBSET Answers, when : SUBSET Tests, do : Seq(Effects), to : Nat]

--------------------------------------------------------------------------------
(* What a call does, told from its table alone.                               *)

\* Effect i of a call comes to be: nothing before it throws.
Reached(do, i) == \A j \in 1 .. i - 1 : do[j].op # "fail"

\* A call comes to one of the effects.
Does(do, effects) == \E i \in DOMAIN do : do[i] \in effects /\ Reached(do, i)

Of(ops) == {e \in Effects : e.op \in ops}

\* What gives the player something to answer, lets him go or opens a shop or a delivery.
Going == Of({"ask", "dispose", "shop"}) \cup {e \in Of({"window"}) : e.n = 2}

\* A call sends one dialogue.
SaysOnce(do) ==
  \A i, j \in DOMAIN do : i < j /\ do[i].op = "ask" /\ do[j].op = "ask" => ~Reached(do, j)

\* After it has opened another script a call neither opens a second one nor disposes.
OpensLast(do) ==
  \A i, j \in DOMAIN do :
    i < j /\ do[i].op = "open" /\ do[j].op \in {"open", "dispose"} => ~Reached(do, j)

\* It opens another script only when it has disposed of itself.
HandsOver(do) ==
  /\ OpensLast(do)
  /\ \A j \in DOMAIN do : do[j].op = "open" /\ Reached(do, j) =>
       \E i \in 1 .. j - 1 : do[i].op = "dispose"

\* A call that opens a window or a shop disposes, and opens no other script.
LetsGo(do) == Does(do, Of({"window", "shop"})) => Does(do, Of({"dispose"})) /\ ~Does(do, Of({"open"}))

================================================================================
