------------------------------- MODULE MCSaving -------------------------------
(* Instances of Saving for TLC.                                                *)
EXTENDS Saving

CONSTANTS a, b, i, g, l, m

OneLoop == [c \in Char |-> l]

\* Token k was never there; character c has nothing and does nothing.
Missing(k) ==
    /\ k \notin ground
    /\ \A c \in Char : k \notin inv[c] \cup sto[c] \cup hand[c] \cup dbInv[c] \cup Content(dbSto[c])
    /\ \A t \in Thread : task[t].item # k
Away(c) ==
    /\ inv[c] \cup sto[c] \cup hand[c] \cup dbInv[c] \cup Content(dbSto[c]) = {}
    /\ c \notin online \cup late /\ ~left[c] /\ ~damaged[c] /\ ~changed[c]
    /\ <<c, "inv">> \in clean /\ <<c, "sto">> \in clean

\* Nobody puts anything in a storage room; Other only disconnects.
NoRooms == \A c \in Char : sto[c] = {} /\ ~changed[c] /\ \A t \in Thread : task[t].pc # "putting"
OnlyKicks == \A t \in Other : task[t].pc = "idle" \/ task[t].after = "quit"

\* Without faults, two characters deal in one item, and Other does nothing or, if
\* they use no room, disconnects them; or Other saves and disconnects one alone who
\* has an item and mesos or, with faults, only the item.
Scope ==
    \/ /\ Missing(g) /\ faults = 0
       /\ \/ late = {} /\ \A t \in Other : task[t].pc = "idle"
          \/ NoRooms /\ OnlyKicks
    \/ Away(b) /\ (Missing(g) \/ faults = 0)
===============================================================================
