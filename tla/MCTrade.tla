------------------------------ MODULE MCTrade -------------------------------
(* Values of the constants of Trade for model checking.                    *)
EXTENDS Trade, TLC

CONSTANT c3  \* a character

\* A tax that takes one meso of two.
MCTax == [m \in 0..MaxMeso |-> IF m >= 2 THEN 1 ELSE 0]

Symmetry == Permutations(Items) \cup Permutations(Trades)

\* Either three characters trade without mesos, or two of them with mesos and
\* with room for one item each.
OneThingAtATime ==
    \/ \A c \in Chars : wallet[c] = 0 /\ \A t \in Trades : obj[t].meso = 0
    \/ /\ trade[c3] = None /\ inv[c3] = {} /\ wallet[c3] = 0
       /\ \A c \in Chars : fill[c] >= 1
=============================================================================
