----------------------------- MODULE MCSessions -----------------------------
(* Values of the constants of Sessions for model checking.                  *)
EXTENDS Sessions, TLC

CONSTANT c1  \* a character

Symmetry == Permutations(Client) \cup Permutations(Channel)

\* Nobody has chosen c yet; nobody has been to ch.
Unused(c) ==
    /\ c \notin ticket /\ \A p \in Place : pending[p][c] = None
    /\ \A i \in invites : i.chr # c
    /\ \A s \in Client : \A x \in {cl[s].player, cl[s].carry} : x = None \/ x.chr # c
Unvisited(ch) ==
    /\ \A i \in invites : i.to # ch
    /\ \A s \in Client : ch \notin {cl[s].server, cl[s].to}

\* Either one character of the first world moves between all servers; or two of
\* the second, which do nothing but move, have one channel and the cash shop.
Scope ==
    \/ listed = {} /\ \A c \in Char \ {c1} : Unused(c)
    \/ /\ listed = Char /\ \A c \in Char : played[c] = 0
       /\ \E ch \in Channel : \A other \in Channel \ {ch} : Unvisited(other)

\* After a lapse the properties say nothing.
Explored == NoLapse /\ Scope
=============================================================================
