------------------------------- MODULE Durable -------------------------------
(***************************************************************************)
(* What saving promises: an owner has what he has now (live) and what a    *)
(* restart would give him back (saved).  A save copies all an owner has    *)
(* at one instant and later puts the copy in place of what was saved, in   *)
(* one step.  Whatever else is written leaves the owner damaged until his  *)
(* next save from a whole copy.                                            *)
(***************************************************************************)
CONSTANTS Owner, NoCopy

VARIABLES live, copy, saved, damaged
vars == <<live, copy, saved, damaged>>

Init == /\ live = saved
        /\ copy = [o \in Owner |-> NoCopy]
        /\ damaged = [o \in Owner |-> FALSE]

\* Play changes what owners have, and never what is saved.
Work == /\ UNCHANGED <<saved, damaged>>
        /\ \A o \in Owner : copy'[o] \in {copy[o], NoCopy}

Copy(o) == /\ copy' = [copy EXCEPT ![o] = live[o]]
           /\ UNCHANGED <<live, saved, damaged>>

Save(o) == /\ copy[o] # NoCopy
           /\ saved' = [saved EXCEPT ![o] = copy[o]]
           /\ copy' = [copy EXCEPT ![o] = NoCopy]
           /\ damaged' = [damaged EXCEPT ![o] = FALSE]
           /\ UNCHANGED live

\* A write of parts: what the owner would get back is not known.
Damage(o) == /\ damaged' = [damaged EXCEPT ![o] = TRUE]
             /\ \A p \in Owner \ {o} : saved'[p] = saved[p] /\ copy'[p] = copy[p]
             /\ copy'[o] \in {copy[o], NoCopy}
             /\ UNCHANGED live

\* Owners are given back what is saved of them.
Restore(S) == /\ \A o \in Owner :
                    /\ live'[o] = IF o \in S THEN saved[o] ELSE live[o]
                    /\ copy'[o] \in {copy[o], NoCopy}
              /\ UNCHANGED <<saved, damaged>>

Next == \/ Work
        \/ \E o \in Owner : Copy(o) \/ Save(o) \/ Damage(o)
        \/ \E S \in SUBSET Owner : Restore(S)

Spec == Init /\ [][Next]_vars
=============================================================================
