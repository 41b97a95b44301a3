----------------------------- MODULE StorageMesos -----------------------------
(***************************************************************************)
(* Mesos between a purse and a storage room, in the arithmetic of int:     *)
(* NPCHandler.Storage mode 7, MapleStorage.setMeso, MapleCharacter         *)
(* .gainMeso.  The packet names any int; the code shortens what does not   *)
(* fit the receiving side.                                                 *)
(***************************************************************************)
EXTENDS Integers

CONSTANT MaxInt  \* Integer.MAX_VALUE
ASSUME MaxIntAssumption == MaxInt \in Nat \ {0}

VARIABLES purse,   \* MapleCharacter.meso
          stored,  \* MapleStorage.meso
          owned    \* history: what the account owns
mesosVars == <<purse, stored, owned>>

Int32 == (-MaxInt - 1) .. MaxInt
Wrap(x) == IF x > MaxInt THEN x - 2 * (MaxInt + 1)
           ELSE IF x < -MaxInt - 1 THEN x + 2 * (MaxInt + 1) ELSE x

MesosTypeOK == purse \in 0..MaxInt /\ stored \in 0..MaxInt /\ owned \in Nat

\* The purse after gainMeso(gain): an overflow, and a debt, is refused.
gainMeso(gain) == IF Wrap(purse + gain) < 0 THEN purse ELSE Wrap(purse + gain)
setMeso(meso) == IF meso < 0 THEN stored ELSE meso

Deposited(meso) == meso < 0 /\ purse >= Wrap(-meso)
Withdrawn(meso) == meso > 0 /\ stored >= meso

\* Mutant of Shortened: a withdrawal is not shortened to what the purse holds.
ShortenedDeposit(meso) ==
    IF meso < 0 /\ Wrap(stored - meso) < 0 THEN -(MaxInt - stored) ELSE meso

\* The amount that is moved in place of the amount asked for.
Shortened(meso) ==
    IF meso < 0 /\ Wrap(stored - meso) < 0 THEN -(MaxInt - stored)
    ELSE IF meso > 0 /\ Wrap(purse + meso) < 0 THEN MaxInt - purse
    ELSE meso

\* The early returns after shortening.
Available(meso) ==
    /\ meso < 0 => -meso <= purse
    /\ meso > 0 => meso <= stored

Transfer(asked) ==
    LET meso == Shortened(asked)
    IN  /\ Deposited(asked) \/ Withdrawn(asked)
        /\ meso # asked => Available(meso)
        /\ stored' = setMeso(Wrap(stored - meso))
        /\ purse' = gainMeso(meso)
        /\ UNCHANGED owned

\* Everything else that pays or charges: drops, shops, the fee of the storage.
Elsewhere(gain) ==
    /\ purse' = gainMeso(gain)
    /\ owned' = owned + (purse' - purse)
    /\ UNCHANGED stored

MesosInit == purse \in 0..MaxInt /\ stored \in 0..MaxInt /\ owned = purse + stored

MesosNext == \E meso \in Int32 : Transfer(meso) \/ Elsewhere(meso)

MesosSpec == MesosInit /\ [][MesosNext]_mesosVars

-----------------------------------------------------------------------------
(***************************************************************************)
(* No meso appears or disappears between purse and storage room, whatever  *)
(* int the packet names, the smallest included.                            *)
(***************************************************************************)
Kept == purse + stored = owned
=============================================================================
